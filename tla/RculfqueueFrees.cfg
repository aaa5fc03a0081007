SPECIFICATION MCContainersSpec
CONSTANTS
    t1 = t1
    t2 = t2
    t3 = t3
    l1 = l1
    l2 = l2
    n1 = n1
    n2 = n2
    q1 = q1
    q2 = q2
    WfcqThreads = {t1, t2, t3}
    Queues = {q1, q2}
    WfcqNodes = {n1, n2}
    WfcqUses <- MCWfcqUses
    NoNode = null
    WfqThreads = {t1, t2, t3}
    WfqNodes = {n1, n2}
    WfqDummy = d0
    WfqQueue = q1
    WfqNull = null
    LfqThreads = {l1, l2}
    LfqNodes = {n1, n2, n3}
    Dummies = {d0, d1, d2}
    FirstDummy = d0
    LfqPrograms <- MCLfqFreeing
    LfqQueue = q1
    LfqNull = null
    WfsThreads = {t1, t2, t3}
    WfsNodes = {n1, n2}
    WfsTechniques = {"rcu"}
    WfsConsumer = t1
    WfsStack = q1
    WfsNull = null
    WfsEnd = end
    LfsThreads = {t1, t2, t3}
    LfsNodes = {n1, n2}
    LfsTechniques = {"rcu"}
    LfsConsumer = t1
    LfsStack = q1
    LfsNull = null
    Readers = {t2, t3}
    Updaters = {l1, l2}
    Nodes = {n1, n2, n3}
    NULL = null
    RefThreads = {t1, t2, t3}
    Creator = t1
    LONG_MAX = 3
    UaThreads = {t2, t3}
    UaArchs = {"x86"}
    UaFields <- MCFields
    UaValues = {1, 15}
    UaInitial = {5}
    UaCalls = 1
    UaLongBits = 4
    UaNone = null
    FxThreads = {t1, t2, t3}
    FxWords = {q1, q2}
    FxNobody = null
SYMMETRY MCContainersSymmetry
INVARIANT
    LfqTouchesLiveNodes
CHECK_DEADLOCK FALSE
