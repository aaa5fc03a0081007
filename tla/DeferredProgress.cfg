SPECIFICATION MCFairSpec
CONSTANTS
    t1 = t1
    t2 = t2
    h1 = h1
    h2 = h2
    CThreads = {t1, t2}
    CPrograms <- MCProgressPrograms
    Crdps = {c1, c2, c3}
    Heads = {h1}
    FutexHalf = 2
    MaxCForks = 1
    NULL = NULL
    WqThreads = {t1}
    WqForkers = {t1}
    Works = {w1}
    WqFutexHalf = 2
    MaxWqForks = 1
    Nobody = Nobody
    DThreads = {t1}
    DReaders = {r1}
    DCallbacks <- MCCallbacks
    DQSize = 4
    WordRange = 8
    DFutexHalf = 2
    DRegisters = 1
    DPrograms <- MCProgressDPrograms
    DNobody = DNobody
PROPERTIES
    CallRcuProgress
    WorkGetsDone
    DeferredRuns
CHECK_DEADLOCK FALSE
