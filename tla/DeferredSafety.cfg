SPECIFICATION MCSpec
CONSTANTS
    t1 = t1
    t2 = t2
    h1 = h1
    h2 = h2
    CThreads = {t1, t2}
    CPrograms <- MCPrograms
    Crdps = {c1, c2, c3}
    Heads = {h1, h2}
    FutexHalf = 2
    MaxCForks = 1
    NULL = NULL
    WqThreads = {t1, t2}
    WqForkers = {t1}
    Works = {w1}
    WqFutexHalf = 2
    MaxWqForks = 1
    Nobody = Nobody
    DThreads = {t1, t2}
    DReaders = {r1}
    DCallbacks <- MCCallbacks
    DQSize = 4
    WordRange = 8
    DFutexHalf = 2
    DRegisters = 1
    DPrograms <- MCDPrograms
    DNobody = DNobody
INVARIANTS
    EveryCallbackOnce
    CallbackAfterGracePeriod
    UsedMemoryIsLive
    BarrierCoversPending
    EveryWorkOnce
    FlushCoversWork
    RingHoldsDeferred
    DeferAfterGracePeriod
CHECK_DEADLOCK FALSE
