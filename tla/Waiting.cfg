SPECIFICATION MCFairSpec
CONSTANTS
    Readers = {r1}
    Updaters = {u1, u2, u3}
    END = END
    NULL = NULL
    QThreads = {t1}
    QBits = {32, 64}
    QMaxCtr = 3
    QQsAttempts = 2
    BThreads = {t1, t2}
    Signalled = {}
    InitSlots = 1
    SlotSize = 2
    HdrSize = 1
    MaxForks = 1
    NoThread = NoThread
INVARIANTS
    WakersTouchLiveNodes
    WakeUpAssertHolds
PROPERTIES
    ImplementsGracePeriod
    EveryCallReturns
    QsbrSynchronizeReturns
    BpSynchronizeReturns
CHECK_DEADLOCK FALSE
