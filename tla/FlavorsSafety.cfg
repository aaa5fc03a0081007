SPECIFICATION MCSpec
CONSTANTS
    Readers = {t1, t2}
    Flavors = {"mb", "memb", "signal"}
    NestMax = 2
    BufSize = 1
    QsAttempts = 2
    QThreads = {t1, t2}
    QBits = {32, 64}
    QMaxCtr = 3
    QQsAttempts = 2
    BThreads = {t1, t2}
    Signalled = {t1, t2}
    InitSlots = 1
    SlotSize = 2
    HdrSize = 1
    MaxForks = 1
    NoThread = NoThread
SYMMETRY MCSymmetry
INVARIANTS
    GracePeriodGuarantee
    BpSlotsOwned
    BpRegistryIsCurrent
PROPERTIES
    ImplementsGracePeriod
    QsbrImplementsGracePeriod
    BpImplementsGracePeriod
CHECK_DEADLOCK FALSE
