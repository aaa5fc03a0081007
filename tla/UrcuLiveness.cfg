SPECIFICATION MCFairSpec
CONSTANTS
    Readers = {r1, r2}
    Flavors = {"mb", "memb"}
    NestMax = 2
    BufSize = 1
    QsAttempts = 2
PROPERTY
    SynchronizeReturns
