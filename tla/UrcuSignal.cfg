SPECIFICATION FairSpec
CONSTANTS
    Readers = {r1}
    Flavors = {"signal"}
    NestMax = 1
    BufSize = 1
    QsAttempts = 2
PROPERTY
    SynchronizeReturns
