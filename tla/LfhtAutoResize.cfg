SPECIFICATION MCLfhtSpec
CONSTANTS
    t1 = t1
    t2 = t2
    r1 = r1
    r2 = r2
    a1 = a1
    a2 = a2
    b1 = b1
    c1 = c1
    c2 = c2
    LfhtThreads = {t1, t2}
    LfhtResizer = resizer
    LfhtNodes = {a1, a2, b1, c1, c2}
    LfhtKeyOf <- MCKeyOf
    LfhtHashOf <- MCHashOf
    LfhtUnique = {"a", "b"}
    LfhtPrograms <- MCLfhtPrograms
    LfhtBits = 2
    LfhtMaxOrder = 2
    LfhtEnd = LfhtEnd
    RzThreads = {r1, r2}
    RzWorker = worker
    RzPrograms <- MCAutoPrograms
    RzMaxBuckets = 8
    RzMaxItems = 4
    RzMaxWorks = 1
    COUNT_COMMIT_ORDER = 1
    CHAIN_LEN_RESIZE_THRESHOLD = 1
    split_count_order = 0
    RzNobody = RzNobody
    ListHeaders = {"list", "hlist", "rculist", "rcuhlist"}
    ListNodes = {b1}
    ListReaders = {t1}
    ListHead = list
    OtherHead = list2
    ListNull = null
    MAX_TABLE_ORDER = 4
    MAX_CHUNK_TABLE = 4
    PageBuckets = 2
    MmSizes = {0, 1, 2, 3, 4, 8}
    MmUserTypes = {"null", "order", "chunk", "mmap"}
INVARIANT
    LfhtAutoResizeDone
CHECK_DEADLOCK FALSE
