SPECIFICATION AttachSpec
CONSTANTS
    Fields = {1}
    HNAME = 120
    ZNAME = 121
    INT_BITS = 4
    BYTE_BITS = 2
    Keys = {1}
    Vals = {v1, v2}
    Nil = Nil
    QNAME = 97
    QFRONT_SEQ = 2
    QBACK_SEQ = 3
    QITEM_MIN_SEQ <- MCQITEM_MIN_SEQ
    QITEM_MAX_SEQ <- MCQITEM_MAX_SEQ
    Scores <- MCScores
    CAPACITY = 10
    WriteOps = {"set", "del", "hset", "hdel", "zset", "zdel"}
    MaxWrites = 3
    MaxDisconnects = 1
    MaxCrashes = 0
    CHAN_CAPACITY = 2
    NOOP_IDLES = 1
INVARIANT TypeOK
INVARIANT ReplicaConverges
