SPECIFICATION Spec
CONSTANTS
    Keys = {1}
    Fields = {1, 2}
    HNAME = 120
    ZNAME = 121
    INT_BITS = 4
    BYTE_BITS = 2
    Vals = {v1}
    Nil = Nil
    QNAME = 97
    QFRONT_SEQ = 2
    QBACK_SEQ = 3
    QITEM_MIN_SEQ <- MCQITEM_MIN_SEQ
    QITEM_MAX_SEQ <- MCQITEM_MAX_SEQ
    IncrBys <- MCIncrBys
    Limits = {1, 15}
    Ranges <- MCRanges
    HSCAN_LIMIT = 1
    Ops = {"kv", "hash", "zset", "hclear"}
    Scores <- MCScores
CONSTRAINT BinlogBound4
INVARIANT TypeOK
INVARIANT SizesExact
INVARIANT ZIndexPaired
INVARIANT ReadsMatch
PROPERTY LogCoversWrites
PROPERTY CollectionsRefined
