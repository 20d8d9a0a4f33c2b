SPECIFICATION RSpec
CONSTANTS
    Fields = {}
    HNAME = 120
    ZNAME = 121
    INT_BITS = 4
    BYTE_BITS = 2
    Keys = {}
    QNAME = 97
    Vals = {v1, v2}
    Nil = Nil
    QFRONT_SEQ = 2
    QBACK_SEQ = 3
    QITEM_MIN_SEQ <- MCQITEM_MIN_SEQ
    QITEM_MAX_SEQ <- MCQITEM_MAX_SEQ
    Indexes <- MCIndexes
    ReadIndexes <- MCReadIndexes
CONSTRAINT BinlogBound
INVARIANT ReadLinearizable
