CONSTANTS
    Clients = {c1}
    Requests <- MCRequests
    MaxRequests <- MCMaxRequests
    Chunks <- MCChunks
    NUM_READERS = 1
    NUM_WRITERS = 1
    NeedAuth = TRUE
    PASSWORD <- MCPassword
    NoJob = NoJob
    MAX_PACKET_SIZE = 64
SPECIFICATION Spec
CHECK_DEADLOCK FALSE
INVARIANT NoSpuriousClose
