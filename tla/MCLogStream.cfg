SPECIFICATION FairSpec
CONSTANTS
    w1 = w1
    w2 = w2
    Writer <- MCWriter
    MaxEntries <- MCMaxEntries
    MaxBuf = 2
    ChanCap = 1
    Limit = 1
    MaxConns = 2
INVARIANTS
    TypeOK
    StreamInOrder
    BufferIsNewest
PROPERTIES
    WritersNeverBlock
    HandlersLeave
