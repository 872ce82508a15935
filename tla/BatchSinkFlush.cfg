SPECIFICATION FairSpec
CONSTANTS
    Writers = {w1, w2}
    w1 = w1
    w2 = w2
    Backend = "timestream"
    ConfiguredBatch = 3
    DefaultBatch = 5
    OutagePossible = TRUE
    MaxWrites = 3
INVARIANTS
    TypeOK
    FlushedInOrder
    BufferBound
PROPERTIES
    ShutdownCompletes
    EventuallyFlushed
