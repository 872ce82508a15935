SPECIFICATION Spec
CONSTANTS
    Writers = {w1, w2}
    w1 = w1
    w2 = w2
    Backend = "bigquery"
    ConfiguredBatch = 2
    DefaultBatch = 5
    OutagePossible = FALSE
    MaxWrites = 2
INVARIANTS
    FinalFlushSends
