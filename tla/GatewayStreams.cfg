SPECIFICATION FairSpec
CONSTANTS
    Agents = {a1, a2}
    a1 = a1
    a2 = a2
    Calls = {c1, c2}
    c1 = c1
    c2 = c2
    NoAgent = NoAgent
    NoStream = NoStream
    SinkKinds <- DropThenBlock
    Capacity = 1
    MaxFrames = 2
    MaxSessions = 2
INVARIANTS
    TypeOK
    AckedReachedSinks
    StreamsBelong
PROPERTIES
    CallReturns
