SPECIFICATION Spec
CONSTANTS
    ConfigFiles <- ShutdownFiles
    MaxEndpoints = 3
    MaxSinks = 3
    Capacity = 1
    MaxEvents = 1
    MaxSignals = 2
INVARIANTS
    TypeOK
    ServedAsConfigured
    EverySinkOffered
    OffersAccounted
    StoppedIsDrained
PROPERTIES
    QuietAfterSinksClose
