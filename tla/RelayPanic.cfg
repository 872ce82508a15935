SPECIFICATION Spec
CONSTANTS
    ConfigFiles <- PanicFiles
    MaxEndpoints = 1
    MaxSinks = 1
    Capacity = 1
    MaxEvents = 2
    MaxSignals = 1
INVARIANTS
    ShutdownIsGraceful
