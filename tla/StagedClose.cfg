SPECIFICATION Spec
CONSTANTS
    Capacity = 1
    Policies = {"block"}
    Backends = {"gcs"}
    MaxMessages = 2
    MaxFiles = 2
    MaxFaults = 0
INVARIANTS
    CloseFlushes
