SPECIFICATION Spec
CONSTANTS
    Interval = 6
    MaxLatency = 9
    Failures = TRUE
INVARIANTS
    WaitBounded
