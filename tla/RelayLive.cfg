SPECIFICATION FairSpec
CONSTANTS
    ConfigFiles <- LiveFiles
    MaxEndpoints = 2
    MaxSinks = 2
    Capacity = 1
    MaxEvents = 2
    MaxSignals = 2
INVARIANTS
    DroneAttribution
PROPERTIES
    SignalStops
    FanOutReturns
