SPECIFICATION Spec
CONSTANTS
    Sources = {"udp0", "tcp0", "udp1"}
    DroneOf <- DroneOfEndpoint
    MsgNames = {"GlobalPositionInt", "VFR_HUD", "Heartbeat"}
    MessageTypes = {"GlobalPositionInt", "VFR_HUD"}
    KeyPattern = "drone_id"
    Configs <- SampleConfigs
    Capacity = 2
    MaxMessages = 3
    MaxFaults = 2
INVARIANTS
    TypeOK
    StreamInOrder
    LossesCounted
    KVMirrorsStream
    ReadyOrGone
PROPERTIES
    ImplementsDeviceStates
