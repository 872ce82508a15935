SPECIFICATION FairSpec
CONSTANTS
    Capacity = 2
    Policies = {"drop", "block"}
    Backends = {"s3", "gcs"}
    MaxMessages = 3
    MaxFiles = 2
    MaxFaults = 1
INVARIANTS
    TypeOK
    StagingAccounts
    StagedInOrder
    OnlySelfRotationStrands
PROPERTIES
    ObjectsOnlyGrow
    CloseReturns
