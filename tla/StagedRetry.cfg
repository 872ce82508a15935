SPECIFICATION FairSpec
CONSTANTS
    Capacity = 1
    Policies = {"block"}
    Backends = {"s3"}
    MaxMessages = 2
    MaxFiles = 3
    MaxFaults = 1
PROPERTIES
    FailedUploadRetried
