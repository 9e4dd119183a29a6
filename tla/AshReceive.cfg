SPECIFICATION FairSpec
CONSTANTS
    MaxRetries = 0
    AckCap = 1
    DataCap = 1
    ResetCap = 1
    WireCap = 1
    MaxSends = 1
    MaxNcpData = 2
    NcpWindow = 2
    OldFrames <- MCNoFrames
    NcpEager = FALSE
INVARIANT ReceivedInOrder
PROPERTY NcpDataArrives
