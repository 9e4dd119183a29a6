SPECIFICATION FairSpec
CONSTANTS
    MaxRetries = 1
    AckCap = 1
    DataCap = 1
    ResetCap = 1
    WireCap = 2
    MaxSends = 2
    MaxNcpData = 0
    NcpWindow = 1
    OldFrames <- MCOldFrames
    NcpEager = FALSE
INVARIANTS TypeOK AtMostOnceInOrder AckedIsDelivered
PROPERTIES ImplementsStopAndWait CallsReturn
