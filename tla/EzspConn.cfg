SPECIFICATION FairSpec
CONSTANTS
    SeqMod = 2
    Ids = {"a"}
    Kinds = {"joined"}
    Subs = {"loop"}
    Interest <- MCInterest
    DataCap = 1
    SubCap = 1
    MaxCalls = 3
    MaxFailures = 1
    MaxCallbacks = 3
INVARIANTS ClosedOnce NoSilentLoss OwnReply
PROPERTIES CallsReturn
