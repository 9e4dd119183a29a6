SPECIFICATION Spec
CONSTANTS
    SeqMod = 4
    Ids = {"a"}
    Kinds = {"joined"}
    Subs = {}
    Interest <- MCInterest
    DataCap = 2
    SubCap = 1
    MaxCalls = 2
    MaxFailures = 1
    MaxCallbacks = 0
INVARIANT
    ReplyTakesPrecedence
