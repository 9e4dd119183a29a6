SPECIFICATION PartSpec
CONSTANTS
    Phrases <- MCPhrases
    Abilities = {{"hs"}, {"xy"}, {"ct"}, {"hs", "ct"}, {}}
    Transitions = {400, 90000000}
    MaxCopies = 2
    Devices <- MCDevices
    NodeOf <- MCNodeOf
    IEEEs = {"I1", "I2", "I9"}
    Lower <- MCLower
    NewNames <- MCNewNames
    Lines <- MCLines
    Typed <- MCTyped
    CommandTable <- MCCommandTable
    Clusters <- MCClusters
    ActionWords <- MCActionWords
    MaxNames = 2
    MaxTabs = 4
    MaxLine = 14
    Types <- MCTypes
    AttributeType <- MCAttributeType
    Device <- MCDevice
    Values <- MCValues
    Arguments <- MCArguments
    TypedValues <- MCTypedValues
    Flags <- MCFlags
    HalfWord = 16
    Never = 3
    Second = 2
    MaxAsked = 2
    Typeable = {"join", "monitor", "interview", "enter", "interrupt"}
    Targets = 2
    KeySlots = 2
    SinkSlots = 1
    MaxKeys = 3
    MaxReports = 2
INVARIANTS
    LightAsTold PersistedAsTold NeverGuesses CompletedIsResolved AnswersAreTheDevices
    ReportingAsAsked WindowShut
PROPERTY PromptReturns
CHECK_DEADLOCK FALSE
