SPECIFICATION PartSpec
CONSTANTS
    Versions = {"v4", "v13"}
    Legacy = "v4"
    requiredConfig <- MCConfig
    Preset = {"stackProfile"}
    StatusCap = 1
    MaxCalls = 2
    MaxBoots = 2
    Networks = {"home", "twin", "zero"}
    PanOf <- MCPanOf
    LQIs = {1, 2}
    ScanCap = 2
    MaxBeacons = 3
    Absent = Absent
INVARIANTS PreparedBeforeUse HoldsItsNetwork ResultIsHeld FoundIsHeard JoinIsForced
PROPERTIES OperationReturns
CHECK_DEADLOCK FALSE
