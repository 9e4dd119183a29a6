SPECIFICATION PartSpec
CONSTANTS
    e1 = e1
    e2 = e2
    e4 = e4
    n1 = n1
    n2 = n2
    n3 = n3
    n4 = n4
    p1 = p1
    p2 = p2
    None = None
    EUIs = {e1, e2, e4}
    NodeIds = {n1, n2, n3, n4}
    Names = {"lamp", "LAMP"}
    Fold <- FoldCase
    ModelOf <- OneModel
    Facts = {"nodeType"}
    Reporters = {e1, e2}
    DiskFails = TRUE
    Interviewers = {i1}
    MaxReaddress = 1
    MaxInterviews = 3
    MaxCrashes = 1
    Processes = {p1, p2}
    OldEntries = {"statistic", "batteryInVolts", "batteryInOtherUnit"}
    MaxChanges = 2
    MaxFailures = 3
SYMMETRY Symmetry
INVARIANTS RecordsAgree Durable Provenance AlwaysReadable SavedAlone
PROPERTIES NothingForgotten OwnAnswersStay
CHECK_DEADLOCK FALSE
