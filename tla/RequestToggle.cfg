SPECIFICATION Spec
CONSTANTS
    a = a
    b = b
    light = light
    Callers = {a}
    Plan <- ToggleOnce
    Stops = {a}
    SeqMod = 2
    SubCap = 1
    MaxAttempts <- Attempts
    MaxReports = 0
INVARIANT DoneOnce
