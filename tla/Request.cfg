SPECIFICATION PartSpec
CONSTANTS
    a = a
    b = b
    light = light
    Callers = {a, b}
    Plan <- Together
    Stops = {a}
    SeqMod = 2
    SubCap = 1
    MaxAttempts <- Attempts
    MaxReports = 1
    Interval = 3
    Patience = 10
    MaxSend = 2
    Tolerated = 1
    MaxTime = 24
    Frames <- MCFrames
    Damage <- MCDamage
    Junk <- MCJunk
    ReadSizes = {4, 512}
    MaxFrameLen = 8
    MaxFrames = 3
    MaxFaults = 1
INVARIANTS InOrder OwnAnswer CopyAlive IntactFramesArrive
