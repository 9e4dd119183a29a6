SPECIFICATION LiveSpec
CONSTANTS
    l1 = l1
    l2 = l2
    w1 = w1
    k1 = k1
    k2 = k2
    Loops = {l1, l2}
    Watchers = {w1}
    Closers = {k1, k2}
    Mixes <- MCMixes
    Cap = 1
    MaxMessages = 2
    MaxReadings = 2
    None = None
INVARIANTS OneLoop SavedAtClose ArrivalsRecorded
PROPERTY CallsReturn
CHECK_DEADLOCK FALSE
