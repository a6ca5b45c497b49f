SPECIFICATION FairSpec
CONSTANTS
    Servers = {d1, d2}
    Callers = {c1, c2}
    MaxRunning = 1
    MaxCrashes = 1
    MaxStarts = 2
    Listers = {c2}
    None = None
    d1 = d1
    d2 = d2
    Uses <- MCUses
INVARIANT RunningBounded
PROPERTY StoppedIsNoCrash 
CHECK_DEADLOCK FALSE
