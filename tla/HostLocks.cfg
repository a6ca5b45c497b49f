SPECIFICATION FairSpec
CONSTANTS
    Turns = {t1, t2}
    Keys = {k1, k2}
    Chats = {a}
    KvTypes = {q8}
    Jobs <- LockJobs
    MaxSteps = 2
    SavesMayStop = FALSE
    None = None

    
INVARIANT WaitsEnd
