SPECIFICATION Spec
CONSTANTS
    Turns = {t1, t2}
    Keys = {k1, k2}
    Chats = {a}
    KvTypes = {q8}
    Jobs <- KeepJobs
    MaxSteps = 1
    SavesMayStop = TRUE
    None = None
SYMMETRY Symmetric
INVARIANT KvOfResidentModel
