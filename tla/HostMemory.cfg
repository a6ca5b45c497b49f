SPECIFICATION Spec
CONSTANTS
    Turns = {t1, t2}
    Keys = {k1, k2}
    Chats = {a}
    KvTypes = {q8}
    Jobs <- MixedJobs
    MaxSteps = 1
    SavesMayStop = FALSE
    None = None
SYMMETRY Symmetric
INVARIANTS
    RunsOnChosenModel
    PlanDescribesSession
    ListDescribesKv
    KvOfResidentModel
    MemoryIsOwnChat
