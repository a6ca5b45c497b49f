SPECIFICATION Spec
CONSTANTS
    Requests = {r1, r2}
    Models = {m1}
    Jobs <- LockJobs
    GpuMeasured = TRUE
    None = None
SYMMETRY Symmetric
INVARIANT NoLockCycle
