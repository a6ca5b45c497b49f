SPECIFICATION FairSpec
CONSTANTS
    Requests = {r1, r2, r3}
    Models = {m1}
    Jobs <- LockJobs
    GpuMeasured = FALSE
    None = None
PROPERTIES  RetentionEnds
INVARIANT WaitsEnd
