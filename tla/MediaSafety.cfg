SPECIFICATION Spec
CONSTANTS
    Requests = {r1, r2, r3}
    Models = {m1, m2}
    Jobs <- AllJobs
    GpuMeasured = TRUE
    None = None
SYMMETRY Symmetric
CHECK_DEADLOCK FALSE
INVARIANTS InUseNeverFreed OneSpeechBackend OneModelPerTask
PROPERTY OldTimerIsHarmless
