SPECIFICATION SpecAll
CONSTANTS
    Ids = {i1, i2}
    Principals = {p, q}
    Pollers = {f}
    Waiters = {w1}
    MaxRunning = 1
    MaxEvents = 1
    MaxSeq = 2
    Chats = {c, x}
    External = {x}
    Requests = {r1, r2}
    ColdBatch = 1
    MaxRequests = 2
    MaxCrashes = 1
    None = None
INVARIANTS
    EventsSeenOnce
    OneJobBeside OneCardPerAnswer
PROPERTIES
    TasksHaveOneResult EndWakesWaiters 
CHECK_DEADLOCK FALSE
