SPECIFICATION SpecDeletes
CONSTANTS
    Chats = {x}
    External = {x}
    Positions <- MCPositions
    Requests = {r1}
    ColdBatch = 1
    MaxRequests = 1
    MaxCrashes = 0
    None = None
INVARIANT ExternalStaysInMemory
CHECK_DEADLOCK FALSE
