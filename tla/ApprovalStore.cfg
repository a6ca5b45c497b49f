SPECIFICATION FairSpec
CONSTANTS
    Ids = {i1, i2}
    Clients = {c1, c2}
    Agents = {a1}
    Owners = {o1}
    Deeds = {d1}
    Tools = {t1}
    MaxKept = 1
    Ttl = 1
    MaxTime = 1
    None = None
INVARIANTS OneCallPerApproval RunsAsAnswered
PROPERTIES EveryWaitEnds ApprovalsArePermissions
