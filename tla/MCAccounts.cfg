SPECIFICATION FairSpec
CONSTANTS
    member = member  guest = guest  admin = admin
    p1 = p1  p2 = p2  c1 = c1  c2 = c2
    Registrants = {member}
    Guests = {guest}
    Seeded <- MCSeeded
    Procs = {p1, p2}
    Calls = {c1, c2}
    ProcOf <- MCProcOf
    Tokens = {t1, t2, t3}
    Requests = {q1, q2}
    Discarded = discarded
    Nobody = nobody
    Budget = 2
    TokenCapacity = 2
    MaxFailures = 1
INVARIANTS
    ApprovalIsFinal EvictedStaysOut GrantedOnce
PROPERTIES
    CallsReturn
CHECK_DEADLOCK FALSE
