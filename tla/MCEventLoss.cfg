SPECIFICATION FairSpec
CONSTANTS
    c1 = c1  c2 = c2
    Clients = {c1}
    Capacity = 2
    PageLimit = 2
    MaxEvents = 3
    MaxFailures = 1
INVARIANT NeverDrops
