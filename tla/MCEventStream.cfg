SPECIFICATION FairSpec
CONSTANTS
    c1 = c1  c2 = c2
    Clients = {c1, c2}
    Capacity = 1
    PageLimit = 1
    MaxEvents = 3
    MaxFailures = 1
INVARIANTS
    SkippedOnlyIfMissed
PROPERTIES
    ImplementsFeed 
