SPECIFICATION FairSpec
CONSTANTS
    r1 = r1  r2 = r2
    inv0 = inv0  inv1 = inv1
    Requests = {r1, r2}
    Inventories = {inv0, inv1}
    Created = inv0
    MaxCommits = 3
    MaxFailures = 0
INVARIANT HitAtMostOneBehind
