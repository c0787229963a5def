SPECIFICATION Spec
CONSTANTS
    u1 = u1  u2 = u2  creator = creator
    i1 = i1
    yes = yes  no = no
    Outcomes = {yes, no}
    Grid <- MCGrid
    Lots <- MCLots
    MaxSpread = 200000
    Scale = 8
    Cost <- MCCost
    Users <- MCUsers
    Instances = {i1}
    Treasury = treasury
    Nobody = nobody
    Terms <- MCTerms
    Revisions = {0}
    CloseMs <- MCClose
    ObservationEndMs <- MCObservationEnd
    FinalizeAfterMs <- MCFinalize
    EvidenceDeadlineMs <- MCDeadline
    BatchLimit = 1
    Grants <- MCGrants
    Void = void
    NoResult = noresult
    MaxVersion = 7
    MaxTime = 3
INVARIANTS
    TypeOK ReserveSolvent CoverageNeverRefuses RoundTripsNeverProfit
    InventoryBacked
CHECK_DEADLOCK FALSE
