SPECIFICATION FairSpec
CONSTANTS
    u1 = u1  u2 = u2  creator = creator
    i1 = i1
    a = a  b = b  c = c
    Outcomes = {a, b, c}
    Grid <- MCGrid
    Lots = {61000}
    MaxSpread = 200000
    Scale = 8
    Cost <- MCCost
    Users = {u1, u2, creator}
    Instances = {i1}
    Treasury = treasury
    Nobody = nobody
    Terms <- MCTerms
    Revisions = {0, 1}
    CloseMs <- MCClose
    ObservationEndMs <- MCObservationEnd
    FinalizeAfterMs <- MCFinalize
    EvidenceDeadlineMs <- MCDeadline
    BatchLimit = 1
    Grants <- MCGrants
    Void = void
    NoResult = noresult
    MaxVersion = 3
    MaxTime = 4
INVARIANTS
    ClaimsCovered PaidInFull ResultFromEvidence OutboxGapFree UnitsConserved
PROPERTIES
    SettlementFinal ImplementsLifecycle EveryMarketSettles
CHECK_DEADLOCK FALSE
