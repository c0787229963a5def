SPECIFICATION FairSpec
CONSTANTS
    u1 = u1  u2 = u2
    m1 = m1  m2 = m2
    o1 = o1  o2 = o2  o3 = o3
    k1 = k1  k2 = k2  k3 = k3
    s1 = s1  s2 = s2
    Users = {u1, u2}
    Orders = {o1, o2, o3}
    Markets = {m1, m2}
    Keys = {k1, k2, k3}
    Order <- CrossOrder
    Creator <- CrossCreator
    Grants <- CrossGrants
    CloseMs = 1
    FinalizeMs = 1
    MaxTime = 1
    Payout = 3
    Treasury = treasury
    Nobody = nobody
    AccountOrder <- MCAccountOrder
    Calls = {s1, s2}
    Attempts = 1
    QuoteLife = 1
    MaxFailures = 0
INVARIANTS
    ChecksHold NoWaitCycle
PROPERTIES
    ImplementsExchange SettlementNotBlocked
CHECK_DEADLOCK FALSE
