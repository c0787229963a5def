SPECIFICATION FairSpec
CONSTANTS
    u1 = u1  u2 = u2
    m1 = m1  m2 = m2
    o1 = o1  o2 = o2  o3 = o3
    k1 = k1  k2 = k2  k3 = k3
    s1 = s1  s2 = s2
    Users = {u1, u2}
    Orders = {o1, o2, o3}
    Markets = {m1}
    Keys = {k1, k2}
    Order <- RetryOrder
    Creator <- RetryCreator
    Grants <- RetryGrants
    CloseMs = 2
    FinalizeMs = 2
    MaxTime = 2
    Payout = 3
    Treasury = treasury
    Nobody = nobody
    AccountOrder <- MCAccountOrder
    Calls = {s1, s2}
    Attempts = 2
    QuoteLife = 1
    MaxFailures = 1
INVARIANT ForgottenNotExecuted
CHECK_DEADLOCK FALSE
