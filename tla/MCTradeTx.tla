----------------------------- MODULE MCTradeTx ------------------------------
(***************************************************************************)
(* Instances of TradeTx.  MCRetry: one market, a purchase and a sale of u1 *)
(* and a purchase of u2 under u1's version, each sent again after a lost   *)
(* answer or a crash; u1's sale reuses the key of its purchase, as only an *)
(* API client would.  MCCross: two markets; u1 has the units for one of    *)
(* its purchases only until m1 pays, u2 is the creator of m1 and buys m2,  *)
(* so that both settlements lock u2 and the treasury.                      *)
(***************************************************************************)
EXTENDS TradeTx, TLC

CONSTANTS u1, u2, m1, m2, o1, o2, o3, k1, k2, k3, s1, s2

Trade(user, market, key, side) ==
    [user |-> user, market |-> market, key |-> key, side |-> side, cost |-> 2]

MCAccountOrder == <<u1, u2, Treasury>>

RetryOrder ==
    (o1 :> Trade(u1, m1, k1, "buy")) @@ (o2 :> Trade(u2, m1, k2, "buy"))
        @@ (o3 :> Trade(u1, m1, k1, "sell"))
RetryCreator == m1 :> Nobody
RetryGrants == (u1 :> 2) @@ (u2 :> 2)

CrossOrder ==
    (o1 :> Trade(u1, m1, k1, "buy")) @@ (o2 :> Trade(u2, m2, k2, "buy"))
        @@ (o3 :> Trade(u1, m2, k3, "buy"))
CrossCreator == (m1 :> u2) @@ (m2 :> Nobody)
CrossGrants == (u1 :> 3) @@ (u2 :> 2)
=============================================================================
