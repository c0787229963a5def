----------------------------- MODULE MCTrading ------------------------------
(***************************************************************************)
(* One binary market of liquidity 10, the smallest the code allows, two    *)
(* traders and the market's creator.  A lot is sixty shares, so that three *)
(* lots bring the price within 2 * 10^-8 of a share's payout; the fourth   *)
(* passes the concentration limit: the reserve is then within a            *)
(* microcredit of its liability and every rounding counts.  Costs are the  *)
(* real LMSR costs to an eighth of a microcredit.                          *)
(***************************************************************************)
EXTENDS Market

CONSTANTS u1, u2, creator, i1, yes, no

MCUsers == {u1, u2, creator}
MCGrid == {0, 60000, 120000, 180000, 240000}
MCLots == {60000}

\* 8 * 10^7 * ln(1 + exp(-6 * d)) for a difference of d lots
Excess == <<55451774, 198055, 492, 1, 0>>

MCCost ==
    [inv \in [{yes, no} -> MCGrid] |->
        LET high == IF inv[yes] >= inv[no] THEN inv[yes] ELSE inv[no]
            low == IF inv[yes] >= inv[no] THEN inv[no] ELSE inv[yes]
        IN  high * 8000 + Excess[(high - low) \div 60000 + 1]]

MCTerms == [creator : {creator}, fee_charged : BOOLEAN, authority : {"creator"},
            simulated : {FALSE}]
MCGrants == [a \in {u1, u2, creator, Treasury} |->
                IF a = Treasury THEN 10000000 ELSE IF a = creator THEN 0
                ELSE IF a = u1 THEN 190000000 ELSE 60000000]

MCClose == [i \in {i1} |-> 1]
MCObservationEnd == [i \in {i1} |-> 2]
MCFinalize == [i \in {i1} |-> 2]
MCDeadline == [i \in {i1} |-> 3]
=============================================================================
