--------------------------- MODULE MCSettlement -----------------------------
(***************************************************************************)
(* A market of three outcomes and liquidity 10 from publication to the     *)
(* last claim, under each authority: observations that may be corrected,   *)
(* the creator's signature, an external resolver, simulated or not.  A lot *)
(* is 61 shares, which three outcomes cannot divide evenly when voided,    *)
(* and a claim batch pays one account, so that settling takes several.     *)
(***************************************************************************)
EXTENDS Market

CONSTANTS u1, u2, creator, i1, a, b, c

MCGrid == {0, 61000}

\* 8 * 10^7 * ln(3 - n + n * exp(6.1)) for n outcomes of one lot
Table == <<87888983, 488358056, 543541439, 575888983>>

MCCost ==
    [inv \in [Outcomes -> MCGrid] |->
        Table[Cardinality({o \in Outcomes : inv[o] > 0}) + 1]]

MCTerms ==
    {[creator |-> Nobody, fee_charged |-> TRUE, authority |-> "simulator", simulated |-> TRUE],
     [creator |-> creator, fee_charged |-> TRUE, authority |-> "creator", simulated |-> FALSE],
     [creator |-> creator, fee_charged |-> FALSE, authority |-> "resolver", simulated |-> TRUE],
     [creator |-> Nobody, fee_charged |-> TRUE, authority |-> "resolver", simulated |-> FALSE]}

MCGrants == [x \in Users \cup {Treasury} |->
                IF x = Treasury THEN 23000000 ELSE IF x = creator THEN 0 ELSE 65000000]

MCClose == [i \in Instances |-> 1]
MCObservationEnd == [i \in Instances |-> 2]
MCFinalize == [i \in Instances |-> 3]
MCDeadline == [i \in Instances |-> 4]
=============================================================================
