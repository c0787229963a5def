-------------------------------- MODULE Amm --------------------------------
(***************************************************************************)
(* The pricing engine (backend/src/amm.rs) and the fee policy              *)
(* (backend/src/fee.rs) as pure operators.  Balances are microcredits,     *)
(* quantities are millishares, as in the code.                             *)
(*                                                                         *)
(* The decimal logarithm and exponential are not computed here: Cost is    *)
(* the LMSR cost function b * ln(sum_o exp(q[o] / b)), tabulated in        *)
(* 1/Scale-ths of a microcredit, so that the code's                        *)
(* b * ln(1 + p * (exp(delta / b) - 1)) is the difference of two entries.  *)
(* The ceil and floor the code applies to that difference are kept.        *)
(***************************************************************************)
EXTENDS Integers

CONSTANTS
    Outcomes,   \* the outcomes of an instance
    Grid,       \* the inventory entries considered, 0..MAX_INVENTORY in the code
    Lots,       \* the quantities considered, 1..MAX_QUANTITY in the code
    MaxSpread,  \* 20 * liquidity * SHARE_SCALE: the price concentration limit
    Scale,      \* parts of a microcredit the cost table distinguishes
    Cost        \* the LMSR cost of an inventory, in 1/Scale microcredits

Inventories == [Outcomes -> Grid]

Empty == [o \in Outcomes |-> 0]

\* One share pays one credit: a millishare of the winner is 1000 microcredits.
PAYOUT == 1000

ASSUME GridAssumption == Grid \subseteq Nat /\ 0 \in Grid /\ Lots \subseteq Nat \ {0}

ASSUME ScaleAssumption == Scale \in Nat \ {0} /\ MaxSpread \in Nat

(***************************************************************************)
(* What the proofs use of the LMSR cost function: it is never below the    *)
(* payout of any one outcome, ln(sum_o exp(q[o] / b)) >= q[o] / b.         *)
(***************************************************************************)
ASSUME CostAssumption ==
    /\ Cost \in [Inventories -> Nat]
    /\ \A inv \in Inventories : \A o \in Outcomes :
          Cost[inv] >= Scale * (PAYOUT * inv[o])

Sides == {"buy", "sell"}

-----------------------------------------------------------------------------

\* Decimal::floor and Decimal::ceil of x / Scale
FloorScale(x) == x \div Scale

CeilScale(x) == -((-x) \div Scale)

\* amm::validate, for a vector that is already in range
Balanced(inv) == \A a, b \in Outcomes : inv[a] - inv[b] <= MaxSpread

\* Mutant: the logarithm of one outcome too few, which is 0 for a binary market
FundingOneFewer == 1

\* amm::funding: the worst loss b * ln(n), rounded up, plus one microcredit
Funding == CeilScale(Cost[Empty]) + 1

\* The inventory after a trade of q shares of outcome o
Shifted(inv, o, side, q) ==
    [inv EXCEPT ![o] = IF side = "buy" THEN @ + q ELSE @ - q]

\* Mutant: rounded in the trader's favour
AmountForTrader(inv, next, side) ==
    IF side = "buy" THEN FloorScale(Cost[next] - Cost[inv])
                    ELSE CeilScale(Cost[inv] - Cost[next])

\* The engine amount of amm::calculate: rounded against the trader both ways
Amount(inv, next, side) ==
    IF side = "buy" THEN CeilScale(Cost[next] - Cost[inv])
                    ELSE FloorScale(Cost[inv] - Cost[next])

\* amm::calculate succeeds: both vectors validate, and the amount is not negative
Calculable(inv, o, side, q) ==
    LET next == Shifted(inv, o, side, q)
    IN  /\ next \in Inventories
        /\ Balanced(inv) /\ Balanced(next)
        /\ Amount(inv, next, side) >= 0

-----------------------------------------------------------------------------

FEE_BPS == 25

\* fee::trade_fee: rounded up
TradeFee(amount) ==
    (amount * FEE_BPS) \div 10000 + (IF (amount * FEE_BPS) % 10000 > 0 THEN 1 ELSE 0)

\* fee::charged: what the trader pays (buy) or receives (sell) all in
Charged(amount, fee, side) == IF side = "buy" THEN amount + fee ELSE amount - fee

\* fee::creator_share: the creator's half of the pot, rounded down
CreatorShare(pot, hasCreator) == IF hasCreator THEN pot \div 2 ELSE 0
=============================================================================
