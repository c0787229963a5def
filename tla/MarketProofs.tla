---------------------------- MODULE MarketProofs ----------------------------
(***************************************************************************)
(* Proofs about the exchange, for every set of users, instances, outcomes, *)
(* schedules, terms and any cost function that is never below a payout.    *)
(***************************************************************************)
EXTENDS Market, WellFoundedInduction, TLAPS

-----------------------------------------------------------------------------
(***************************************************************************)
(* Rounding.                                                               *)
(***************************************************************************)

\* Decimal::floor stays below and Decimal::ceil above the value they round.
LEMMA Rounding ==
    ASSUME NEW x \in Int
    PROVE  /\ FloorScale(x) \in Int /\ Scale * FloorScale(x) <= x
           /\ CeilScale(x) \in Int /\ Scale * CeilScale(x) >= x
BY ScaleAssumption DEF FloorScale, CeilScale

\* The ceiling is the least integer above a value.
LEMMA CeilLeast ==
    ASSUME NEW x \in Int, NEW n \in Int, Scale * n >= x
    PROVE  n >= CeilScale(x)
BY ScaleAssumption DEF CeilScale

\* Multiplying by the scale keeps the order of integers.
LEMMA Unscale ==
    ASSUME NEW m \in Int, NEW n \in Int, Scale * m >= Scale * n
    PROVE  m >= n
BY ScaleAssumption

\* The engine amount is rounded in the reserve's favour, whichever the side.
LEMMA AmountRounds ==
    ASSUME NEW inv \in Inventories, NEW next \in Inventories
    PROVE  /\ Amount(inv, next, "buy") \in Int /\ Amount(inv, next, "sell") \in Int
           /\ Scale * Amount(inv, next, "buy") >= Cost[next] - Cost[inv]
           /\ Scale * Amount(inv, next, "sell") <= Cost[inv] - Cost[next]
BY CostAssumption, Rounding DEF Amount

\* A fee is a number of microcredits.
LEMMA FeeType ==
    ASSUME NEW amount \in Nat, NEW i
    PROVE  Fee(i, amount) \in Nat
BY DEF Fee, TradeFee, FEE_BPS

\* Funding exceeds the cost of an untouched inventory.
LEMMA FundingType == Funding \in Nat /\ Scale * (Funding - 1) >= Cost[Empty]
<1>1. Empty \in Inventories
  BY GridAssumption DEF Empty, Inventories
<1>2. Cost[Empty] \in Nat
  BY <1>1, CostAssumption
<1>3. CeilScale(Cost[Empty]) \in Int /\ Scale * CeilScale(Cost[Empty]) >= Cost[Empty]
  BY <1>2, Rounding
<1>4. CeilScale(Cost[Empty]) >= 0
  BY <1>2, <1>3, ScaleAssumption
<1> QED  BY <1>3, <1>4 DEF Funding

-----------------------------------------------------------------------------
(***************************************************************************)
(* Evidence.                                                               *)
(***************************************************************************)

Less == {pair \in Nat \X Nat : pair[1] < pair[2]}

\* A nonempty set of naturals has a least element.
LEMMA LeastNatural ==
    ASSUME NEW S, S \subseteq Nat, S # {}
    PROVE  \E least \in S : \A n \in S : least <= n
<1>1. IsWellFoundedOn(Less, Nat)
  BY NatLessThanWellFounded DEF OpToRel, Less
<1>2. PICK least \in S : \A n \in S : ~(<<n, least>> \in Less)
  BY <1>1, WFMin
<1>3. ASSUME NEW n \in S PROVE least <= n
  <2>1. n \in Nat /\ least \in Nat
    OBVIOUS
  <2>2. n < least => <<n, least>> \in Less
    BY <2>1 DEF Less
  <2> QED  BY <1>2, <2>1, <2>2
<1> QED  BY <1>3

\* A revision is a number record_evidence accepts.
LEMMA RevisionType ==
    /\ MAX_REVISION \in Nat
    /\ \A row \in Evidence : row.revision \in 0 .. MAX_REVISION /\ row.revision \in Nat
<1>1. MAX_REVISION \in Nat
  BY SMT DEF MAX_REVISION
<1>2. Revisions \subseteq 0 .. MAX_REVISION
  BY AccountAssumption
<1>3. \A row \in Evidence : row.revision \in 0 .. MAX_REVISION
  BY <1>2 DEF Evidence
<1> QED  BY <1>1, <1>3

\* Revisions are bounded, so some row has the highest one and Latest picks such a row.
LEMMA LatestStands ==
    ASSUME NEW i \in Instances, evidence[i] \subseteq Evidence, evidence[i] # {}
    PROVE  Latest(i) \in evidence[i] /\ Standing(i, Latest(i))
<1>0. MAX_REVISION \in Nat
  BY RevisionType
<1> DEFINE Below == {MAX_REVISION - row.revision : row \in evidence[i]}
<1>1. \A row \in evidence[i] : row.revision \in 0 .. MAX_REVISION
  BY RevisionType
<1>2. Below \subseteq Nat /\ Below # {}
  BY <1>0, <1>1
<1>3. PICK least \in Below : \A n \in Below : least <= n
  <2> HIDE DEF Below
  <2> QED  BY <1>2, LeastNatural
<1>4. PICK row \in evidence[i] : least = MAX_REVISION - row.revision
  OBVIOUS
<1>5. Standing(i, row)
  <2> SUFFICES ASSUME NEW other \in evidence[i] PROVE other.revision <= row.revision
    BY DEF Standing
  <2>1. least <= MAX_REVISION - other.revision
    BY <1>3
  <2> QED  BY <2>1, <1>0, <1>1, <1>4
<1> QED  BY <1>4, <1>5 DEF Latest

\* A verdict is a result an instance may have.
LEMMA VerdictType ==
    ASSUME NEW i \in Instances, evidence[i] \subseteq Evidence
    PROVE  Verdict(i) \in Results
<1>1. CASE evidence[i] # {} /\ Latest(i).result # NoResult
  <2>1. Latest(i) \in Evidence
    BY <1>1, LatestStands
  <2> QED  BY <1>1, <2>1 DEF Verdict, Evidence
<1>2. CASE ~(evidence[i] # {} /\ Latest(i).result # NoResult)
  BY <1>2 DEF Verdict, Results
<1> QED  BY <1>1, <1>2

-----------------------------------------------------------------------------
(***************************************************************************)
(* Type correctness.                                                       *)
(***************************************************************************)

\* The CHECKs keep every balance of a transfer between two accounts natural.
LEMMA TransferType ==
    ASSUME balance \in [Accounts -> Nat], NEW from \in Accounts, NEW to \in Accounts,
           from # to, NEW amount \in Int, Transfer(from, to, amount)
    PROVE  balance' \in [Accounts -> Nat]
BY DEF Transfer, Moved

\* Releasing a reserve that still holds its fee pot leaves every balance natural.
LEMMA ReleasedType ==
    ASSUME NEW i \in Instances, fees[i] \in Nat, NEW paid \in [Accounts -> Nat],
           paid[i] >= fees[i]
    PROVE  Released(i, paid) \in [Accounts -> Nat]
<1>1. /\ CreatorShare(fees[i], terms[i].creator # Nobody) \in Nat
      /\ fees[i] - CreatorShare(fees[i], terms[i].creator # Nobody) \in Nat
  BY DEF CreatorShare
<1> HIDE DEF CreatorShare
<1> QED  BY <1>1 DEF Released, Accounts

\* What an accepted trade of a well typed state consists of.
LEMMA TradeType ==
    ASSUME TypeOK, NEW u \in Users, NEW i \in Instances, NEW o \in Outcomes,
           NEW side \in Sides, NEW q \in Lots, MayTrade(u, i, o, side, q)
    PROVE  /\ inventory[i] \in Inventories
           /\ Shifted(inventory[i], o, side, q) \in Inventories
           /\ Engine(i, o, side, q) \in Nat
           /\ Fee(i, Engine(i, o, side, q)) \in Nat
           /\ Total(i, o, side, q) \in Nat
           /\ Total(i, o, side, q) =
                IF side = "buy" THEN Engine(i, o, side, q) + Fee(i, Engine(i, o, side, q))
                                ELSE Engine(i, o, side, q) - Fee(i, Engine(i, o, side, q))
<1>1. inventory[i] \in Inventories
  BY DEF TypeOK
<1>2. Shifted(inventory[i], o, side, q) \in Inventories /\ Engine(i, o, side, q) >= 0
  BY DEF MayTrade, Calculable, Engine
<1>3. Engine(i, o, side, q) \in Nat
  BY <1>1, <1>2, AmountRounds DEF Engine, Sides
<1>4. Fee(i, Engine(i, o, side, q)) \in Nat
  BY <1>3, FeeType
<1>5. Total(i, o, side, q) \in Nat
  BY <1>3, <1>4 DEF MayTrade, Total, Charged
<1> QED  BY <1>1, <1>2, <1>3, <1>4, <1>5 DEF Total, Charged

\* Appending versions to an outbox and bumping a version keep their types.
LEMMA PublishType ==
    ASSUME TypeOK, NEW i \in Instances, Publish(i)
    PROVE  version' \in [Instances -> Nat] /\ outbox' \in [Instances -> Seq(Nat)]
BY DEF TypeOK, Publish

\* A publication, and every trade, keep the types.
LEMMA CreateType ==
    ASSUME TypeOK, NEW i \in Instances, CreateInstance(i)
    PROVE  TypeOK'
<1>1. balance' \in [Accounts -> Nat]
  <2>1. Treasury \in Accounts /\ i \in Accounts /\ Treasury # i
    BY AccountAssumption DEF Accounts
  <2> QED  BY <2>1, FundingType, TransferType DEF TypeOK, CreateInstance
<1>2. outbox' \in [Instances -> Seq(Nat)]
  BY DEF TypeOK, CreateInstance
<1>3. state' \in [Instances -> States]
  BY DEF TypeOK, CreateInstance, States
<1> QED  BY <1>1, <1>2, <1>3 DEF TypeOK, CreateInstance

\* A trade keeps the types: the CHECKs and MayTrade keep every amount natural.
LEMMA ExecuteType ==
    ASSUME TypeOK, NEW u \in Users, NEW i \in Instances, NEW o \in Outcomes,
           NEW side \in Sides, NEW q \in Lots, Execute(u, i, o, side, q)
    PROVE  TypeOK'
<1>1. MayTrade(u, i, o, side, q)
  BY DEF Execute
<1>2. /\ Shifted(inventory[i], o, side, q) \in Inventories
      /\ Fee(i, Engine(i, o, side, q)) \in Nat
      /\ Total(i, o, side, q) \in Nat
  BY <1>1, TradeType
<1>3. balance' \in [Accounts -> Nat]
  <2>1. u \in Accounts /\ i \in Accounts /\ u # i
    BY AccountAssumption DEF Accounts
  <2> QED  BY <1>2, <2>1, TransferType DEF TypeOK, Execute
<1>4. inventory' \in [Instances -> Inventories]
  BY <1>2 DEF TypeOK, Execute
<1>5. position' \in [Instances -> [Users -> [Outcomes -> Nat]]]
  <2>1. q \in Nat
    BY GridAssumption
  <2>2. side = "sell" => position[i][u][o] >= q
    BY <1>1 DEF MayTrade
  <2>3. Owned(u, i, o, side, q) \in [Outcomes -> Nat]
    BY <2>1, <2>2 DEF TypeOK, Owned, Shifted, Sides
  <2> QED  BY <2>3 DEF TypeOK, Execute
<1>6. fees' \in [Instances -> Nat]
  BY <1>2 DEF TypeOK, Execute
<1>7. version' \in [Instances -> Nat] /\ outbox' \in [Instances -> Seq(Nat)]
  BY PublishType DEF Execute
<1> QED  BY <1>3, <1>4, <1>5, <1>6, <1>7 DEF TypeOK, Execute

\* The worker's close and settle transactions keep the types.
LEMMA CloseType ==
    ASSUME TypeOK, CloseDue
    PROVE  TypeOK'
<1>1. state' \in [Instances -> States]
  BY DEF TypeOK, CloseDue, States
<1>2. version' \in [Instances -> Nat] /\ outbox' \in [Instances -> Seq(Nat)]
  BY DEF TypeOK, CloseDue
<1> QED  BY <1>1, <1>2 DEF TypeOK, CloseDue

\* Every settlement transaction keeps the types, the release included.
LEMMA SettleType ==
    ASSUME TypeOK, NEW i \in Instances, SettleBatch(i)
    PROVE  TypeOK'
<1> DEFINE res == IF Finalizable(i) THEN Verdict(i) ELSE result[i]
           first == IF Finalizable(i) THEN <<version[i] + 1>> ELSE <<>>
           after == version[i] + Len(first)
<1>1. PICK batch \in Batches(i) :
        LET credit == [u \in batch |-> Credit(i, u, res)]
            paid == Paid(i, credit)
            last == batch = Outstanding(i)
        IN  /\ credit \in [batch -> Nat]
            /\ paid \in [Accounts -> Nat]
            /\ last => paid[i] >= fees[i]
            /\ balance' = IF last THEN Released(i, paid) ELSE paid
            /\ claim' = [claim EXCEPT ![i] =
                            [u \in Users |-> IF u \in batch THEN credit[u] ELSE @[u]]]
            /\ state' = [state EXCEPT ![i] =
                            IF ~last THEN "resolving"
                            ELSE IF res = Void THEN "voided" ELSE "resolved"]
            /\ version' = [version EXCEPT ![i] = IF last THEN after + 1 ELSE after]
            /\ outbox' = [outbox EXCEPT ![i] =
                             @ \o first \o (IF last THEN <<after + 1>> ELSE <<>>)]
  BY DEF SettleBatch
<1> DEFINE credit == [u \in batch |-> Credit(i, u, res)]
           paid == Paid(i, credit)
           last == batch = Outstanding(i)
<1>2. balance' \in [Accounts -> Nat]
  <2> HIDE DEF credit, paid
  <2>1. paid \in [Accounts -> Nat] /\ fees[i] \in Nat
    BY <1>1 DEF paid, credit, TypeOK
  <2>2. CASE last
    BY <1>1, <2>1, <2>2, ReleasedType DEF paid, credit
  <2>3. CASE ~last
    BY <1>1, <2>1, <2>3 DEF paid, credit
  <2> QED  BY <2>2, <2>3
<1>3. claim' \in [Instances -> [Users -> Nat \cup {Unclaimed}]]
  <2> HIDE DEF credit
  <2>1. credit \in [batch -> Nat]
    BY <1>1 DEF credit
  <2>2. claim' = [claim EXCEPT ![i] =
                     [u \in Users |-> IF u \in batch THEN credit[u] ELSE @[u]]]
    BY <1>1 DEF credit
  <2> QED  BY <2>1, <2>2 DEF TypeOK
<1>4. state' \in [Instances -> States]
  <2>1. PICK s \in States : state' = [state EXCEPT ![i] = s]
    BY <1>1 DEF States
  <2> QED  BY <2>1 DEF TypeOK
<1>5. version' \in [Instances -> Nat] /\ outbox' \in [Instances -> Seq(Nat)]
  <2>1. first \in Seq(Nat) /\ after \in Nat
    BY DEF TypeOK
  <2> HIDE DEF first, after
  <2> DEFINE n == IF last THEN after + 1 ELSE after
             s == IF last THEN <<after + 1>> ELSE <<>>
  <2>2. /\ version' = [version EXCEPT ![i] = n]
        /\ outbox' = [outbox EXCEPT ![i] = @ \o first \o s]
    BY <1>1 DEF first, after
  <2>3. n \in Nat /\ s \in Seq(Nat)
    BY <2>1
  <2> HIDE DEF n, s
  <2>4. outbox[i] \o first \o s \in Seq(Nat)
    BY <2>1, <2>3 DEF TypeOK
  <2> QED  BY <2>2, <2>3, <2>4 DEF TypeOK
<1>6. result' \in [Instances -> Results]
  <2>1. res \in Results
    BY VerdictType DEF TypeOK
  <2>2. result' = [result EXCEPT ![i] = res]
    BY DEF SettleBatch
  <2> QED  BY <2>1, <2>2 DEF TypeOK
<1>7. UNCHANGED <<terms, now, suspended, inventory, position, fees, evidence>>
  BY DEF SettleBatch
<1> HIDE DEF res, first, after, credit, paid, last
<1> QED  BY <1>2, <1>3, <1>4, <1>5, <1>6, <1>7 DEF TypeOK

\* Suspending, recording evidence and the passing of time keep the types.
LEMMA SuspendType ==
    ASSUME TypeOK, NEW i \in Instances, NEW flag \in BOOLEAN, Suspend(i, flag)
    PROVE  TypeOK'
<1>1. version' \in [Instances -> Nat] /\ outbox' \in [Instances -> Seq(Nat)]
  BY PublishType DEF Suspend
<1>2. suspended' \in [Instances -> BOOLEAN]
  BY DEF TypeOK, Suspend
<1> QED  BY <1>1, <1>2 DEF TypeOK, Suspend

\* Recording an evidence row keeps the types.
LEMMA EvidenceType ==
    ASSUME TypeOK, NEW i \in Instances, NEW r \in Revisions, NEW res \in Results,
           AddEvidence(i, r, res)
    PROVE  TypeOK'
<1>1. version' \in [Instances -> Nat] /\ outbox' \in [Instances -> Seq(Nat)]
  BY PublishType DEF AddEvidence
<1>2. evidence' \in [Instances -> SUBSET Evidence]
  BY DEF TypeOK, AddEvidence, Evidence
<1> QED  BY <1>1, <1>2 DEF TypeOK, AddEvidence

\* Each of the three ways to record evidence keeps the types.
LEMMA ReportingType ==
    ASSUME TypeOK, Reporting
    PROVE  TypeOK'
<1>1. \A o \in Outcomes : {o, Void, NoResult} \subseteq Results
  BY DEF Results
<1>2. 0 \in Revisions
  BY AccountAssumption
<1>3. PICK i \in Instances, r \in Revisions, res \in Results : AddEvidence(i, r, res)
  BY <1>1, <1>2 DEF Reporting, RecordEvidence, RecordCreatorResolution,
                    RecordResolverEvidence
<1> QED  BY <1>3, EvidenceType

\* Every step keeps the types.
LEMMA TypeStep == TypeOK /\ [Next]_vars => TypeOK'
<1> SUFFICES ASSUME TypeOK, [Next]_vars PROVE TypeOK'
  OBVIOUS
<1>1. CASE Trading
  BY <1>1, ExecuteType DEF Trading
<1>2. CASE Administration
  BY <1>2, CreateType, SuspendType DEF Administration
<1>3. CASE CloseDue
  BY <1>3, CloseType
<1>4. CASE Reporting
  BY <1>4, ReportingType
<1>5. CASE \E i \in Instances : SettleBatch(i)
  BY <1>5, SettleType
<1>6. CASE Advance
  BY <1>6 DEF TypeOK, Advance
<1>7. CASE UNCHANGED vars
  BY <1>7 DEF TypeOK, vars
<1> QED  BY <1>1, <1>2, <1>3, <1>4, <1>5, <1>6, <1>7 DEF Next

\* The initial state is well typed.
LEMMA TypeInit == Init => TypeOK
<1> SUFFICES ASSUME Init PROVE TypeOK
  OBVIOUS
<1>1. Empty \in Inventories /\ Empty \in [Outcomes -> Nat]
  BY GridAssumption DEF Empty, Inventories
<1>2. balance \in [Accounts -> Nat]
  BY AccountAssumption DEF Init, Accounts
<1>3. /\ terms \in [Instances -> Terms]
      /\ now \in Nat
      /\ state \in [Instances -> States]
      /\ suspended \in [Instances -> BOOLEAN]
  BY DEF Init, States
<1>4. /\ version \in [Instances -> Nat]
      /\ result \in [Instances -> Results]
      /\ fees \in [Instances -> Nat]
      /\ evidence \in [Instances -> SUBSET Evidence]
      /\ outbox \in [Instances -> Seq(Nat)]
  BY DEF Init, Results
<1>5. /\ inventory \in [Instances -> Inventories]
      /\ position \in [Instances -> [Users -> [Outcomes -> Nat]]]
      /\ claim \in [Instances -> [Users -> Nat \cup {Unclaimed}]]
  BY <1>1 DEF Init
<1> QED  BY <1>2, <1>3, <1>4, <1>5 DEF TypeOK

(***************************************************************************)
(* Balances, holdings, fees, claims and versions never leave their types:  *)
(* in particular no committed transaction makes a balance, a holding or a  *)
(* fee pot negative, and a result is one the market can have.              *)
(***************************************************************************)
THEOREM TypeCorrect == Spec => []TypeOK
BY TypeInit, TypeStep, PTL DEF Spec

-----------------------------------------------------------------------------
(***************************************************************************)
(* Solvency.  ReserveSolvent is not inductive: what a trade brings in is   *)
(* the change of the cost function, not of a payout.  The strengthening    *)
(* compares the reserve without its fees with the cost of the inventory,   *)
(* which is never below a payout; the microcredit funding adds is kept.    *)
(***************************************************************************)
CostCovered(i) == Scale * (balance[i] - fees[i] - 1) >= Cost[inventory[i]]

Untouched(i) ==
    balance[i] = 0 /\ fees[i] = 0 /\ inventory[i] = Empty /\ result[i] = NoResult

SolvencyInv ==
    \A i \in Instances :
        /\ state[i] = "absent" => Untouched(i)
        /\ state[i] \in {"open", "closed"} => CostCovered(i)

\* What covers a cost and what covers its increase together cover the new cost.
LEMMA CoverMore ==
    ASSUME NEW m \in Int, NEW n \in Int, NEW cost \in Int, NEW next \in Int,
           Scale * m >= cost, Scale * n >= next - cost
    PROVE  Scale * (m + n) >= next
<1>1. Scale * (m + n) = Scale * m + Scale * n /\ Scale * m \in Int /\ Scale * n \in Int
  BY ScaleAssumption
<1> QED  BY <1>1

\* What covers a cost still covers a lower one when at most the difference is taken out.
LEMMA CoverLess ==
    ASSUME NEW m \in Int, NEW n \in Int, NEW cost \in Int, NEW next \in Int,
           Scale * m >= cost, Scale * n <= cost - next
    PROVE  Scale * (m - n) >= next
<1>1. Scale * (m - n) = Scale * m - Scale * n /\ Scale * m \in Int /\ Scale * n \in Int
  BY ScaleAssumption
<1> QED  BY <1>1

\* The reserve after an admitted trade, and after a purchase or a sale was paid
Remaining(i, o, side, q) ==
    balance[i] + (IF side = "buy" THEN Total(i, o, side, q) ELSE -Total(i, o, side, q))

\* A trade that passes the trader's checks leaves the reserve above the new cost: the
\* amount is rounded in its favour, and the whole fee stays in it.
LEMMA TradeCovers ==
    ASSUME TypeOK, NEW u \in Users, NEW i \in Instances, NEW o \in Outcomes,
           NEW side \in Sides, NEW q \in Lots, MayTrade(u, i, o, side, q),
           CostCovered(i)
    PROVE  Scale * (Remaining(i, o, side, q) - (fees[i] + Fee(i, Engine(i, o, side, q))) - 1)
             >= Cost[Shifted(inventory[i], o, side, q)]
<1> DEFINE amount == Engine(i, o, side, q)
           fee == Fee(i, amount)
           next == Shifted(inventory[i], o, side, q)
           spare == balance[i] - fees[i] - 1
<1>1. /\ inventory[i] \in Inventories /\ next \in Inventories
      /\ amount \in Nat /\ fee \in Nat
      /\ Total(i, o, side, q) = IF side = "buy" THEN amount + fee ELSE amount - fee
  BY TradeType
<1>2. Cost[inventory[i]] \in Nat /\ Cost[next] \in Nat
  BY <1>1, CostAssumption
<1>3. spare \in Int /\ balance[i] \in Nat /\ fees[i] \in Nat
  BY DEF TypeOK, Accounts
<1>4. Scale * spare >= Cost[inventory[i]]
  BY DEF CostCovered
<1>5. CASE side = "buy"
  <2>1. Scale * amount >= Cost[next] - Cost[inventory[i]]
    BY <1>1, <1>5, AmountRounds DEF Engine
  <2>2. Scale * (spare + amount) >= Cost[next]
    <3> HIDE DEF amount, spare, next
    <3> QED  BY <1>1, <1>2, <1>3, <1>4, <2>1, CoverMore
  <2>3. Remaining(i, o, side, q) - (fees[i] + fee) - 1 = spare + amount
    <3> HIDE DEF amount, fee
    <3> QED  BY <1>1, <1>3, <1>5 DEF Remaining
  <2> QED  BY <2>2, <2>3
<1>6. CASE side = "sell"
  <2>1. Scale * amount <= Cost[inventory[i]] - Cost[next]
    BY <1>1, <1>6, AmountRounds DEF Engine
  <2>2. Scale * (spare - amount) >= Cost[next]
    <3> HIDE DEF amount, spare, next
    <3> QED  BY <1>1, <1>2, <1>3, <1>4, <2>1, CoverLess
  <2>3. Remaining(i, o, side, q) - (fees[i] + fee) - 1 = spare - amount
    <3> HIDE DEF amount, fee
    <3> QED  BY <1>1, <1>3, <1>6 DEF Remaining
  <2> QED  BY <2>2, <2>3
<1> QED  BY <1>5, <1>6 DEF Sides

\* A reserve above the cost of its inventory, fees aside, is above every payout.
LEMMA CostCoversPayout ==
    ASSUME NEW inv \in Inventories, NEW o \in Outcomes, NEW spare \in Int,
           Scale * spare >= Cost[inv]
    PROVE  spare >= PAYOUT * inv[o] /\ PAYOUT * inv[o] \in Int
<1>1. inv[o] \in Nat
  BY GridAssumption DEF Inventories
<1>2. PAYOUT * inv[o] \in Int
  BY <1>1 DEF PAYOUT
<1>3. Cost[inv] \in Nat /\ Cost[inv] >= Scale * (PAYOUT * inv[o])
  BY CostAssumption
<1> HIDE DEF PAYOUT
<1>4. Scale * (PAYOUT * inv[o]) \in Int /\ Scale * spare \in Int
  BY <1>2, ScaleAssumption
<1>5. Scale * spare >= Scale * (PAYOUT * inv[o])
  BY <1>3, <1>4
<1> QED  BY <1>2, <1>5, Unscale

\* Publication funds a reserve above the cost of the empty inventory.
LEMMA CreateSolvent ==
    ASSUME TypeOK, SolvencyInv, NEW i \in Instances, CreateInstance(i)
    PROVE  SolvencyInv'
<1>1. Treasury \in Accounts /\ Instances \subseteq Accounts /\ Treasury \notin Instances
  BY AccountAssumption DEF Accounts
<1>2. balance'[i] = Funding /\ fees'[i] = 0 /\ inventory'[i] = Empty /\ state'[i] = "open"
  BY <1>1, FundingType DEF TypeOK, SolvencyInv, Untouched, CreateInstance, Transfer, Moved
<1>3. CostCovered(i)'
  BY <1>2, FundingType DEF CostCovered
<1>4. ASSUME NEW j \in Instances, j # i
      PROVE  /\ state'[j] = state[j] /\ balance'[j] = balance[j] /\ fees'[j] = fees[j]
             /\ inventory'[j] = inventory[j] /\ result'[j] = result[j]
  BY <1>1, <1>4 DEF TypeOK, CreateInstance, Transfer, Moved
<1> QED  BY <1>2, <1>3, <1>4 DEF SolvencyInv, Untouched, CostCovered

\* A trade keeps its own market covered and touches no other reserve.
LEMMA ExecuteSolvent ==
    ASSUME TypeOK, SolvencyInv, NEW u \in Users, NEW i \in Instances, NEW o \in Outcomes,
           NEW side \in Sides, NEW q \in Lots, Execute(u, i, o, side, q)
    PROVE  SolvencyInv'
<1>1. MayTrade(u, i, o, side, q) /\ state[i] = "open"
  BY DEF Execute, MayTrade, Tradable
<1>2. Total(i, o, side, q) \in Nat
  BY <1>1, TradeType
<1>3. u \in Accounts /\ Instances \subseteq Accounts /\ u \notin Instances
  BY AccountAssumption DEF Accounts
<1>4. balance'[i] = Remaining(i, o, side, q)
  BY <1>2, <1>3 DEF TypeOK, Execute, Transfer, Moved, Remaining
<1>5. /\ fees'[i] = fees[i] + Fee(i, Engine(i, o, side, q))
      /\ inventory'[i] = Shifted(inventory[i], o, side, q)
      /\ state' = state /\ result' = result
  BY DEF TypeOK, Execute
<1>6. CostCovered(i)'
  BY <1>1, <1>4, <1>5, TradeCovers DEF SolvencyInv, CostCovered
<1>7. ASSUME NEW j \in Instances, j # i
      PROVE  /\ balance'[j] = balance[j] /\ fees'[j] = fees[j]
             /\ inventory'[j] = inventory[j]
  BY <1>3, <1>7 DEF TypeOK, Execute, Transfer, Moved
<1> QED  BY <1>1, <1>5, <1>6, <1>7 DEF SolvencyInv, Untouched, CostCovered

\* A settlement takes its market out of trading and touches no other reserve.
LEMMA SettleSolvent ==
    ASSUME TypeOK, SolvencyInv, NEW i \in Instances, SettleBatch(i)
    PROVE  SolvencyInv'
<1> DEFINE res == IF Finalizable(i) THEN Verdict(i) ELSE result[i]
<1>1. PICK batch \in Batches(i) :
        LET paid == Paid(i, [u \in batch |-> Credit(i, u, res)])
            last == batch = Outstanding(i)
        IN  /\ balance' = IF last THEN Released(i, paid) ELSE paid
            /\ state' = [state EXCEPT ![i] =
                            IF ~last THEN "resolving"
                            ELSE IF res = Void THEN "voided" ELSE "resolved"]
  BY DEF SettleBatch
<1>2. fees' = fees /\ inventory' = inventory /\ result' = [result EXCEPT ![i] = res]
  BY DEF SettleBatch
<1>3. state'[i] \in {"resolving", "voided", "resolved"}
  BY <1>1 DEF TypeOK
<1>4. ASSUME NEW j \in Instances, j # i
      PROVE  state'[j] = state[j] /\ result'[j] = result[j] /\ balance'[j] = balance[j]
  <2> DEFINE credit == [u \in batch |-> Credit(i, u, res)]
             paid == Paid(i, credit)
  <2>1. state'[j] = state[j] /\ result'[j] = result[j]
    BY <1>1, <1>2, <1>4 DEF TypeOK
  <2>2. DOMAIN credit \subseteq Users
    BY DEF Batches, Outstanding
  <2>3. j \in Accounts /\ j \notin Users /\ j # Treasury /\ j # terms[i].creator
    BY AccountAssumption DEF TypeOK, Accounts
  <2>4. paid[j] = balance[j]
    <3> HIDE DEF credit
    <3> QED  BY <1>4, <2>2, <2>3 DEF Paid
  <2>5. Released(i, paid)[j] = paid[j]
    <3> HIDE DEF paid
    <3> QED  BY <1>4, <2>3 DEF Released
  <2> QED  BY <1>1, <2>1, <2>4, <2>5
<1> QED  BY <1>2, <1>3, <1>4 DEF SolvencyInv, Untouched, CostCovered

\* Every step keeps the strengthening.
LEMMA SolvencyStep == TypeOK /\ SolvencyInv /\ [Next]_vars => SolvencyInv'
<1> SUFFICES ASSUME TypeOK, SolvencyInv, [Next]_vars PROVE SolvencyInv'
  OBVIOUS
<1>1. CASE Trading
  BY <1>1, ExecuteSolvent DEF Trading
<1>2. CASE \E i \in Instances : CreateInstance(i)
  BY <1>2, CreateSolvent
<1>3. CASE CloseDue
  <2>1. \A i \in Instances : \/ state'[i] = state[i]
                             \/ state[i] = "open" /\ state'[i] = "closed"
    BY <1>3 DEF CloseDue, Due, TypeOK
  <2>2. UNCHANGED <<balance, fees, inventory, result>>
    BY <1>3 DEF CloseDue
  <2> QED  BY <2>1, <2>2 DEF SolvencyInv, Untouched, CostCovered
<1>4. CASE \E i \in Instances : SettleBatch(i)
  BY <1>4, SettleSolvent
<1>5. CASE UNCHANGED <<state, balance, fees, inventory, result>>
  BY <1>5 DEF SolvencyInv, Untouched, CostCovered
<1>6. Reporting => UNCHANGED <<state, balance, fees, inventory, result>>
  BY DEF Reporting, RecordEvidence, RecordCreatorResolution, RecordResolverEvidence,
         AddEvidence
<1>7. Advance \/ UNCHANGED vars \/ (\E i \in Instances, b \in BOOLEAN : Suspend(i, b))
        => UNCHANGED <<state, balance, fees, inventory, result>>
  BY DEF Advance, vars, Suspend
<1> QED  BY <1>1, <1>2, <1>3, <1>4, <1>5, <1>6, <1>7 DEF Next, Administration

\* Before publication every reserve is untouched.
LEMMA SolvencyInit == Init => SolvencyInv
<1> SUFFICES ASSUME Init, NEW i \in Instances
             PROVE  state[i] = "absent" /\ Untouched(i)
  BY DEF SolvencyInv
<1>1. i \in Accounts
  BY DEF Accounts
<1> QED  BY <1>1 DEF Init, Untouched

\* The strengthening holds in every reachable state.
LEMMA SolvencyInvariant == Spec => [](TypeOK /\ SolvencyInv)
BY TypeInit, TypeStep, SolvencyInit, SolvencyStep, PTL DEF Spec

(***************************************************************************)
(* An open or closed market's reserve pays any outcome without its fee pot,*)
(* at every liquidity, after any trades at any fee policy.                 *)
(***************************************************************************)
THEOREM Solvency == Spec => []ReserveSolvent
<1>1. TypeOK /\ SolvencyInv => ReserveSolvent
  <2> SUFFICES ASSUME TypeOK, SolvencyInv, NEW i \in Instances, NEW o \in Outcomes,
                      state[i] \in {"open", "closed"}
               PROVE  balance[i] - fees[i] >= PAYOUT * inventory[i][o]
    BY DEF ReserveSolvent
  <2>1. inventory[i] \in Inventories /\ balance[i] \in Nat /\ fees[i] \in Nat
    BY DEF TypeOK, Accounts
  <2>2. Scale * (balance[i] - fees[i] - 1) >= Cost[inventory[i]]
    BY DEF SolvencyInv, CostCovered
  <2>3. /\ balance[i] - fees[i] - 1 >= PAYOUT * inventory[i][o]
        /\ PAYOUT * inventory[i][o] \in Int
    <3>1. balance[i] - fees[i] - 1 \in Int
      BY <2>1
    <3> QED  BY <2>1, <2>2, <3>1, CostCoversPayout
  <2> QED  BY <2>1, <2>3
<1> QED  BY <1>1, SolvencyInvariant, PTL

(***************************************************************************)
(* execute_once's coverage check never refuses what its other checks admit:*)
(* traders never see "Trade would violate the market's reserve coverage".  *)
(***************************************************************************)
THEOREM Coverage == Spec => []CoverageNeverRefuses
<1>1. TypeOK /\ SolvencyInv => CoverageNeverRefuses
  <2> SUFFICES ASSUME TypeOK, SolvencyInv, NEW u \in Users, NEW i \in Instances,
                      NEW o \in Outcomes, NEW side \in Sides, NEW q \in Lots,
                      MayTrade(u, i, o, side, q), NEW p \in Outcomes
               PROVE  Remaining(i, o, side, q)
                        >= PAYOUT * Shifted(inventory[i], o, side, q)[p]
    BY DEF CoverageNeverRefuses, Covered, Remaining
  <2> DEFINE next == Shifted(inventory[i], o, side, q)
             fee == Fee(i, Engine(i, o, side, q))
             spare == Remaining(i, o, side, q) - (fees[i] + fee) - 1
  <2>1. CostCovered(i)
    BY DEF SolvencyInv, MayTrade, Tradable
  <2>2. Scale * spare >= Cost[next]
    BY <2>1, TradeCovers
  <2>3. next \in Inventories /\ fee \in Nat /\ Total(i, o, side, q) \in Nat
    BY TradeType
  <2>4. fees[i] \in Nat /\ Remaining(i, o, side, q) \in Int
    BY <2>3 DEF TypeOK, Accounts, Remaining
  <2>5. spare >= PAYOUT * next[p] /\ PAYOUT * next[p] \in Int
    <3> HIDE DEF next, fee
    <3>1. spare \in Int
      BY <2>3, <2>4
    <3> HIDE DEF spare
    <3> QED  BY <2>2, <2>3, <3>1, CostCoversPayout
  <2> HIDE DEF next, fee
  <2> QED  BY <2>3, <2>4, <2>5 DEF next
<1> QED  BY <1>1, SolvencyInvariant, PTL

(***************************************************************************)
(* No sequence of trades that sells everything back leaves the reserve,    *)
(* fees aside, below the funding: rounding cannot be traded for profit.    *)
(***************************************************************************)
THEOREM RoundTrips == Spec => []RoundTripsNeverProfit
<1>1. TypeOK /\ SolvencyInv => RoundTripsNeverProfit
  <2> SUFFICES ASSUME TypeOK, SolvencyInv, NEW i \in Instances,
                      state[i] = "open", inventory[i] = Empty
               PROVE  balance[i] - fees[i] >= Funding
    BY DEF RoundTripsNeverProfit
  <2>1. balance[i] - fees[i] - 1 \in Int /\ balance[i] \in Nat /\ fees[i] \in Nat
    BY DEF TypeOK, Accounts
  <2>2. Cost[Empty] \in Int /\ CeilScale(Cost[Empty]) \in Int
    BY CostAssumption, GridAssumption, Rounding DEF Empty, Inventories
  <2>3. Scale * (balance[i] - fees[i] - 1) >= Cost[Empty]
    BY DEF SolvencyInv, CostCovered
  <2>4. balance[i] - fees[i] - 1 >= CeilScale(Cost[Empty])
    BY <2>1, <2>2, <2>3, CeilLeast
  <2> QED  BY <2>1, <2>2, <2>4 DEF Funding
<1> QED  BY <1>1, SolvencyInvariant, PTL

-----------------------------------------------------------------------------
(***************************************************************************)
(* Finality.  A result exists only once trading and reporting are over,    *)
(* and an instance never has two evidence rows of one revision.            *)
(***************************************************************************)
FinalInv ==
    \A i \in Instances :
        /\ result[i] # NoResult => state[i] \in {"resolving", "resolved", "voided"}
        /\ \A row, other \in evidence[i] : row.revision = other.revision => row = other

\* A settlement fixes an absent result and leaves a fixed one alone.
LEMMA SettleResult ==
    ASSUME TypeOK, FinalInv, NEW i \in Instances, SettleBatch(i)
    PROVE  /\ state'[i] \in {"resolving", "resolved", "voided"}
           /\ \A j \in Instances : j # i => state'[j] = state[j] /\ result'[j] = result[j]
           /\ \/ state[i] = "resolving" /\ result'[i] = result[i]
              \/ Finalizable(i) /\ result[i] = NoResult /\ result'[i] = Verdict(i)
           /\ UNCHANGED <<now, inventory, fees, evidence>>
<1>1. /\ \E s \in {"resolving", "resolved", "voided"} : state' = [state EXCEPT ![i] = s]
      /\ result' = [result EXCEPT ![i] = IF Finalizable(i) THEN Verdict(i) ELSE @]
      /\ Finalizable(i) \/ state[i] = "resolving"
      /\ UNCHANGED <<now, inventory, fees, evidence>>
  BY DEF SettleBatch
<1>2. Finalizable(i) => state[i] = "closed" /\ result[i] = NoResult
  BY DEF Finalizable, FinalInv
<1> QED  BY <1>1, <1>2 DEF TypeOK

\* A row is added only while there is no result, and never under a revision in use.
LEMMA ReportingResult ==
    ASSUME TypeOK, FinalInv, Reporting
    PROVE  /\ \E i \in Instances, row \in Evidence :
                /\ result[i] = NoResult
                /\ \A other \in evidence[i] : other.revision # row.revision
                /\ evidence' = [evidence EXCEPT ![i] = @ \cup {row}]
           /\ UNCHANGED <<now, state, inventory, fees, result, claim>>
<1>1. \A o \in Outcomes : {o, Void, NoResult} \subseteq Results
  BY DEF Results
<1>2. 0 \in Revisions
  BY AccountAssumption
<1>3. PICK i \in Instances, r \in Revisions, res \in Results :
        /\ state[i] \in {"open", "closed"}
        /\ \A other \in evidence[i] : other.revision # r
        /\ AddEvidence(i, r, res)
  BY <1>1, <1>2 DEF Reporting, RecordEvidence, RecordCreatorResolution,
                    RecordResolverEvidence
<1>4. result[i] = NoResult
  BY <1>3 DEF FinalInv
<1>5. [revision |-> r, result |-> res] \in Evidence
  BY DEF Evidence
<1> QED  BY <1>3, <1>4, <1>5 DEF AddEvidence

\* What the steps that neither settle nor report leave alone.
LEMMA OtherResult ==
    ASSUME TypeOK, [Next]_vars, ~Reporting, ~\E i \in Instances : SettleBatch(i)
    PROVE  /\ UNCHANGED <<result, evidence, claim>>
           /\ now' >= now
           /\ \A i \in Instances : state[i] \notin {"absent", "open"} =>
                 /\ state'[i] = state[i]
                 /\ inventory'[i] = inventory[i] /\ fees'[i] = fees[i]
<1>1. CASE Trading
  <2>1. PICK u \in Users, i \in Instances, o \in Outcomes, side \in Sides, q \in Lots :
          Execute(u, i, o, side, q)
    BY <1>1 DEF Trading
  <2>2. state[i] = "open"
    BY <2>1 DEF Execute, MayTrade, Tradable
  <2> QED  BY <2>1, <2>2 DEF Execute, TypeOK
<1>2. CASE \E i \in Instances : CreateInstance(i)
  BY <1>2 DEF CreateInstance, TypeOK
<1>3. CASE \E i \in Instances, b \in BOOLEAN : Suspend(i, b)
  BY <1>3 DEF Suspend, TypeOK
<1>4. CASE CloseDue
  <2>1. \A i \in Instances : state[i] = "open" \/ state'[i] = state[i]
    BY <1>4 DEF CloseDue, Due, TypeOK
  <2> QED  BY <1>4, <2>1 DEF CloseDue, TypeOK
<1>5. CASE Advance
  BY <1>5 DEF Advance, TypeOK
<1>6. CASE UNCHANGED vars
  BY <1>6 DEF vars, TypeOK
<1> QED  BY <1>1, <1>2, <1>3, <1>4, <1>5, <1>6 DEF Next, Administration

\* Every step keeps results and claims consistent with the state of the market.
LEMMA FinalStep == TypeOK /\ FinalInv /\ [Next]_vars => FinalInv'
<1> SUFFICES ASSUME TypeOK, FinalInv, [Next]_vars PROVE FinalInv'
  OBVIOUS
<1>1. CASE \E i \in Instances : SettleBatch(i)
  <2>1. PICK i \in Instances : SettleBatch(i)
    BY <1>1
  <2> QED  BY <2>1, SettleResult DEF FinalInv
<1>2. CASE Reporting
  <2>1. PICK i \in Instances, row \in Evidence :
          /\ \A other \in evidence[i] : other.revision # row.revision
          /\ evidence' = [evidence EXCEPT ![i] = @ \cup {row}]
          /\ UNCHANGED <<state, result>>
    BY <1>2, ReportingResult
  <2>2. evidence'[i] = evidence[i] \cup {row}
    BY <2>1 DEF TypeOK
  <2>3. \A j \in Instances : j # i => evidence'[j] = evidence[j]
    BY <2>1 DEF TypeOK
  <2> QED  BY <2>1, <2>2, <2>3 DEF FinalInv
<1>3. CASE ~Reporting /\ ~\E i \in Instances : SettleBatch(i)
  <2>1. /\ UNCHANGED <<result, evidence>>
        /\ \A i \in Instances : state[i] \notin {"absent", "open"} => state'[i] = state[i]
    BY <1>3, OtherResult
  <2> QED  BY <2>1 DEF FinalInv
<1> QED  BY <1>1, <1>2, <1>3

\* Initially there is no result and no claim.
LEMMA FinalInit == Init => FinalInv
BY DEF Init, FinalInv

\* Results and claims are consistent with the state in every reachable state.
LEMMA FinalInvariant == Spec => [](TypeOK /\ FinalInv)
BY TypeInit, TypeStep, FinalInit, FinalStep, PTL DEF Spec

(***************************************************************************)
(* A result and a paid claim never change, whatever batches, evidence or   *)
(* clock jumps follow, and nothing trades once a market has closed.        *)
(***************************************************************************)
THEOREM Finality == Spec => SettlementFinal
<1>1. TypeOK /\ FinalInv /\ [Next]_vars
        => [\A i \in Instances :
              /\ result[i] # NoResult => result'[i] = result[i]
              /\ state[i] \notin {"absent", "open"} =>
                    /\ inventory'[i] = inventory[i] /\ fees'[i] = fees[i]
              /\ \A u \in Users : claim[i][u] # Unclaimed => claim'[i][u] = claim[i][u]
           ]_vars
  <2> SUFFICES ASSUME TypeOK, FinalInv, Next, NEW j \in Instances
               PROVE  /\ result[j] # NoResult => result'[j] = result[j]
                      /\ state[j] \notin {"absent", "open"} =>
                            /\ inventory'[j] = inventory[j] /\ fees'[j] = fees[j]
                      /\ \A u \in Users :
                            claim[j][u] # Unclaimed => claim'[j][u] = claim[j][u]
    OBVIOUS
  <2>1. CASE \E i \in Instances : SettleBatch(i)
    <3>1. PICK i \in Instances : SettleBatch(i)
      BY <2>1
    <3>2. \A u \in Users : claim[j][u] # Unclaimed => claim'[j][u] = claim[j][u]
      <4> DEFINE res == IF Finalizable(i) THEN Verdict(i) ELSE result[i]
      <4>1. PICK batch \in Batches(i) :
              claim' = [claim EXCEPT ![i] =
                           [u \in Users |-> IF u \in batch
                              THEN [v \in batch |-> Credit(i, v, res)][u] ELSE @[u]]]
        BY <3>1 DEF SettleBatch
      <4>2. \A u \in batch : claim[i][u] = Unclaimed
        BY DEF Batches, Outstanding
      <4> QED  BY <4>1, <4>2 DEF TypeOK
    <3>3. /\ result[j] # NoResult => result'[j] = result[j]
          /\ UNCHANGED <<inventory, fees>>
      BY <3>1, SettleResult
    <3> QED  BY <3>2, <3>3
  <2>2. CASE Reporting
    BY <2>2, ReportingResult
  <2>3. CASE ~Reporting /\ ~\E i \in Instances : SettleBatch(i)
    BY <2>3, OtherResult
  <2> QED  BY <2>1, <2>2, <2>3
<1> QED  BY <1>1, FinalInvariant, PTL DEF Spec, SettlementFinal

-----------------------------------------------------------------------------
(***************************************************************************)
(* Market implements Lifecycle.  A settlement under way already has its    *)
(* verdict: SettleBatch that does not finalize keeps a result there is.    *)
(***************************************************************************)
PhaseInv == \A i \in Instances : state[i] = "resolving" => result[i] # NoResult

\* A settlement step is a step of the abstract market, and leaves it with a verdict.
LEMMA SettlePhase ==
    ASSUME TypeOK, FinalInv, PhaseInv, NEW i \in Instances, SettleBatch(i)
    PROVE  Life!Settles(i) /\ PhaseInv'
<1> DEFINE res == IF Finalizable(i) THEN Verdict(i) ELSE result[i]
<1>1. /\ result' = [result EXCEPT ![i] = res]
      /\ Finalizable(i) \/ state[i] = "resolving"
      /\ \E s \in {"resolving", Life!Final(res)} : state' = [state EXCEPT ![i] = s]
  BY DEF SettleBatch, Life!Final
<1>2. Finalizable(i) => state[i] = "closed" /\ res \in Results \ {NoResult}
  <2>1. evidence[i] \subseteq Evidence
    BY DEF TypeOK
  <2> QED  BY <2>1, VerdictType DEF Finalizable
<1>3. ~Finalizable(i) => /\ state[i] = "resolving" /\ res = result[i]
                         /\ res \in Results \ {NoResult}
  BY <1>1 DEF PhaseInv, TypeOK
<1> HIDE DEF res
<1>4. Life!Settles(i)
  BY <1>1, <1>2, <1>3 DEF Life!Settles
<1>5. PhaseInv'
  BY <1>1, <1>2, <1>3 DEF PhaseInv, TypeOK
<1> QED  BY <1>4, <1>5

\* Each transaction is a step of the abstract market or a stutter.
LEMMA PhaseStep ==
    ASSUME TypeOK, FinalInv, PhaseInv, [Next]_vars
    PROVE  PhaseInv' /\ [Life!LifeNext]_(Life!lifeVars)
<1>1. CASE \E i \in Instances : SettleBatch(i)
  BY <1>1, SettlePhase DEF Life!LifeNext
<1>2. ASSUME NEW i \in Instances, CreateInstance(i)
      PROVE  PhaseInv' /\ Life!Opens(i)
  BY <1>2 DEF CreateInstance, PhaseInv, TypeOK, Life!Opens
<1>3. CASE CloseDue
  <2>1. /\ result' = result /\ state' = [i \in Instances |-> state'[i]]
        /\ \A i \in Instances : state'[i] = state[i] \/ (state[i] = "open" /\ state'[i] = "closed")
    BY <1>3 DEF CloseDue, Due
  <2>2. Life!Closes
    BY <2>1 DEF Life!Closes, Life!Move
  <2>3. PhaseInv'
    BY <2>1 DEF PhaseInv
  <2> QED  BY <2>2, <2>3 DEF Life!LifeNext
<1>4. CASE UNCHANGED <<state, result>>
  BY <1>4 DEF PhaseInv, Life!lifeVars
<1>5. CASE Trading \/ Reporting \/ Advance \/ UNCHANGED vars
  <2>1. UNCHANGED <<state, result>>
    BY <1>5, ReportingResult DEF Trading, Execute, Advance, vars
  <2> QED  BY <1>4, <2>1
<1>6. CASE \E i \in Instances, b \in BOOLEAN : Suspend(i, b)
  BY <1>4, <1>6 DEF Suspend
<1> QED
  BY <1>1, <1>2, <1>3, <1>5, <1>6 DEF Next, Administration, Life!LifeNext

(***************************************************************************)
(* close_due and settle_batch: every market of any instance set goes       *)
(* through its phases once and in order, and its verdict is fixed as it    *)
(* leaves the closed phase, however many batches and processes settle it.  *)
(***************************************************************************)
THEOREM MarketImplementsLifecycle == Spec => ImplementsLifecycle
<1>1. Init => PhaseInv /\ Life!LifeInit
  BY DEF Init, PhaseInv, Life!LifeInit
<1>2. TypeOK /\ FinalInv /\ PhaseInv /\ [Next]_vars
        => PhaseInv' /\ [Life!LifeNext]_(Life!lifeVars)
  BY PhaseStep
<1> QED
  BY <1>1, <1>2, FinalInvariant, PTL DEF Spec, ImplementsLifecycle, Life!LifeSpec

\* A verdict is what the standing row says, or a void past the deadline.
LEMMA VerdictFromEvidence ==
    ASSUME TypeOK, FinalInv, NEW i \in Instances, Finalizable(i)
    PROVE  IF \E row \in evidence[i] : Standing(i, row) /\ row.result # NoResult
           THEN \E row \in evidence[i] : Standing(i, row) /\ row.result = Verdict(i)
           ELSE Verdict(i) = Void /\ now >= EvidenceDeadlineMs[i]
<1>1. evidence[i] \subseteq Evidence
  BY DEF TypeOK
<1>2. CASE \E row \in evidence[i] : Standing(i, row) /\ row.result # NoResult
  <2>1. PICK row \in evidence[i] : Standing(i, row) /\ row.result # NoResult
    BY <1>2
  <2>2. Latest(i) \in evidence[i] /\ Standing(i, Latest(i))
    BY <1>1, <2>1, LatestStands
  <2>3. row.revision \in Int /\ Latest(i).revision \in Int
    BY <1>1, <2>2, RevisionType
  <2>4. row = Latest(i)
    <3>1. row.revision = Latest(i).revision
      BY <2>1, <2>2, <2>3 DEF Standing
    <3> QED  BY <2>1, <2>2, <3>1 DEF FinalInv
  <2>5. Verdict(i) = row.result
    BY <2>1, <2>4 DEF Verdict
  <2> QED  BY <1>2, <2>1, <2>5
<1>3. CASE ~\E row \in evidence[i] : Standing(i, row) /\ row.result # NoResult
  <2>1. ~(evidence[i] # {} /\ Latest(i).result # NoResult)
    BY <1>1, <1>3, LatestStands
  <2>2. Verdict(i) = Void /\ now >= EvidenceDeadlineMs[i]
    BY <2>1 DEF Finalizable, Verdict
  <2> QED  BY <1>3, <2>2
<1> QED  BY <1>2, <1>3

\* No step makes a justified result unjustified.
LEMMA ResultStep ==
    TypeOK /\ FinalInv /\ ResultFromEvidence /\ [Next]_vars => ResultFromEvidence'
<1> SUFFICES ASSUME TypeOK, FinalInv, ResultFromEvidence, [Next]_vars,
                    NEW j \in Instances, result'[j] # NoResult
             PROVE  IF \E row \in evidence'[j] : Standing(j, row)' /\ row.result # NoResult
                    THEN \E row \in evidence'[j] : Standing(j, row)' /\ row.result = result'[j]
                    ELSE result'[j] = Void /\ now' >= EvidenceDeadlineMs[j]
  BY DEF ResultFromEvidence
<1>0. now \in Int /\ EvidenceDeadlineMs[j] \in Int
  BY ScheduleAssumption DEF TypeOK
<1>1. CASE \E i \in Instances : SettleBatch(i)
  <2>1. PICK i \in Instances : SettleBatch(i)
    BY <1>1
  <2>2. evidence' = evidence /\ now' = now
    BY <2>1, SettleResult
  <2>3. CASE result[j] # NoResult
    <3>1. result'[j] = result[j]
      BY <2>1, <2>3, SettleResult
    <3> QED  BY <2>2, <2>3, <3>1 DEF ResultFromEvidence, Standing
  <2>4. CASE result[j] = NoResult
    <3>1. j = i /\ Finalizable(j) /\ result'[j] = Verdict(j)
      BY <2>1, <2>4, SettleResult
    <3> QED  BY <2>2, <3>1, VerdictFromEvidence DEF Standing
  <2> QED  BY <2>3, <2>4
<1>2. CASE Reporting
  <2>1. PICK i \in Instances, row \in Evidence :
          /\ result[i] = NoResult
          /\ evidence' = [evidence EXCEPT ![i] = @ \cup {row}]
          /\ UNCHANGED <<now, result>>
    BY <1>2, ReportingResult
  <2>2. j # i /\ evidence'[j] = evidence[j]
    BY <2>1 DEF TypeOK
  <2> QED  BY <2>1, <2>2 DEF ResultFromEvidence, Standing
<1>3. CASE ~Reporting /\ ~\E i \in Instances : SettleBatch(i)
  <2>1. UNCHANGED <<result, evidence>> /\ now' >= now
    BY <1>3, OtherResult
  <2>2. now' \in Int
    BY TypeStep DEF TypeOK
  <2> QED  BY <1>0, <2>1, <2>2 DEF ResultFromEvidence, Standing
<1> QED  BY <1>1, <1>2, <1>3

(***************************************************************************)
(* The result is what the highest revision says, or void past the deadline,*)
(* in whatever order revisions arrive, however many are recorded, and no   *)
(* evidence recorded after the result was fixed ever disagrees with it.    *)
(***************************************************************************)
THEOREM ResultJustified == Spec => []ResultFromEvidence
<1>1. Init => ResultFromEvidence
  BY DEF Init, ResultFromEvidence
<1> QED  BY <1>1, ResultStep, FinalInvariant, PTL DEF Spec

-----------------------------------------------------------------------------
(***************************************************************************)
(* The outbox.                                                             *)
(***************************************************************************)
Versions(n) == [k \in 1 .. n + 1 |-> k - 1]

OutboxInv ==
    \A i \in Instances :
        /\ state[i] = "absent" => version[i] = 0 /\ outbox[i] = <<>>
        /\ state[i] # "absent" => outbox[i] = Versions(version[i])

\* Appending the next version keeps a gap-free sequence gap free.
LEMMA NextVersion ==
    ASSUME NEW n \in Nat
    PROVE  Append(Versions(n), n + 1) = Versions(n + 1) /\ Versions(n) \in Seq(Nat)
<1>1. Versions(n) \in Seq(Nat) /\ Len(Versions(n)) = n + 1
  BY DEF Versions
<1>2. Append(Versions(n), n + 1) = [k \in 1 .. n + 2 |-> IF k = n + 2 THEN n + 1 ELSE k - 1]
  BY <1>1 DEF Versions
<1> QED  BY <1>1, <1>2 DEF Versions

\* Publish appends exactly the next version.
LEMMA OutboxPublish ==
    ASSUME TypeOK, OutboxInv, NEW i \in Instances, state[i] # "absent", Publish(i)
    PROVE  /\ outbox'[i] = Versions(version'[i])
           /\ \A j \in Instances : j # i => version'[j] = version[j] /\ outbox'[j] = outbox[j]
BY NextVersion DEF TypeOK, OutboxInv, Publish

\* A settlement publishes the finalization and the end, one, both or neither.
LEMMA OutboxSettle ==
    ASSUME TypeOK, OutboxInv, NEW i \in Instances, SettleBatch(i)
    PROVE  OutboxInv'
<1> DEFINE first == IF Finalizable(i) THEN <<version[i] + 1>> ELSE <<>>
           after == version[i] + Len(first)
<1>1. PICK s \in {"resolving", "resolved", "voided"}, last \in BOOLEAN :
        /\ state' = [state EXCEPT ![i] = s]
        /\ version' = [version EXCEPT ![i] = IF last THEN after + 1 ELSE after]
        /\ outbox' = [outbox EXCEPT ![i] =
                         @ \o first \o (IF last THEN <<after + 1>> ELSE <<>>)]
  BY DEF SettleBatch
<1>2. version[i] \in Nat /\ outbox[i] = Versions(version[i])
  BY DEF SettleBatch, Finalizable, OutboxInv, TypeOK
<1>3. after \in Nat /\ outbox[i] \o first = Versions(after)
  <2>1. CASE Finalizable(i)
    <3>1. first = <<version[i] + 1>> /\ after = version[i] + 1
      BY <1>2, <2>1
    <3>2. outbox[i] \o first = Append(outbox[i], version[i] + 1)
      BY <1>2, <3>1, NextVersion
    <3>3. Append(Versions(version[i]), version[i] + 1) = Versions(version[i] + 1)
      BY <1>2, NextVersion
    <3> HIDE DEF first, after
    <3> QED  BY <1>2, <3>1, <3>2, <3>3
  <2>2. CASE ~Finalizable(i)
    <3>1. first = <<>> /\ after = version[i]
      BY <1>2, <2>2
    <3>2. outbox[i] \o <<>> = outbox[i] /\ version[i] \in Nat
      BY DEF TypeOK
    <3> HIDE DEF first, after
    <3> QED  BY <1>2, <3>1, <3>2
  <2> QED  BY <2>1, <2>2
<1> HIDE DEF first, after
<1>4. outbox[i] \o first \o (IF last THEN <<after + 1>> ELSE <<>>)
        = Versions(IF last THEN after + 1 ELSE after)
  <2>1. Versions(after) \in Seq(Nat)
    BY <1>3, NextVersion
  <2>2. Versions(after) \o <<after + 1>> = Append(Versions(after), after + 1)
    BY <1>3, <2>1
  <2>3. Versions(after) \o <<>> = Versions(after)
    BY <2>1
  <2> QED  BY <1>3, <2>2, <2>3, NextVersion
<1>5. outbox'[i] = Versions(version'[i]) /\ state'[i] # "absent"
  BY <1>1, <1>4 DEF TypeOK
<1>6. \A j \in Instances : j # i => /\ state'[j] = state[j] /\ version'[j] = version[j]
                                    /\ outbox'[j] = outbox[j]
  BY <1>1 DEF TypeOK
<1> QED  BY <1>5, <1>6 DEF OutboxInv

\* Every step keeps the outbox gap free.
LEMMA OutboxStep == TypeOK /\ OutboxInv /\ [Next]_vars => OutboxInv'
<1> SUFFICES ASSUME TypeOK, OutboxInv, [Next]_vars PROVE OutboxInv'
  OBVIOUS
<1>1. ASSUME NEW i \in Instances, state[i] # "absent", state' = state, Publish(i)
      PROVE  OutboxInv'
  BY <1>1, OutboxPublish DEF OutboxInv
<1>2. CASE Trading
  BY <1>1, <1>2 DEF Trading, Execute, MayTrade, Tradable
<1>3. CASE \E i \in Instances : CreateInstance(i)
  <2>1. PICK i \in Instances : CreateInstance(i)
    BY <1>3
  <2>2. version'[i] = 0 /\ outbox'[i] = <<0>> /\ state'[i] = "open"
    <3>1. version[i] = 0 /\ outbox[i] = <<>>
      BY <2>1 DEF CreateInstance, OutboxInv
    <3>2. Append(<<>>, 0) = <<0>>
      OBVIOUS
    <3> QED  BY <2>1, <3>1, <3>2 DEF CreateInstance, TypeOK
  <2>3. Versions(0) = <<0>>
    BY DEF Versions
  <2>4. \A j \in Instances : j # i => /\ state'[j] = state[j] /\ version'[j] = version[j]
                                      /\ outbox'[j] = outbox[j]
    BY <2>1 DEF CreateInstance, TypeOK
  <2> QED  BY <2>2, <2>3, <2>4 DEF OutboxInv
<1>4. CASE \E i \in Instances, b \in BOOLEAN : Suspend(i, b)
  BY <1>1, <1>4 DEF Suspend
<1>5. CASE CloseDue
  <2>1. ASSUME NEW i \in Instances
        PROVE  \/ state'[i] = state[i] /\ version'[i] = version[i] /\ outbox'[i] = outbox[i]
               \/ /\ state[i] = "open" /\ state'[i] = "closed"
                  /\ version'[i] = version[i] + 1
                  /\ outbox'[i] = Append(outbox[i], version[i] + 1)
    BY <1>5 DEF CloseDue, Due, TypeOK
  <2> QED  BY <2>1, NextVersion DEF OutboxInv, TypeOK
<1>6. CASE Reporting
  <2>1. PICK i \in Instances : state[i] # "absent" /\ Publish(i)
    BY <1>6 DEF Reporting, RecordEvidence, RecordCreatorResolution,
                RecordResolverEvidence, AddEvidence
  <2>2. state' = state
    BY <1>6 DEF Reporting, RecordEvidence, RecordCreatorResolution,
                RecordResolverEvidence, AddEvidence
  <2> QED  BY <1>1, <2>1, <2>2
<1>7. CASE \E i \in Instances : SettleBatch(i)
  BY <1>7, OutboxSettle
<1>8. CASE Advance \/ UNCHANGED vars
  BY <1>8 DEF Advance, vars, OutboxInv
<1> QED  BY <1>2, <1>3, <1>4, <1>5, <1>6, <1>7, <1>8 DEF Next, Administration

(***************************************************************************)
(* Every instance's outbox is 0, 1, ... up to the row's version, in order, *)
(* though one settlement may publish two versions and one closing many.    *)
(***************************************************************************)
THEOREM GapFree == Spec => []OutboxGapFree
<1>1. Init => OutboxInv
  BY DEF Init, OutboxInv
<1>2. OutboxInv => OutboxGapFree
  BY DEF OutboxInv, OutboxGapFree, Versions
<1> QED  BY <1>1, <1>2, OutboxStep, TypeInit, TypeStep, PTL DEF Spec
=============================================================================
