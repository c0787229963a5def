---------------------------- MODULE LedgerProofs ----------------------------
(***************************************************************************)
(* Proofs about the exchange's books: what the accounts hold, what a       *)
(* settlement owes and pays, and that no unit appears or disappears, for   *)
(* any number of users, instances, outcomes, trades and batches.           *)
(***************************************************************************)
EXTENDS MarketProofs, SumLaws

\* The holdings of one outcome, account by account
Holdings(i, o) == [u \in Users |-> position[i][u][o]]

\* The accounts are finitely many, and users, reserves and the treasury are distinct.
LEMMA AccountsFinite ==
    /\ IsFiniteSet(Users) /\ IsFiniteSet(Instances) /\ IsFiniteSet(Outcomes)
    /\ IsFiniteSet(Accounts) /\ IsFiniteSet(Users \cup {Treasury})
    /\ Accounts = (Users \cup {Treasury}) \cup Instances
    /\ Instances \cap (Users \cup {Treasury}) = {}
    /\ Treasury \notin Users
<1>1. IsFiniteSet(Users) /\ IsFiniteSet(Instances) /\ IsFiniteSet(Outcomes)
  BY FinitenessAssumption
<1>2. IsFiniteSet({Treasury})
  BY FS_Singleton
<1>3. IsFiniteSet(Users \cup {Treasury})
  BY <1>1, <1>2, FS_Union
<1>4. IsFiniteSet((Users \cup {Treasury}) \cup Instances)
  BY <1>1, <1>3, FS_Union
<1>5. Accounts = (Users \cup {Treasury}) \cup Instances
  BY DEF Accounts
<1>6. Instances \cap (Users \cup {Treasury}) = {} /\ Treasury \notin Users
  BY AccountAssumption
<1> QED  BY <1>1, <1>3, <1>4, <1>5, <1>6

-----------------------------------------------------------------------------
(***************************************************************************)
(* The inventory.                                                          *)
(***************************************************************************)

\* An inventory entry is the sum of the holdings over the users.
LEMMA BackedSum ==
    ASSUME TypeOK, NEW i \in Instances, NEW o \in Outcomes
    PROVE  /\ SumFunction(Holdings(i, o)) = SumFunctionOnSet(Holdings(i, o), Users)
           /\ IsInt(Holdings(i, o), Users)
           /\ \A u \in Users : Holdings(i, o)[u] \in Nat
<1>1. Holdings(i, o) \in [Users -> Nat]
  BY DEF Holdings, TypeOK
<1> QED  BY <1>1, SumTotal DEF IsInt

\* A trade adds to one holding, and takes from it, what it adds to the inventory.
LEMMA ExecuteBacked ==
    ASSUME TypeOK, TypeOK', InventoryBacked, NEW u \in Users, NEW i \in Instances,
           NEW o \in Outcomes, NEW side \in Sides, NEW q \in Lots, Execute(u, i, o, side, q)
    PROVE  InventoryBacked'
<1> SUFFICES ASSUME NEW j \in Instances, NEW p \in Outcomes
             PROVE  inventory'[j][p] = SumFunction(Holdings(j, p)')
  BY DEF InventoryBacked, Holdings
<1>0. inventory[j][p] = SumFunction(Holdings(j, p))
  BY DEF InventoryBacked, Holdings
<1>1. /\ inventory' = [inventory EXCEPT ![i] = Shifted(@, o, side, q)]
      /\ position' = [position EXCEPT ![i][u] = Owned(u, i, o, side, q)]
  BY DEF Execute
<1>2. CASE j # i
  <2>1. inventory'[j] = inventory[j] /\ position'[j] = position[j]
    BY <1>1, <1>2 DEF TypeOK
  <2> QED  BY <1>0, <2>1 DEF Holdings
<1>3. CASE j = i /\ p # o
  <2>1. inventory'[i][p] = inventory[i][p]
    BY <1>1, <1>3 DEF TypeOK, Inventories, Shifted
  <2>2. \A v \in Users : position'[i][v][p] = position[i][v][p]
    BY <1>1, <1>3 DEF TypeOK, Owned, Shifted
  <2>3. Holdings(j, p)' = Holdings(j, p)
    BY <1>3, <2>2 DEF Holdings
  <2> QED  BY <1>0, <1>3, <2>1, <2>3
<1>4. CASE j = i /\ p = o
  <2> DEFINE d == IF side = "buy" THEN q ELSE -q
  <2>1. d \in Int /\ q \in Int
    BY GridAssumption
  <2>2. inventory'[i][o] = inventory[i][o] + d
    <3>1. inventory[i] \in [Outcomes -> Grid] /\ Grid \subseteq Nat
      BY GridAssumption DEF TypeOK, Inventories
    <3>2. inventory'[i] = Shifted(inventory[i], o, side, q)
      BY <1>1 DEF TypeOK
    <3> QED  BY <2>1, <3>1, <3>2 DEF Shifted
  <2>3. position'[i][u][o] = position[i][u][o] + d
    <3>1. position[i][u] \in [Outcomes -> Nat]
      BY DEF TypeOK
    <3>2. position'[i][u] = Owned(u, i, o, side, q)
      BY <1>1 DEF TypeOK
    <3> QED  BY <2>1, <3>1, <3>2 DEF Owned, Shifted
  <2>4. \A v \in Users \ {u} : position'[i][v] = position[i][v]
    BY <1>1 DEF TypeOK
  <2> HIDE DEF d
  <2>5. /\ Holdings(i, o)'[u] = Holdings(i, o)[u] + d
        /\ \A v \in Users \ {u} : Holdings(i, o)'[v] = Holdings(i, o)[v]
    BY <2>3, <2>4 DEF Holdings
  <2>6. SumFunctionOnSet(Holdings(i, o)', Users) = SumFunctionOnSet(Holdings(i, o), Users) + d
    <3>1. IsInt(Holdings(i, o), Users) /\ IsFiniteSet(Users)
      BY BackedSum, AccountsFinite
    <3> QED  BY <2>1, <2>5, <3>1, SumChange
  <2>7. SumFunction(Holdings(i, o)') = SumFunctionOnSet(Holdings(i, o)', Users)
    <3>1. Holdings(i, o)' \in [Users -> Nat]
      BY DEF Holdings, TypeOK
    <3> QED  BY <3>1, SumTotal
  <2> QED  BY <1>0, <1>4, <2>2, <2>6, <2>7, BackedSum
<1> QED  BY <1>2, <1>3, <1>4

\* Nothing but a trade touches an inventory or a holding.
LEMMA HoldingsStep ==
    ASSUME [Next]_vars, ~Trading
    PROVE  UNCHANGED <<inventory, position>>
BY DEF Next, Administration, CreateInstance, Suspend, CloseDue, Reporting, RecordEvidence,
       RecordCreatorResolution, RecordResolverEvidence, AddEvidence, SettleBatch, Advance,
       vars

\* Every step keeps the inventory backed.
LEMMA BackedStep == TypeOK /\ InventoryBacked /\ [Next]_vars => InventoryBacked'
<1> SUFFICES ASSUME TypeOK, InventoryBacked, [Next]_vars PROVE InventoryBacked'
  OBVIOUS
<1>1. CASE Trading
  BY <1>1, TypeStep, ExecuteBacked DEF Trading
<1>2. CASE ~Trading
  BY <1>2, HoldingsStep DEF InventoryBacked
<1> QED  BY <1>1, <1>2

\* At first nobody holds anything and every inventory is empty.
LEMMA BackedInit == Init => InventoryBacked
<1> SUFFICES ASSUME Init, NEW i \in Instances, NEW o \in Outcomes
             PROVE  inventory[i][o] = SumFunction(Holdings(i, o))
  BY DEF InventoryBacked, Holdings
<1>1. inventory[i][o] = 0 /\ \A u \in Users : Holdings(i, o)[u] = 0
  BY DEF Init, Empty, Holdings
<1>2. SumFunctionOnSet(Holdings(i, o), Users) = 0
  BY <1>1, AccountsFinite, SumZero
<1> QED  BY <1>1, <1>2, TypeInit, BackedSum

(***************************************************************************)
(* Store::reconcile's inventory check holds of every market at all times:  *)
(* the engine prices what the accounts really hold, however many trade.    *)
(***************************************************************************)
THEOREM InventoryIsBacked == Spec => []InventoryBacked
BY BackedInit, BackedStep, TypeInit, TypeStep, PTL DEF Spec

-----------------------------------------------------------------------------
(***************************************************************************)
(* The ledger.                                                             *)
(***************************************************************************)

Units == SumFunctionOnSet(balance, Accounts)

\* A transfer between two accounts changes no total.
LEMMA TransferConserves ==
    ASSUME TypeOK, NEW from \in Accounts, NEW to \in Accounts, from # to,
           NEW amount \in Int, Transfer(from, to, amount)
    PROVE  Units' = Units
<1> DEFINE taken == [balance EXCEPT ![from] = @ - amount]
<1>1. IsInt(balance, Accounts) /\ balance \in [Accounts -> Int]
  BY DEF TypeOK, IsInt
<1>2. SumFunctionOnSet(taken, Accounts) = Units + (-amount)
  <2>1. /\ taken[from] = balance[from] + (-amount)
        /\ \A a \in Accounts \ {from} : taken[a] = balance[a]
    BY <1>1
  <2>2. -amount \in Int
    OBVIOUS
  <2> HIDE DEF taken
  <2> QED  BY <1>1, <2>1, <2>2, AccountsFinite, SumChange DEF Units
<1>3. Units' = SumFunctionOnSet(taken, Accounts) + amount
  <2>1. /\ balance'[to] = taken[to] + amount
        /\ \A a \in Accounts \ {to} : balance'[a] = taken[a]
    BY <1>1 DEF Transfer, Moved
  <2>2. IsInt(taken, Accounts)
    BY <1>1 DEF IsInt
  <2> HIDE DEF taken
  <2> QED  BY <2>1, <2>2, AccountsFinite, SumChange DEF Units
<1>4. Units \in Int
  BY <1>1, AccountsFinite, SumInt DEF Units
<1> QED  BY <1>2, <1>3, <1>4

\* What SettleBatch does to the books, for the batch it picks
SettledResult(i) == IF Finalizable(i) THEN Verdict(i) ELSE result[i]

Credits(i, batch) == [u \in batch |-> Credit(i, u, SettledResult(i))]

Settled(i, batch) ==
    LET paid == Paid(i, Credits(i, batch))
        last == batch = Outstanding(i)
    IN  /\ Credits(i, batch) \in [batch -> Nat]
        /\ paid \in [Accounts -> Nat]
        /\ last => paid[i] >= fees[i]
        /\ balance' = IF last THEN Released(i, paid) ELSE paid
        /\ claim' = [claim EXCEPT ![i] =
                        [u \in Users |-> IF u \in batch THEN Credits(i, batch)[u] ELSE @[u]]]
        /\ state' = [state EXCEPT ![i] =
                        IF ~last THEN "resolving"
                        ELSE IF SettledResult(i) = Void THEN "voided" ELSE "resolved"]

\* A settlement transaction settles some batch of outstanding accounts.
LEMMA SettleParts ==
    ASSUME NEW i \in Instances, SettleBatch(i)
    PROVE  \E batch \in SUBSET Outstanding(i) :
              batch \in Batches(i) /\ batch \subseteq Users /\ Settled(i, batch)
<1>1. \E batch \in Batches(i) : Settled(i, batch)
  BY DEF SettleBatch, Settled, Credits, SettledResult
<1>2. \A batch \in Batches(i) : batch \subseteq Outstanding(i) /\ batch \subseteq Users
  BY DEF Batches, Outstanding
<1> QED  BY <1>1, <1>2

\* Paying a batch moves the credits from the reserve to the accounts of the batch.
LEMMA PaidConserves ==
    ASSUME TypeOK, NEW i \in Instances, NEW batch \in SUBSET Users,
           NEW credit \in [batch -> Nat]
    PROVE  SumFunctionOnSet(Paid(i, credit), Accounts) = Units
<1> DEFINE given == [a \in Accounts |-> IF a \in batch THEN balance[a] + credit[a]
                                                       ELSE balance[a]]
           total == SumFunctionOnSet(credit, batch)
<1>1. IsInt(balance, Accounts) /\ IsInt(credit, batch)
  BY DEF TypeOK, IsInt
<1>2. batch \in SUBSET Accounts /\ IsFiniteSet(batch) /\ i \in Accounts /\ i \notin batch
  BY AccountsFinite, FS_Subset DEF Accounts
<1>3. IsInt(given, Accounts)
  BY <1>1, <1>2 DEF IsInt
<1>4. SumFunctionOnSet(given, Accounts) = Units + total
  <2>1. /\ \A a \in batch : given[a] = balance[a] + credit[a]
        /\ \A a \in Accounts \ batch : given[a] = balance[a]
    BY <1>2
  <2> HIDE DEF given
  <2> QED  BY <1>1, <1>2, <2>1, AccountsFinite, SumRaise DEF Units
<1>5. total \in Int /\ SumFunction(credit) = total
  BY <1>1, <1>2, SumInt, SumTotal
<1>6. SumFunctionOnSet(Paid(i, credit), Accounts)
        = SumFunctionOnSet(given, Accounts) + (-total)
  <2> DEFINE paid == Paid(i, credit)
  <2>1. \A a \in Accounts \ {i} : paid[a] = given[a]
    BY <1>2 DEF Paid
  <2>2. paid[i] = balance[i] - total /\ given[i] = balance[i] /\ balance[i] \in Int
    BY <1>1, <1>2, <1>5 DEF Paid, IsInt
  <2> HIDE DEF paid, given, total
  <2>3. -total \in Int /\ paid[i] = given[i] + (-total)
    BY <1>5, <2>2
  <2>4. SumFunctionOnSet(paid, Accounts) = SumFunctionOnSet(given, Accounts) + (-total)
    BY <1>2, <1>3, <2>1, <2>3, AccountsFinite, SumChange
  <2> QED  BY <2>4 DEF paid
<1>7. Units \in Int
  BY <1>1, AccountsFinite, SumInt DEF Units
<1> HIDE DEF total, given
<1> QED  BY <1>4, <1>5, <1>6, <1>7

\* Releasing a reserve gives all of it to the treasury and the creator.
LEMMA ReleasedConserves ==
    ASSUME TypeOK, NEW i \in Instances, NEW paid \in [Accounts -> Nat]
    PROVE  SumFunctionOnSet(Released(i, paid), Accounts) = SumFunctionOnSet(paid, Accounts)
<1> DEFINE cut == CreatorShare(fees[i], terms[i].creator # Nobody)
           who == terms[i].creator
           emptied == [paid EXCEPT ![i] = 0]
           kept == [emptied EXCEPT ![Treasury] = @ + (paid[i] - cut)]
           final == Released(i, paid)
           before == SumFunctionOnSet(paid, Accounts)
<1>1. fees[i] \in Nat /\ cut \in Nat /\ (who = Nobody => cut = 0)
  BY DEF TypeOK, CreatorShare
<1>2. /\ i \in Accounts /\ Treasury \in Accounts /\ i # Treasury
      /\ who = Nobody \/ who \in Users
      /\ who # i /\ who # Treasury
      /\ Nobody \notin Accounts /\ Users \subseteq Accounts
  BY AccountAssumption DEF TypeOK, Accounts
<1> HIDE DEF cut, who
<1>3. paid[i] \in Nat /\ paid \in [Accounts -> Int] /\ IsInt(paid, Accounts)
  BY <1>2 DEF IsInt
<1>4. SumFunctionOnSet(emptied, Accounts) = before + (-paid[i])
  <2>1. emptied[i] = paid[i] + (-paid[i]) /\ \A a \in Accounts \ {i} : emptied[a] = paid[a]
    BY <1>2, <1>3
  <2>2. -paid[i] \in Int
    BY <1>3
  <2> HIDE DEF emptied
  <2> QED  BY <1>2, <1>3, <2>1, <2>2, AccountsFinite, SumChange
<1>5. emptied \in [Accounts -> Int] /\ IsInt(emptied, Accounts)
  <2>1. emptied = [a \in Accounts |-> IF a = i THEN 0 ELSE paid[a]]
    OBVIOUS
  <2>2. emptied \in [Accounts -> Int]
    <3>1. \A a \in Accounts : paid[a] \in Int
      BY <1>3 DEF IsInt
    <3> HIDE DEF emptied
    <3> QED  BY <2>1, <3>1
  <2> HIDE DEF emptied
  <2> QED  BY <2>2 DEF IsInt
<1> HIDE DEF emptied
<1>6. SumFunctionOnSet(kept, Accounts) = SumFunctionOnSet(emptied, Accounts) + (paid[i] - cut)
  <2>1. /\ kept[Treasury] = emptied[Treasury] + (paid[i] - cut)
        /\ \A a \in Accounts \ {Treasury} : kept[a] = emptied[a]
    BY <1>2, <1>5
  <2>2. paid[i] - cut \in Int
    BY <1>1, <1>3
  <2> HIDE DEF kept
  <2> QED  BY <1>2, <1>5, <2>1, <2>2, AccountsFinite, SumChange
<1>7. kept \in [Accounts -> Int] /\ IsInt(kept, Accounts)
  <2>1. kept \in [Accounts -> Int]
    BY <1>1, <1>2, <1>3, <1>5
  <2> HIDE DEF kept
  <2> QED  BY <2>1 DEF IsInt
<1>8. /\ \A a \in Accounts \ {who} : final[a] = kept[a]
      /\ who \in Accounts => final[who] = kept[who] + cut
  <2>1. \A a \in Accounts :
           final[a] = IF a = i THEN 0
                      ELSE IF a = Treasury THEN paid[a] + (paid[i] - fees[i]) + (fees[i] - cut)
                      ELSE IF a = who THEN paid[a] + cut
                      ELSE paid[a]
    BY DEF Released, cut, who
  <2>2. \A a \in Accounts :
           kept[a] = IF a = i THEN 0
                     ELSE IF a = Treasury THEN paid[a] + (paid[i] - cut)
                     ELSE paid[a]
    BY <1>2, <1>3 DEF emptied
  <2>3. paid[Treasury] + (paid[i] - fees[i]) + (fees[i] - cut)
          = paid[Treasury] + (paid[i] - cut)
    BY <1>1, <1>2, <1>3
  <2> HIDE DEF final, kept
  <2> QED  BY <1>2, <2>1, <2>2, <2>3
<1> HIDE DEF kept, final
<1>9. SumFunctionOnSet(final, Accounts) = SumFunctionOnSet(kept, Accounts) + cut
  <2>1. CASE who \in Accounts
    BY <1>1, <1>7, <1>8, <2>1, AccountsFinite, SumChange
  <2>2. CASE who \notin Accounts
    <3>1. \A a \in Accounts : kept[a] = final[a]
      BY <1>8, <2>2
    <3>2. cut = 0 /\ SumFunctionOnSet(kept, Accounts) \in Int
      BY <1>1, <1>2, <1>7, <2>2, AccountsFinite, SumInt
    <3>3. SumFunctionOnSet(kept, Accounts) = SumFunctionOnSet(final, Accounts)
      BY <1>7, <3>1, AccountsFinite, SumSame
    <3> QED  BY <3>2, <3>3
  <2> QED  BY <2>1, <2>2
<1>10. before \in Int
  BY <1>3, AccountsFinite, SumInt
<1> HIDE DEF before
<1>11. SumFunctionOnSet(final, Accounts) = before
  BY <1>1, <1>3, <1>4, <1>6, <1>9, <1>10
<1> QED  BY <1>11 DEF final, before

\* A settlement moves units between accounts, however it splits them.
LEMMA SettleConserves ==
    ASSUME TypeOK, NEW i \in Instances, SettleBatch(i)
    PROVE  Units' = Units
<1>1. PICK batch \in SUBSET Users : Settled(i, batch)
  BY SettleParts
<1> DEFINE paid == Paid(i, Credits(i, batch))
<1>2. /\ Credits(i, batch) \in [batch -> Nat] /\ paid \in [Accounts -> Nat]
      /\ balance' = paid \/ balance' = Released(i, paid)
  BY <1>1 DEF Settled
<1>3. SumFunctionOnSet(paid, Accounts) = Units
  BY <1>2, PaidConserves
<1> HIDE DEF paid
<1>4. SumFunctionOnSet(Released(i, paid), Accounts) = Units
  BY <1>2, <1>3, ReleasedConserves
<1> QED  BY <1>2, <1>3, <1>4 DEF Units

\* No step changes the total.
LEMMA UnitsStep == TypeOK /\ [Next]_vars => Units' = Units
<1> SUFFICES ASSUME TypeOK, [Next]_vars PROVE Units' = Units
  OBVIOUS
<1>1. CASE Trading
  <2>1. PICK u \in Users, i \in Instances, o \in Outcomes, side \in Sides, q \in Lots :
          Execute(u, i, o, side, q)
    BY <1>1 DEF Trading
  <2>2. Total(i, o, side, q) \in Nat
    BY <2>1, TradeType DEF Execute
  <2>3. u \in Accounts /\ i \in Accounts /\ u # i
    BY AccountAssumption DEF Accounts
  <2>4. Transfer(u, i, Total(i, o, side, q)) \/ Transfer(i, u, Total(i, o, side, q))
    BY <2>1 DEF Execute
  <2> QED  BY <2>2, <2>3, <2>4, TransferConserves
<1>2. ASSUME NEW i \in Instances, CreateInstance(i) PROVE Units' = Units
  <2>1. Treasury \in Accounts /\ i \in Accounts /\ Treasury # i /\ Funding \in Int
    BY AccountAssumption, FundingType DEF Accounts
  <2> QED  BY <1>2, <2>1, TransferConserves DEF CreateInstance
<1>3. CASE \E i \in Instances : SettleBatch(i)
  BY <1>3, SettleConserves
<1>4. CASE UNCHANGED balance
  BY <1>4 DEF Units
<1>5. \/ Trading \/ UNCHANGED balance
      \/ \E i \in Instances : CreateInstance(i) \/ SettleBatch(i)
  BY DEF Next, Administration, Suspend, CloseDue, Reporting, RecordEvidence,
         RecordCreatorResolution, RecordResolverEvidence, AddEvidence, Advance, vars
<1> QED  BY <1>1, <1>2, <1>3, <1>4, <1>5

\* The total is what was granted: reserves start empty.
LEMMA UnitsInit == Init => Units = SumFunction(Grants)
<1> SUFFICES ASSUME Init PROVE Units = SumFunction(Grants)
  OBVIOUS
<1> DEFINE granted == Users \cup {Treasury}
<1>1. /\ Accounts = granted \cup Instances /\ Instances \cap granted = {}
      /\ IsFiniteSet(Accounts) /\ IsFiniteSet(granted) /\ IsFiniteSet(Instances)
  BY AccountsFinite
<1>2. Grants \in [granted -> Nat]
  BY AccountAssumption
<1>3. SumFunction(Grants) = SumFunctionOnSet(Grants, granted)
  BY <1>2, SumTotal
<1> HIDE DEF granted
<1>4. /\ \A a \in granted : Grants[a] = balance[a]
      /\ \A a \in Instances : balance[a] = 0
  BY <1>1 DEF Init
<1>5. IsInt(balance, Accounts) /\ IsInt(Grants, granted)
  BY TypeInit, <1>2 DEF TypeOK, IsInt
<1>6. Accounts \ granted = Instances /\ granted \in SUBSET Accounts
  BY <1>1
<1>7. Units = SumFunctionOnSet(balance, granted) + SumFunctionOnSet(balance, Instances)
  BY <1>1, <1>5, <1>6, SumSplit DEF Units
<1>8. SumFunctionOnSet(balance, Instances) = 0
  BY <1>1, <1>4, SumZero
<1>9. SumFunctionOnSet(Grants, granted) = SumFunctionOnSet(balance, granted)
  BY <1>1, <1>4, <1>5, SumSame
<1>10. SumFunctionOnSet(Grants, granted) \in Int
  BY <1>1, <1>5, SumInt
<1> QED  BY <1>3, <1>7, <1>8, <1>9, <1>10

(***************************************************************************)
(* Store::reconcile's total: publications, trades, claims and the split of *)
(* the fee pot never make or lose a unit, in any order and number.         *)
(***************************************************************************)
THEOREM Conservation == Spec => []UnitsConserved
<1>1. TypeOK => SumFunction(balance) = Units
  BY SumTotal DEF TypeOK, Units
<1> DEFINE Inv == TypeOK /\ Units = SumFunction(Grants)
<1>2. Init => Inv
  BY TypeInit, UnitsInit
<1>3. Inv /\ [Next]_vars => Inv'
  BY TypeStep, UnitsStep
<1>4. Inv => UnitsConserved
  BY <1>1 DEF UnitsConserved
<1> QED  BY <1>2, <1>3, <1>4, PTL DEF Spec

-----------------------------------------------------------------------------
(***************************************************************************)
(* Claims.  What a settlement has paid is what the result, fixed before    *)
(* the first batch, gives holdings nobody can change any more.             *)
(***************************************************************************)
Holds(i, u) == \E o \in Outcomes : position[i][u][o] > 0

ClaimInv ==
    \A i \in Instances :
        /\ state[i] \in {"absent", "open", "closed"} =>
              \A u \in Users : claim[i][u] = Unclaimed
        /\ state[i] \in {"resolving"} \cup Terminal =>
              \A u \in Users : claim[i][u] # Unclaimed =>
                  Holds(i, u) /\ claim[i][u] = Credit(i, u, result[i])
        /\ state[i] \in Terminal => Outstanding(i) = {} /\ balance[i] = 0

\* A market that has left trading is touched by its own settlement and nothing else.
LEMMA OthersKeep ==
    ASSUME TypeOK, FinalInv, [Next]_vars, NEW j \in Instances, ~SettleBatch(j),
           state[j] \notin {"absent", "open"}
    PROVE  /\ state'[j] = state[j] /\ result'[j] = result[j] /\ claim'[j] = claim[j]
           /\ balance'[j] = balance[j] /\ fees'[j] = fees[j] /\ position'[j] = position[j]
<1>0. j \in Accounts /\ j \notin Users /\ j # Treasury
  BY AccountAssumption DEF Accounts
<1>1. CASE Trading
  <2>1. PICK u \in Users, i \in Instances, o \in Outcomes, side \in Sides, q \in Lots :
          Execute(u, i, o, side, q)
    BY <1>1 DEF Trading
  <2>2. i # j /\ u # j
    BY <1>0, <2>1 DEF Execute, MayTrade, Tradable
  <2>3. balance'[j] = balance[j]
    BY <1>0, <2>1, <2>2 DEF TypeOK, Execute, Transfer, Moved
  <2> QED  BY <2>1, <2>2, <2>3 DEF TypeOK, Execute
<1>2. CASE \E i \in Instances : CreateInstance(i)
  <2>1. PICK i \in Instances : CreateInstance(i)
    BY <1>2
  <2>2. i # j
    BY <2>1 DEF CreateInstance
  <2> QED  BY <1>0, <2>1, <2>2 DEF TypeOK, CreateInstance, Transfer, Moved
<1>3. CASE \E i \in Instances : SettleBatch(i)
  <2>1. PICK i \in Instances : SettleBatch(i)
    BY <1>3
  <2>2. i # j
    BY <2>1
  <2>3. PICK batch \in SUBSET Users : Settled(i, batch)
    BY <2>1, SettleParts
  <2> DEFINE paid == Paid(i, Credits(i, batch))
  <2>4. paid[j] = balance[j]
    <3>1. DOMAIN Credits(i, batch) \subseteq Users
      BY DEF Credits
    <3> QED  BY <1>0, <2>2, <3>1 DEF Paid
  <2>5. Released(i, paid)[j] = paid[j]
    <3>1. j # terms[i].creator
      BY <1>0, AccountAssumption DEF TypeOK
    <3> HIDE DEF paid
    <3> QED  BY <1>0, <2>2, <3>1 DEF Released
  <2>6. balance'[j] = balance[j]
    BY <2>3, <2>4, <2>5 DEF Settled
  <2>7. state'[j] = state[j] /\ claim'[j] = claim[j]
    BY <2>2, <2>3 DEF TypeOK, Settled
  <2>8. result'[j] = result[j] /\ UNCHANGED <<fees, position>>
    BY <2>1, <2>2 DEF TypeOK, SettleBatch
  <2> QED  BY <2>6, <2>7, <2>8
<1>4. CASE CloseDue
  <2>1. state'[j] = state[j]
    BY <1>4 DEF CloseDue, Due, TypeOK
  <2> QED  BY <1>4, <2>1 DEF CloseDue
<1>5. CASE UNCHANGED <<state, result, claim, balance, fees, position>>
  BY <1>5
<1>6. \/ Trading \/ CloseDue \/ \E i \in Instances : CreateInstance(i) \/ SettleBatch(i)
      \/ UNCHANGED <<state, result, claim, balance, fees, position>>
  BY DEF Next, Administration, Suspend, Reporting, RecordEvidence,
         RecordCreatorResolution, RecordResolverEvidence, AddEvidence, Advance, vars
<1> QED  BY <1>1, <1>2, <1>3, <1>4, <1>5, <1>6

\* Publication, trading and closing write no claim and settle nothing.
LEMMA BeforeSettlement ==
    ASSUME TypeOK, FinalInv, [Next]_vars, NEW j \in Instances, ~SettleBatch(j),
           state[j] \in {"absent", "open"}
    PROVE  state'[j] \in {"absent", "open", "closed"} /\ claim'[j] = claim[j]
<1>1. CASE \E i \in Instances : SettleBatch(i)
  <2>1. PICK i \in Instances : SettleBatch(i)
    BY <1>1
  <2>2. i # j
    BY <2>1
  <2>3. PICK batch \in SUBSET Users : Settled(i, batch)
    BY <2>1, SettleParts
  <2> QED  BY <2>2, <2>3 DEF TypeOK, Settled
<1>2. CASE Reporting
  BY <1>2, ReportingResult
<1>3. CASE ~Reporting /\ ~\E i \in Instances : SettleBatch(i)
  <2>1. claim' = claim
    BY <1>3, OtherResult
  <2>2. state'[j] \in {state[j], "open", "closed"}
    BY <1>3 DEF Next, Trading, Execute, Administration, CreateInstance, Suspend, CloseDue,
                Advance, vars, TypeOK
  <2> QED  BY <2>1, <2>2
<1> QED  BY <1>1, <1>2, <1>3

\* What one transaction of its settlement makes of a market.
LEMMA SettleOutcome ==
    ASSUME TypeOK, FinalInv, NEW i \in Instances, SettleBatch(i)
    PROVE  \E batch \in SUBSET Outstanding(i) :
              /\ Settled(i, batch)
              /\ batch \subseteq Users
              /\ state[i] \in {"closed", "resolving"}
              /\ result'[i] = SettledResult(i)
              /\ state[i] = "resolving" => SettledResult(i) = result[i]
              /\ state[i] = "closed" => Finalizable(i)
              /\ UNCHANGED <<position, fees>>
              /\ state'[i] \in Terminal <=> batch = Outstanding(i)
              /\ state'[i] \in {"resolving"} \cup Terminal
<1>1. PICK batch \in SUBSET Outstanding(i) : batch \subseteq Users /\ Settled(i, batch)
  BY SettleParts
<1>2. /\ result'[i] = SettledResult(i) /\ UNCHANGED <<position, fees>>
      /\ Finalizable(i) \/ state[i] = "resolving"
  BY DEF TypeOK, SettleBatch, SettledResult
<1>3. Finalizable(i) => state[i] = "closed"
  BY DEF Finalizable
<1>4. state[i] = "resolving" => SettledResult(i) = result[i]
  BY <1>3 DEF SettledResult
<1>5. state'[i] = IF batch # Outstanding(i) THEN "resolving"
                  ELSE IF SettledResult(i) = Void THEN "voided" ELSE "resolved"
  BY <1>1 DEF Settled, TypeOK
<1>6. /\ state'[i] \in Terminal <=> batch = Outstanding(i)
      /\ state'[i] \in {"resolving"} \cup Terminal
  BY <1>5 DEF Terminal
<1> QED  BY <1>1, <1>2, <1>3, <1>4, <1>6

\* A settlement's own step: earlier claims stand, the batch is paid what it is owed.
LEMMA ClaimSettle ==
    ASSUME TypeOK, FinalInv, ClaimInv, NEW i \in Instances, SettleBatch(i)
    PROVE  /\ state'[i] \in {"resolving"} \cup Terminal
           /\ \A u \in Users : claim'[i][u] # Unclaimed =>
                 Holds(i, u)' /\ claim'[i][u] = Credit(i, u, result[i])'
           /\ state'[i] \in Terminal => Outstanding(i)' = {} /\ balance'[i] = 0
<1>1. PICK batch \in SUBSET Outstanding(i) :
        /\ Settled(i, batch)
        /\ batch \subseteq Users
        /\ state[i] \in {"closed", "resolving"}
        /\ result'[i] = SettledResult(i)
        /\ state[i] = "resolving" => SettledResult(i) = result[i]
        /\ UNCHANGED <<position, fees>>
        /\ state'[i] \in Terminal <=> batch = Outstanding(i)
        /\ state'[i] \in {"resolving"} \cup Terminal
  BY SettleOutcome
<1>2. \A u \in Users : Credit(i, u, result[i])' = Credit(i, u, SettledResult(i))
  BY <1>1 DEF Credit
<1>3. \A u \in Users : Holds(i, u)' = Holds(i, u)
  BY <1>1 DEF Holds
<1>4. /\ \A u \in batch : claim'[i][u] = Credit(i, u, SettledResult(i)) /\ claim'[i][u] \in Nat
      /\ \A u \in Users \ batch : claim'[i][u] = claim[i][u]
  <2> DEFINE credit == Credits(i, batch)
  <2>1. credit \in [batch -> Nat] /\ \A u \in batch : credit[u] = Credit(i, u, SettledResult(i))
    BY <1>1 DEF Settled, Credits
  <2>2. claim' = [claim EXCEPT ![i] = [u \in Users |-> IF u \in batch THEN credit[u] ELSE @[u]]]
    BY <1>1 DEF Settled
  <2> HIDE DEF credit
  <2>3. claim'[i] = [u \in Users |-> IF u \in batch THEN credit[u] ELSE claim[i][u]]
    BY <2>2 DEF TypeOK
  <2> QED  BY <1>1, <2>1, <2>3
<1>5. \A u \in batch : Holds(i, u)
  BY DEF Outstanding, Holds
<1>6. ASSUME NEW u \in Users, claim'[i][u] # Unclaimed
      PROVE  Holds(i, u)' /\ claim'[i][u] = Credit(i, u, result[i])'
  <2>1. CASE u \in batch
    BY <1>2, <1>3, <1>4, <1>5, <2>1
  <2>2. CASE u \notin batch
    <3>1. claim[i][u] # Unclaimed /\ claim'[i][u] = claim[i][u]
      BY <1>4, <1>6, <2>2
    <3>2. state[i] = "resolving"
      BY <1>1, <3>1 DEF ClaimInv
    <3>3. Holds(i, u) /\ claim[i][u] = Credit(i, u, SettledResult(i))
      BY <1>1, <3>1, <3>2 DEF ClaimInv
    <3> QED  BY <1>2, <1>3, <3>1, <3>3
  <2> QED  BY <2>1, <2>2
<1>7. ASSUME state'[i] \in Terminal PROVE Outstanding(i)' = {} /\ balance'[i] = 0
  <2>1. batch = Outstanding(i)
    BY <1>1, <1>7
  <2>2. ASSUME NEW u \in Outstanding(i)' PROVE FALSE
    <3>1. u \in Users /\ claim'[i][u] = Unclaimed /\ Holds(i, u)'
      BY <2>2 DEF Outstanding, Holds
    <3>2. u \notin batch
      BY <1>4, <3>1 DEF Unclaimed
    <3>3. claim[i][u] = Unclaimed /\ Holds(i, u)
      BY <1>3, <1>4, <3>1, <3>2
    <3>4. u \in Outstanding(i)
      BY <3>1, <3>3 DEF Outstanding, Holds
    <3> QED  BY <2>1, <3>2, <3>4
  <2>3. balance'[i] = 0
    <3>1. balance' = Released(i, Paid(i, Credits(i, batch)))
      BY <1>1, <2>1 DEF Settled
    <3>2. i \in Accounts
      BY DEF Accounts
    <3> QED  BY <3>1, <3>2 DEF Released
  <2> QED  BY <2>2, <2>3
<1> QED  BY <1>1, <1>6, <1>7

\* Every step keeps the claims right.
LEMMA ClaimStep == TypeOK /\ FinalInv /\ ClaimInv /\ [Next]_vars => ClaimInv'
<1> SUFFICES ASSUME TypeOK, FinalInv, ClaimInv, [Next]_vars, NEW j \in Instances
             PROVE  /\ state'[j] \in {"absent", "open", "closed"} =>
                          \A u \in Users : claim'[j][u] = Unclaimed
                    /\ state'[j] \in {"resolving"} \cup Terminal =>
                          \A u \in Users : claim'[j][u] # Unclaimed =>
                              Holds(j, u)' /\ claim'[j][u] = Credit(j, u, result[j])'
                    /\ state'[j] \in Terminal => Outstanding(j)' = {} /\ balance'[j] = 0
  BY DEF ClaimInv
<1>0. {"absent", "open", "closed"} \cap ({"resolving"} \cup Terminal) = {}
  BY DEF Terminal
<1>1. CASE SettleBatch(j)
  BY <1>0, <1>1, ClaimSettle
<1>2. CASE ~SettleBatch(j) /\ state[j] \notin {"absent", "open"}
  <2>1. /\ state'[j] = state[j] /\ result'[j] = result[j] /\ claim'[j] = claim[j]
        /\ balance'[j] = balance[j] /\ position'[j] = position[j]
    BY <1>2, OthersKeep
  <2>2. \A u \in Users : /\ Holds(j, u)' = Holds(j, u)
                         /\ Credit(j, u, result[j])' = Credit(j, u, result[j])
    BY <2>1 DEF Holds, Credit
  <2>3. Outstanding(j)' = Outstanding(j)
    BY <2>1 DEF Outstanding
  <2> QED  BY <2>1, <2>2, <2>3 DEF ClaimInv
<1>3. CASE ~SettleBatch(j) /\ state[j] \in {"absent", "open"}
  BY <1>0, <1>3, BeforeSettlement DEF ClaimInv
<1> QED  BY <1>1, <1>2, <1>3

\* At first there are no claims.
LEMMA ClaimInit == Init => ClaimInv
BY DEF Init, ClaimInv, Terminal

\* The claims are right in every reachable state.
LEMMA ClaimInvariant == Spec => [](TypeOK /\ FinalInv /\ ClaimInv)
BY ClaimInit, ClaimStep, FinalInvariant, PTL DEF Spec

(***************************************************************************)
(* A settled market has paid every holder exactly what its final result    *)
(* gives, nobody else anything, and keeps nothing, however the accounts    *)
(* were split into batches and whatever happened between the batches.      *)
(***************************************************************************)
THEOREM PaidExactly == Spec => []PaidInFull
<1>1. ClaimInv => PaidInFull
  <2> SUFFICES ASSUME ClaimInv, NEW i \in Instances, state[i] \in Terminal
               PROVE  /\ balance[i] = 0
                      /\ \A u \in Users :
                            claim[i][u] = IF Holds(i, u) THEN Credit(i, u, result[i])
                                                         ELSE Unclaimed
    BY DEF PaidInFull, Holds
  <2>1. balance[i] = 0 /\ Outstanding(i) = {}
    BY DEF ClaimInv
  <2>2. \A u \in Users : claim[i][u] # Unclaimed =>
           Holds(i, u) /\ claim[i][u] = Credit(i, u, result[i])
    BY DEF ClaimInv
  <2>3. \A u \in Users : Holds(i, u) => claim[i][u] # Unclaimed
    BY <2>1 DEF Outstanding, Holds
  <2> QED  BY <2>1, <2>2, <2>3
<1> QED  BY <1>1, ClaimInvariant, PTL

-----------------------------------------------------------------------------
(***************************************************************************)
(* Coverage of the claims.  While a market is closed its reserve covers a  *)
(* payout of every inventory entry; summed over the holders, and for a     *)
(* void over the outcomes too, that covers every claim.  Once the result   *)
(* is fixed what is left stays enough, batch by batch.                     *)
(***************************************************************************)
Owed(i, res) == [u \in Users |-> Credit(i, u, res)]

ResolvingCovered ==
    \A i \in Instances : state[i] = "resolving" =>
        /\ balance[i] - fees[i] >= SumFunctionOnSet(Owed(i, result[i]), Outstanding(i))
        /\ result[i] \in Outcomes \cup {Void}

\* What an account is owed is a number, and a void pays no more than an even split.
LEMMA OwedType ==
    ASSUME TypeOK, NEW i \in Instances, NEW res \in Outcomes \cup {Void}
    PROVE  /\ \A u \in Users : Owed(i, res)[u] \in Nat
           /\ res \in Outcomes =>
                 \A u \in Users : Owed(i, res)[u] = position[i][u][res] * PAYOUT
           /\ \A u \in Users :
                 /\ SumFunctionOnSet(position[i][u], Outcomes) \in Nat
                 /\ res = Void =>
                       Cardinality(Outcomes) * Owed(i, res)[u]
                         <= SumFunctionOnSet(position[i][u], Outcomes) * PAYOUT
           /\ Cardinality(Outcomes) \in Nat /\ Cardinality(Outcomes) > 0
<1>1. Cardinality(Outcomes) \in Nat /\ Cardinality(Outcomes) > 0
  <2>1. Outcomes # {} /\ IsFiniteSet(Outcomes)
    BY FinitenessAssumption
  <2>2. Cardinality(Outcomes) \in Nat /\ Cardinality(Outcomes) # 0
    BY <2>1, FS_CardinalityType, FS_EmptySet
  <2> QED  BY <2>2
<1>2. ASSUME NEW u \in Users
      PROVE  /\ SumFunctionOnSet(position[i][u], Outcomes) \in Nat
             /\ SumFunction(position[i][u]) = SumFunctionOnSet(position[i][u], Outcomes)
  <2>1. position[i][u] \in [Outcomes -> Nat]
    BY DEF TypeOK
  <2>2. \A o \in Outcomes : position[i][u][o] \in Nat
    BY <2>1
  <2>3. Outcomes \in SUBSET Outcomes
    OBVIOUS
  <2> QED  BY <2>1, <2>2, <2>3, AccountsFinite, SumPart, SumTotal
<1>3. PAYOUT \in Nat
  BY DEF PAYOUT
<1>4. CASE res = Void
  <2>1. Void \notin Outcomes
    BY AccountAssumption
  <2>2. ASSUME NEW u \in Users
        PROVE  /\ Owed(i, res)[u] \in Nat
               /\ Cardinality(Outcomes) * Owed(i, res)[u]
                    <= SumFunctionOnSet(position[i][u], Outcomes) * PAYOUT
    <3> DEFINE n == Cardinality(Outcomes)
               t == SumFunctionOnSet(position[i][u], Outcomes) * PAYOUT
    <3>1. Owed(i, res)[u] = t \div n
      BY <1>2, <1>4 DEF Owed, Credit
    <3>2. t \in Nat
      BY <1>2, <1>3
    <3> HIDE DEF t
    <3>3. n \in Nat /\ n > 0
      BY <1>1
    <3> HIDE DEF n
    <3>4. t \div n \in Nat /\ n * (t \div n) <= t
      BY <3>2, <3>3
    <3> QED  BY <3>1, <3>4 DEF n, t
  <2> QED  BY <1>1, <1>2, <1>4, <2>1, <2>2
<1>5. CASE res \in Outcomes
  <2>1. res # Void
    BY <1>5, AccountAssumption
  <2>2. \A u \in Users : /\ Owed(i, res)[u] = position[i][u][res] * PAYOUT
                         /\ position[i][u][res] \in Nat
    BY <1>5, <2>1 DEF Owed, Credit, TypeOK
  <2>3. \A u \in Users : Owed(i, res)[u] \in Nat
    BY <1>3, <2>2
  <2> QED  BY <1>1, <1>2, <2>1, <2>2, <2>3
<1> QED  BY <1>4, <1>5

\* What everybody is owed under a winner is a payout of its inventory entry.
LEMMA WinnerOwed ==
    ASSUME TypeOK, InventoryBacked, NEW i \in Instances, NEW res \in Outcomes
    PROVE  SumFunctionOnSet(Owed(i, res), Users) <= PAYOUT * inventory[i][res]
<1> DEFINE f == Owed(i, res)
           g == Holdings(i, res)
<1>1. PAYOUT \in Nat
  BY DEF PAYOUT
<1>2. /\ \A u \in Users : f[u] \in Nat /\ f[u] = position[i][u][res] * PAYOUT
      /\ \A u \in Users : g[u] \in Nat /\ g[u] = position[i][u][res]
  BY OwedType, BackedSum DEF Holdings
<1>3. inventory[i][res] = SumFunctionOnSet(g, Users)
  BY BackedSum DEF InventoryBacked, Holdings
<1> HIDE DEF f, g
<1>4. \A u \in Users : 1 * f[u] <= PAYOUT * g[u]
  BY <1>1, <1>2
<1>5. IsInt(f, Users) /\ IsInt(g, Users)
  BY <1>2 DEF IsInt
<1>6. 1 * SumFunctionOnSet(f, Users) <= PAYOUT * SumFunctionOnSet(g, Users)
  BY <1>1, <1>4, <1>5, AccountsFinite, SumBound
<1>7. SumFunctionOnSet(f, Users) \in Int
  BY <1>5, AccountsFinite, SumInt
<1> QED  BY <1>3, <1>6, <1>7 DEF f

\* What everybody is owed under a void is an even share of a payout of every entry.
LEMMA VoidOwed ==
    ASSUME TypeOK, InventoryBacked, NEW i \in Instances, NEW spare \in Int,
           \A o \in Outcomes : spare >= PAYOUT * inventory[i][o]
    PROVE  SumFunctionOnSet(Owed(i, Void), Users) <= spare
<1> DEFINE f == Owed(i, Void)
           n == Cardinality(Outcomes)
           held == [u \in Users |-> SumFunctionOnSet(position[i][u], Outcomes)]
           inv == inventory[i]
           pays == [o \in Outcomes |-> PAYOUT * inv[o]]
<1>1. /\ \A u \in Users : f[u] \in Nat /\ held[u] \in Nat /\ n * f[u] <= PAYOUT * held[u]
      /\ n \in Nat /\ n > 0 /\ PAYOUT \in Nat
  <2>1. PAYOUT \in Nat
    BY DEF PAYOUT
  <2>2. \A u \in Users : /\ f[u] \in Nat /\ held[u] \in Nat
                         /\ n * f[u] <= held[u] * PAYOUT
    BY OwedType
  <2>3. n \in Nat /\ n > 0
    BY OwedType
  <2>4. \A u \in Users : held[u] * PAYOUT = PAYOUT * held[u]
    BY <2>1, <2>2
  <2> QED  BY <2>1, <2>2, <2>3, <2>4
<1>2. /\ \A o \in Outcomes : inv[o] \in Nat /\ PAYOUT * inv[o] \in Int
      /\ \A o \in Outcomes : pays[o] = PAYOUT * inv[o]
  <2>1. inv \in [Outcomes -> Grid] /\ Grid \subseteq Nat
    BY GridAssumption DEF TypeOK, Inventories
  <2> HIDE DEF inv
  <2>2. \A o \in Outcomes : inv[o] \in Nat
    BY <2>1
  <2>3. ASSUME NEW o \in Outcomes PROVE PAYOUT * inv[o] \in Int
    <3>1. inv[o] \in Nat
      BY <2>2
    <3> QED  BY <3>1 DEF PAYOUT
  <2> QED  BY <2>2, <2>3
<1>3. SumFunctionOnSet(held, Users) = SumFunctionOnSet(inv, Outcomes)
  <2> DEFINE columns == [o \in Outcomes |-> Holdings(i, o)]
             rows == position[i]
  <2>1. RowSums(held, rows, Users, Outcomes)
    BY DEF TypeOK, IsInt, RowSums
  <2>2. ColumnSums(inv, columns, rows, Users, Outcomes)
    BY BackedSum DEF InventoryBacked, Holdings, ColumnSums
  <2> HIDE DEF held, inv, columns, rows
  <2> QED  BY <2>1, <2>2, AccountsFinite, SumSwap
<1>4. IsInt(f, Users) /\ IsInt(held, Users) /\ IsInt(inv, Outcomes) /\ IsInt(pays, Outcomes)
  <2>1. IsInt(f, Users) /\ IsInt(held, Users) /\ IsInt(inv, Outcomes)
    BY <1>1, <1>2 DEF IsInt
  <2>2. \A o \in Outcomes : pays[o] \in Int
    BY <1>2
  <2> QED  BY <2>1, <2>2 DEF IsInt
<1>5. n * SumFunctionOnSet(f, Users) <= PAYOUT * SumFunctionOnSet(held, Users)
  <2> HIDE DEF f, n, held
  <2> QED  BY <1>1, <1>4, AccountsFinite, SumBound
<1>6. PAYOUT * SumFunctionOnSet(inv, Outcomes) <= 1 * SumFunctionOnSet(pays, Outcomes)
  <2>1. ASSUME NEW o \in Outcomes PROVE PAYOUT * inv[o] <= 1 * pays[o]
    <3>1. pays[o] = PAYOUT * inv[o] /\ pays[o] \in Int
      BY <1>2
    <3> HIDE DEF pays, inv
    <3>2. 1 * pays[o] = pays[o] /\ pays[o] <= pays[o]
      BY <3>1
    <3> QED  BY <3>1, <3>2
  <2> HIDE DEF pays, inv
  <2> QED  BY <1>1, <1>4, <2>1, AccountsFinite, SumBound
<1>7. SumFunctionOnSet(pays, Outcomes) <= n * spare
  <2>1. \A o \in Outcomes : pays[o] <= spare
    OBVIOUS
  <2> HIDE DEF pays
  <2> QED  BY <1>4, <2>1, AccountsFinite, SumLimit
<1>8. /\ SumFunctionOnSet(f, Users) \in Int /\ SumFunctionOnSet(inv, Outcomes) \in Int
      /\ SumFunctionOnSet(pays, Outcomes) \in Int
  <2> HIDE DEF f, inv, pays
  <2> QED  BY <1>4, AccountsFinite, SumInt
<1>9. n * SumFunctionOnSet(f, Users) <= n * spare
  <2> HIDE DEF f, n, held, inv, pays
  <2>1. PAYOUT * SumFunctionOnSet(inv, Outcomes) \in Int /\ n * spare \in Int
        /\ n * SumFunctionOnSet(f, Users) \in Int
    BY <1>1, <1>8
  <2> QED  BY <1>3, <1>5, <1>6, <1>7, <1>8, <2>1
<1> HIDE DEF f, n, held, inv, pays
<1>10. SumFunctionOnSet(f, Users) <= spare
  BY <1>1, <1>8, <1>9
<1> QED  BY <1>10 DEF f

\* While a market is open or closed any claims of any result are covered.
LEMMA ClosedCovered ==
    ASSUME TypeOK, SolvencyInv, InventoryBacked, NEW i \in Instances,
           state[i] \in {"open", "closed"}, NEW res \in Outcomes \cup {Void},
           NEW group \in SUBSET Users
    PROVE  balance[i] - fees[i] >= SumFunctionOnSet(Owed(i, res), group)
<1> DEFINE spare == balance[i] - fees[i]
<1>1. spare \in Int /\ \A o \in Outcomes : /\ spare >= PAYOUT * inventory[i][o]
                                           /\ PAYOUT * inventory[i][o] \in Int
  <2>1. inventory[i] \in Inventories /\ balance[i] \in Nat /\ fees[i] \in Nat
    BY DEF TypeOK, Accounts
  <2>2. Scale * (spare - 1) >= Cost[inventory[i]]
    BY DEF SolvencyInv, CostCovered
  <2>3. spare - 1 \in Int
    BY <2>1
  <2>4. \A o \in Outcomes : /\ spare - 1 >= PAYOUT * inventory[i][o]
                            /\ PAYOUT * inventory[i][o] \in Int
    <3> HIDE DEF spare
    <3> QED  BY <2>1, <2>2, <2>3, CostCoversPayout
  <2> QED  BY <2>1, <2>4
<1> HIDE DEF spare
<1>2. SumFunctionOnSet(Owed(i, res), Users) <= spare
  <2>1. CASE res = Void
    BY <1>1, <2>1, VoidOwed
  <2>2. CASE res \in Outcomes
    <3>1. SumFunctionOnSet(Owed(i, res), Users) <= PAYOUT * inventory[i][res]
      BY <2>2, WinnerOwed
    <3>2. SumFunctionOnSet(Owed(i, res), Users) \in Int
      BY OwedType, AccountsFinite, SumInt DEF IsInt
    <3> QED  BY <1>1, <2>2, <3>1, <3>2
  <2> QED  BY <2>1, <2>2
<1>3. /\ SumFunctionOnSet(Owed(i, res), Users) \in Nat
      /\ SumFunctionOnSet(Owed(i, res), group) \in Nat
      /\ SumFunctionOnSet(Owed(i, res), group) <= SumFunctionOnSet(Owed(i, res), Users)
  <2>1. \A u \in Users : Owed(i, res)[u] \in Nat
    BY OwedType
  <2> QED  BY <2>1, AccountsFinite, SumPart
<1>4. spare >= SumFunctionOnSet(Owed(i, res), group)
  BY <1>1, <1>2, <1>3
<1> QED  BY <1>4 DEF spare

\* What a settlement leaves in a reserve is enough for the accounts it leaves unpaid.
LEMMA CoverSettle ==
    ASSUME TypeOK, FinalInv, PhaseInv, SolvencyInv, InventoryBacked, ClaimInv,
           ResolvingCovered, NEW i \in Instances, SettleBatch(i), state'[i] = "resolving"
    PROVE  /\ balance'[i] - fees'[i] >= SumFunctionOnSet(Owed(i, result[i])', Outstanding(i)')
           /\ result'[i] \in Outcomes \cup {Void}
<1> DEFINE res == SettledResult(i)
           all == Outstanding(i)
           owed == Owed(i, res)
<1>1. PICK batch \in SUBSET all :
        /\ Settled(i, batch)
        /\ batch \subseteq Users
        /\ state[i] \in {"closed", "resolving"}
        /\ result'[i] = res
        /\ state[i] = "resolving" => res = result[i]
        /\ state[i] = "closed" => Finalizable(i)
        /\ UNCHANGED <<position, fees>>
        /\ state'[i] \in Terminal <=> batch = all
        /\ state'[i] \in {"resolving"} \cup Terminal
  BY SettleOutcome
<1>2. res \in Outcomes \cup {Void}
  <2>1. CASE state[i] = "closed"
    <3>1. Finalizable(i) /\ evidence[i] \subseteq Evidence
      BY <1>1, <2>1 DEF TypeOK
    <3>2. res = Verdict(i) /\ Verdict(i) # NoResult /\ Verdict(i) \in Results
      BY <3>1, VerdictType DEF SettledResult, Finalizable
    <3> QED  BY <3>2 DEF Results
  <2>2. CASE state[i] = "resolving"
    BY <1>1, <2>2 DEF ResolvingCovered
  <2> QED  BY <1>1, <2>1, <2>2
<1>3. all \in SUBSET Users /\ batch \in SUBSET Users
  BY <1>1 DEF Outstanding
<1>4. balance[i] - fees[i] >= SumFunctionOnSet(owed, all)
  <2>1. CASE state[i] = "closed"
    BY <1>2, <1>3, <2>1, ClosedCovered
  <2>2. CASE state[i] = "resolving"
    BY <1>1, <2>2 DEF ResolvingCovered
  <2> QED  BY <1>1, <2>1, <2>2
<1>5. /\ \A u \in Users : owed[u] \in Nat
      /\ IsFiniteSet(all) /\ IsFiniteSet(batch) /\ IsInt(owed, all) /\ IsInt(owed, batch)
  BY <1>2, <1>3, OwedType, AccountsFinite, FS_Subset DEF IsInt
<1>6. balance'[i] = balance[i] - SumFunctionOnSet(owed, batch)
  <2> DEFINE credit == Credits(i, batch)
  <2>1. credit \in [batch -> Nat]
    BY <1>1 DEF Settled
  <2>2. batch # all
    BY <1>1 DEF Terminal
  <2>3. balance' = Paid(i, credit) /\ i \in Accounts
    BY <1>1, <2>2 DEF Settled, Accounts
  <2>4. \A u \in batch : owed[u] = credit[u]
    BY <1>3 DEF Owed, Credits
  <2> HIDE DEF credit, owed
  <2>5. SumFunction(credit) = SumFunctionOnSet(credit, batch)
    BY <2>1, SumTotal
  <2>6. SumFunctionOnSet(owed, batch) = SumFunctionOnSet(credit, batch)
    BY <1>5, <2>4, SumSame
  <2> QED  BY <2>3, <2>5, <2>6 DEF Paid
<1>7. Outstanding(i)' = all \ batch
  <2> DEFINE credit == Credits(i, batch)
  <2>1. credit \in [batch -> Nat]
    BY <1>1 DEF Settled
  <2>2. claim' = [claim EXCEPT ![i] = [u \in Users |-> IF u \in batch THEN credit[u] ELSE @[u]]]
    BY <1>1 DEF Settled
  <2> HIDE DEF credit
  <2>3. claim'[i] = [u \in Users |-> IF u \in batch THEN credit[u] ELSE claim[i][u]]
    BY <2>2 DEF TypeOK
  <2>4. \A u \in Users : claim'[i][u] = Unclaimed <=> u \notin batch /\ claim[i][u] = Unclaimed
    BY <2>1, <2>3 DEF Unclaimed
  <2> QED  BY <1>1, <2>4 DEF Outstanding
<1>8. Owed(i, result[i])' = owed
  BY <1>1 DEF Owed, Credit
<1>9. SumFunctionOnSet(owed, all)
        = SumFunctionOnSet(owed, batch) + SumFunctionOnSet(owed, all \ batch)
  <2> HIDE DEF owed, all
  <2> QED  BY <1>5, SumSplit
<1>10. /\ balance[i] \in Int /\ fees[i] \in Int /\ fees'[i] = fees[i]
       /\ SumFunctionOnSet(owed, batch) \in Int
       /\ SumFunctionOnSet(owed, all \ batch) \in Int
  <2>1. balance[i] \in Int /\ fees[i] \in Int /\ fees'[i] = fees[i]
    BY <1>1 DEF TypeOK, Accounts
  <2>2. IsFiniteSet(all \ batch) /\ IsInt(owed, all \ batch)
    BY <1>5, FS_Subset DEF IsInt
  <2> HIDE DEF owed, all
  <2> QED  BY <1>5, <2>1, <2>2, SumInt
<1> HIDE DEF owed, all, res
<1>11. balance'[i] - fees'[i] >= SumFunctionOnSet(owed, all \ batch)
  BY <1>4, <1>6, <1>9, <1>10
<1> QED  BY <1>1, <1>2, <1>7, <1>8, <1>11

\* Every step leaves every settlement under way covered.
LEMMA CoverStep ==
    TypeOK /\ FinalInv /\ PhaseInv /\ SolvencyInv /\ InventoryBacked /\ ClaimInv
        /\ ResolvingCovered /\ [Next]_vars => ResolvingCovered'
<1> SUFFICES ASSUME TypeOK, FinalInv, PhaseInv, SolvencyInv, InventoryBacked, ClaimInv,
                    ResolvingCovered, [Next]_vars, NEW j \in Instances,
                    state'[j] = "resolving"
             PROVE  /\ balance'[j] - fees'[j]
                         >= SumFunctionOnSet(Owed(j, result[j])', Outstanding(j)')
                    /\ result'[j] \in Outcomes \cup {Void}
  BY DEF ResolvingCovered
<1>1. CASE SettleBatch(j)
  BY <1>1, CoverSettle
<1>2. CASE ~SettleBatch(j)
  <2>1. state[j] \notin {"absent", "open"}
    BY <1>2, BeforeSettlement
  <2>2. /\ state'[j] = state[j] /\ result'[j] = result[j] /\ claim'[j] = claim[j]
        /\ balance'[j] = balance[j] /\ fees'[j] = fees[j] /\ position'[j] = position[j]
    BY <1>2, <2>1, OthersKeep
  <2>3. Outstanding(j)' = Outstanding(j) /\ Owed(j, result[j])' = Owed(j, result[j])
    BY <2>2 DEF Outstanding, Owed, Credit
  <2> QED  BY <2>2, <2>3 DEF ResolvingCovered
<1> QED  BY <1>1, <1>2

\* No market starts under settlement.
LEMMA CoverInit == Init => ResolvingCovered
BY DEF Init, ResolvingCovered

(***************************************************************************)
(* Settlement cannot wedge: the reserve of a closed market pays the claims *)
(* of every result, and while it is paid out it still covers the rest, the *)
(* fee pot kept whole, for any number of holders, outcomes and batches.    *)
(***************************************************************************)
THEOREM ClaimsAreCovered == Spec => []ClaimsCovered
<1> DEFINE Inv == /\ TypeOK /\ FinalInv /\ PhaseInv /\ SolvencyInv /\ InventoryBacked
                  /\ ClaimInv /\ ResolvingCovered
<1>1. Init => Inv
  <2>1. Init => PhaseInv
    BY DEF Init, PhaseInv
  <2> QED  BY <2>1, TypeInit, FinalInit, SolvencyInit, BackedInit, ClaimInit, CoverInit
<1>2. Inv /\ [Next]_vars => Inv'
  BY TypeStep, FinalStep, PhaseStep, SolvencyStep, BackedStep, ClaimStep, CoverStep
<1>3. Inv => ClaimsCovered
  <2> SUFFICES ASSUME Inv, NEW i \in Instances, NEW res \in Outcomes \cup {Void},
                      \/ state[i] = "closed"
                      \/ state[i] = "resolving" /\ res = result[i]
               PROVE  balance[i] - fees[i]
                        >= SumFunction([u \in Outstanding(i) |-> Credit(i, u, res)])
    BY DEF ClaimsCovered, ResolvingCovered
  <2> DEFINE credit == [u \in Outstanding(i) |-> Credit(i, u, res)]
  <2>1. Outstanding(i) \in SUBSET Users /\ IsFiniteSet(Outstanding(i))
    BY AccountsFinite, FS_Subset DEF Outstanding
  <2>2. SumFunction(credit) = SumFunctionOnSet(Owed(i, res), Outstanding(i))
    <3>1. /\ \A u \in Outstanding(i) : Owed(i, res)[u] = credit[u]
          /\ IsInt(Owed(i, res), Outstanding(i))
      BY <2>1, OwedType DEF Owed, IsInt
    <3>2. SumFunctionOnSet(Owed(i, res), Outstanding(i))
            = SumFunctionOnSet(credit, Outstanding(i))
      <4> HIDE DEF credit
      <4> QED  BY <2>1, <3>1, SumSame
    <3>3. credit \in [Outstanding(i) -> Int]
      BY <3>1 DEF IsInt
    <3> HIDE DEF credit
    <3> QED  BY <3>2, <3>3, SumTotal
  <2>3. balance[i] - fees[i] >= SumFunctionOnSet(Owed(i, res), Outstanding(i))
    BY <2>1, ClosedCovered DEF ResolvingCovered
  <2> QED  BY <2>2, <2>3
<1> QED  BY <1>1, <1>2, <1>3, PTL DEF Spec
=============================================================================
