------------------------------- MODULE Market -------------------------------
(***************************************************************************)
(* The exchange as its committed database transactions: every action is    *)
(* one transaction of backend/src/store.rs, execution.rs or resolution.rs, *)
(* taken at the point where it holds the instance row lock.  A transaction *)
(* that returns an error, or whose process crashes, rolls back and leaves  *)
(* no step.  The CHECK constraints and triggers of backend/migrations are  *)
(* part of the guards: a transaction that would break one cannot commit.   *)
(*                                                                         *)
(* An instance stands for its own reserve account (reserve:{id}).          *)
(***************************************************************************)
EXTENDS Amm, Sequences, FiniteSets, Functions

CONSTANTS
    Users,              \* participant accounts
    Instances,          \* market instances that may be published
    Treasury,           \* the platform's own account
    Nobody,             \* the creator of a platform-owned instance
    Terms,              \* the published terms an instance may have
    Revisions,          \* source revisions of recorded observations
    CloseMs, ObservationEndMs, FinalizeAfterMs, EvidenceDeadlineMs,
    BatchLimit,         \* accounts paid per settlement transaction, 100 in the code
    Grants,             \* opening balances of users and treasury
    Void, NoResult,     \* Resolution::Void, and an absent result
    MaxVersion,         \* bound: no trade or suspension once a version reaches it
    MaxTime             \* bound: the clock stops here

VARIABLES
    terms,      \* creator, fee policy and authority: immutable once published
    now,        \* db_now: wall clock plus demo offset
    balance,    \* accounts.balance_micros
    state,      \* instances.state, "absent" before publication
    suspended,  \* instances.suspended
    inventory,  \* instances.inventory
    version,    \* instances.version
    result,     \* instances.result
    position,   \* positions.quantity_millis
    fees,       \* sum(trades.fee_micros)
    evidence,   \* evidence rows
    claim,      \* settlement_claims.credit_micros, or Unclaimed
    outbox      \* outbox.instance_version, in commit order

vars == <<terms, now, balance, state, suspended, inventory, version, result,
          position, fees, evidence, claim, outbox>>

Accounts == Users \cup Instances \cup {Treasury}

Results == Outcomes \cup {Void, NoResult}

Evidence == [revision : Revisions, result : Results]

States == {"absent", "open", "closed", "resolving", "resolved", "voided"}

Terminal == {"resolved", "voided"}

Unclaimed == -1

\* record_evidence refuses a higher revision
MAX_REVISION == 1000000

\* Accounts are of one kind each; a schedule is what NewInstance::validate accepts.
ASSUME AccountAssumption ==
    /\ Users \cap Instances = {} /\ Treasury \notin Users \cup Instances
    /\ Nobody \notin Accounts
    /\ Grants \in [Users \cup {Treasury} -> Nat]
    /\ Terms \subseteq [creator : Users \cup {Nobody}, fee_charged : BOOLEAN,
                       authority : {"simulator", "creator", "resolver"},
                       simulated : BOOLEAN]
    /\ Void \notin Outcomes /\ NoResult \notin Outcomes \cup {Void}
    /\ Revisions \subseteq 0 .. MAX_REVISION /\ 0 \in Revisions

ASSUME ScheduleAssumption ==
    /\ \A f \in {CloseMs, ObservationEndMs, FinalizeAfterMs, EvidenceDeadlineMs} :
          f \in [Instances -> Nat]
    /\ \A i \in Instances : /\ 0 < CloseMs[i]
                            /\ CloseMs[i] < ObservationEndMs[i]
                            /\ ObservationEndMs[i] <= FinalizeAfterMs[i]
                            /\ FinalizeAfterMs[i] < EvidenceDeadlineMs[i]
    /\ MaxTime \in Nat /\ MaxVersion \in Nat /\ BatchLimit \in Nat \ {0}

\* The tables have finitely many rows, and amm::validate admits 2 to 8 outcomes.
ASSUME FinitenessAssumption ==
    /\ IsFiniteSet(Users) /\ IsFiniteSet(Instances)
    /\ IsFiniteSet(Outcomes) /\ Outcomes # {}

Init ==
    /\ terms \in [Instances -> Terms]
    /\ now = 0
    /\ balance = [a \in Accounts |-> IF a \in Instances THEN 0 ELSE Grants[a]]
    /\ state = [i \in Instances |-> "absent"]
    /\ suspended = [i \in Instances |-> FALSE]
    /\ inventory = [i \in Instances |-> Empty]
    /\ version = [i \in Instances |-> 0]
    /\ result = [i \in Instances |-> NoResult]
    /\ position = [i \in Instances |-> [u \in Users |-> Empty]]
    /\ fees = [i \in Instances |-> 0]
    /\ evidence = [i \in Instances |-> {}]
    /\ claim = [i \in Instances |-> [u \in Users |-> Unclaimed]]
    /\ outbox = [i \in Instances |-> <<>>]

-----------------------------------------------------------------------------

(***************************************************************************)
(* store::transfer and the apply_transfer trigger, under the CHECKs that   *)
(* an amount and every balance but issuance's are not negative.            *)
(***************************************************************************)
Moved(from, to, amount) ==
    [balance EXCEPT ![from] = @ - amount, ![to] = @ + amount]

Transfer(from, to, amount) ==
    /\ amount >= 0
    /\ balance[from] >= amount
    /\ balance' = Moved(from, to, amount)

\* Mutant: the event carries the version before the update
PublishOld(i) ==
    /\ version' = [version EXCEPT ![i] = @ + 1]
    /\ outbox' = [outbox EXCEPT ![i] = Append(@, version[i])]

\* UPDATE instances SET ..., version=version+1, and the outbox row store::event adds
Publish(i) ==
    /\ version' = [version EXCEPT ![i] = @ + 1]
    /\ outbox' = [outbox EXCEPT ![i] = Append(@, version[i] + 1)]

\* Store::create_instance: funded from the treasury, or refused
CreateInstance(i) ==
    /\ state[i] = "absent"
    /\ now < CloseMs[i]
    /\ Transfer(Treasury, i, Funding)
    /\ state' = [state EXCEPT ![i] = "open"]
    /\ outbox' = [outbox EXCEPT ![i] = Append(@, 0)]
    /\ UNCHANGED <<terms, now, suspended, inventory, version, result, position, fees,
                   evidence, claim>>

-----------------------------------------------------------------------------

\* Mutant: any market without a final result may be traded
TradableUntilFinal(i) == state[i] \notin {"absent"} \cup Terminal /\ ~suspended[i]

\* Instance::tradable
Tradable(i) == state[i] = "open" /\ ~suspended[i] /\ now < CloseMs[i]

\* amm amount, fee and all-in total of a trade at the current inventory
Engine(i, o, side, q) ==
    Amount(inventory[i], Shifted(inventory[i], o, side, q), side)

Fee(i, amount) == IF terms[i].fee_charged THEN TradeFee(amount) ELSE 0

Total(i, o, side, q) ==
    LET amount == Engine(i, o, side, q)
    IN  Charged(amount, Fee(i, amount), side)

\* Mutant: the trader's own holding is not looked at
MayTradeOversold(u, i, o, side, q) ==
    /\ Tradable(i)
    /\ terms[i].creator # u
    /\ Calculable(inventory[i], o, side, q)
    /\ Total(i, o, side, q) >= 0
    /\ side = "buy" => balance[u] >= Total(i, o, side, q)

\* What execute_once requires of the trader: not the creator, funds, shares
MayTrade(u, i, o, side, q) ==
    /\ Tradable(i)
    /\ terms[i].creator # u
    /\ Calculable(inventory[i], o, side, q)
    /\ Total(i, o, side, q) >= 0
    /\ IF side = "buy" THEN balance[u] >= Total(i, o, side, q)
                       ELSE position[i][u][o] >= q

\* The reserve after the trade covers the largest possible payout
Covered(i, o, side, q) ==
    LET total == Total(i, o, side, q)
        remaining == balance[i] + (IF side = "buy" THEN total ELSE -total)
        next == Shifted(inventory[i], o, side, q)
    IN  \A p \in Outcomes : remaining >= PAYOUT * next[p]

\* Mutant: a sale leaves the holding as it was
OwnedAfterBuy(u, i, o, side, q) ==
    IF side = "buy" THEN Shifted(position[i][u], o, side, q) ELSE position[i][u]

\* The trader's holding after the trade
Owned(u, i, o, side, q) == Shifted(position[i][u], o, side, q)

(***************************************************************************)
(* Store::execute_once with a quote of the current version.  The trader's  *)
(* limit and the quote's expiry only refuse trades, so any limit is        *)
(* admitted here; the idempotency key is the subject of module TradeTx.    *)
(***************************************************************************)
Execute(u, i, o, side, q) ==
    /\ version[i] < MaxVersion
    /\ MayTrade(u, i, o, side, q)
    /\ Covered(i, o, side, q)
    /\ IF side = "buy" THEN Transfer(u, i, Total(i, o, side, q))
                       ELSE Transfer(i, u, Total(i, o, side, q))
    /\ inventory' = [inventory EXCEPT ![i] = Shifted(@, o, side, q)]
    /\ position' = [position EXCEPT ![i][u] = Owned(u, i, o, side, q)]
    /\ fees' = [fees EXCEPT ![i] = @ + Fee(i, Engine(i, o, side, q))]
    /\ Publish(i)
    /\ UNCHANGED <<terms, now, state, suspended, result, evidence, claim>>

\* Store::suspend: the administrator sets or clears the flag of an open instance
Suspend(i, flag) ==
    /\ version[i] < MaxVersion
    /\ state[i] = "open"
    /\ suspended' = [suspended EXCEPT ![i] = flag]
    /\ Publish(i)
    /\ UNCHANGED <<terms, now, balance, state, inventory, result, position, fees,
                   evidence, claim>>

-----------------------------------------------------------------------------

\* Mutant: the state of a due row is not looked at
DueAnyState == {i \in Instances : CloseMs[i] <= now}

Due == {i \in Instances : state[i] = "open" /\ CloseMs[i] <= now}

(***************************************************************************)
(* Store::close_due: one transaction closes the due rows it can lock.  Any *)
(* nonempty part of them may be unlocked (SKIP LOCKED) and within LIMIT.   *)
(***************************************************************************)
CloseDue ==
    \E batch \in (SUBSET Due) \ {{}} :
        /\ state' = [i \in Instances |-> IF i \in batch THEN "closed" ELSE state[i]]
        /\ version' = [i \in Instances |->
                          IF i \in batch THEN version[i] + 1 ELSE version[i]]
        /\ outbox' = [i \in Instances |->
                         IF i \in batch THEN Append(outbox[i], version[i] + 1)
                                        ELSE outbox[i]]
        /\ UNCHANGED <<terms, now, balance, suspended, inventory, result, position,
                       fees, evidence, claim>>

\* The rows every recording method writes: evidence, the instance, its event
AddEvidence(i, revision, outcome) ==
    /\ evidence' = [evidence EXCEPT ![i] =
                       @ \cup {[revision |-> revision, result |-> outcome]}]
    /\ Publish(i)
    /\ UNCHANGED <<terms, now, balance, state, suspended, inventory, result, position,
                   fees, claim>>

\* A demo_mode answer for a simulated instance replays after the deadline too
InTime(i) == terms[i].simulated \/ now < EvidenceDeadlineMs[i]

(***************************************************************************)
(* Store::record_evidence: one revision of a series-less instance's        *)
(* observation, as Rule::evaluate reads it: a winner, an election nobody   *)
(* won (Void), or not complete yet (NoResult).                             *)
(***************************************************************************)
RecordEvidence(i, revision, outcome) ==
    /\ terms[i].authority = "simulator"
    /\ state[i] \in {"open", "closed"}
    /\ now >= ObservationEndMs[i]
    /\ InTime(i)
    /\ \A row \in evidence[i] : row.revision # revision
    /\ AddEvidence(i, revision, outcome)

\* Store::record_creator_resolution: one verified signature of the creator
RecordCreatorResolution(i, outcome) ==
    /\ terms[i].authority = "creator"
    /\ state[i] = "closed"
    /\ now >= ObservationEndMs[i]
    /\ now < EvidenceDeadlineMs[i]
    /\ evidence[i] = {}
    /\ AddEvidence(i, 0, outcome)

\* Store::record_resolver_evidence, as worker::process_instance calls it
RecordResolverEvidence(i, outcome) ==
    /\ terms[i].authority = "resolver"
    /\ state[i] = "closed"
    /\ now >= FinalizeAfterMs[i]
    /\ InTime(i)
    /\ evidence[i] = {}
    /\ AddEvidence(i, 0, outcome)

-----------------------------------------------------------------------------

\* No other row of the instance corrects this one
Standing(i, row) == \A other \in evidence[i] : other.revision <= row.revision

\* Mutant: the first revision stands, not the last
Earliest(i) ==
    CHOOSE row \in evidence[i] :
        \A other \in evidence[i] : other.revision >= row.revision

\* SELECT ... FROM evidence ORDER BY source_revision DESC LIMIT 1
Latest(i) == CHOOSE row \in evidence[i] : Standing(i, row)

\* Mutant: the deadline voids nothing
VerdictNeverVoid(i) ==
    IF evidence[i] # {} THEN Latest(i).result ELSE NoResult

\* The result a finalization fixes now; NoResult while evidence is awaited
Verdict(i) ==
    IF evidence[i] # {} /\ Latest(i).result # NoResult THEN Latest(i).result
    ELSE IF now >= EvidenceDeadlineMs[i] THEN Void
    ELSE NoResult

Finalizable(i) ==
    /\ state[i] = "closed"
    /\ now >= FinalizeAfterMs[i]
    /\ Verdict(i) # NoResult

\* Mutant: a void pays every share in full
CreditUndivided(i, u, res) ==
    IF res = Void THEN SumFunction(position[i][u]) * PAYOUT
                  ELSE position[i][u][res] * PAYOUT

\* What a claim pays for an account's shares under a result
Credit(i, u, res) ==
    IF res = Void
    THEN (SumFunction(position[i][u]) * PAYOUT) \div Cardinality(Outcomes)
    ELSE position[i][u][res] * PAYOUT

\* Mutant: only the winning outcome's holders count
OutstandingWinners(i) ==
    {u \in Users : claim[i][u] = Unclaimed
                   /\ \E o \in Outcomes : o = Verdict(i) /\ position[i][u][o] > 0}

\* Accounts with shares and no claim row
Outstanding(i) ==
    {u \in Users : claim[i][u] = Unclaimed /\ \E o \in Outcomes : position[i][u][o] > 0}

\* Up to BatchLimit outstanding accounts
Batches(i) ==
    {batch \in SUBSET Outstanding(i) :
        \/ batch = Outstanding(i) /\ Cardinality(batch) <= BatchLimit
        \/ Cardinality(batch) = BatchLimit}

\* Balances once the accounts of a batch are paid, before any release
Paid(i, credit) ==
    [a \in Accounts |->
        IF a = i THEN balance[i] - SumFunction(credit)
        ELSE IF a \in DOMAIN credit THEN balance[a] + credit[a]
        ELSE balance[a]]

\* Mutant: the creator's cut is not taken out of what the treasury receives
ReleasedCutTwice(i, paid) ==
    [a \in Accounts |->
        IF a = i THEN 0
        ELSE IF a = Treasury THEN paid[a] + paid[i]
        ELSE IF a = terms[i].creator
             THEN paid[a] + CreatorShare(fees[i], terms[i].creator # Nobody)
        ELSE paid[a]]

\* Balances once the reserve is released: the creator's cut, and the rest
Released(i, paid) ==
    LET cut == CreatorShare(fees[i], terms[i].creator # Nobody)
    IN  [a \in Accounts |->
            IF a = i THEN 0
            ELSE IF a = Treasury THEN paid[a] + (paid[i] - fees[i]) + (fees[i] - cut)
            ELSE IF a = terms[i].creator THEN paid[a] + cut
            ELSE paid[a]]

(***************************************************************************)
(* Store::settle_batch: fix the result once, pay one batch, and when no    *)
(* claim is left release the reserve and split the fee pot, in one         *)
(* transaction.  The guards on paid are the code's reserve check and the   *)
(* CHECKs on claims, transfers and balances.                               *)
(***************************************************************************)
SettleBatch(i) ==
    LET finalizes == Finalizable(i)
        res == IF finalizes THEN Verdict(i) ELSE result[i]
        first == IF finalizes THEN <<version[i] + 1>> ELSE <<>>
        after == version[i] + Len(first)
    IN  /\ finalizes \/ state[i] = "resolving"
        /\ \E batch \in Batches(i) :
            LET credit == [u \in batch |-> Credit(i, u, res)]
                paid == Paid(i, credit)
                last == batch = Outstanding(i)
            IN  /\ credit \in [batch -> Nat]
                /\ paid \in [Accounts -> Nat]
                /\ last => paid[i] >= fees[i]
                /\ balance' = IF last THEN Released(i, paid) ELSE paid
                /\ claim' = [claim EXCEPT ![i] =
                                [u \in Users |-> IF u \in batch THEN credit[u] ELSE @[u]]]
                /\ state' = [state EXCEPT ![i] =
                                IF ~last THEN "resolving"
                                ELSE IF res = Void THEN "voided" ELSE "resolved"]
                /\ version' = [version EXCEPT ![i] = IF last THEN after + 1 ELSE after]
                /\ outbox' = [outbox EXCEPT ![i] =
                                 @ \o first \o (IF last THEN <<after + 1>> ELSE <<>>)]
        /\ result' = [result EXCEPT ![i] = res]
        /\ UNCHANGED <<terms, now, suspended, inventory, position, fees, evidence>>

\* Time passes, or Store::advance_demo_clock jumps
Advance ==
    /\ \E t \in now + 1 .. MaxTime : now' = t
    /\ UNCHANGED <<terms, balance, state, suspended, inventory, version, result,
                   position, fees, evidence, claim, outbox>>

-----------------------------------------------------------------------------

Trading ==
    \E u \in Users, i \in Instances, o \in Outcomes, side \in Sides, q \in Lots :
        Execute(u, i, o, side, q)

Administration == \E i \in Instances : CreateInstance(i) \/ \E b \in BOOLEAN : Suspend(i, b)

Reporting ==
    \E i \in Instances, o \in Outcomes :
        \/ \E r \in Revisions, res \in {o, Void, NoResult} : RecordEvidence(i, r, res)
        \/ RecordCreatorResolution(i, o)
        \/ RecordResolverEvidence(i, o)

Next == Trading \/ Administration \/ CloseDue \/ Reporting
            \/ (\E i \in Instances : SettleBatch(i)) \/ Advance

Spec == Init /\ [][Next]_vars

(***************************************************************************)
(* worker::run ticks forever and retries what failed, and time passes: the *)
(* worker's transactions are weakly fair, a trader's or reporter's are not.*)
(***************************************************************************)
FairSpec ==
    /\ Spec
    /\ WF_vars(Advance) /\ WF_vars(CloseDue)
    /\ \A i \in Instances : WF_vars(SettleBatch(i))

-----------------------------------------------------------------------------
(***************************************************************************)
(* Properties.                                                             *)
(***************************************************************************)

TypeOK ==
    /\ terms \in [Instances -> Terms]
    /\ now \in Nat
    /\ balance \in [Accounts -> Nat]
    /\ state \in [Instances -> States]
    /\ suspended \in [Instances -> BOOLEAN]
    /\ inventory \in [Instances -> Inventories]
    /\ version \in [Instances -> Nat]
    /\ result \in [Instances -> Results]
    /\ position \in [Instances -> [Users -> [Outcomes -> Nat]]]
    /\ fees \in [Instances -> Nat]
    /\ evidence \in [Instances -> SUBSET Evidence]
    /\ claim \in [Instances -> [Users -> Nat \cup {Unclaimed}]]
    /\ outbox \in [Instances -> Seq(Nat)]

(***************************************************************************)
(* A reserve pays any outcome without touching the fee pot it also holds:  *)
(* settle_batch releases reserve - fees, which the ledger refuses when     *)
(* negative, while execute_once compares the payout with the whole reserve,*)
(* fees included.  It takes funding, and every rounding of every trade     *)
(* since, to make the smaller sum suffice.                                 *)
(***************************************************************************)
ReserveSolvent ==
    \A i \in Instances : state[i] \in {"open", "closed"} =>
        \A o \in Outcomes : balance[i] - fees[i] >= PAYOUT * inventory[i][o]

(***************************************************************************)
(* The error "Trade would violate the market's reserve coverage" is never  *)
(* what refuses a trade: whatever passes the other checks is covered.      *)
(***************************************************************************)
CoverageNeverRefuses ==
    \A u \in Users, i \in Instances, o \in Outcomes, side \in Sides, q \in Lots :
        MayTrade(u, i, o, side, q) => Covered(i, o, side, q)

(***************************************************************************)
(* Buying and selling back never takes anything out of the subsidy: when   *)
(* all shares of an open market are sold again, by whatever route, the     *)
(* reserve without its fees is at least the funding it started with.       *)
(***************************************************************************)
RoundTripsNeverProfit ==
    \A i \in Instances :
        state[i] = "open" /\ inventory[i] = Empty => balance[i] - fees[i] >= Funding

\* Store::reconcile's inventory check: the AMM's inventory is what the accounts hold.
InventoryBacked ==
    \A i \in Instances, o \in Outcomes :
        inventory[i][o] = SumFunction([u \in Users |-> position[i][u][o]])

\* Store::reconcile's total: no transaction, the settlement split included, makes or
\* loses a unit.
UnitsConserved == SumFunction(balance) = SumFunction(Grants)

(***************************************************************************)
(* Each instance's outbox is gap free and in order: versions 0, 1, ... up  *)
(* to the row's own version, although settle_batch may advance it twice in *)
(* one transaction and close_due advances many rows in one.                *)
(***************************************************************************)
OutboxGapFree ==
    \A i \in Instances :
        state[i] # "absent" => outbox[i] = [k \in 1 .. version[i] + 1 |-> k - 1]

(***************************************************************************)
(* Settlement cannot wedge: whatever the result, and however many batches  *)
(* already committed, the reserve pays the accounts still outstanding and  *)
(* keeps the fee pot whole for its split.                                  *)
(***************************************************************************)
ClaimsCovered ==
    \A i \in Instances :
        \A res \in (CASE state[i] = "closed" -> Outcomes \cup {Void}
                       [] state[i] = "resolving" -> {result[i]}
                       [] OTHER -> {}) :
            balance[i] - fees[i]
                >= SumFunction([u \in Outstanding(i) |-> Credit(i, u, res)])

(***************************************************************************)
(* A settled instance has paid every holder, and nobody else, exactly what *)
(* the final result gives its shares, and its reserve is empty.            *)
(***************************************************************************)
PaidInFull ==
    \A i \in Instances : state[i] \in Terminal =>
        /\ balance[i] = 0
        /\ \A u \in Users :
              claim[i][u] = IF \E o \in Outcomes : position[i][u][o] > 0
                            THEN Credit(i, u, result[i]) ELSE Unclaimed

(***************************************************************************)
(* The result is what the highest revision says, and without complete      *)
(* evidence a market is void, and only past its deadline: evidence recorded*)
(* before the result was fixed decides it, corrections arriving in any     *)
(* order included, and nothing recorded later can differ from it.          *)
(***************************************************************************)
ResultFromEvidence ==
    \A i \in Instances : result[i] # NoResult =>
        IF \E row \in evidence[i] : Standing(i, row) /\ row.result # NoResult
        THEN \E row \in evidence[i] : Standing(i, row) /\ row.result = result[i]
        ELSE result[i] = Void /\ now >= EvidenceDeadlineMs[i]

(***************************************************************************)
(* A result and a paid claim are final: later batches, late evidence or a  *)
(* clock jump never change them, and no trade moves a market once closed.  *)
(***************************************************************************)
SettlementFinal ==
    [][\A i \in Instances :
          /\ result[i] # NoResult => result'[i] = result[i]
          /\ state[i] \notin {"absent", "open"} =>
                /\ inventory'[i] = inventory[i] /\ fees'[i] = fees[i]
          /\ \A u \in Users : claim[i][u] # Unclaimed => claim'[i][u] = claim[i][u]
      ]_vars

Life == INSTANCE Lifecycle WITH
            Markets <- Instances, Verdicts <- Results, phase <- state, verdict <- result

(***************************************************************************)
(* An instance goes through its phases once and in one direction, and its  *)
(* verdict is fixed as it leaves the closed phase, although close_due moves*)
(* many rows at once and a settlement takes any number of transactions.    *)
(***************************************************************************)
ImplementsLifecycle == Life!LifeSpec

(***************************************************************************)
(* Every published market is settled in the end, with or without evidence, *)
(* because the worker keeps closing and settling and the deadline voids.   *)
(***************************************************************************)
EveryMarketSettles ==
    \A i \in Instances : (state[i] = "open") ~> (state[i] \in Terminal)
=============================================================================
