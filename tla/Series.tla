------------------------------- MODULE Series -------------------------------
(***************************************************************************)
(* Series and their brackets: publication by a creator (Store::            *)
(* create_series), the rolling spawn of several processes with clocks read *)
(* at different times (spawn_due_brackets), the end of a series, demo      *)
(* seeding, and retention.  Each action is one statement or transaction    *)
(* that another process can come between.                                  *)
(*                                                                         *)
(* A market is known by its key: its series and bracket slot (0 for the    *)
(* only market of a one-time series), or Direct and its close for the      *)
(* series-less demo market, of which one template is modelled.             *)
(***************************************************************************)
EXTENDS Calendar, FiniteSets

CONSTANTS
    Ids,            \* series that may be created
    Demo,           \* those of them that are rows of one demo line
    Direct,         \* stands for the template of the demo market
    Procs,          \* backend processes, each with a worker
    Schedules,      \* [Ids -> schedule]
    DemoGrid,       \* demo_specs: closes fall on a grid of 15 minutes
    DemoDuration,   \* and are observed for this long
    Retention,      \* BRACKET_RETENTION_MS
    PurgeLimit,     \* 20 brackets per purge
    Subsidies,      \* how many reserves the treasury can fund at once
    Epoch,          \* the time of the first step
    MaxTime,        \* bound: the clock stops here
    LastDirect,     \* bound: the last close of a demo market
    MaxFailures     \* bound: errors, lost connections and crashes

VARIABLES
    now,        \* db_now
    series,     \* market_series rows: state and anchor_ms
    publisher,  \* the request that publishes a one-time series
    bracket,    \* instances.state by key, "absent" or "purged" without a row
    budget,     \* reserves the treasury can still fund
    job,        \* each process' tick: its place, the clock it read, the brackets left to
                \* publish and the one it is at
    failures    \* how many there have been

seriesVars == <<now, series, publisher, bracket, budget, job, failures>>

Once(s) == Schedules[s].kind = "once"

Slots(s) ==
    IF s = Direct THEN {t \in Epoch .. LastDirect : t % DemoGrid = 0}
    ELSE IF Once(s) THEN {0} ELSE Epoch + 1 .. Schedules[s].end_ms - 1

Keys == UNION {{s} \X Slots(s) : s \in Ids \cup {Direct}}

\* The published times of a market
Times(k) ==
    IF k[1] # Direct THEN bracket_timing(Schedules[k[1]], k[2])
    ELSE bracket_timing([kind |-> "recurring", interval_ms |-> DemoDuration], k[2])

Live == {"open", "closed", "resolving"}
Terminal == {"resolved", "voided"}

Of(s) == {k \in Keys : k[1] = s}

\* A row is there
Exists(k) == bracket[k] \in Live \cup Terminal

\* A tick's place, the clock it read, the markets left to publish, and the one it is at
Doing(place, clock, todo, key) ==
    [at |-> place, clock |-> clock, todo |-> todo, key |-> key]

\* A point of the tick after which neither its clock nor its slots are used
At(place) == Doing(place, Epoch, {}, <<Direct, Epoch>>)
Idle == At("idle")

ASSUME SeriesAssumption ==
    /\ Demo \subseteq Ids /\ Direct \notin Ids
    /\ DemoGrid \in Nat \ {0} /\ DemoDuration \in Nat \ {0} /\ Retention \in Nat
    /\ PurgeLimit \in Nat \ {0} /\ Subsidies \in Nat /\ MaxFailures \in Nat
    /\ MaxTime \in Nat /\ Epoch \in 0 .. MaxTime /\ LastDirect \in Nat
    /\ \A s \in Ids :
        IF Once(s)
        THEN Schedules[s].times \in
                [close_ms : Int, observation_start_ms : Int, observation_end_ms : Int,
                 finalize_after_ms : Int, evidence_deadline_ms : Int]
        ELSE /\ Schedules[s].interval_ms \in Int /\ Schedules[s].max_concurrency \in Nat
             /\ Schedules[s].end_ms \in Epoch .. MaxTime
    /\ \A s \in Demo : ~Once(s)

SeriesInit ==
    /\ now = Epoch
    /\ series = [s \in Ids |-> [state |-> "absent", anchor |-> Epoch]]
    /\ publisher = [s \in Ids |-> "idle"]
    /\ bracket = [k \in Keys |-> "absent"]
    /\ budget = Subsidies
    /\ job = [p \in Procs |-> Idle]
    /\ failures = 0

-----------------------------------------------------------------------------

Fails ==
    /\ failures < MaxFailures
    /\ failures' = failures + 1

Goto(p, step) == job' = [job EXCEPT ![p] = step]

Active(s) == series[s].state = "active"

\* The committed row of create_series, anchored at its creation
Inserted(s) == series' = [series EXCEPT ![s] = [state |-> "active", anchor |-> now]]

\* Mutant: the treasury's balance is not looked at
FundableAlways(k) == TRUE

\* create_instance refuses an exhausted subsidy budget
Fundable(k) == budget > 0

\* create_instance's writes
Opened(k) ==
    /\ bracket' = [bracket EXCEPT ![k] = "open"]
    /\ budget' = budget - 1

(***************************************************************************)
(* Store::create_series by a creator: the series row is committed first.   *)
(***************************************************************************)
CreateSeries(s) ==
    /\ s \notin Demo
    /\ series[s].state = "absent"
    /\ ScheduleValid(Schedules[s], now)
    /\ Inserted(s)
    /\ publisher' = [publisher EXCEPT ![s] = IF Once(s) THEN "funding" ELSE "done"]
    /\ UNCHANGED <<now, bracket, budget, job, failures>>

\* Then the market of a one-time series, validated against a later clock
PublishOnce(s) ==
    /\ publisher[s] = "funding"
    /\ TimesValid(Times(<<s, 0>>), now) /\ Fundable(<<s, 0>>)
    /\ Opened(<<s, 0>>)
    /\ publisher' = [publisher EXCEPT ![s] = "done"]
    /\ UNCHANGED <<now, series, job, failures>>

\* create_instance refuses
RefuseOnce(s) ==
    /\ publisher[s] = "funding"
    /\ ~(TimesValid(Times(<<s, 0>>), now) /\ Fundable(<<s, 0>>))
    /\ publisher' = [publisher EXCEPT ![s] = "removing"]
    /\ UNCHANGED <<now, series, bracket, budget, job, failures>>

\* It fails before its commit, or in reading the row back after it
PublishFails(s) ==
    /\ publisher[s] = "funding"
    /\ Fails
    /\ publisher' = [publisher EXCEPT ![s] = "removing"]
    /\ \/ TimesValid(Times(<<s, 0>>), now) /\ Fundable(<<s, 0>>) /\ Opened(<<s, 0>>)
       \/ UNCHANGED <<bracket, budget>>
    /\ UNCHANGED <<now, series, job>>

\* Mutant: the compensation is forgotten
KeptOnError(s) == UNCHANGED series

\* DELETE FROM market_series, which a bracket's foreign key forbids
Removed(s) ==
    series' = IF Exists(<<s, 0>>) THEN series ELSE [series EXCEPT ![s].state = "deleted"]

\* The compensating DELETE; its own errors are ignored
Compensate(s) ==
    /\ publisher[s] = "removing"
    /\ \/ Removed(s) /\ UNCHANGED failures
       \/ Fails /\ UNCHANGED series
    /\ publisher' = [publisher EXCEPT ![s] = "failed"]
    /\ UNCHANGED <<now, bracket, budget, job>>

\* The process dies in between
PublisherDies(s) ==
    /\ publisher[s] \in {"funding", "removing"}
    /\ Fails
    /\ publisher' = [publisher EXCEPT ![s] = "died"]
    /\ UNCHANGED <<now, series, bracket, budget, job>>

-----------------------------------------------------------------------------

\* The slots of all active recurring series
Upcoming(clock) ==
    UNION {{s} \X SlotsAhead(Schedules[s], series[s].anchor, clock) :
               s \in {x \in Ids : Active(x) /\ ~Once(x)}}

\* spawn_due_brackets reads the clock and the active recurring series
SpawnBegin(p) ==
    /\ job[p].at = "closed"
    /\ Goto(p, Doing("spawn", now, Upcoming(now), <<Direct, Epoch>>))
    /\ UNCHANGED <<now, series, publisher, bracket, budget, failures>>

\* One series after the other, in any order; the slots of each in theirs
NextSlots(p) ==
    LET todo == job[p].todo
        same == {k \in todo : k[1] = job[p].key[1]}
    IN  {k \in IF same # {} THEN same ELSE todo :
            \A l \in todo : l[1] = k[1] => k[2] <= l[2]}

\* What is left once a slot is done, or its series given up
Without(todo, k) == todo \ {k}
GivenUp(todo, k) == {l \in todo : l[1] # k[1]}

\* On with the rest: the direct market of seed_demo is the last thing of a tick
Then(p, k, rest) ==
    Goto(p, IF job[p].at \in {"seeding", "create seed"} THEN Idle
            ELSE Doing("spawn", job[p].clock, rest, k))

(***************************************************************************)
(* The next slot: skipped when published already; otherwise create_instance*)
(* begins, and refuses what closes too early by the clock of its own       *)
(* transaction.  It does not ask whether the series is still active.       *)
(***************************************************************************)
CreateBegin(p) ==
    /\ job[p].at \in {"spawn", "seeding"}
    /\ \E k \in NextSlots(p) :
          IF Exists(k) THEN Then(p, k, Without(job[p].todo, k))
          ELSE IF ~TimesValid(Times(k), now) THEN Then(p, k, GivenUp(job[p].todo, k))
          ELSE Goto(p, Doing(IF job[p].at = "spawn" THEN "create" ELSE "create seed",
                             job[p].clock, job[p].todo, k))
    /\ UNCHANGED <<now, series, publisher, bracket, budget, failures>>

(***************************************************************************)
(* Its commit, serialized by the row lock of the template: a competitor's  *)
(* market is left alone, and an exhausted budget gives the series up.      *)
(***************************************************************************)
CreateCommit(p) ==
    LET k == job[p].key
        done == Then(p, k, Without(job[p].todo, k))
        given_up == Then(p, k, GivenUp(job[p].todo, k))
    IN  /\ job[p].at \in {"create", "create seed"}
        /\ \/ Exists(k) /\ done /\ UNCHANGED <<bracket, budget, failures>>
           \/ ~Exists(k) /\ Fundable(k) /\ Opened(k) /\ done /\ UNCHANGED failures
           \/ ~Exists(k) /\ ~Fundable(k) /\ given_up
                /\ UNCHANGED <<bracket, budget, failures>>
           \/ Fails /\ given_up /\ UNCHANGED <<bracket, budget>>
        /\ UNCHANGED <<now, series, publisher>>

\* Mutant: a series with any bracket left does not end
EndingUnlessEmpty(s, clock) ==
    /\ Active(s)
    /\ IF Once(s) THEN Exists(<<s, 0>>) ELSE Schedules[s].end_ms <= clock
    /\ \A k \in Of(s) : ~Exists(k)

\* A series ends when its last non-terminal bracket settles
Ending(s, clock) ==
    /\ Active(s)
    /\ IF Once(s) THEN Exists(<<s, 0>>) ELSE Schedules[s].end_ms <= clock
    /\ \A k \in Of(s) : bracket[k] \notin Live

\* The UPDATE that ends series, by the clock spawn_due_brackets began with
EndSeries(p) ==
    /\ job[p].at = "spawn" /\ job[p].todo = {}
    /\ series' = [s \in Ids |-> IF Ending(s, job[p].clock)
                                THEN [series[s] EXCEPT !.state = "ended"] ELSE series[s]]
    /\ Goto(p, At("spawned"))
    /\ UNCHANGED <<now, publisher, bracket, budget, failures>>

-----------------------------------------------------------------------------

\* Mutant: purged as soon as it is final
PurgeableOnceFinal(k) == k[1] \in Ids /\ ~Once(k[1]) /\ bracket[k] \in Terminal

Purgeable(k) ==
    /\ k[1] \in Ids /\ ~Once(k[1])
    /\ bracket[k] \in Terminal
    /\ Times(k).evidence_deadline_ms <= now - Retention

\* purge_expired_brackets: up to PurgeLimit rows with all that belongs to them
Purge(p) ==
    /\ job[p].at = "settling"
    /\ LET rows == {k \in Keys : Purgeable(k)}
       IN  \E batch \in SUBSET rows :
            /\ batch = rows \/ Cardinality(batch) = PurgeLimit
            /\ Cardinality(batch) <= PurgeLimit
            /\ bracket' = [k \in Keys |-> IF k \in batch THEN "purged" ELSE bracket[k]]
    /\ Goto(p, At("seed"))
    /\ UNCHANGED <<now, series, publisher, budget, failures>>

\* seed_demo reads the clock and the active series of its line
SeedBegin(p) ==
    /\ job[p].at = "seed"
    /\ Goto(p, Doing(IF \E s \in Demo : Active(s) THEN "seed direct" ELSE "seed series",
                     now, {}, <<Direct, Epoch>>))
    /\ UNCHANGED <<now, series, publisher, bracket, budget, failures>>

\* It found none, and creates one
SeedSeries(p) ==
    /\ job[p].at = "seed series"
    /\ \/ \E s \in Demo :
            /\ series[s].state = "absent" /\ ScheduleValid(Schedules[s], now)
            /\ Inserted(s)
       \/ /\ ~\E s \in Demo : series[s].state = "absent" /\ ScheduleValid(Schedules[s], now)
          /\ UNCHANGED series      \* bound: no further row
    /\ Goto(p, Doing("seed direct", job[p].clock, {}, <<Direct, Epoch>>))
    /\ UNCHANGED <<now, publisher, bracket, budget, failures>>

(***************************************************************************)
(* Outside live mode one upcoming market per template: the next grid point *)
(* after the clock it read, unless one closes later than that clock.       *)
(***************************************************************************)
SeedDirect(p, live_mode) ==
    LET clock == job[p].clock
        close == ((clock \div DemoGrid) + 1) * DemoGrid
    IN  /\ job[p].at = "seed direct"
        /\ IF \/ live_mode \/ close > LastDirect
              \/ \E k \in Of(Direct) : Exists(k) /\ Times(k).close_ms > clock
           THEN Goto(p, Idle)
           ELSE Goto(p, Doing("seeding", Epoch, {<<Direct, close>>}, <<Direct, Epoch>>))
        /\ UNCHANGED <<now, series, publisher, bracket, budget, failures>>

-----------------------------------------------------------------------------

(***************************************************************************)
(* Time passes or the demo clock jumps, but never so far that a            *)
(* create_instance in flight outlasts the retention of its own bracket.    *)
(***************************************************************************)
Advance ==
    /\ \E t \in now + 1 .. MaxTime :
        /\ \A p \in Procs : job[p].at \in {"create", "create seed"} =>
                t < Times(job[p].key).evidence_deadline_ms + Retention
        /\ now' = t
    /\ UNCHANGED <<series, publisher, bracket, budget, job, failures>>

Publication(s) ==
    \/ CreateSeries(s) \/ PublishOnce(s) \/ RefuseOnce(s) \/ PublishFails(s)
    \/ Compensate(s) \/ PublisherDies(s)

Spawning(p) == SpawnBegin(p) \/ CreateBegin(p) \/ CreateCommit(p) \/ EndSeries(p)

Seeding(p, live_mode) == SeedBegin(p) \/ SeedSeries(p) \/ SeedDirect(p, live_mode)
=============================================================================
