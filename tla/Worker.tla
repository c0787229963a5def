------------------------------- MODULE Worker -------------------------------
(***************************************************************************)
(* worker::tick of every process, over the series and brackets of module   *)
(* Series: close what is due, spawn, trade for the demo, select a bounded  *)
(* batch, ask for evidence, settle, purge, seed; with the resolver's       *)
(* answers (resolver.rs) and the checks of the recording methods           *)
(* (resolution.rs).  Each process holds its tick_lock, so it runs one tick *)
(* at a time; ticks of different processes interleave.  The deployment has *)
(* demo_mode on; feed says what stands behind the platform's bus adapter.  *)
(*                                                                         *)
(* Module Market has the amounts and the claims: here a settlement is the  *)
(* state it leaves, and its subsidy returns to the treasury unspent.       *)
(***************************************************************************)
EXTENDS Series, Rules

CONSTANTS
    RuleOf,         \* [Ids \cup {Direct} -> rule]
    Authority,      \* [Ids -> {"creator", "resolver"}]
    Endpoint,       \* [Ids -> {"adapter", "external"}]
    Simulated,      \* series and templates with data_mode simulated
    Feeds,          \* "simulated": no provider; "provider"; "live": live_mode
    Arrivals,       \* when the observed bus really arrived
    Sample,         \* the private hash of each market, by key
    BatchSize       \* LIMIT 100 of the due rows

VARIABLES
    feed,       \* the deployment, fixed at start
    evidence,   \* the evaluated result of the one evidence row, or None
    verdict,    \* instances.result
    tasks       \* process_instance tasks of each process, by key

workerVars == <<feed, evidence, verdict, tasks>>
vars == <<seriesVars, workerVars>>

Verdicts == 0 .. 7 \cup {Void, None}

Rule(k) == RuleOf[k[1]]

Asked == [stage |-> "ask", answer |-> None]
Answered(a) == [stage |-> "record", answer |-> a]
Ready == [stage |-> "settle", answer |-> None]

ASSUME WorkerAssumption ==
    /\ \A x \in Ids \cup {Direct} :
        /\ RuleOf[x].kind \in {"weather", "count", "bus", "election", "other"}
        /\ RuleValid(RuleOf[x])
        /\ RuleOf[x].kind = "election" =>
              /\ RuleOf[x].candidates \in Seq(Range(RuleOf[x].candidates))
              /\ None \notin Range(RuleOf[x].candidates)
    \* A creator's own series has no endpoint, the adapter serves one with a resolver
    /\ \A s \in Ids : Endpoint[s] = "adapter" => Authority[s] = "resolver"
    \* Simulated series are seeded: bus markets that the adapter resolves
    /\ \A s \in Simulated \cap Ids :
        s \in Demo /\ Endpoint[s] = "adapter" /\ RuleOf[s].kind = "bus"
    /\ Arrivals \subseteq Int /\ IsFiniteSet(Arrivals)
    /\ Sample \in [Keys -> Nat]
    /\ Feeds \subseteq {"simulated", "provider", "live"}
    /\ Void \notin 0 .. 7 /\ None \notin 0 .. 7 \cup {Void}
    /\ Rejected \notin 0 .. 7 \cup {Void, None}
    /\ BatchSize \in Nat \ {0}

Init ==
    /\ SeriesInit
    /\ feed \in Feeds
    /\ evidence = [k \in Keys |-> None]
    /\ verdict = [k \in Keys |-> None]
    /\ tasks = [p \in Procs |-> <<>>]

-----------------------------------------------------------------------------

(***************************************************************************)
(* Store::close_due begins the tick.  Here it closes all that is due: rows *)
(* a trade holds, which it skips, are closed by a later tick.              *)
(***************************************************************************)
CloseDue(p) ==
    /\ job[p].at = "idle"
    /\ bracket' = [k \in Keys |-> IF bracket[k] = "open" /\ Times(k).close_ms <= now
                                  THEN "closed" ELSE bracket[k]]
    /\ Goto(p, At("closed"))
    /\ UNCHANGED <<now, series, publisher, budget, failures, workerVars>>

\* Series-owned markets have a fixed authority; the demo's own are simulated
ResolverOwned(k) == k[1] \in Ids /\ Authority[k[1]] = "resolver"

\* Mutant: a market without evidence is not selected at its deadline
DueWithEvidence(k) ==
    LET m == Times(k)
    IN  \/ bracket[k] = "resolving"
        \/ /\ bracket[k] = "closed" /\ evidence[k] = None /\ m.observation_end_ms <= now
           /\ k[1] \in Simulated
        \/ /\ bracket[k] = "closed" /\ m.finalize_after_ms <= now
           /\ evidence[k] # None \/ ResolverOwned(k)

\* The actionable rows of tick
Due(k) ==
    LET m == Times(k)
    IN  \/ bracket[k] = "resolving"
        \/ /\ bracket[k] = "closed" /\ evidence[k] = None /\ m.observation_end_ms <= now
           /\ k[1] \in Simulated
        \/ /\ bracket[k] = "closed" /\ m.finalize_after_ms <= now
           /\ m.evidence_deadline_ms <= now \/ evidence[k] # None \/ ResolverOwned(k)

\* Whether process_instance asks for evidence, from the row it was given
Asks(k) ==
    /\ bracket[k] = "closed" /\ evidence[k] = None
    /\ ResolverOwned(k) \/ (k[1] = Direct /\ k[1] \in Simulated /\ feed # "live")

\* SELECT ... ORDER BY finalize_after_ms, id LIMIT 100
Select(p) ==
    /\ job[p].at = "spawned"
    /\ LET due == {k \in Keys : Due(k)}
       IN  \E batch \in SUBSET due :
            /\ batch = due \/ Cardinality(batch) = BatchSize
            /\ Cardinality(batch) <= BatchSize
            /\ \A k \in batch, l \in due \ batch :
                  Times(k).finalize_after_ms <= Times(l).finalize_after_ms
            /\ tasks' = [tasks EXCEPT ![p] =
                            [k \in batch |-> IF Asks(k) THEN Asked ELSE Ready]]
    /\ Goto(p, At("settling"))
    /\ UNCHANGED <<now, series, publisher, bracket, budget, failures, feed, evidence,
                   verdict>>

\* An error of a demo trade other than a conflict, or of any statement before it
TickFails(p) ==
    /\ job[p].at = "spawned"
    /\ Fails
    /\ Goto(p, Idle)
    /\ UNCHANGED <<now, series, publisher, bracket, budget, workerVars>>

-----------------------------------------------------------------------------

Task(p, k, stage) == k \in DOMAIN tasks[p] /\ tasks[p][k].stage = stage

Continue(p, k, task) == tasks' = [tasks EXCEPT ![p][k] = task]

\* The simulator's observation of a market, and what really happened
Observed(k) ==
    LET m == Times(k)
    IN  Evaluate(Rule(k), Simulation(Rule(k), Sample[k], m.observation_start_ms,
                                     m.observation_end_ms),
                 m.observation_start_ms, m.observation_end_ms)

Happened(k) ==
    Evaluate(Rule(k), [kind |-> "bus", source |-> Rule(k).source, complete |-> TRUE,
                       arrivals |-> Arrivals],
             Times(k).observation_start_ms, Times(k).observation_end_ms)

\* Mutant: a silent provider is stood in for by the simulated feed
AdapterFallsBack(k) ==
    IF now < Times(k).observation_end_ms \/ Rule(k).kind # "bus" THEN {None}
    ELSE IF feed = "live" THEN {Happened(k), None}
    ELSE IF feed = "provider" THEN {Happened(k), Observed(k)}
    ELSE {Observed(k)}

(***************************************************************************)
(* ntu_bus_answer: the provider, when there is one, answers for the live   *)
(* feed or stays silent after its attempts, and then nothing is made up.   *)
(***************************************************************************)
Adapter(k) ==
    IF now < Times(k).observation_end_ms \/ Rule(k).kind # "bus" THEN {None}
    ELSE IF feed \in {"live", "provider"} THEN {Happened(k), None}
    ELSE {Observed(k)}

\* Any resolver may answer any outcome, one never published, or not yet
Answers(k) ==
    IF Endpoint[k[1]] = "adapter" THEN Adapter(k)
    ELSE 0 .. Cardinality(OutcomesOf(Rule(k))) \cup {None}

\* Recorded evidence: the first is kept, and only the worker's own versions bump
Recorded(k, result) == evidence' = [evidence EXCEPT ![k] = result]

\* record_evidence for a simulated direct market, replayed when late
AskSimulator(p, k) ==
    /\ Task(p, k, "ask") /\ k[1] = Direct
    /\ IF /\ bracket[k] \in {"open", "closed"} /\ evidence[k] = None
          /\ now >= Times(k).observation_end_ms
       THEN Recorded(k, Observed(k)) ELSE UNCHANGED evidence
    /\ Continue(p, k, Ready)
    /\ UNCHANGED <<seriesVars, feed, verdict>>

\* One HTTP call, parsed: only a published outcome goes on to be recorded
AskResolver(p, k) ==
    /\ Task(p, k, "ask") /\ k[1] # Direct
    /\ \E body \in Answers(k) :
          LET answer == Parsed(body, Rule(k))
          IN  Continue(p, k, IF answer \in {None, Rejected} THEN Ready ELSE Answered(answer))
    /\ UNCHANGED <<seriesVars, feed, evidence, verdict>>

\* The source is unreachable, or recording fails: settled without evidence
EvidenceFails(p, k) ==
    /\ Task(p, k, "ask") \/ Task(p, k, "record")
    /\ Fails
    /\ Continue(p, k, Ready)
    /\ UNCHANGED <<now, series, publisher, bracket, budget, job, feed, evidence, verdict>>

\* Mutant: an answer after the deadline is refused although it is a replay
InTimeOnly(k) == now < Times(k).evidence_deadline_ms

\* A simulated answer is the same after the deadline
InTime(k) == k[1] \in Simulated \/ now < Times(k).evidence_deadline_ms

\* record_resolver_evidence
RecordAnswer(p, k) ==
    /\ Task(p, k, "record")
    /\ IF bracket[k] \in {"open", "closed"} /\ InTime(k) /\ evidence[k] = None
       THEN Recorded(k, tasks[p][k].answer) ELSE UNCHANGED evidence
    /\ Continue(p, k, Ready)
    /\ UNCHANGED <<seriesVars, feed, verdict>>

\* record_creator_resolution: the creator signs an outcome, or never does
CreatorSigns(k) ==
    /\ k[1] \in Ids /\ Authority[k[1]] = "creator"
    /\ bracket[k] = "closed" /\ evidence[k] = None
    /\ now >= Times(k).observation_end_ms /\ now < Times(k).evidence_deadline_ms
    /\ \E o \in OutcomesOf(Rule(k)) : Recorded(k, o)
    /\ UNCHANGED <<seriesVars, feed, verdict, tasks>>

-----------------------------------------------------------------------------

\* What settle_batch requires to fix a result, by the clock of its transaction
Finalizable(k) ==
    /\ bracket[k] = "closed"
    /\ now >= Times(k).finalize_after_ms
    /\ evidence[k] # None \/ now >= Times(k).evidence_deadline_ms

Final(result) == IF result = Void THEN "voided" ELSE "resolved"

\* Nothing to do
Unsettled(k) ==
    /\ ~Finalizable(k) /\ bracket[k] # "resolving"
    /\ UNCHANGED <<bracket, verdict, budget>>

\* settle_batch: one batch, which is the last one or not
Settled(k) ==
    LET result == IF Finalizable(k)
                  THEN IF evidence[k] # None THEN evidence[k] ELSE Void
                  ELSE verdict[k]
    IN  /\ Finalizable(k) \/ bracket[k] = "resolving"
        /\ verdict' = [verdict EXCEPT ![k] = result]
        /\ \/ /\ bracket' = [bracket EXCEPT ![k] = Final(result)]
              /\ budget' = budget + 1
           \/ /\ bracket[k] = "closed"
              /\ bracket' = [bracket EXCEPT ![k] = "resolving"]
              /\ UNCHANGED budget

\* The end of process_instance: done, whatever settle_batch returns
SettleBatch(p, k) ==
    /\ Task(p, k, "settle")
    /\ Unsettled(k) \/ Settled(k)
    /\ tasks' = [tasks EXCEPT ![p] = [l \in DOMAIN @ \ {k} |-> @[l]]]
    /\ UNCHANGED <<now, series, publisher, job, failures, feed, evidence>>

\* A process dies and starts again with an empty tick
Crash(p) ==
    /\ job[p].at # "idle"
    /\ Fails
    /\ Goto(p, Idle)
    /\ tasks' = [tasks EXCEPT ![p] = <<>>]
    /\ UNCHANGED <<now, series, publisher, bracket, budget, feed, evidence, verdict>>

-----------------------------------------------------------------------------

Processing(p) ==
    \E k \in Keys : \/ AskSimulator(p, k) \/ AskResolver(p, k)
                    \/ RecordAnswer(p, k) \/ SettleBatch(p, k)

\* What a tick does unless something fails
Tick(p) ==
    \/ CloseDue(p)
    \/ (Spawning(p) \/ Seeding(p, feed = "live")) /\ UNCHANGED workerVars
    \/ Select(p) \/ Processing(p)
    \/ DOMAIN tasks[p] = {} /\ Purge(p) /\ UNCHANGED workerVars   \* all are joined

Failure(p) == TickFails(p) \/ Crash(p) \/ \E k \in Keys : EvidenceFails(p, k)

Next ==
    \/ \E p \in Procs : Tick(p) \/ Failure(p)
    \/ \E s \in Ids : Publication(s) /\ UNCHANGED workerVars
    \/ \E k \in Keys : CreatorSigns(k)
    \/ Advance /\ UNCHANGED workerVars

Spec == Init /\ [][Next]_vars

(***************************************************************************)
(* worker::run ticks every second and logs what fails, and time passes.    *)
(* Publishing, signing, answers and failures are not fair.                 *)
(***************************************************************************)
FairSpec ==
    /\ Spec
    /\ WF_vars(Advance /\ UNCHANGED workerVars)
    /\ \A p \in Procs : WF_vars(Tick(p))

-----------------------------------------------------------------------------
(***************************************************************************)
(* Properties.                                                             *)
(***************************************************************************)

TypeOK ==
    /\ now \in Epoch .. MaxTime /\ feed \in Feeds /\ failures \in 0 .. MaxFailures
    /\ \A s \in Ids : /\ series[s].state \in {"absent", "active", "ended", "deleted"}
                      /\ series[s].anchor \in Epoch .. MaxTime
    /\ publisher \in [Ids -> {"idle", "funding", "removing", "done", "failed", "died"}]
    /\ bracket \in [Keys -> {"absent", "purged"} \cup Live \cup Terminal]
    /\ budget \in 0 .. Subsidies
    /\ evidence \in [Keys -> Verdicts] /\ verdict \in [Keys -> Verdicts]
    /\ \A p \in Procs : DOMAIN tasks[p] \subseteq Keys /\ job[p].todo \subseteq Keys

(***************************************************************************)
(* The wall clock of Singapore, advanced one unit at a time from the epoch,*)
(* a Thursday at 08:00: what the calendar arithmetic of market.rs should be*)
(***************************************************************************)
Wall[t \in 0 .. MaxTime] ==
    IF t = 0 THEN [unit |-> 0, minute |-> OffsetMinutes, day |-> 4]
    ELSE LET before == Wall[t - 1]
         IN  IF before.unit < MinuteMs - 1 THEN [before EXCEPT !.unit = @ + 1]
             ELSE IF before.minute < DayMinutes - 1
             THEN [before EXCEPT !.unit = 0, !.minute = @ + 1]
             ELSE [unit |-> 0, minute |-> 0, day |-> IF before.day = 7 THEN 1 ELSE before.day + 1]

WallClock == [t \in 0 .. MaxTime |-> Wall[t]]

(***************************************************************************)
(* A recurring bracket opens only within the hours and days its creator    *)
(* published, read on a wall clock in Singapore, on the grid of its series *)
(* and before its end, whichever process computed it and from which clock. *)
(***************************************************************************)
OpensInHours ==
    \A k \in Keys : k[1] \in Ids /\ ~Once(k[1]) /\ bracket[k] # "absent" =>
        LET sch == Schedules[k[1]]
        IN  /\ WallClock[k[2]].minute >= sch.active_start_minute
            /\ WallClock[k[2]].minute < sch.active_end_minute
            /\ WallClock[k[2]].day \in sch.active_days
            /\ k[2] < sch.end_ms
            /\ \E n \in 1 .. MaxTime : k[2] = series[k[1]].anchor + n * sch.interval_ms

(***************************************************************************)
(* max_concurrency bounds the upcoming brackets of a series, although two  *)
(* processes fill its horizon from clocks read at different times.         *)
(***************************************************************************)
HorizonBounded ==
    \A s \in Ids : ~Once(s) =>
        Cardinality({k \in Of(s) : bracket[k] = "open" /\ k[2] > now})
            <= Schedules[s].max_concurrency

(***************************************************************************)
(* Brackets observe [start, end) one after another: with a real feed an    *)
(* arrival makes at most one bracket of a series resolve to yes, also when *)
(* the bus comes at the very end of one slot and the start of the next.    *)
(***************************************************************************)
ArrivalCountsOnce ==
    feed # "simulated" =>
        \A s \in Ids : Rule(<<s, 0>>).kind = "bus" /\ Endpoint[s] = "adapter" =>
            Cardinality({k \in Of(s) : verdict[k] = 0}) <= Cardinality(Arrivals)

(***************************************************************************)
(* Never fabricate when a live feed was meant to answer: with a provider,  *)
(* evidence of a bus bracket is what happened, however silent it is.       *)
(***************************************************************************)
NotFabricated ==
    feed # "simulated" =>
        \A k \in Keys : k[1] \in Ids /\ Endpoint[k[1]] = "adapter" =>
            evidence[k] \in {None, Happened(k)}

(***************************************************************************)
(* A clock jump over the whole asking window voids no simulated market:    *)
(* the pass that settles past the deadline has recorded the replay before, *)
(* whichever process selected it.  Only failures can void one.             *)
(***************************************************************************)
ReplaysNeverVoid ==
    feed = "simulated" /\ failures = 0 =>
        \A k \in Keys : k[1] \in Simulated => verdict[k] # Void

(***************************************************************************)
(* Nothing half-published remains: without failures, a finished request of *)
(* a one-time series left the series with its market, or neither; and no   *)
(* market is ever without its series.                                      *)
(***************************************************************************)
NothingHalfPublished ==
    \A s \in Ids : Once(s) =>
        /\ Exists(<<s, 0>>) => series[s].state \in {"active", "ended"}
        /\ failures = 0 /\ publisher[s] \in {"done", "failed"} =>
              (Exists(<<s, 0>>) <=> series[s].state \in {"active", "ended"})

Life ==
    INSTANCE Lifecycle WITH
        Markets <- Keys, NoResult <- None, phase <- bracket, verdict <- verdict,
        Verdicts <- Verdicts, Void <- Void

(***************************************************************************)
(* Whatever the processes do in whatever order, a market goes through its  *)
(* phases once, is never opened again after it was purged, and its result  *)
(* never changes.                                                          *)
(***************************************************************************)
ImplementsLifecycle == Life!LifeSpec

(***************************************************************************)
(* Every published market is settled in the end, although a tick handles a *)
(* bounded batch in which pending resolvers keep their places.             *)
(***************************************************************************)
EveryMarketSettles == \A k \in Keys : (bracket[k] \in Live) ~> (bracket[k] \notin Live)

(***************************************************************************)
(* Every series with a market ends when its time is over, and no bracket   *)
(* that a slower process publishes around the end stays unsettled.         *)
(***************************************************************************)
SeriesEnd ==
    \A s \in Ids : Active(s) /\ (Once(s) => Exists(<<s, 0>>))
        ~> [](series[s].state = "ended" /\ \A k \in Of(s) : bracket[k] \notin Live)
=============================================================================
