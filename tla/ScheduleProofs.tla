--------------------------- MODULE ScheduleProofs ---------------------------
(***************************************************************************)
(* Proofs about the worker, for any series, processes, schedules, rules,   *)
(* batch sizes and failures, and any jump of the clock.                    *)
(***************************************************************************)
EXTENDS Worker, FiniteSetTheorems, WellFoundedInduction, TLAPS

Phases == {"absent", "purged"} \cup Live \cup Terminal

\* What a slot is known by, before it is one of Keys
Slotted == (Ids \cup {Direct}) \X Int

Jobs == [at : {"idle", "closed", "spawn", "create", "spawned", "settling", "seed",
               "seed series", "seed direct", "seeding", "create seed"},
         clock : Int, todo : SUBSET Slotted, key : Slotted]

Results == 0 .. 7 \cup {None}

Job == [stage : {"ask", "record", "settle"}, answer : Results]

\* A series that was created passed the validation
Validated(s) ==
    series[s].state # "absent" /\ ~Once(s) =>
        /\ Schedules[s].interval_ms > 0
        /\ Schedules[s].active_start_minute \in Int /\ Schedules[s].active_end_minute \in Int

\* Only the request of a one-time series goes on after its row
Requested(s) == publisher[s] \notin {"idle", "done"} => Once(s)

RowsTyped ==
    /\ now \in Int
    /\ series \in [Ids -> [state : {"absent", "active", "ended", "deleted"}, anchor : Int]]
    /\ publisher \in [Ids -> {"idle", "funding", "removing", "done", "failed", "died"}]
    /\ bracket \in [Keys -> Phases]
    /\ failures \in Nat
    /\ feed \in Feeds
    /\ \A s \in Ids : Validated(s) /\ Requested(s)

ResultsTyped ==
    /\ evidence \in [Keys -> Results]
    /\ verdict \in [Keys -> Results \cup {Void}]

JobsTyped == job \in [Procs -> Jobs]

TasksTyped ==
    /\ DOMAIN tasks = Procs
    /\ \A p \in Procs : /\ DOMAIN tasks[p] \subseteq Keys
                        /\ tasks[p] \in [DOMAIN tasks[p] -> Job]

Typed == RowsTyped /\ ResultsTyped /\ JobsTyped /\ TasksTyped

-----------------------------------------------------------------------------
(***************************************************************************)
(* Rules and times.                                                        *)
(***************************************************************************)

\* Both published answers are among the results.
LEMMA BinaryOutcome ==
    ASSUME NEW yes
    PROVE  Binary(yes) \in 0 .. 1
  BY DEF Binary

\* A rule has at most eight outcomes, counted from zero.
LEMMA OutcomesBounded ==
    ASSUME NEW x \in Ids \cup {Direct}
    PROVE  OutcomesOf(RuleOf[x]) \subseteq 0 .. 7
<1>1. CASE RuleOf[x].kind = "election"
  <2> DEFINE n == Len(RuleOf[x].candidates)
  <2>1. OutcomesOf(RuleOf[x]) = 0 .. n - 1
    BY <1>1 DEF OutcomesOf
  <2>2. RuleValid(RuleOf[x])
    BY WorkerAssumption
  <2>3. n \in 2 .. 8
    BY <1>1, <2>2 DEF RuleValid
  <2> HIDE DEF n
  <2> QED  BY <2>1, <2>3
<1>2. CASE RuleOf[x].kind # "election"
  BY <1>2 DEF OutcomesOf
<1> QED  BY <1>1, <1>2

\* The first place of a candidate is one of the places.
LEMMA PositionInDomain ==
    ASSUME NEW S, NEW s \in Seq(S), IsInjective(s), NEW i \in DOMAIN s
    PROVE  Position(s[i], s) \in DOMAIN s
<1>1. \A j \in 1 .. i - 1 : s[j] # s[i]
  <2>1. i \in 1 .. Len(s) /\ DOMAIN s = 1 .. Len(s) /\ Len(s) \in Nat
    OBVIOUS
  <2>2. \A a, b \in DOMAIN s : s[a] = s[b] => a = b
    BY DEF IsInjective
  <2> QED  BY <2>1, <2>2
<1>2. \E k \in DOMAIN s : s[k] = s[i] /\ \A j \in 1 .. k - 1 : s[j] # s[i]
  BY <1>1
<1> QED  BY <1>2 DEF Position

\* What the simulator observes is always a published outcome: it fits the rule,
\* is complete, and names a candidate.
LEMMA ObservedOutcome ==
    ASSUME NEW k \in Keys
    PROVE  Observed(k) \in OutcomesOf(Rule(k))
<1> DEFINE rule == Rule(k)
           m == Times(k)
           start == m.observation_start_ms
           end == m.observation_end_ms
<1>0. k[1] \in Ids \cup {Direct}
  BY DEF Keys
<1>1. /\ rule.kind \in {"weather", "count", "bus", "election", "other"}
      /\ RuleValid(rule)
      /\ rule.kind = "election" =>
            rule.candidates \in Seq(Range(rule.candidates))
  BY <1>0, WorkerAssumption DEF Rule
<1>2. Sample[k] \in Nat
  BY WorkerAssumption
<1>3. Observed(k) = Evaluate(rule, Simulation(rule, Sample[k], start, end), start, end)
  BY DEF Observed
<1> HIDE DEF rule, m, start, end
<1>4. CASE rule.kind = "weather"
  <2>1. rule.threshold \in Nat
    BY <1>1, <1>4 DEF RuleValid
  <2> DEFINE value == IF Sample[k] % 2 = 0 THEN rule.threshold + 100 ELSE 0
  <2>2. value \in Nat
    BY <2>1
  <2>3. Simulation(rule, Sample[k], start, end) =
          [kind |-> "weather", source |-> rule.source, complete |-> TRUE, value |-> value]
    BY <1>4 DEF Simulation
  <2> HIDE DEF value
  <2>4. Observed(k) \in 0 .. 1
    BY <1>3, <1>4, <2>1, <2>2, <2>3 DEF Evaluate, Binary
  <2>5. OutcomesOf(rule) = 0 .. 1
    BY <1>4 DEF OutcomesOf
  <2> QED  BY <2>4, <2>5 DEF rule
<1>5. CASE rule.kind = "count"
  <2>1. rule.threshold \in Nat
    BY <1>1, <1>5 DEF RuleValid
  <2> DEFINE value == (rule.threshold + (Sample[k] % 21))
                        - (IF rule.threshold < 10 THEN rule.threshold ELSE 10)
  <2>2. value \in Nat
    BY <2>1, <1>2
  <2>3. Simulation(rule, Sample[k], start, end) =
          [kind |-> "count", source |-> rule.source, complete |-> TRUE, value |-> value]
    BY <1>5 DEF Simulation
  <2> HIDE DEF value
  <2>4. Observed(k) \in 0 .. 1
    BY <1>3, <1>5, <2>1, <2>2, <2>3 DEF Evaluate, Binary
  <2>5. OutcomesOf(rule) = 0 .. 1
    BY <1>5 DEF OutcomesOf
  <2> QED  BY <2>4, <2>5 DEF rule
<1>6. CASE rule.kind = "bus"
  <2> DEFINE arrivals == IF Sample[k] % 2 = 0 THEN {start + (end - start) \div 2} ELSE {}
  <2>1. Simulation(rule, Sample[k], start, end) =
          [kind |-> "bus", source |-> rule.source, complete |-> TRUE, arrivals |-> arrivals]
    BY <1>6 DEF Simulation
  <2> HIDE DEF arrivals
  <2>2. Observed(k) = Binary(Arrives(arrivals, start, end))
    BY <1>3, <1>6, <2>1 DEF Evaluate
  <2>3. OutcomesOf(rule) = 0 .. 1
    BY <1>6 DEF OutcomesOf
  <2>4. Arrives(arrivals, start, end) \in BOOLEAN
    BY DEF Arrives
  <2> QED  BY <2>2, <2>3, <2>4, BinaryOutcome DEF rule
<1>7. CASE rule.kind = "election"
  <2> DEFINE n == Len(rule.candidates)
             i == (Sample[k] % n) + 1
             winner == rule.candidates[i]
  <2>1. n \in 2 .. 8 /\ IsInjective(rule.candidates)
    BY <1>1, <1>7 DEF RuleValid
  <2>2. rule.candidates \in Seq(Range(rule.candidates))
    BY <1>1, <1>7
  <2>3. DOMAIN rule.candidates = 1 .. n
    BY <2>2
  <2>4. Simulation(rule, Sample[k], start, end) =
          [kind |-> "election", is_final |-> TRUE, winner |-> winner]
    BY <1>7 DEF Simulation
  <2>5. OutcomesOf(rule) = 0 .. n - 1
    BY <1>7 DEF OutcomesOf
  <2> HIDE DEF n
  <2>6. i \in 1 .. n
    BY <2>1, <1>2
  <2> HIDE DEF i
  <2>7. winner \in Range(rule.candidates)
    BY <2>6, <2>3 DEF Range
  <2>8. winner # None
    BY <2>7, <1>7, <1>0, WorkerAssumption DEF rule, Rule
  <2>9. Position(winner, rule.candidates) \in 1 .. n
    BY <2>1, <2>2, <2>3, <2>6, PositionInDomain
  <2> HIDE DEF winner
  <2>10. Observed(k) = Position(winner, rule.candidates) - 1
    BY <1>3, <1>7, <2>4, <2>7, <2>8 DEF Evaluate
  <2> QED  BY <2>1, <2>5, <2>9, <2>10 DEF rule
<1>8. CASE rule.kind = "other"
  <2> DEFINE outcome == Binary(Sample[k] % 2 = 0)
  <2>1. Simulation(rule, Sample[k], start, end) = [kind |-> "other", outcome |-> outcome]
    BY <1>8 DEF Simulation
  <2>2. OutcomesOf(rule) = 0 .. 1
    BY <1>8 DEF OutcomesOf
  <2>3. outcome \in 0 .. 1
    BY BinaryOutcome
  <2> HIDE DEF outcome
  <2>4. Observed(k) = outcome
    BY <1>3, <1>8, <2>1, <2>2, <2>3 DEF Evaluate
  <2> QED  BY <2>2, <2>3, <2>4 DEF rule
<1> QED  BY <1>1, <1>4, <1>5, <1>6, <1>7, <1>8

\* Every market is known by its series, or the template, and a slot.
LEMMA KeysSlotted == Keys \subseteq Slotted
<1> SUFFICES ASSUME NEW s \in Ids \cup {Direct}, NEW t \in Slots(s)
             PROVE  t \in Int
  BY DEF Keys, Slotted
<1>1. CASE s = Direct
  BY <1>1, SeriesAssumption DEF Slots
<1>2. CASE s # Direct /\ Once(s)
  BY <1>2 DEF Slots
<1>3. CASE s # Direct /\ ~Once(s)
  BY <1>3, SeriesAssumption DEF Slots
<1> QED  BY <1>1, <1>2, <1>3

\* The five times of a slot are numbers.
LEMMA TimesTyped ==
    ASSUME NEW k \in Slotted
    PROVE  /\ Times(k).close_ms \in Int /\ Times(k).observation_start_ms \in Int
           /\ Times(k).observation_end_ms \in Int /\ Times(k).finalize_after_ms \in Int
           /\ Times(k).evidence_deadline_ms \in Int
<1>0. k[1] \in Ids \cup {Direct} /\ k[2] \in Int
  BY DEF Slotted
<1>1. FinalizeMargin \in Int /\ DeadlineMargin \in Int
  BY CalendarAssumption
<1>2. CASE k[1] = Direct
  BY <1>0, <1>1, <1>2, SeriesAssumption DEF Times, bracket_timing
<1>3. CASE k[1] # Direct /\ Once(k[1])
  BY <1>0, <1>3, SeriesAssumption DEF Times, bracket_timing, Once
<1>4. CASE k[1] # Direct /\ ~Once(k[1])
  <2>1. Schedules[k[1]].interval_ms \in Int
    BY <1>0, <1>4, SeriesAssumption
  <2> QED  BY <1>0, <1>1, <1>4, <2>1 DEF Times, bracket_timing, Once
<1> QED  BY <1>2, <1>3, <1>4

\* A floor division leaves less than one interval.
LEMMA Floor ==
    ASSUME NEW a \in Int, NEW b \in Int, b > 0
    PROVE  /\ a \div b \in Int
           /\ (a \div b) * b <= a
           /\ a < (a \div b) * b + b
  OBVIOUS

\* A product grows with its factor.
LEMMA Products ==
    ASSUME NEW a \in Int, NEW b \in Int, NEW c \in Int, c > 0, a <= b
    PROVE  a * c <= b * c
  OBVIOUS

\* A quotient and a remainder below the divisor are those of the division.
LEMMA Division ==
    ASSUME NEW a \in Int, NEW b \in Int, b > 0, NEW q \in Int, NEW r \in Int,
           0 <= r, r < b, a = q * b + r
    PROVE  a \div b = q /\ a % b = r
<1> DEFINE d == a \div b
<1>1. d \in Int /\ d * b <= a /\ a < d * b + b
  BY Floor
<1>2. a % b = a - d * b
  OBVIOUS
<1> HIDE DEF d
<1>3. ~(d < q)
  <2> SUFFICES ASSUME d + 1 <= q PROVE FALSE
    BY <1>1
  <2>1. (d + 1) * b <= q * b
    BY <1>1, Products
  <2>2. (d + 1) * b = d * b + b /\ d * b \in Int /\ q * b \in Int
    BY <1>1
  <2> QED  BY <1>1, <2>1, <2>2
<1>4. ~(q < d)
  <2> SUFFICES ASSUME q + 1 <= d PROVE FALSE
    BY <1>1
  <2>1. (q + 1) * b <= d * b
    BY <1>1, Products
  <2>2. (q + 1) * b = q * b + b /\ d * b \in Int /\ q * b \in Int
    BY <1>1
  <2> QED  BY <1>1, <2>1, <2>2
<1>5. d = q
  BY <1>1, <1>3, <1>4
<1>6. q * b \in Int
  OBVIOUS
<1> QED  BY <1>2, <1>5, <1>6 DEF d

\* The slots a tick computes are points of the grid after its clock, and none is further
\* ahead than max_concurrency intervals.
LEMMA SlotsOnGrid ==
    ASSUME NEW s \in Ids, ~Once(s), Schedules[s].interval_ms > 0,
           NEW anchor \in Int, NEW clock \in Int,
           NEW slot \in SlotsAhead(Schedules[s], anchor, clock)
    PROVE  /\ slot \in Int
           /\ \E n \in Int : slot = anchor + n * Schedules[s].interval_ms
           /\ clock < slot
           /\ slot <= clock + Schedules[s].max_concurrency * Schedules[s].interval_ms
<1> DEFINE I == Schedules[s].interval_ms
           max == Schedules[s].max_concurrency
           q == (clock - anchor) \div I
<1>1. I \in Int /\ I > 0 /\ max \in Int
  BY SeriesAssumption
<1>2. PICK n \in q + 1 .. q + 1 + max - 1 : slot = anchor + n * I
  BY DEF SlotsAhead, GridAhead
<1> HIDE DEF I, max
<1>3. q \in Int /\ q * I <= clock - anchor /\ clock - anchor < q * I + I
  BY <1>1, Floor
<1> HIDE DEF q
<1>4. n \in Int /\ n <= q + max /\ q + 1 <= n
  BY <1>1, <1>2, <1>3
<1>5. n * I <= (q + max) * I
  BY <1>1, <1>3, <1>4, Products
<1>6. (q + max) * I = q * I + max * I
  BY <1>1, <1>3
<1>7. n * I \in Int /\ q * I \in Int /\ max * I \in Int
  BY <1>1, <1>3, <1>4
<1>8. slot \in Int /\ slot <= clock + max * I
  BY <1>2, <1>3, <1>5, <1>6, <1>7
<1>9. (q + 1) * I <= n * I /\ (q + 1) * I = q * I + I
  BY <1>1, <1>3, <1>4, Products
<1>10. clock < slot
  BY <1>1, <1>2, <1>3, <1>7, <1>9
<1> QED  BY <1>2, <1>4, <1>8, <1>10 DEF I, max

-----------------------------------------------------------------------------
(***************************************************************************)
(* Types.                                                                  *)
(***************************************************************************)

\* A tick at a point after which its slots are not used.
LEMMA FreshJob ==
    /\ <<Direct, Epoch>> \in Slotted
    /\ \A place \in {"idle", "closed", "spawned", "settling", "seed"} : At(place) \in Jobs
    /\ Idle \in Jobs
<1>1. Epoch \in Int
  BY SeriesAssumption
<1>2. <<Direct, Epoch>> \in Slotted
  BY <1>1 DEF Slotted
<1> QED  BY <1>1, <1>2 DEF At, Idle, Doing, Jobs

\* The job of one process is replaced.
LEMMA JobStep ==
    ASSUME JobsTyped, NEW p \in Procs, NEW j \in Jobs, Goto(p, j)
    PROVE  JobsTyped'
  BY DEF Goto, JobsTyped

\* A tick goes on to the rest of its slots.
LEMMA ThenStep ==
    ASSUME JobsTyped, NEW p \in Procs, NEW k \in Slotted,
           NEW rest \in SUBSET Slotted, Then(p, k, rest)
    PROVE  JobsTyped'
<1>1. Idle \in Jobs
  BY FreshJob
<1>2. Doing("spawn", job[p].clock, rest, k) \in Jobs
  BY DEF Doing, Jobs, JobsTyped
<1> QED  BY <1>1, <1>2, JobStep DEF Then

\* The next slots are slots to do.
LEMMA NextToDo ==
    ASSUME NEW p, NEW k \in NextSlots(p)
    PROVE  k \in job[p].todo
  BY DEF NextSlots

\* A task goes on.
LEMMA TaskStep ==
    ASSUME TasksTyped, NEW p \in Procs, NEW k \in DOMAIN tasks[p], NEW task \in Job,
           Continue(p, k, task)
    PROVE  TasksTyped'
<1>1. tasks[p] \in [DOMAIN tasks[p] -> Job] /\ DOMAIN tasks[p] \subseteq Keys
  BY DEF TasksTyped
<1>2. /\ DOMAIN tasks' = Procs
      /\ \A q \in Procs : tasks'[q] = IF q = p THEN [tasks[p] EXCEPT ![k] = task] ELSE tasks[q]
  BY DEF TasksTyped, Continue
<1>3. tasks'[p] \in [DOMAIN tasks[p] -> Job]
  BY <1>1, <1>2
<1> QED  BY <1>1, <1>2, <1>3 DEF TasksTyped

\* A process has new tasks, or none.
LEMMA TasksReplaced ==
    ASSUME TasksTyped, NEW p \in Procs, NEW D \in SUBSET Keys, NEW f \in [D -> Job],
           tasks' = [tasks EXCEPT ![p] = f]
    PROVE  TasksTyped'
<1>1. /\ DOMAIN tasks' = Procs
      /\ \A q \in Procs : tasks'[q] = IF q = p THEN f ELSE tasks[q]
  BY DEF TasksTyped
<1> QED  BY <1>1 DEF TasksTyped

\* The result fixed for a market is that of its evidence, or void.
LEMMA ResultTyped ==
    ASSUME Typed, NEW k \in Keys
    PROVE  evidence[k] \in Results /\ verdict[k] \in Results \cup {Void}
  BY DEF Typed, ResultsTyped

\* Every state is well typed at the start.
LEMMA TypedInit == Init => Typed
<1> SUFFICES ASSUME Init PROVE Typed
  OBVIOUS
<1> USE DEF Init, SeriesInit
<1>1. Idle \in Jobs
  BY FreshJob
<1>2. job \in [Procs -> Jobs]
  BY <1>1
<1>3. now \in Int /\ failures \in Nat /\ feed \in Feeds
  BY SeriesAssumption
<1>4. series \in [Ids -> [state : {"absent", "active", "ended", "deleted"}, anchor : Int]]
  BY SeriesAssumption
<1>5. publisher \in [Ids -> {"idle", "funding", "removing", "done", "failed", "died"}]
  OBVIOUS
<1>6. bracket \in [Keys -> Phases]
  BY DEF Phases
<1>7. evidence \in [Keys -> Results] /\ verdict \in [Keys -> Results \cup {Void}]
  BY DEF Results
<1>8. DOMAIN tasks = Procs /\ \A p \in Procs : tasks[p] = <<>>
  OBVIOUS
<1>9. DOMAIN <<>> = {}
  OBVIOUS
<1>10. <<>> \in [{} -> Job]
  BY <1>9
<1>11. \A p \in Procs : DOMAIN tasks[p] \subseteq Keys /\ tasks[p] \in [DOMAIN tasks[p] -> Job]
  BY <1>8, <1>9, <1>10
<1>12. \A s \in Ids : Validated(s) /\ Requested(s)
  BY DEF Validated, Requested
<1> QED  BY <1>2, <1>3, <1>4, <1>5, <1>6, <1>7, <1>8, <1>11, <1>12
         DEF Typed, RowsTyped, ResultsTyped, JobsTyped, TasksTyped

\* A series row is inserted, once its schedule was validated.
LEMMA InsertStep ==
    ASSUME RowsTyped, NEW s \in Ids, ScheduleValid(Schedules[s], now), Inserted(s)
    PROVE  /\ series' \in [Ids -> [state : {"absent", "active", "ended", "deleted"},
                                   anchor : Int]]
           /\ \A x \in Ids : Validated(x)'
<1>1. ~Once(s) => /\ Schedules[s].interval_ms > 0
                  /\ Schedules[s].active_start_minute \in Int
                  /\ Schedules[s].active_end_minute \in Int
  <2>1. MinuteMs \in Int /\ MinuteMs > 0 /\ DayMinutes \in Int
    BY CalendarAssumption
  <2>2. ~Once(s) => /\ Schedules[s].interval_ms \in MinuteMs .. DayMs
                    /\ Schedules[s].active_start_minute \in 0 .. DayMinutes - 2
                    /\ Schedules[s].active_end_minute \in 1 .. DayMinutes - 1
    BY DEF ScheduleValid, Once
  <2> HIDE DEF DayMs
  <2> QED  BY <2>1, <2>2
<1>2. /\ series' = [series EXCEPT ![s] = [state |-> "active", anchor |-> now]]
      /\ now \in Int
      /\ series \in [Ids -> [state : {"absent", "active", "ended", "deleted"}, anchor : Int]]
  BY DEF Inserted, RowsTyped
<1>3. series' \in [Ids -> [state : {"absent", "active", "ended", "deleted"}, anchor : Int]]
  BY <1>2
<1>4. \A x \in Ids : x # s => series'[x] = series[x]
  BY <1>2
<1> QED  BY <1>1, <1>3, <1>4 DEF RowsTyped, Validated

\* A state of some series changes, none is inserted.
LEMMA SeriesStep ==
    ASSUME RowsTyped, NEW S \in SUBSET Ids, NEW st \in {"ended", "deleted"},
           \A s \in S : series[s].state # "absent",
           series' = [s \in Ids |-> IF s \in S THEN [series[s] EXCEPT !.state = st]
                                    ELSE series[s]]
    PROVE  /\ series' \in [Ids -> [state : {"absent", "active", "ended", "deleted"},
                                   anchor : Int]]
           /\ \A x \in Ids : Validated(x)'
           /\ \A x \in Ids : series'[x].anchor = series[x].anchor
<1>1. series \in [Ids -> [state : {"absent", "active", "ended", "deleted"}, anchor : Int]]
  BY DEF RowsTyped
<1>2. \A x \in Ids : [series[x] EXCEPT !.state = st] \in
          [state : {"absent", "active", "ended", "deleted"}, anchor : Int]
  BY <1>1
<1>3. series' \in [Ids -> [state : {"absent", "active", "ended", "deleted"}, anchor : Int]]
  BY <1>1, <1>2
<1>4. \A x \in Ids : series'[x].anchor = series[x].anchor
  BY <1>1
<1>5. \A x \in Ids : series'[x].state # "absent" => series[x].state # "absent"
  BY <1>1
<1> QED  BY <1>3, <1>4, <1>5 DEF RowsTyped, Validated

\* Publishing keeps the types.
LEMMA TypedPublication ==
    ASSUME Typed, NEW s \in Ids, Publication(s), UNCHANGED workerVars
    PROVE  Typed'
<1> USE DEF Typed, workerVars
<1>1. JobsTyped' /\ TasksTyped' /\ ResultsTyped'
  BY DEF Publication, CreateSeries, PublishOnce, RefuseOnce, PublishFails, Compensate,
         PublisherDies, JobsTyped, TasksTyped, ResultsTyped
<1>2. CASE CreateSeries(s)
  <2>1. publisher' \in [Ids -> {"idle", "funding", "removing", "done", "failed", "died"}]
    BY <1>2 DEF CreateSeries, RowsTyped
  <2>2. \A x \in Ids : Requested(x)'
    BY <1>2 DEF CreateSeries, RowsTyped, Requested
  <2> QED  BY <1>1, <1>2, <2>1, <2>2, InsertStep DEF CreateSeries, RowsTyped
<1>3. CASE PublishOnce(s) \/ RefuseOnce(s) \/ PublishFails(s) \/ PublisherDies(s)
  <2>1. publisher' \in [Ids -> {"idle", "funding", "removing", "done", "failed", "died"}]
    BY <1>3 DEF PublishOnce, RefuseOnce, PublishFails, PublisherDies, RowsTyped
  <2>2. bracket' \in [Keys -> Phases]
    BY <1>3 DEF PublishOnce, RefuseOnce, PublishFails, PublisherDies, RowsTyped, Opened,
                Phases, Live
  <2>3. failures' \in Nat /\ now' = now /\ series' = series
    BY <1>3 DEF PublishOnce, RefuseOnce, PublishFails, PublisherDies, RowsTyped, Fails
  <2>4. \A x \in Ids : Requested(x)'
    BY <1>3 DEF PublishOnce, RefuseOnce, PublishFails, PublisherDies, RowsTyped, Requested
  <2> QED  BY <1>1, <2>1, <2>2, <2>3, <2>4 DEF RowsTyped, Validated
<1>4. CASE Compensate(s)
  <2>1. publisher' \in [Ids -> {"idle", "funding", "removing", "done", "failed", "died"}]
    BY <1>4 DEF Compensate, RowsTyped
  <2>2. failures' \in Nat /\ now' = now /\ bracket' = bracket
    BY <1>4 DEF Compensate, RowsTyped, Fails
  <2>3. \/ UNCHANGED series
        \/ series' = [series EXCEPT ![s].state = "deleted"]
    BY <1>4 DEF Compensate, Removed
  <2>4. /\ series' \in [Ids -> [state : {"absent", "active", "ended", "deleted"},
                                anchor : Int]]
        /\ \A x \in Ids : Validated(x)'
    <3>1. CASE UNCHANGED series
      BY <3>1 DEF RowsTyped, Validated
    <3>2. CASE series' = [series EXCEPT ![s].state = "deleted"]
      <4>1. Once(s)
        BY <1>4 DEF Compensate, RowsTyped, Requested
      <4>2. \A x \in Ids : x # s => series'[x] = series[x]
        BY <3>2 DEF RowsTyped
      <4> QED  BY <3>2, <4>1, <4>2 DEF RowsTyped, Validated
    <3> QED  BY <2>3, <3>1, <3>2
  <2>5. \A x \in Ids : Requested(x)'
    BY <1>4 DEF Compensate, RowsTyped, Requested
  <2> QED  BY <1>1, <2>1, <2>2, <2>4, <2>5 DEF RowsTyped
<1> QED  BY <1>2, <1>3, <1>4 DEF Publication

\* The slots of a tick are numbers.
LEMMA UpcomingSlotted ==
    ASSUME RowsTyped, NEW clock \in Int
    PROVE  Upcoming(clock) \subseteq Slotted
<1> SUFFICES ASSUME NEW s \in Ids, Active(s), ~Once(s),
                    NEW t \in SlotsAhead(Schedules[s], series[s].anchor, clock)
             PROVE  t \in Int
  BY DEF Upcoming, Slotted
<1>1. Schedules[s].interval_ms > 0 /\ series[s].anchor \in Int
  BY DEF RowsTyped, Validated, Active
<1> QED  BY <1>1, SlotsOnGrid

\* Spawning keeps the types.
LEMMA TypedSpawning ==
    ASSUME Typed, NEW p \in Procs, Spawning(p), UNCHANGED workerVars
    PROVE  Typed'
<1> USE DEF Typed, workerVars
<1>0. TasksTyped' /\ ResultsTyped' /\ UNCHANGED <<now, publisher, feed>>
  BY DEF Spawning, SpawnBegin, CreateBegin, CreateCommit, EndSeries, TasksTyped, ResultsTyped
<1>1. CASE SpawnBegin(p)
  <2>1. now \in Int /\ Upcoming(now) \subseteq Slotted
    BY UpcomingSlotted DEF RowsTyped
  <2>2. Doing("spawn", now, Upcoming(now), <<Direct, Epoch>>) \in Jobs
    BY <2>1, FreshJob DEF Doing, Jobs
  <2>3. JobsTyped'
    BY <1>1, <2>2, JobStep DEF SpawnBegin
  <2> QED  BY <1>0, <1>1, <2>3 DEF SpawnBegin, RowsTyped, Validated, Requested
<1>2. CASE CreateBegin(p)
  <2>1. job[p] \in Jobs
    BY DEF JobsTyped
  <2>2. job[p].todo \subseteq Slotted /\ job[p].clock \in Int
    BY <2>1 DEF Jobs
  <2>3. PICK k \in NextSlots(p) :
            \/ Then(p, k, Without(job[p].todo, k))
            \/ Then(p, k, GivenUp(job[p].todo, k))
            \/ Goto(p, Doing(IF job[p].at = "spawn" THEN "create" ELSE "create seed",
                             job[p].clock, job[p].todo, k))
    BY <1>2 DEF CreateBegin
  <2>4. k \in Slotted
    BY <2>2, NextToDo
  <2>5. /\ Without(job[p].todo, k) \subseteq Slotted /\ GivenUp(job[p].todo, k) \subseteq Slotted
        /\ \A place \in {"create", "create seed"} :
              Doing(place, job[p].clock, job[p].todo, k) \in Jobs
    BY <2>2, <2>4 DEF Without, GivenUp, Doing, Jobs
  <2>6. JobsTyped'
    BY <2>3, <2>4, <2>5, ThenStep, JobStep
  <2> QED  BY <1>0, <1>2, <2>6 DEF CreateBegin, RowsTyped, Validated, Requested
<1>3. CASE CreateCommit(p)
  <2> DEFINE k == job[p].key
  <2>1. job[p] \in Jobs
    BY DEF JobsTyped
  <2>2. job[p].todo \subseteq Slotted /\ k \in Slotted
    BY <2>1 DEF Jobs
  <2>3. Then(p, k, Without(job[p].todo, k)) \/ Then(p, k, GivenUp(job[p].todo, k))
    BY <1>3 DEF CreateCommit
  <2>4. Without(job[p].todo, k) \subseteq Slotted /\ GivenUp(job[p].todo, k) \subseteq Slotted
    BY <2>2 DEF Without, GivenUp
  <2>5. JobsTyped'
    BY <2>2, <2>3, <2>4, ThenStep
  <2>6. bracket' \in [Keys -> Phases]
    BY <1>3 DEF CreateCommit, Opened, RowsTyped, Phases, Live
  <2>7. series' = series /\ (failures' = failures \/ failures' = failures + 1)
    BY <1>3 DEF CreateCommit, Fails
  <2>8. failures' \in Nat
    BY <2>7 DEF RowsTyped
  <2> QED  BY <1>0, <2>5, <2>6, <2>7, <2>8 DEF RowsTyped, Validated, Requested
<1>4. CASE EndSeries(p)
  <2>1. JobsTyped'
    BY <1>4, FreshJob, JobStep DEF EndSeries
  <2> DEFINE S == {s \in Ids : Ending(s, job[p].clock)}
  <2>2. /\ S \in SUBSET Ids
        /\ \A s \in S : series[s].state # "absent"
        /\ series' = [s \in Ids |-> IF s \in S THEN [series[s] EXCEPT !.state = "ended"]
                                    ELSE series[s]]
    BY <1>4 DEF EndSeries, Ending, Active
  <2> HIDE DEF S
  <2>3. /\ series' \in [Ids -> [state : {"absent", "active", "ended", "deleted"},
                                anchor : Int]]
        /\ \A x \in Ids : Validated(x)'
    BY <2>2, SeriesStep
  <2> QED  BY <1>0, <1>4, <2>1, <2>3 DEF EndSeries, RowsTyped, Requested
<1> QED  BY <1>1, <1>2, <1>3, <1>4 DEF Spawning

\* Seeding keeps the types.
LEMMA TypedSeeding ==
    ASSUME Typed, NEW p \in Procs, NEW live_mode, Seeding(p, live_mode), UNCHANGED workerVars
    PROVE  Typed'
<1> USE DEF Typed, workerVars
<1>0. TasksTyped' /\ ResultsTyped' /\ UNCHANGED <<now, publisher, bracket, failures, feed>>
  BY DEF Seeding, SeedBegin, SeedSeries, SeedDirect, TasksTyped, ResultsTyped
<1>1. \A clock \in Int, place \in {"seed direct", "seed series"} :
        Doing(place, clock, {}, <<Direct, Epoch>>) \in Jobs
  BY FreshJob DEF Doing, Jobs
<1>2. CASE SeedBegin(p)
  <2>1. now \in Int
    BY DEF RowsTyped
  <2>2. JobsTyped'
    BY <1>1, <1>2, <2>1, JobStep DEF SeedBegin
  <2> QED  BY <1>0, <1>2, <2>2 DEF SeedBegin, RowsTyped, Validated, Requested
<1>3. CASE SeedSeries(p)
  <2>1. job[p].clock \in Int
    BY DEF JobsTyped, Jobs
  <2>2. JobsTyped'
    BY <1>1, <1>3, <2>1, JobStep DEF SeedSeries
  <2>3. UNCHANGED series
        \/ \E s \in Ids : ScheduleValid(Schedules[s], now) /\ Inserted(s)
    BY <1>3, SeriesAssumption DEF SeedSeries
  <2>4. /\ series' \in [Ids -> [state : {"absent", "active", "ended", "deleted"},
                                anchor : Int]]
        /\ \A x \in Ids : Validated(x)'
    <3>1. CASE UNCHANGED series
      BY <3>1 DEF RowsTyped, Validated
    <3>2. CASE \E s \in Ids : ScheduleValid(Schedules[s], now) /\ Inserted(s)
      BY <3>2, InsertStep
    <3> QED  BY <2>3, <3>1, <3>2
  <2> QED  BY <1>0, <2>2, <2>4 DEF RowsTyped, Requested
<1>4. CASE SeedDirect(p, live_mode)
  <2> DEFINE close == ((job[p].clock \div DemoGrid) + 1) * DemoGrid
  <2>1. job[p].clock \in Int
    BY DEF JobsTyped, Jobs
  <2>2. DemoGrid \in Int /\ DemoGrid > 0
    BY SeriesAssumption
  <2>7. close \in Int
    BY <2>1, <2>2, Floor
  <2>3. Goto(p, Idle) \/ Goto(p, Doing("seeding", Epoch, {<<Direct, close>>}, <<Direct, Epoch>>))
    BY <1>4 DEF SeedDirect
  <2>4. UNCHANGED series
    BY <1>4 DEF SeedDirect
  <2> HIDE DEF close
  <2>5. Doing("seeding", Epoch, {<<Direct, close>>}, <<Direct, Epoch>>) \in Jobs
    <3>1. Epoch \in Int
      BY SeriesAssumption
    <3>2. {<<Direct, close>>} \subseteq Slotted
      BY <2>7 DEF Slotted
    <3> QED  BY <3>1, <3>2, FreshJob DEF Doing, Jobs
  <2>6. JobsTyped'
    BY <2>3, <2>5, FreshJob, JobStep
  <2> QED  BY <1>0, <2>4, <2>6 DEF RowsTyped, Validated, Requested
<1> QED  BY <1>2, <1>3, <1>4 DEF Seeding

\* Closing, selecting, failing and purging keep the types.
LEMMA TypedTick ==
    ASSUME Typed, NEW p \in Procs,
           CloseDue(p) \/ Select(p) \/ TickFails(p) \/ Crash(p) \/ (Purge(p) /\ UNCHANGED workerVars)
    PROVE  Typed'
<1> USE DEF Typed, workerVars
<1>0. ResultsTyped' /\ UNCHANGED <<now, series, publisher, feed>>
  BY DEF CloseDue, Select, TickFails, Crash, Purge, ResultsTyped
<1>1. \E place \in {"idle", "closed", "settling", "seed"} : Goto(p, At(place))
  BY DEF CloseDue, Select, TickFails, Crash, Purge, Idle
<1>2. JobsTyped'
  BY <1>1, FreshJob, JobStep
<1>3. failures' = failures \/ failures' = failures + 1
  BY DEF CloseDue, Select, TickFails, Crash, Purge, Fails
<1>4. failures' \in Nat
  BY <1>3 DEF RowsTyped
<1>5. bracket' \in [Keys -> Phases]
  <2>1. CASE CloseDue(p)
    BY <2>1 DEF CloseDue, RowsTyped, Phases, Live
  <2>2. CASE Purge(p)
    BY <2>2 DEF Purge, RowsTyped, Phases
  <2>3. CASE UNCHANGED bracket
    BY <2>3 DEF RowsTyped
  <2> QED  BY <2>1, <2>2, <2>3 DEF Select, TickFails, Crash
<1>6. TasksTyped'
  <2>1. CASE Select(p)
    <3>1. PICK batch \in SUBSET Keys :
              tasks' = [tasks EXCEPT ![p] =
                           [k \in batch |-> IF Asks(k) THEN Asked ELSE Ready]]
      BY <2>1 DEF Select
    <3>2. [k \in batch |-> IF Asks(k) THEN Asked ELSE Ready] \in [batch -> Job]
      BY DEF Asked, Ready, Job, Results
    <3> QED  BY <3>1, <3>2, TasksReplaced
  <2>2. CASE Crash(p)
    <3>1. DOMAIN <<>> = {}
      OBVIOUS
    <3>2. <<>> \in [{} -> Job]
      BY <3>1
    <3> QED  BY <2>2, <3>2, TasksReplaced DEF Crash
  <2>3. CASE UNCHANGED tasks
    BY <2>3 DEF TasksTyped
  <2> QED  BY <2>1, <2>2, <2>3 DEF CloseDue, TickFails
<1> QED  BY <1>0, <1>2, <1>4, <1>5, <1>6 DEF RowsTyped, Validated, Requested

\* An answer that parses is a published outcome.
LEMMA ParsedOutcome ==
    ASSUME NEW k \in Keys, NEW body, Parsed(body, Rule(k)) \notin {None, Rejected}
    PROVE  Parsed(body, Rule(k)) = body /\ body \in OutcomesOf(Rule(k)) /\ body \in Results
<1>1. k[1] \in Ids \cup {Direct}
  BY DEF Keys
<1>2. OutcomesOf(Rule(k)) \subseteq 0 .. 7
  BY <1>1, OutcomesBounded DEF Rule
<1> QED  BY <1>2 DEF Parsed, Results

\* Evidence recorded for a market is a result.
LEMMA RecordStep ==
    ASSUME ResultsTyped, NEW k \in Keys, NEW result \in Results, Recorded(k, result)
    PROVE  /\ evidence' \in [Keys -> Results]
           /\ \A l \in Keys : evidence'[l] = IF l = k THEN result ELSE evidence[l]
  BY DEF Recorded, ResultsTyped

\* What processing a market asks, records and settles keeps the types.
LEMMA TypedTask ==
    ASSUME Typed, NEW p \in Procs, NEW k \in Keys,
           \/ AskSimulator(p, k) \/ AskResolver(p, k) \/ RecordAnswer(p, k)
           \/ EvidenceFails(p, k) \/ SettleBatch(p, k)
    PROVE  Typed'
<1> USE DEF Typed, seriesVars
<1>0. Ready \in Job
  BY DEF Ready, Job, Results
<1>1. k \in DOMAIN tasks[p] /\ UNCHANGED <<now, series, publisher, job, feed>>
  BY DEF AskSimulator, AskResolver, RecordAnswer, EvidenceFails, SettleBatch, Task
<1>2. JobsTyped'
  BY <1>1 DEF JobsTyped
<1>3. k[1] \in Ids \cup {Direct}
  BY DEF Keys
<1>4. CASE AskSimulator(p, k)
  <2>1. Observed(k) \in Results
    <3>1. Observed(k) \in OutcomesOf(Rule(k))
      BY ObservedOutcome
    <3> QED  BY <1>3, <3>1, OutcomesBounded DEF Rule, Results
  <2>2. Recorded(k, Observed(k)) \/ UNCHANGED evidence
    BY <1>4 DEF AskSimulator
  <2>3. verdict' = verdict
    BY <1>4 DEF AskSimulator
  <2>4. ResultsTyped'
    BY <2>1, <2>2, <2>3, RecordStep DEF ResultsTyped
  <2>5. TasksTyped'
    BY <1>0, <1>1, <1>4, TaskStep DEF AskSimulator
  <2> QED  BY <1>1, <1>2, <1>4, <2>4, <2>5 DEF AskSimulator, RowsTyped, Validated, Requested
<1>5. CASE AskResolver(p, k)
  <2>1. PICK body \in Answers(k) :
            Continue(p, k, IF Parsed(body, Rule(k)) \in {None, Rejected} THEN Ready
                           ELSE Answered(Parsed(body, Rule(k))))
    BY <1>5 DEF AskResolver
  <2>2. Parsed(body, Rule(k)) \notin {None, Rejected} => Answered(Parsed(body, Rule(k))) \in Job
    BY ParsedOutcome DEF Answered, Job
  <2>3. TasksTyped'
    BY <1>0, <1>1, <2>1, <2>2, TaskStep
  <2> QED  BY <1>1, <1>2, <1>5, <2>3
           DEF AskResolver, RowsTyped, Validated, Requested, ResultsTyped
<1>6. CASE RecordAnswer(p, k)
  <2>1. tasks[p][k] \in Job
    BY <1>1 DEF TasksTyped
  <2>2. tasks[p][k].answer \in Results
    BY <2>1 DEF Job
  <2>3. Recorded(k, tasks[p][k].answer) \/ UNCHANGED evidence
    BY <1>6 DEF RecordAnswer
  <2>4. verdict' = verdict
    BY <1>6 DEF RecordAnswer
  <2>5. ResultsTyped'
    BY <2>2, <2>3, <2>4, RecordStep DEF ResultsTyped
  <2>6. TasksTyped'
    BY <1>0, <1>1, <1>6, TaskStep DEF RecordAnswer
  <2> QED  BY <1>1, <1>2, <1>6, <2>5, <2>6 DEF RecordAnswer, RowsTyped, Validated, Requested
<1>7. CASE EvidenceFails(p, k)
  <2>1. TasksTyped'
    BY <1>0, <1>1, <1>7, TaskStep DEF EvidenceFails
  <2>2. failures' \in Nat
    BY <1>7 DEF EvidenceFails, Fails, RowsTyped
  <2> QED  BY <1>1, <1>2, <1>7, <2>1, <2>2
           DEF EvidenceFails, RowsTyped, Validated, Requested, ResultsTyped
<1>8. CASE SettleBatch(p, k)
  <2>1. UNCHANGED <<failures, evidence>> /\ (Unsettled(k) \/ Settled(k))
    BY <1>8 DEF SettleBatch
  <2>2. evidence[k] \in Results /\ verdict[k] \in Results \cup {Void}
    BY ResultTyped
  <2>3. bracket' \in [Keys -> Phases] /\ verdict' \in [Keys -> Results \cup {Void}]
    <3>1. CASE Unsettled(k)
      BY <3>1 DEF Unsettled, RowsTyped, ResultsTyped
    <3>2. CASE Settled(k)
      <4>1. verdict' \in [Keys -> Results \cup {Void}]
        BY <2>2, <3>2 DEF Settled, ResultsTyped
      <4>2. \E f \in {"resolving", "voided", "resolved"} : bracket' = [bracket EXCEPT ![k] = f]
        BY <3>2 DEF Settled, Final
      <4> QED  BY <4>1, <4>2 DEF RowsTyped, Phases, Live, Terminal
    <3> QED  BY <2>1, <3>1, <3>2
  <2>4. TasksTyped'
    <3>1. /\ tasks[p] \in [DOMAIN tasks[p] -> Job] /\ DOMAIN tasks[p] \subseteq Keys
          /\ DOMAIN tasks = Procs
      BY DEF TasksTyped
    <3> DEFINE rest == [l \in DOMAIN tasks[p] \ {k} |-> tasks[p][l]]
    <3>2. tasks' = [tasks EXCEPT ![p] = rest]
      BY <1>8, <3>1 DEF SettleBatch
    <3>3. rest \in [DOMAIN tasks[p] \ {k} -> Job]
      BY <3>1
    <3>4. DOMAIN tasks[p] \ {k} \in SUBSET Keys
      BY <3>1
    <3> HIDE DEF rest
    <3> QED  BY <3>2, <3>3, <3>4, TasksReplaced
  <2> QED  BY <1>1, <1>2, <2>1, <2>3, <2>4 DEF RowsTyped, Validated, Requested, ResultsTyped
<1> QED  BY <1>4, <1>5, <1>6, <1>7, <1>8

\* A creator's signature keeps the types.
LEMMA TypedSigning ==
    ASSUME Typed, NEW k \in Keys, CreatorSigns(k)
    PROVE  Typed'
<1> USE DEF Typed, seriesVars
<1>1. PICK o \in OutcomesOf(Rule(k)) : Recorded(k, o)
  BY DEF CreatorSigns
<1>2. k[1] \in Ids \cup {Direct}
  BY DEF Keys
<1>3. o \in Results
  BY <1>1, <1>2, OutcomesBounded DEF Rule, Results
<1>4. ResultsTyped'
  BY <1>1, <1>3, RecordStep DEF CreatorSigns, ResultsTyped
<1>5. UNCHANGED <<seriesVars, feed, tasks>>
  BY DEF CreatorSigns
<1> QED  BY <1>4, <1>5 DEF RowsTyped, Validated, Requested, JobsTyped, TasksTyped

\* Every step keeps the types.
LEMMA TypedNext == Typed /\ [Next]_vars => Typed'
<1> SUFFICES ASSUME Typed, [Next]_vars PROVE Typed'
  OBVIOUS
<1>1. ASSUME NEW p \in Procs, Tick(p) PROVE Typed'
  BY <1>1, TypedTick, TypedSpawning, TypedSeeding, TypedTask DEF Tick, Processing
<1>2. ASSUME NEW p \in Procs, Failure(p) PROVE Typed'
  BY <1>2, TypedTick, TypedTask DEF Failure
<1>3. ASSUME NEW s \in Ids, Publication(s), UNCHANGED workerVars PROVE Typed'
  BY <1>3, TypedPublication
<1>4. ASSUME NEW k \in Keys, CreatorSigns(k) PROVE Typed'
  BY <1>4, TypedSigning
<1>5. CASE Advance /\ UNCHANGED workerVars
  <2>1. UNCHANGED <<series, publisher, bracket, budget, job, failures, feed, evidence, verdict,
                    tasks>>
    BY <1>5 DEF Advance, workerVars
  <2>2. \E t \in now + 1 .. MaxTime : now' = t
    BY <1>5 DEF Advance
  <2>3. now' \in Int
    BY <2>2
  <2> QED  BY <2>1, <2>3 DEF Typed, RowsTyped, Validated, Requested, JobsTyped, TasksTyped,
                             ResultsTyped
<1>6. CASE UNCHANGED vars
  BY <1>6 DEF vars, seriesVars, workerVars, Typed, RowsTyped, Validated, Requested, JobsTyped,
              TasksTyped, ResultsTyped
<1> QED  BY <1>1, <1>2, <1>3, <1>4, <1>5, <1>6 DEF Next

\* Every reachable state is well typed, whatever the clock does.
THEOREM Types == Spec => []Typed
<1> QED  BY TypedInit, TypedNext, PTL DEF Spec

-----------------------------------------------------------------------------
(***************************************************************************)
(* The life of a market.                                                   *)
(***************************************************************************)

\* Only brackets of rolling series, and the demo market, are published by a tick
Rolling(k) == k[1] = Direct \/ (k[1] \in Ids /\ ~Once(k[1]))

RollingJobs ==
    \A p \in Procs : Rolling(job[p].key) /\ \A k \in job[p].todo : Rolling(k)

\* A create_instance in flight does not outlast the retention of its own bracket
InFlight ==
    \A p \in Procs : job[p].at \in {"create", "create seed"} =>
        now < Times(job[p].key).evidence_deadline_ms + Retention

\* What was purged is long past its deadline
LongPast ==
    \A k \in Keys : bracket[k] = "purged" =>
        /\ k[1] \in Ids /\ ~Once(k[1])
        /\ Times(k).evidence_deadline_ms + Retention <= now

\* A settlement goes on with the result it fixed
Fixed == \A k \in Keys : bracket[k] = "resolving" => verdict[k] # None

\* The market of a one-time series is published by one request, once
Unpublished ==
    \A s \in Ids :
        /\ Once(s) /\ publisher[s] \in {"idle", "funding"} => bracket[<<s, 0>>] = "absent"
        /\ series[s].state = "absent" => publisher[s] = "idle"

LifeInv == RollingJobs /\ InFlight /\ LongPast /\ Fixed /\ Unpublished

\* A slot whose times are valid has its deadline ahead.
LEMMA DeadlineAhead ==
    ASSUME NEW k \in Slotted, now \in Int, TimesValid(Times(k), now)
    PROVE  now < Times(k).evidence_deadline_ms + Retention
<1>1. Retention \in Nat
  BY SeriesAssumption
<1> QED  BY <1>1, TimesTyped DEF TimesValid

\* The market of a one-time series has a key.
LEMMA OnceKey ==
    ASSUME NEW s \in Ids, Once(s)
    PROVE  <<s, 0>> \in Keys
<1>1. s # Direct
  BY SeriesAssumption
<1>2. Slots(s) = {0}
  BY <1>1 DEF Slots
<1>3. <<s, 0>> \in {s} \X Slots(s)
  BY <1>2
<1> QED  BY <1>3 DEF Keys

\* Every market is without a row at the start.
LEMMA LifeInit == Init => LifeInv
<1> SUFFICES ASSUME Init PROVE LifeInv
  OBVIOUS
<1>1. \A p \in Procs : job[p].at = "idle" /\ job[p].key = <<Direct, Epoch>> /\ job[p].todo = {}
  BY DEF Init, SeriesInit, Idle, At, Doing
<1>2. \A k \in Keys : bracket[k] = "absent"
  BY DEF Init, SeriesInit
<1>3. \A s \in Ids : publisher[s] = "idle"
  BY DEF Init, SeriesInit
<1>4. Unpublished
  BY <1>2, <1>3, OnceKey DEF Unpublished
<1>5. RollingJobs
  BY <1>1 DEF RollingJobs, Rolling
<1>6. InFlight
  BY <1>1 DEF InFlight
<1>7. LongPast /\ Fixed
  BY <1>2 DEF LongPast, Fixed
<1> QED  BY <1>4, <1>5, <1>6, <1>7 DEF LifeInv

\* Closing what is due keeps the life of a market.
LEMMA CloseDueLife ==
    ASSUME Typed, NEW p \in Procs, CloseDue(p)
    PROVE  Life!Closes
<1>1. verdict' = verdict
  BY DEF CloseDue, workerVars
<1>2. bracket' = [k \in Keys |-> IF bracket[k] = "open" /\ Times(k).close_ms <= now
                                 THEN "closed" ELSE bracket[k]]
  BY DEF CloseDue
<1>3. bracket' = [k \in Keys |-> bracket'[k]]
  BY <1>2
<1>4. \A k \in Keys : bracket'[k] = bracket[k] \/ (bracket[k] \in {"open"} /\ bracket'[k] = "closed")
  BY <1>2
<1> QED  BY <1>1, <1>3, <1>4 DEF Life!Closes, Life!Move

\* Purging forgets final markets only.
LEMMA PurgeLife ==
    ASSUME Typed, NEW p \in Procs, Purge(p), UNCHANGED workerVars
    PROVE  Life!Forgets
<1>1. verdict' = verdict
  BY DEF workerVars
<1>2. PICK batch \in SUBSET {k \in Keys : Purgeable(k)} :
          bracket' = [k \in Keys |-> IF k \in batch THEN "purged" ELSE bracket[k]]
  BY DEF Purge
<1>3. bracket' = [k \in Keys |-> bracket'[k]]
  BY <1>2
<1>4. \A k \in batch : bracket[k] \in {"resolved", "voided"}
  BY DEF Purgeable, Terminal
<1>5. \A k \in Keys : bracket'[k] = bracket[k]
          \/ (bracket[k] \in {"resolved", "voided"} /\ bracket'[k] = "purged")
  BY <1>2, <1>4
<1> QED  BY <1>1, <1>3, <1>5 DEF Life!Forgets, Life!Move

\* A settlement fixes a result, or goes on with it.
LEMMA SettleLife ==
    ASSUME Typed, LifeInv, NEW k \in Keys, Settled(k)
    PROVE  Life!Settles(k)
<1> DEFINE result == IF Finalizable(k)
                     THEN IF evidence[k] # None THEN evidence[k] ELSE Void
                     ELSE verdict[k]
<1>1. evidence[k] \in Results /\ verdict[k] \in Results \cup {Void}
  BY ResultTyped
<1>2. Finalizable(k) => bracket[k] = "closed"
  BY DEF Finalizable
<1>3. /\ Finalizable(k) \/ bracket[k] = "resolving"
      /\ verdict' = [verdict EXCEPT ![k] = result]
      /\ \/ bracket' = [bracket EXCEPT ![k] = Final(result)]
         \/ bracket[k] = "closed" /\ bracket' = [bracket EXCEPT ![k] = "resolving"]
  BY DEF Settled
<1>4. bracket[k] = "closed" \/ (bracket[k] = "resolving" /\ verdict[k] = result)
  BY <1>2, <1>3
<1>5. result \in Verdicts \ {None}
  <2>1. CASE Finalizable(k)
    BY <1>1, <2>1, WorkerAssumption DEF Results, Verdicts
  <2>2. CASE ~Finalizable(k)
    BY <1>1, <1>3, <2>2, WorkerAssumption DEF Results, Verdicts, LifeInv, Fixed
  <2> QED  BY <2>1, <2>2
<1> HIDE DEF result
<1>6. Final(result) = Life!Final(result)
  BY DEF Final, Life!Final
<1> QED  BY <1>3, <1>4, <1>5, <1>6 DEF Life!Settles

\* A market is opened that had no row, and was not purged.
LEMMA OpenLife ==
    ASSUME Typed, NEW k \in Keys, bracket[k] = "absent", Opened(k), UNCHANGED workerVars
    PROVE  Life!Opens(k)
  BY DEF Opened, workerVars, Life!Opens

\* A commit of create_instance opens a market, or leaves all as they are.
LEMMA CommitLife ==
    ASSUME Typed, LifeInv, NEW p \in Procs, CreateCommit(p)
    PROVE  \/ \E k \in Keys : bracket[k] = "absent" /\ k = job[p].key /\ Opened(k)
           \/ bracket' = bracket
<1> DEFINE k == job[p].key
<1>1. CASE bracket' = bracket
  BY <1>1
<1>2. CASE ~Exists(k) /\ Opened(k)
  <2>1. bracket \in [Keys -> Phases] /\ now \in Int
    BY DEF Typed, RowsTyped
  <2>2. CASE k \notin Keys
    BY <1>2, <2>1, <2>2 DEF Opened
  <2>3. CASE k \in Keys
    <3>1. job[p].at \in {"create", "create seed"}
      BY DEF CreateCommit
    <3>2. now < Times(k).evidence_deadline_ms + Retention
      BY <3>1 DEF LifeInv, InFlight
    <3>3. Times(k).evidence_deadline_ms \in Int /\ Retention \in Int
      BY <2>3, KeysSlotted, TimesTyped, SeriesAssumption
    <3>4. bracket[k] # "purged"
      BY <2>1, <2>3, <3>2, <3>3 DEF LifeInv, LongPast
    <3>5. bracket[k] = "absent"
      BY <1>2, <2>1, <2>3, <3>4 DEF Exists, Phases
    <3> QED  BY <1>2, <2>3, <3>5
  <2> QED  BY <2>2, <2>3
<1> QED  BY <1>1, <1>2 DEF CreateCommit

\* A market is opened by the commit of a tick or by the request of its series.
OpenedBy(k) ==
    \/ \E p \in Procs : CreateCommit(p) /\ k = job[p].key
    \/ \E s \in Ids : Publication(s) /\ Once(s) /\ publisher[s] = "funding" /\ k = <<s, 0>>

Opening(k) ==
    /\ bracket[k] = "absent" /\ Opened(k) /\ OpenedBy(k)
    /\ now' = now /\ UNCHANGED workerVars

\* A step of a one-time series' request opens its market, or none.
LEMMA PublicationLife ==
    ASSUME Typed, LifeInv, NEW s \in Ids, Publication(s), UNCHANGED workerVars
    PROVE  \/ \E k \in Keys : Opening(k)
           \/ bracket' = bracket
<1>1. CASE publisher[s] = "funding"
  <2>1. Once(s)
    BY <1>1 DEF Typed, RowsTyped, Requested
  <2>2. bracket[<<s, 0>>] = "absent"
    BY <1>1, <2>1 DEF LifeInv, Unpublished
  <2>3. now' = now /\ (Opened(<<s, 0>>) \/ bracket' = bracket)
    BY DEF Publication, CreateSeries, PublishOnce, RefuseOnce, PublishFails, Compensate,
           PublisherDies
  <2> QED  BY <1>1, <2>1, <2>2, <2>3, OnceKey DEF Opening, OpenedBy
<1>2. CASE publisher[s] # "funding"
  BY <1>2 DEF Publication, CreateSeries, PublishOnce, RefuseOnce, PublishFails,
              Compensate, PublisherDies
<1> QED  BY <1>1, <1>2

\* What a step does to the markets.
LEMMA Moves ==
    ASSUME Typed, LifeInv, [Next]_vars
    PROVE  \/ UNCHANGED <<bracket, verdict>>
           \/ \E p \in Procs : CloseDue(p)
           \/ \E p \in Procs : Purge(p) /\ UNCHANGED workerVars
           \/ \E k \in Keys : Settled(k) /\ UNCHANGED <<now, evidence>>
           \/ \E k \in Keys : Opening(k)
<1> DEFINE Goal == \/ UNCHANGED <<bracket, verdict>>
                   \/ \E p \in Procs : CloseDue(p)
                   \/ \E p \in Procs : Purge(p) /\ UNCHANGED workerVars
                   \/ \E k \in Keys : Settled(k) /\ UNCHANGED <<now, evidence>>
                   \/ \E k \in Keys : Opening(k)
<1>1. ASSUME NEW p \in Procs, Tick(p) PROVE Goal
  <2>1. CASE CloseDue(p)
    BY <2>1
  <2>2. CASE Spawning(p) /\ UNCHANGED workerVars
    <3>1. verdict' = verdict
      BY <2>2 DEF workerVars
    <3>2. CASE CreateCommit(p)
      <4>1. now' = now
        BY <3>2 DEF CreateCommit
      <4> QED  BY <2>2, <3>1, <3>2, <4>1, CommitLife DEF Opening, OpenedBy
    <3>3. CASE SpawnBegin(p) \/ CreateBegin(p) \/ EndSeries(p)
      BY <3>1, <3>3 DEF SpawnBegin, CreateBegin, EndSeries
    <3> QED  BY <2>2, <3>2, <3>3 DEF Spawning
  <2>3. CASE Seeding(p, feed = "live") /\ UNCHANGED workerVars
    BY <2>3 DEF Seeding, SeedBegin, SeedSeries, SeedDirect, workerVars
  <2>4. CASE Select(p)
    BY <2>4 DEF Select
  <2>5. ASSUME NEW k \in Keys,
               AskSimulator(p, k) \/ AskResolver(p, k) \/ RecordAnswer(p, k)
        PROVE  UNCHANGED <<bracket, verdict>>
    BY <2>5 DEF AskSimulator, AskResolver, RecordAnswer, seriesVars
  <2>6. ASSUME NEW k \in Keys, SettleBatch(p, k) PROVE Goal
    <3>1. CASE Unsettled(k)
      BY <3>1 DEF Unsettled
    <3>2. CASE Settled(k)
      BY <2>6, <3>2 DEF SettleBatch
    <3> QED  BY <2>6, <3>1, <3>2 DEF SettleBatch
  <2>7. CASE Purge(p) /\ UNCHANGED workerVars
    BY <2>7
  <2> QED  BY <1>1, <2>1, <2>2, <2>3, <2>4, <2>5, <2>6, <2>7 DEF Tick, Processing
<1>2. ASSUME NEW p \in Procs, Failure(p) PROVE UNCHANGED <<bracket, verdict>>
  BY <1>2 DEF Failure, TickFails, Crash, EvidenceFails, workerVars
<1>3. ASSUME NEW s \in Ids, Publication(s), UNCHANGED workerVars PROVE Goal
  <2>1. verdict' = verdict
    BY <1>3 DEF workerVars
  <2> QED  BY <1>3, <2>1, PublicationLife
<1>4. ASSUME NEW k \in Keys, CreatorSigns(k) PROVE UNCHANGED <<bracket, verdict>>
  BY <1>4 DEF CreatorSigns, seriesVars
<1>5. CASE Advance /\ UNCHANGED workerVars
  BY <1>5 DEF Advance, workerVars
<1>6. CASE UNCHANGED vars
  BY <1>6 DEF vars, seriesVars, workerVars
<1> QED  BY <1>1, <1>2, <1>3, <1>4, <1>5, <1>6 DEF Next

\* Every step is one of the abstract life, or leaves the markets alone.
LEMMA LifeStep == Typed /\ LifeInv /\ [Next]_vars => [Life!LifeNext]_(Life!lifeVars)
<1> SUFFICES ASSUME Typed, LifeInv, [Next]_vars PROVE [Life!LifeNext]_(Life!lifeVars)
  OBVIOUS
<1>1. CASE \E p \in Procs : CloseDue(p)
  BY <1>1, CloseDueLife DEF Life!LifeNext
<1>2. CASE \E p \in Procs : Purge(p) /\ UNCHANGED workerVars
  BY <1>2, PurgeLife DEF Life!LifeNext
<1>3. CASE \E k \in Keys : Settled(k)
  BY <1>3, SettleLife DEF Life!LifeNext
<1>4. CASE \E k \in Keys : Opening(k)
  BY <1>4, OpenLife DEF Life!LifeNext, Opening
<1>5. CASE UNCHANGED <<bracket, verdict>>
  BY <1>5 DEF Life!lifeVars
<1> QED  BY <1>1, <1>2, <1>3, <1>4, <1>5, Moves

\* A tick goes on with slots it had, or new ones of rolling series.
LEMMA RollingStep ==
    ASSUME JobsTyped, RollingJobs, NEW p \in Procs, NEW j, Goto(p, j),
           Rolling(j.key), \A k \in j.todo : Rolling(k)
    PROVE  RollingJobs'
<1>1. \A q \in Procs : job'[q] = IF q = p THEN j ELSE job[q]
  BY DEF Goto, JobsTyped
<1> QED  BY <1>1 DEF RollingJobs, Rolling

\* A tick that is not about to commit is not in flight.
LEMMA LandedStep ==
    ASSUME JobsTyped, InFlight, NEW p \in Procs, NEW j, Goto(p, j),
           j.at \notin {"create", "create seed"}, now' = now
    PROVE  InFlight'
<1>1. \A q \in Procs : job'[q] = IF q = p THEN j ELSE job[q]
  BY DEF Goto, JobsTyped
<1> QED  BY <1>1 DEF InFlight

\* A point after which the slots of a tick are not used.
LEMMA AtLife ==
    ASSUME NEW place, place \notin {"create", "create seed"}
    PROVE  /\ Rolling(At(place).key) /\ At(place).todo = {}
           /\ At(place).at \notin {"create", "create seed"}
<1>1. At(place).key[1] = Direct
  BY DEF At, Doing
<1> QED  BY <1>1 DEF At, Doing, Rolling

\* Every step keeps the slots of ticks to rolling series, and their commits within
\* the retention of what they publish.
LEMMA JobsLife ==
    Typed /\ RollingJobs /\ InFlight /\ [Next]_vars => RollingJobs' /\ InFlight'
<1> SUFFICES ASSUME Typed, RollingJobs, InFlight, [Next]_vars PROVE RollingJobs' /\ InFlight'
  OBVIOUS
<1>0. /\ now \in Int /\ JobsTyped
      /\ \A p \in Procs : job[p] \in Jobs
  BY DEF Typed, RowsTyped, JobsTyped
<1>1. ASSUME NEW p \in Procs, NEW place \in {"idle", "closed", "settling", "spawned", "seed"},
             Goto(p, At(place)), now' = now
      PROVE  RollingJobs' /\ InFlight'
  BY <1>0, <1>1, AtLife, RollingStep, LandedStep
<1>2. ASSUME NEW p \in Procs, NEW k, NEW rest, rest \subseteq job[p].todo, Rolling(k),
             Then(p, k, rest), now' = now
      PROVE  RollingJobs' /\ InFlight'
  <2>1. CASE Goto(p, Idle)
    BY <1>1, <1>2, <2>1 DEF Idle
  <2>2. CASE Goto(p, Doing("spawn", job[p].clock, rest, k))
    <3>1. \A l \in rest : Rolling(l)
      BY <1>2 DEF RollingJobs
    <3> QED  BY <1>0, <1>2, <2>2, <3>1, RollingStep, LandedStep DEF Doing
  <2> QED  BY <1>2, <2>1, <2>2 DEF Then
<1>3. ASSUME NEW p \in Procs, Spawning(p) PROVE RollingJobs' /\ InFlight'
  <2>0. now' = now
    BY <1>3 DEF Spawning, SpawnBegin, CreateBegin, CreateCommit, EndSeries
  <2>1. CASE SpawnBegin(p)
    <3> DEFINE j == Doing("spawn", now, Upcoming(now), <<Direct, Epoch>>)
    <3>1. Goto(p, j)
      BY <2>1 DEF SpawnBegin
    <3>2. \A k \in j.todo : Rolling(k)
      BY DEF Doing, Upcoming, Rolling
    <3>3. Rolling(j.key) /\ j.at = "spawn"
      BY DEF Doing, Rolling
    <3> HIDE DEF j
    <3> QED  BY <1>0, <2>0, <3>1, <3>2, <3>3, RollingStep, LandedStep
  <2>2. CASE CreateBegin(p)
    <3> DEFINE Begun(k) == Doing(IF job[p].at = "spawn" THEN "create" ELSE "create seed",
                                 job[p].clock, job[p].todo, k)
    <3>1. PICK k \in NextSlots(p) :
            \/ Then(p, k, Without(job[p].todo, k))
            \/ Then(p, k, GivenUp(job[p].todo, k))
            \/ TimesValid(Times(k), now) /\ Goto(p, Begun(k))
      BY <2>2 DEF CreateBegin
    <3>2. k \in Slotted /\ Rolling(k)
      BY <1>0, NextToDo DEF Jobs, RollingJobs
    <3>3. /\ Without(job[p].todo, k) \subseteq job[p].todo
          /\ GivenUp(job[p].todo, k) \subseteq job[p].todo
      BY DEF Without, GivenUp
    <3>4. CASE TimesValid(Times(k), now) /\ Goto(p, Begun(k))
      <4>1. now < Times(k).evidence_deadline_ms + Retention
        BY <1>0, <3>2, <3>4, DeadlineAhead
      <4>2. Begun(k).key = k /\ Begun(k).todo = job[p].todo
        BY DEF Doing
      <4> HIDE DEF Begun
      <4>3. RollingJobs'
        BY <1>0, <3>2, <3>4, <4>2, RollingStep DEF RollingJobs
      <4>4. \A q \in Procs : job'[q] = IF q = p THEN Begun(k) ELSE job[q]
        BY <1>0, <3>4 DEF Goto, JobsTyped
      <4>5. InFlight'
        BY <2>0, <4>1, <4>2, <4>4 DEF InFlight, Times
      <4> QED  BY <4>3, <4>5
    <3> QED  BY <1>2, <2>0, <3>1, <3>2, <3>3, <3>4
  <2>3. CASE CreateCommit(p)
    <3>1. /\ Without(job[p].todo, job[p].key) \subseteq job[p].todo
          /\ GivenUp(job[p].todo, job[p].key) \subseteq job[p].todo
      BY DEF Without, GivenUp
    <3>2. Rolling(job[p].key)
      BY DEF RollingJobs
    <3>3. \/ Then(p, job[p].key, Without(job[p].todo, job[p].key))
          \/ Then(p, job[p].key, GivenUp(job[p].todo, job[p].key))
      BY <2>3 DEF CreateCommit
    <3> QED  BY <1>2, <2>0, <3>1, <3>2, <3>3
  <2>4. CASE EndSeries(p)
    BY <1>1, <2>0, <2>4 DEF EndSeries
  <2> QED  BY <1>3, <2>1, <2>2, <2>3, <2>4 DEF Spawning
<1>4. ASSUME NEW p \in Procs, Seeding(p, feed = "live") PROVE RollingJobs' /\ InFlight'
  <2>0. now' = now
    BY <1>4 DEF Seeding, SeedBegin, SeedSeries, SeedDirect
  <2>1. \A t : Rolling(<<Direct, t>>)
    BY DEF Rolling
  <2>2. ASSUME NEW j, Goto(p, j), j.at \in {"seed direct", "seed series", "seeding"},
               j.key = <<Direct, Epoch>>, \A k \in j.todo : Rolling(k)
        PROVE  RollingJobs' /\ InFlight'
    BY <1>0, <2>0, <2>1, <2>2, RollingStep, LandedStep
  <2>3. CASE SeedBegin(p)
    BY <2>2, <2>3 DEF SeedBegin, Doing
  <2>4. CASE SeedSeries(p)
    BY <2>2, <2>4 DEF SeedSeries, Doing
  <2>5. CASE SeedDirect(p, feed = "live")
    <3>1. CASE Goto(p, Idle)
      BY <1>1, <2>0, <3>1 DEF Idle
    <3>2. CASE Goto(p, Doing("seeding", Epoch,
                             {<<Direct, ((job[p].clock \div DemoGrid) + 1) * DemoGrid>>},
                             <<Direct, Epoch>>))
      <4>1. \A k \in {<<Direct, ((job[p].clock \div DemoGrid) + 1) * DemoGrid>>} : Rolling(k)
        BY <2>1
      <4> QED  BY <2>2, <3>2, <4>1 DEF Doing
    <3> QED  BY <2>5, <3>1, <3>2 DEF SeedDirect
  <2> QED  BY <1>4, <2>3, <2>4, <2>5 DEF Seeding
<1>5. CASE UNCHANGED <<now, job>>
  BY <1>5 DEF RollingJobs, Rolling, InFlight, Times
<1>6. CASE Advance
  <2>1. job' = job
    BY <1>6 DEF Advance
  <2>2. \A p \in Procs : job[p].at \in {"create", "create seed"} =>
            now' < Times(job[p].key).evidence_deadline_ms + Retention
    BY <1>6 DEF Advance
  <2> QED  BY <2>1, <2>2 DEF RollingJobs, Rolling, InFlight, Times
<1>7. ASSUME NEW p \in Procs, Tick(p) PROVE RollingJobs' /\ InFlight'
  <2>1. CASE CloseDue(p) \/ Select(p) \/ Purge(p)
    BY <1>1, <2>1 DEF CloseDue, Select, Purge
  <2>2. CASE Processing(p)
    BY <1>5, <2>2 DEF Processing, AskSimulator, AskResolver, RecordAnswer, SettleBatch, seriesVars
  <2> QED  BY <1>3, <1>4, <1>7, <2>1, <2>2 DEF Tick
<1>8. ASSUME NEW p \in Procs, Failure(p) PROVE RollingJobs' /\ InFlight'
  BY <1>1, <1>5, <1>8 DEF Failure, TickFails, Crash, EvidenceFails, Idle
<1>9. ASSUME NEW s \in Ids, Publication(s) PROVE UNCHANGED <<now, job>>
  BY <1>9 DEF Publication, CreateSeries, PublishOnce, RefuseOnce, PublishFails, Compensate,
              PublisherDies
<1>10. ASSUME NEW k \in Keys, CreatorSigns(k) PROVE UNCHANGED <<now, job>>
  BY <1>10 DEF CreatorSigns, seriesVars
<1> QED  BY <1>5, <1>6, <1>7, <1>8, <1>9, <1>10 DEF Next, vars, seriesVars

\* Time does not go back.
LEMMA TimePasses ==
    ASSUME Typed, [Next]_vars
    PROVE  /\ now' \in Int /\ now <= now'
           /\ now' = now \/ now' <= MaxTime
<1>1. now \in Int
  BY DEF Typed, RowsTyped
<1>2. CASE now' = now
  BY <1>1, <1>2
<1>3. CASE Advance
  <2>1. \E t \in now + 1 .. MaxTime : now' = t
    BY <1>3 DEF Advance
  <2> QED  BY <1>1, <2>1, SeriesAssumption
<1>4. CASE \E p \in Procs : Tick(p) \/ Failure(p)
  BY <1>2, <1>4 DEF Tick, Failure, CloseDue, Spawning, SpawnBegin, CreateBegin, CreateCommit,
     EndSeries, Seeding, SeedBegin, SeedSeries, SeedDirect, Select, Processing, AskSimulator,
     AskResolver, RecordAnswer, SettleBatch, Purge, TickFails, Crash, EvidenceFails, seriesVars
<1>5. CASE \E s \in Ids : Publication(s)
  BY <1>2, <1>5 DEF Publication, CreateSeries, PublishOnce, RefuseOnce, PublishFails,
     Compensate, PublisherDies
<1>6. CASE \E k \in Keys : CreatorSigns(k)
  BY <1>2, <1>6 DEF CreatorSigns, seriesVars
<1> QED  BY <1>2, <1>3, <1>4, <1>5, <1>6 DEF Next, vars, seriesVars

\* Every step keeps what was purged long past, and settlements fixed.
LEMMA MarketsLife == Typed /\ LifeInv /\ [Next]_vars => LongPast' /\ Fixed'
<1> SUFFICES ASSUME Typed, LifeInv, [Next]_vars PROVE LongPast' /\ Fixed'
  OBVIOUS
<1>0. /\ now \in Int /\ now' \in Int /\ now <= now' /\ Retention \in Int
      /\ bracket \in [Keys -> Phases] /\ verdict \in [Keys -> Results \cup {Void}]
  BY TimePasses, SeriesAssumption DEF Typed, RowsTyped, ResultsTyped
<1>1. ASSUME \A k \in Keys : /\ bracket'[k] = "purged" => bracket[k] = "purged" \/ Purgeable(k)
                             /\ bracket'[k] = "resolving" => verdict'[k] # None
      PROVE  LongPast' /\ Fixed'
  <2>1. \A k \in Keys : Times(k).evidence_deadline_ms \in Int
    BY KeysSlotted, TimesTyped
  <2>2. ASSUME NEW k \in Keys, bracket'[k] = "purged"
        PROVE  /\ k[1] \in Ids /\ ~Once(k[1])
               /\ Times(k).evidence_deadline_ms + Retention <= now'
    BY <1>0, <1>1, <2>1, <2>2 DEF LifeInv, LongPast, Purgeable
  <2>3. LongPast'
    BY <2>2 DEF LongPast, Times
  <2> QED  BY <1>1, <2>3 DEF Fixed
<1>2. CASE UNCHANGED <<bracket, verdict>>
  BY <1>1, <1>2 DEF LifeInv, Fixed
<1>3. CASE \E p \in Procs : CloseDue(p)
  <2>1. \A k \in Keys : bracket'[k] = bracket[k] \/ bracket'[k] = "closed"
    BY <1>3 DEF CloseDue
  <2>2. verdict' = verdict
    BY <1>3 DEF CloseDue, workerVars
  <2> QED  BY <1>1, <2>1, <2>2 DEF LifeInv, Fixed
<1>4. CASE \E p \in Procs : Purge(p) /\ UNCHANGED workerVars
  <2>1. \A k \in Keys : bracket'[k] = bracket[k] \/ (Purgeable(k) /\ bracket'[k] = "purged")
    BY <1>4 DEF Purge
  <2>2. verdict' = verdict
    BY <1>4 DEF workerVars
  <2> QED  BY <1>1, <2>1, <2>2 DEF LifeInv, Fixed
<1>5. ASSUME NEW k \in Keys, Settled(k) PROVE LongPast' /\ Fixed'
  <2>1. Life!Settles(k)
    BY <1>5, SettleLife
  <2>2. /\ \A l \in Keys : l # k => bracket'[l] = bracket[l] /\ verdict'[l] = verdict[l]
        /\ verdict'[k] # None
        /\ bracket'[k] # "purged"
    BY <1>0, <2>1 DEF Life!Settles, Life!Final
  <2> QED  BY <1>1, <2>2 DEF LifeInv, Fixed
<1>6. CASE \E k \in Keys : Opening(k)
  <2>1. PICK k \in Keys : Opening(k)
    BY <1>6
  <2>2. \A l \in Keys : bracket'[l] = bracket[l] \/ bracket'[l] = "open"
    BY <1>0, <2>1 DEF Opening, Opened
  <2>3. verdict' = verdict
    BY <2>1 DEF Opening, workerVars
  <2> QED  BY <1>1, <2>2, <2>3 DEF LifeInv, Fixed
<1> QED  BY <1>2, <1>3, <1>4, <1>5, <1>6, Moves

\* A step that is not of a request leaves the requests alone; it opens no market of a
\* one-time series, and ends such a series when its market is there.
LEMMA OthersLeave ==
    ASSUME Typed, LifeInv, [Next]_vars, NEW s \in Ids,
           ~\E x \in Ids : Publication(x) /\ UNCHANGED workerVars
    PROVE  /\ publisher' = publisher
           /\ series'[s].state = "absent" => series[s].state = "absent"
           /\ Once(s) => \/ series'[s] = series[s]
                         \/ /\ series[s].state = "active" /\ bracket[<<s, 0>>] # "absent"
                            /\ series'[s].state = "ended"
           /\ Once(s) => (bracket'[<<s, 0>>] = "absent" <=> bracket[<<s, 0>>] = "absent")
<1>1. /\ series \in [Ids -> [state : {"absent", "active", "ended", "deleted"}, anchor : Int]]
      /\ bracket \in [Keys -> Phases]
  BY DEF Typed, RowsTyped
<1>2. publisher' = publisher
  BY DEF Next, Tick, Failure, CloseDue, Spawning, SpawnBegin, CreateBegin, CreateCommit,
     EndSeries, Seeding, SeedBegin, SeedSeries, SeedDirect, Select, Processing, AskSimulator,
     AskResolver, RecordAnswer, SettleBatch, Purge, TickFails, Crash, EvidenceFails,
     CreatorSigns, Advance, vars, seriesVars
<1>3. \/ UNCHANGED series
      \/ \E p \in Procs : EndSeries(p) \/ SeedSeries(p)
  BY DEF Next, Tick, Failure, CloseDue, Spawning, SpawnBegin, CreateBegin, CreateCommit,
     Seeding, SeedBegin, SeedDirect, Select, Processing, AskSimulator,
     AskResolver, RecordAnswer, SettleBatch, Purge, TickFails, Crash, EvidenceFails,
     CreatorSigns, Advance, vars, seriesVars
<1>4. CASE \E p \in Procs : EndSeries(p)
  <2>1. PICK p \in Procs : EndSeries(p)
    BY <1>4
  <2>2. CASE Ending(s, job[p].clock)
    <3>1. series'[s].state = "ended" /\ series[s].state = "active"
      BY <1>1, <2>1, <2>2 DEF EndSeries, Ending, Active
    <3>2. Once(s) => bracket[<<s, 0>>] # "absent" /\ bracket' = bracket
      BY <2>1, <2>2 DEF EndSeries, Ending, Exists, Live, Terminal
    <3> QED  BY <1>2, <3>1, <3>2
  <2>3. CASE ~Ending(s, job[p].clock)
    BY <1>1, <1>2, <2>1, <2>3 DEF EndSeries
  <2> QED  BY <2>2, <2>3
<1>5. CASE \E p \in Procs : SeedSeries(p)
  <2>1. /\ bracket' = bracket
        /\ \/ series' = series
           \/ \E x \in Demo : Inserted(x)
    BY <1>5 DEF SeedSeries
  <2>2. \A x \in Demo : x \in Ids /\ ~Once(x)
    BY SeriesAssumption
  <2> QED  BY <1>1, <1>2, <2>1, <2>2 DEF Inserted
<1>6. CASE UNCHANGED series
  <2>4. Once(s) => (bracket'[<<s, 0>>] = "absent" <=> bracket[<<s, 0>>] = "absent")
    <3> SUFFICES ASSUME Once(s)
                 PROVE  bracket'[<<s, 0>>] = "absent" <=> bracket[<<s, 0>>] = "absent"
      OBVIOUS
    <3>0. <<s, 0>> \in Keys
      BY OnceKey
    <3>1. CASE \E p \in Procs : CloseDue(p)
      BY <3>0, <3>1 DEF CloseDue
    <3>2. CASE \E p \in Procs : Purge(p)
      BY <3>0, <3>2 DEF Purge, Purgeable, Terminal
    <3>3. ASSUME NEW k \in Keys, Settled(k)
          PROVE  bracket'[<<s, 0>>] = "absent" <=> bracket[<<s, 0>>] = "absent"
      <4>1. Life!Settles(k)
        BY <3>3, SettleLife
      <4> QED  BY <1>1, <4>1 DEF Life!Settles, Life!Final
    <3>4. ASSUME NEW k \in Keys, Opening(k)
          PROVE  bracket'[<<s, 0>>] = bracket[<<s, 0>>]
      <4>1. k # <<s, 0>>
        <5>1. PICK p \in Procs : k = job[p].key
          BY <3>4 DEF Opening, OpenedBy
        <5>2. Rolling(k)
          BY <5>1 DEF LifeInv, RollingJobs
        <5>3. s # Direct
          BY SeriesAssumption
        <5> QED  BY <5>2, <5>3 DEF Rolling
      <4> QED  BY <1>1, <3>4, <4>1 DEF Opening, Opened
    <3>5. CASE UNCHANGED bracket
      BY <3>5
    <3> QED  BY <3>1, <3>2, <3>3, <3>4, <3>5, Moves
  <2> QED  BY <1>2, <1>6, <2>4
<1> QED  BY <1>3, <1>4, <1>5, <1>6

\* Every step keeps the one request of a one-time series.
LEMMA RequestsLife == Typed /\ LifeInv /\ [Next]_vars => Unpublished'
<1> SUFFICES ASSUME Typed, LifeInv, [Next]_vars, NEW s \in Ids
             PROVE  /\ Once(s) /\ publisher'[s] \in {"idle", "funding"} =>
                          bracket'[<<s, 0>>] = "absent"
                    /\ series'[s].state = "absent" => publisher'[s] = "idle"
  BY DEF Unpublished, Once
<1>0. /\ Once(s) /\ publisher[s] \in {"idle", "funding"} => bracket[<<s, 0>>] = "absent"
      /\ series[s].state = "absent" => publisher[s] = "idle"
  BY DEF LifeInv, Unpublished
<1>1. /\ series \in [Ids -> [state : {"absent", "active", "ended", "deleted"}, anchor : Int]]
      /\ bracket \in [Keys -> Phases]
      /\ publisher \in [Ids -> {"idle", "funding", "removing", "done", "failed", "died"}]
  BY DEF Typed, RowsTyped
<1>2. ASSUME NEW x \in Ids, Publication(x), UNCHANGED workerVars
      PROVE  /\ publisher'[s] # publisher[s] => x = s
             /\ x = s => publisher'[s] # "idle"
             /\ publisher'[s] = "funding" => publisher[s] = "funding" \/ series[s].state = "absent"
             /\ publisher'[s] = "funding" => bracket' = bracket \/ x # s
             /\ series'[s].state = "absent" => x # s /\ series[s].state = "absent"
             /\ \A y \in Ids : y # x /\ Once(y) => bracket'[<<y, 0>>] = bracket[<<y, 0>>]
  <2>1. CASE CreateSeries(x)
    BY <1>1, <2>1 DEF CreateSeries, Inserted
  <2>2. CASE PublishOnce(x) \/ RefuseOnce(x) \/ PublishFails(x) \/ PublisherDies(x)
    <3>1. publisher[x] \in {"funding", "removing"} /\ series' = series
      BY <2>2 DEF PublishOnce, RefuseOnce, PublishFails, PublisherDies
    <3>2. series[x].state # "absent"
      BY <3>1 DEF LifeInv, Unpublished
    <3>3. bracket' = bracket \/ bracket' = [bracket EXCEPT ![<<x, 0>>] = "open"]
      BY <2>2 DEF PublishOnce, RefuseOnce, PublishFails, PublisherDies, Opened
    <3>4. \E st \in {"done", "removing", "died"} : publisher' = [publisher EXCEPT ![x] = st]
      BY <2>2 DEF PublishOnce, RefuseOnce, PublishFails, PublisherDies
    <3>5. \A y \in Ids : y # x /\ Once(y) => bracket'[<<y, 0>>] = bracket[<<y, 0>>]
      BY <1>1, <3>3, OnceKey
    <3> QED  BY <1>1, <3>1, <3>2, <3>4, <3>5
  <2>3. CASE Compensate(x)
    <3>1. publisher[x] = "removing" /\ bracket' = bracket
          /\ publisher' = [publisher EXCEPT ![x] = "failed"]
      BY <2>3 DEF Compensate
    <3>2. series[x].state # "absent"
      BY <3>1 DEF LifeInv, Unpublished
    <3>3. series' = series \/ series' = [series EXCEPT ![x].state = "deleted"]
      BY <2>3 DEF Compensate, Removed
    <3>4. series'[s].state = "absent" => x # s /\ series[s].state = "absent"
      BY <1>1, <3>2, <3>3
    <3> QED  BY <1>1, <3>1, <3>4
  <2> QED  BY <1>2, <2>1, <2>2, <2>3 DEF Publication
<1>3. CASE \E x \in Ids : Publication(x) /\ UNCHANGED workerVars
  BY <1>0, <1>1, <1>2, <1>3
<1>4. ASSUME UNCHANGED publisher,
             Once(s) => bracket'[<<s, 0>>] = bracket[<<s, 0>>] \/ bracket[<<s, 0>>] # "absent",
             series'[s].state = "absent" => series[s].state = "absent"
      PROVE  /\ Once(s) /\ publisher'[s] \in {"idle", "funding"} =>
                          bracket'[<<s, 0>>] = "absent"
             /\ series'[s].state = "absent" => publisher'[s] = "idle"
  BY <1>0, <1>4
<1>5. CASE ~\E x \in Ids : Publication(x) /\ UNCHANGED workerVars
  BY <1>4, <1>5, OthersLeave
<1> QED  BY <1>3, <1>5

\* Init and every step keep the invariant the life of a market rests on.
LEMMA LifeInvariant == Spec => [](Typed /\ LifeInv)
<1>1. Typed /\ LifeInv /\ [Next]_vars => LifeInv'
  BY JobsLife, MarketsLife, RequestsLife DEF LifeInv
<1> QED  BY <1>1, TypedInit, TypedNext, LifeInit, PTL DEF Spec

(***************************************************************************)
(* Whatever any number of processes do with clocks read at different times,*)
(* a market goes through its phases once, is never opened again after it   *)
(* was purged, and its result never changes.                               *)
(***************************************************************************)
THEOREM ScheduleImplementsLifecycle == Spec => ImplementsLifecycle
<1>1. Init => Life!LifeInit
  BY DEF Init, SeriesInit, Life!LifeInit
<1> QED  BY <1>1, LifeInvariant, LifeStep, PTL DEF Spec, ImplementsLifecycle, Life!LifeSpec

-----------------------------------------------------------------------------
(***************************************************************************)
(* Evidence of the adapter.                                                *)
(***************************************************************************)

FromFeed(k) == feed # "simulated" /\ k[1] \in Ids /\ Endpoint[k[1]] = "adapter"

\* What is about to be recorded is what the provider saw
Heard ==
    \A p \in Procs : \A k \in DOMAIN tasks[p] :
        FromFeed(k) /\ tasks[p][k].stage = "record" => tasks[p][k].answer = Happened(k)

\* The deployment does not change.
LEMMA FeedFixed == ASSUME [Next]_vars PROVE feed' = feed
<1>1. CASE \E p \in Procs : Tick(p) \/ Failure(p)
  BY <1>1 DEF Tick, Failure, CloseDue, Select, Processing, AskSimulator,
     AskResolver, RecordAnswer, SettleBatch, TickFails, Crash, EvidenceFails, workerVars
<1>2. CASE \E k \in Keys : CreatorSigns(k)
  BY <1>2 DEF CreatorSigns
<1> QED  BY <1>1, <1>2 DEF Next, vars, workerVars

\* A task goes on, the others stay.
LEMMA TasksOf ==
    ASSUME TasksTyped, NEW p \in Procs, NEW k \in DOMAIN tasks[p], NEW task, Continue(p, k, task)
    PROVE  \A q \in Procs : /\ DOMAIN tasks'[q] = DOMAIN tasks[q]
                            /\ \A l \in DOMAIN tasks[q] :
                                  tasks'[q][l] = IF q = p /\ l = k THEN task ELSE tasks[q][l]
<1>1. tasks[p] = [l \in DOMAIN tasks[p] |-> tasks[p][l]]
  BY DEF TasksTyped
<1>2. /\ DOMAIN tasks' = Procs
      /\ \A q \in Procs : tasks'[q] = IF q = p THEN [tasks[p] EXCEPT ![k] = task] ELSE tasks[q]
  BY DEF TasksTyped, Continue
<1> QED  BY <1>1, <1>2

\* What a step does to the tasks of the processes.
LEMMA TaskMoves ==
    ASSUME Typed, [Next]_vars
    PROVE  \/ UNCHANGED tasks
           \/ \E p \in Procs : Select(p) \/ Crash(p)
           \/ \E p \in Procs : \E k \in Keys :
                 \/ AskSimulator(p, k) \/ AskResolver(p, k) \/ RecordAnswer(p, k)
                 \/ SettleBatch(p, k) \/ EvidenceFails(p, k)
<1>1. CASE \E p \in Procs : Tick(p)
  BY <1>1 DEF Tick, CloseDue, Processing, workerVars
<1>2. CASE \E p \in Procs : Failure(p)
  BY <1>2 DEF Failure, TickFails, workerVars
<1>3. CASE \E k \in Keys : CreatorSigns(k)
  BY <1>3 DEF CreatorSigns
<1> QED  BY <1>1, <1>2, <1>3 DEF Next, vars, workerVars

\* Every step keeps the answers that are on their way to what the provider saw.
LEMMA HeardStep == Typed /\ Heard /\ [Next]_vars => Heard'
<1> SUFFICES ASSUME Typed, Heard, [Next]_vars PROVE Heard'
  OBVIOUS
<1>0. feed' = feed /\ TasksTyped
  BY FeedFixed DEF Typed
<1>1. CASE UNCHANGED tasks
  BY <1>0, <1>1 DEF Heard, FromFeed, Happened
<1>2. ASSUME NEW p \in Procs, NEW D, NEW f, tasks' = [tasks EXCEPT ![p] = f], DOMAIN f = D,
             \A k \in D : FromFeed(k) /\ f[k].stage = "record" => f[k].answer = Happened(k)
      PROVE  Heard'
  <2>1. \A q \in Procs : tasks'[q] = IF q = p THEN f ELSE tasks[q]
    BY <1>0, <1>2 DEF TasksTyped
  <2> QED  BY <1>0, <1>2, <2>1 DEF Heard, FromFeed, Happened
<1>3. ASSUME NEW p \in Procs, NEW k \in DOMAIN tasks[p], NEW task, Continue(p, k, task),
             FromFeed(k) /\ task.stage = "record" => task.answer = Happened(k)
      PROVE  Heard'
  <2>1. \A q \in Procs : /\ DOMAIN tasks'[q] = DOMAIN tasks[q]
                         /\ \A l \in DOMAIN tasks[q] :
                               tasks'[q][l] = IF q = p /\ l = k THEN task ELSE tasks[q][l]
    BY <1>0, <1>3, TasksOf
  <2>2. ASSUME NEW q \in Procs, NEW l \in DOMAIN tasks'[q],
               FromFeed(l), tasks'[q][l].stage = "record"
        PROVE  tasks'[q][l].answer = Happened(l)
    <3>1. CASE q = p /\ l = k
      BY <1>3, <2>1, <2>2, <3>1
    <3>2. CASE ~(q = p /\ l = k)
      BY <2>1, <2>2, <3>2 DEF Heard
    <3> QED  BY <3>1, <3>2
  <2> QED  BY <1>0, <2>2 DEF Heard, FromFeed, Happened
<1>4. ASSUME NEW p \in Procs, Select(p) PROVE Heard'
  <2>1. PICK batch \in SUBSET Keys :
            tasks' = [tasks EXCEPT ![p] = [k \in batch |-> IF Asks(k) THEN Asked ELSE Ready]]
    BY <1>4 DEF Select
  <2> DEFINE f == [k \in batch |-> IF Asks(k) THEN Asked ELSE Ready]
  <2>2. DOMAIN f = batch /\ \A k \in batch : f[k].stage # "record"
    BY DEF Asked, Ready
  <2>3. tasks' = [tasks EXCEPT ![p] = f]
    BY <2>1
  <2> HIDE DEF f
  <2> QED  BY <1>2, <2>2, <2>3
<1>5. ASSUME NEW p \in Procs, Crash(p) PROVE Heard'
  <2>1. DOMAIN <<>> = {}
    OBVIOUS
  <2> QED  BY <1>2, <1>5, <2>1 DEF Crash
<1>6. ASSUME NEW p \in Procs, NEW k \in Keys,
             AskSimulator(p, k) \/ RecordAnswer(p, k) \/ EvidenceFails(p, k)
      PROVE  Heard'
  <2>1. k \in DOMAIN tasks[p] /\ Continue(p, k, Ready)
    BY <1>6 DEF AskSimulator, RecordAnswer, EvidenceFails, Task
  <2>2. Ready.stage # "record"
    BY DEF Ready
  <2> QED  BY <1>3, <2>1, <2>2
<1>7. ASSUME NEW p \in Procs, NEW k \in Keys, AskResolver(p, k) PROVE Heard'
  <2>1. PICK body \in Answers(k) :
            Continue(p, k, IF Parsed(body, Rule(k)) \in {None, Rejected} THEN Ready
                           ELSE Answered(Parsed(body, Rule(k))))
    BY <1>7 DEF AskResolver
  <2>2. k \in DOMAIN tasks[p]
    BY <1>7 DEF AskResolver, Task
  <2>3. Ready.stage # "record"
    BY DEF Ready
  <2>4. CASE Parsed(body, Rule(k)) \in {None, Rejected}
    BY <1>3, <2>1, <2>2, <2>3, <2>4
  <2>5. CASE Parsed(body, Rule(k)) \notin {None, Rejected}
    <3>1. Parsed(body, Rule(k)) = body /\ body # None
      BY <2>5, ParsedOutcome
    <3>2. FromFeed(k) => body = Happened(k)
      <4>1. FromFeed(k) => body \in Adapter(k)
        BY <2>1 DEF Answers, FromFeed
      <4>2. FromFeed(k) => feed \in {"live", "provider"}
        BY WorkerAssumption DEF FromFeed, Typed, RowsTyped
      <4> QED  BY <3>1, <4>1, <4>2 DEF Adapter
    <3>3. Answered(body).answer = body
      BY DEF Answered
    <3> QED  BY <1>3, <2>1, <2>2, <2>5, <3>1, <3>2, <3>3
  <2> QED  BY <2>4, <2>5
<1>8. ASSUME NEW p \in Procs, NEW k \in Keys, SettleBatch(p, k) PROVE Heard'
  <2>1. tasks' = [tasks EXCEPT ![p] = [l \in DOMAIN tasks[p] \ {k} |-> tasks[p][l]]]
    BY <1>0, <1>8 DEF SettleBatch, TasksTyped
  <2> DEFINE f == [l \in DOMAIN tasks[p] \ {k} |-> tasks[p][l]]
  <2>2. DOMAIN f = DOMAIN tasks[p] \ {k} /\ \A l \in DOMAIN f : f[l] = tasks[p][l]
    OBVIOUS
  <2>3. tasks' = [tasks EXCEPT ![p] = f]
    BY <2>1
  <2> HIDE DEF f
  <2>4. \A l \in DOMAIN f : FromFeed(l) /\ f[l].stage = "record" => f[l].answer = Happened(l)
    BY <2>2 DEF Heard
  <2> QED  BY <1>2, <2>3, <2>4
<1> QED  BY <1>1, <1>4, <1>5, <1>6, <1>7, <1>8, TaskMoves

\* What a step does to the evidence.
LEMMA EvidenceMoves ==
    ASSUME Typed, [Next]_vars
    PROVE  \/ UNCHANGED evidence
           \/ \E k \in Keys : CreatorSigns(k)
           \/ \E p \in Procs : \E k \in Keys : AskSimulator(p, k) \/ RecordAnswer(p, k)
<1>1. CASE \E p \in Procs : Tick(p)
  BY <1>1 DEF Tick, CloseDue, Select, Processing, AskResolver, SettleBatch, workerVars
<1>2. CASE \E p \in Procs : Failure(p)
  BY <1>2 DEF Failure, TickFails, Crash, EvidenceFails, workerVars
<1> QED  BY <1>1, <1>2 DEF Next, vars, workerVars

\* Every step records what the provider saw, if anything.
LEMMA NotFabricatedStep == Typed /\ Heard /\ NotFabricated /\ [Next]_vars => NotFabricated'
<1> SUFFICES ASSUME Typed, Heard, NotFabricated, [Next]_vars,
                    NEW k \in Keys, FromFeed(k)
             PROVE  evidence'[k] \in {None, Happened(k)}
  BY FeedFixed DEF NotFabricated, FromFeed, Happened
<1>0. evidence[k] \in {None, Happened(k)} /\ ResultsTyped
  BY DEF NotFabricated, FromFeed, Typed
<1>1. CASE UNCHANGED evidence
  BY <1>0, <1>1
<1>2. ASSUME NEW l \in Keys, CreatorSigns(l) PROVE evidence'[k] \in {None, Happened(k)}
  <2>1. l # k
    BY <1>2, WorkerAssumption DEF CreatorSigns, FromFeed
  <2> QED  BY <1>0, <1>2, <2>1 DEF CreatorSigns, Recorded, ResultsTyped
<1>3. ASSUME NEW p \in Procs, NEW l \in Keys, AskSimulator(p, l)
      PROVE  evidence'[k] \in {None, Happened(k)}
  <2>1. l # k
    BY <1>3, SeriesAssumption DEF AskSimulator, FromFeed
  <2> QED  BY <1>0, <1>3, <2>1 DEF AskSimulator, Recorded, ResultsTyped
<1>4. ASSUME NEW p \in Procs, NEW l \in Keys, RecordAnswer(p, l)
      PROVE  evidence'[k] \in {None, Happened(k)}
  <2>1. FromFeed(l) => tasks[p][l].answer = Happened(l)
    BY <1>4 DEF RecordAnswer, Task, Heard
  <2> QED  BY <1>0, <1>4, <2>1 DEF RecordAnswer, Recorded, ResultsTyped
<1> QED  BY <1>1, <1>2, <1>3, <1>4, EvidenceMoves

(***************************************************************************)
(* With a provider configured nothing the adapter answers is made up: the  *)
(* evidence of its markets is what really happened, or there is none.      *)
(***************************************************************************)
THEOREM NeverFabricates == Spec => []NotFabricated
<1>1. Init => Heard /\ NotFabricated
  <2> SUFFICES ASSUME Init PROVE Heard /\ NotFabricated
    OBVIOUS
  <2>1. \A p \in Procs : tasks[p] = <<>>
    BY DEF Init
  <2>2. DOMAIN <<>> = {}
    OBVIOUS
  <2>3. Heard
    BY <2>1, <2>2 DEF Heard
  <2>4. NotFabricated
    BY DEF Init, NotFabricated
  <2> QED  BY <2>3, <2>4
<1> QED  BY <1>1, Types, HeardStep, NotFabricatedStep, PTL DEF Spec

-----------------------------------------------------------------------------
(***************************************************************************)
(* The publication of one-time series.                                     *)
(***************************************************************************)

\* How far the request of a one-time series has come
Publishing ==
    \A s \in Ids : Once(s) =>
        /\ bracket[<<s, 0>>] # "absent" => series[s].state \in {"active", "ended"}
        /\ publisher[s] = "funding" => series[s].state = "active"
        /\ publisher[s] = "done" => bracket[<<s, 0>>] # "absent"
        /\ failures = 0 /\ publisher[s] = "removing" =>
              bracket[<<s, 0>>] = "absent" /\ series[s].state = "active"
        /\ failures = 0 /\ publisher[s] = "failed" =>
              bracket[<<s, 0>>] = "absent" /\ series[s].state = "deleted"

\* Failures are only counted up.
LEMMA FailuresGrow ==
    ASSUME [Next]_vars
    PROVE  failures' = failures \/ (failures < MaxFailures /\ failures' = failures + 1)
<1>1. CASE \E p \in Procs : Tick(p) \/ Failure(p)
  BY <1>1 DEF Tick, Failure, CloseDue, Spawning, SpawnBegin, CreateBegin, CreateCommit,
     EndSeries, Seeding, SeedBegin, SeedSeries, SeedDirect, Select, Processing, AskSimulator,
     AskResolver, RecordAnswer, SettleBatch, Purge, TickFails, Crash, EvidenceFails, seriesVars,
     Fails
<1>2. CASE \E s \in Ids : Publication(s)
  BY <1>2 DEF Publication, CreateSeries, PublishOnce, RefuseOnce, PublishFails, Compensate,
     PublisherDies, Fails
<1>3. CASE \E k \in Keys : CreatorSigns(k)
  BY <1>3 DEF CreatorSigns, seriesVars
<1>4. CASE Advance
  BY <1>4 DEF Advance
<1> QED  BY <1>1, <1>2, <1>3, <1>4 DEF Next, vars, seriesVars

\* Every step takes a request on, or leaves it where it is.
LEMMA PublishingStep == Typed /\ LifeInv /\ Publishing /\ [Next]_vars => Publishing'
<1> SUFFICES ASSUME Typed, LifeInv, Publishing, [Next]_vars, NEW s \in Ids, Once(s)
             PROVE  /\ bracket'[<<s, 0>>] # "absent" => series'[s].state \in {"active", "ended"}
                    /\ publisher'[s] = "funding" => series'[s].state = "active"
                    /\ publisher'[s] = "done" => bracket'[<<s, 0>>] # "absent"
                    /\ failures' = 0 /\ publisher'[s] = "removing" =>
                          bracket'[<<s, 0>>] = "absent" /\ series'[s].state = "active"
                    /\ failures' = 0 /\ publisher'[s] = "failed" =>
                          bracket'[<<s, 0>>] = "absent" /\ series'[s].state = "deleted"
  BY DEF Publishing, Once
<1> DEFINE k == <<s, 0>>
<1>1. /\ series \in [Ids -> [state : {"absent", "active", "ended", "deleted"}, anchor : Int]]
      /\ bracket \in [Keys -> Phases]
      /\ publisher \in [Ids -> {"idle", "funding", "removing", "done", "failed", "died"}]
      /\ failures \in Nat /\ k \in Keys
  BY OnceKey DEF Typed, RowsTyped
<1>2. /\ bracket[k] # "absent" => series[s].state \in {"active", "ended"}
      /\ publisher[s] = "funding" => series[s].state = "active"
      /\ publisher[s] = "done" => bracket[k] # "absent"
      /\ failures = 0 /\ publisher[s] = "removing" =>
            bracket[k] = "absent" /\ series[s].state = "active"
      /\ failures = 0 /\ publisher[s] = "failed" =>
            bracket[k] = "absent" /\ series[s].state = "deleted"
      /\ publisher[s] \in {"idle", "funding"} => bracket[k] = "absent"
      /\ series[s].state = "absent" => publisher[s] = "idle"
      /\ bracket[k] # "purged"
  BY <1>1 DEF Publishing, LifeInv, Unpublished, LongPast
<1>3. failures' = 0 => failures = 0
  BY <1>1, FailuresGrow
<1>4. CASE ~\E x \in Ids : Publication(x) /\ UNCHANGED workerVars
  <2>1. /\ publisher' = publisher
        /\ \/ series'[s] = series[s]
           \/ /\ series[s].state = "active" /\ bracket[k] # "absent"
              /\ series'[s].state = "ended"
        /\ bracket'[k] = "absent" <=> bracket[k] = "absent"
    BY <1>4, OthersLeave
  <2> QED  BY <1>2, <1>3, <2>1
<1>5. ASSUME NEW x \in Ids, x # s, Publication(x), UNCHANGED workerVars
      PROVE  series'[s] = series[s] /\ publisher'[s] = publisher[s] /\ bracket'[k] = bracket[k]
  BY <1>1, <1>5 DEF Publication, CreateSeries, PublishOnce, RefuseOnce, PublishFails, Compensate,
     PublisherDies, Inserted, Removed, Opened
<1>6. CASE CreateSeries(s)
  <2>1. /\ series'[s].state = "active" /\ publisher'[s] = "funding" /\ bracket' = bracket
    BY <1>1, <1>6 DEF CreateSeries, Inserted
  <2> QED  BY <2>1
<1>7. CASE PublishOnce(s)
  <2>1. /\ series' = series /\ publisher'[s] = "done" /\ bracket'[k] = "open"
        /\ publisher[s] = "funding"
    BY <1>1, <1>7 DEF PublishOnce, Opened
  <2> QED  BY <1>2, <2>1
<1>8. CASE RefuseOnce(s)
  <2>1. /\ series' = series /\ publisher'[s] = "removing" /\ bracket' = bracket
        /\ publisher[s] = "funding"
    BY <1>1, <1>8 DEF RefuseOnce
  <2> QED  BY <1>2, <2>1
<1>9. CASE PublishFails(s)
  <2>1. /\ series' = series /\ publisher'[s] = "removing" /\ publisher[s] = "funding"
        /\ failures' # 0
    BY <1>1, <1>9 DEF PublishFails, Fails
  <2> QED  BY <1>2, <2>1
<1>10. CASE PublisherDies(s)
  <2>1. /\ series' = series /\ publisher'[s] = "died" /\ bracket' = bracket
    BY <1>1, <1>10 DEF PublisherDies
  <2> QED  BY <1>2, <2>1
<1>11. CASE Compensate(s)
  <2>1. /\ publisher'[s] = "failed" /\ publisher[s] = "removing" /\ bracket' = bracket
    BY <1>1, <1>11 DEF Compensate
  <2>2. CASE Removed(s)
    <3>1. CASE Exists(k)
      BY <1>2, <1>3, <2>1, <2>2, <3>1 DEF Removed, Exists, Live, Terminal
    <3>2. CASE ~Exists(k)
      <4>1. bracket[k] = "absent"
        BY <1>1, <1>2, <3>2 DEF Exists, Phases
      <4>2. series'[s].state = "deleted"
        BY <1>1, <2>2, <3>2 DEF Removed
      <4> QED  BY <2>1, <4>1, <4>2
    <3> QED  BY <3>1, <3>2
  <2>3. CASE Fails /\ UNCHANGED series
    <3>1. failures' # 0
      BY <1>1, <2>3 DEF Fails
    <3> QED  BY <1>2, <2>1, <2>3, <3>1
  <2> QED  BY <1>11, <2>2, <2>3 DEF Compensate
<1>12. ASSUME NEW x \in Ids, Publication(x), UNCHANGED workerVars
       PROVE  /\ bracket'[k] # "absent" => series'[s].state \in {"active", "ended"}
              /\ publisher'[s] = "funding" => series'[s].state = "active"
              /\ publisher'[s] = "done" => bracket'[k] # "absent"
              /\ failures' = 0 /\ publisher'[s] = "removing" =>
                    bracket'[k] = "absent" /\ series'[s].state = "active"
              /\ failures' = 0 /\ publisher'[s] = "failed" =>
                    bracket'[k] = "absent" /\ series'[s].state = "deleted"
  <2>1. CASE x # s
    BY <1>2, <1>3, <1>5, <1>12, <2>1
  <2>2. CASE x = s
    BY <1>6, <1>7, <1>8, <1>9, <1>10, <1>11, <1>12, <2>2 DEF Publication
  <2> QED  BY <2>1, <2>2
<1> QED  BY <1>4, <1>12

(***************************************************************************)
(* Nothing half-published remains: without failures a finished request of  *)
(* a one-time series left the series with its market, or neither.          *)
(***************************************************************************)
THEOREM PublishesWhole == Spec => []NothingHalfPublished
<1>1. Init => Publishing
  BY OnceKey DEF Init, SeriesInit, Publishing
<1>2. Typed /\ LifeInv /\ Publishing => NothingHalfPublished
  <2> SUFFICES ASSUME Typed, LifeInv, Publishing, NEW s \in Ids, Once(s)
               PROVE  /\ Exists(<<s, 0>>) => series[s].state \in {"active", "ended"}
                      /\ failures = 0 /\ publisher[s] \in {"done", "failed"} =>
                            (Exists(<<s, 0>>) <=> series[s].state \in {"active", "ended"})
    BY DEF NothingHalfPublished
  <2>1. bracket[<<s, 0>>] \in Phases /\ bracket[<<s, 0>>] # "purged"
    BY OnceKey DEF Typed, RowsTyped, LifeInv, LongPast
  <2>2. Exists(<<s, 0>>) <=> bracket[<<s, 0>>] # "absent"
    BY <2>1 DEF Exists, Phases, Live, Terminal
  <2> QED  BY <2>2 DEF Publishing
<1> QED  BY <1>1, <1>2, LifeInvariant, PublishingStep, PTL DEF Spec

-----------------------------------------------------------------------------
(***************************************************************************)
(* The grid of a series and its horizon.                                   *)
(***************************************************************************)

\* A slot of a rolling series is a point of its grid, within max_concurrency intervals
OnGrid(s, t) == \E n \in Int : t = series[s].anchor + n * Schedules[s].interval_ms

Near(s, t) == t <= now + Schedules[s].max_concurrency * Schedules[s].interval_ms

\* It was published, and lies after the series was created
Within(s, t) == series[s].anchor < t /\ Spawnable(Schedules[s], t)

Placed(k) ==
    k[1] \in Ids /\ ~Once(k[1]) =>
        /\ series[k[1]].state # "absent"
        /\ OnGrid(k[1], k[2]) /\ Near(k[1], k[2]) /\ Within(k[1], k[2])

PlacedJobs == \A p \in Procs : Placed(job[p].key) /\ \A k \in job[p].todo : Placed(k)

PlacedMarkets == \A k \in Keys : bracket[k] # "absent" => Placed(k)

\* What a step does to the series.
LEMMA SeriesMoves ==
    ASSUME [Next]_vars
    PROVE  \/ UNCHANGED series
           \/ \E p \in Procs : EndSeries(p) \/ SeedSeries(p)
           \/ \E s \in Ids : CreateSeries(s) \/ Compensate(s)
<1>1. CASE \E p \in Procs : Tick(p) \/ Failure(p)
  BY <1>1 DEF Tick, Failure, CloseDue, Spawning, SpawnBegin, CreateBegin, CreateCommit,
     Seeding, SeedBegin, SeedDirect, Select, Processing, AskSimulator,
     AskResolver, RecordAnswer, SettleBatch, Purge, TickFails, Crash, EvidenceFails, seriesVars
<1>2. CASE \E s \in Ids : Publication(s)
  BY <1>2 DEF Publication, PublishOnce, RefuseOnce, PublishFails, PublisherDies
<1>3. CASE \E k \in Keys : CreatorSigns(k)
  BY <1>3 DEF CreatorSigns, seriesVars
<1>4. CASE Advance
  BY <1>4 DEF Advance
<1> QED  BY <1>1, <1>2, <1>3, <1>4 DEF Next, vars, seriesVars

\* A series keeps its anchor, and its row is never forgotten.
LEMMA AnchorFixed ==
    ASSUME Typed, [Next]_vars, NEW s \in Ids, series[s].state # "absent"
    PROVE  series'[s].anchor = series[s].anchor /\ series'[s].state # "absent"
<1>1. series \in [Ids -> [state : {"absent", "active", "ended", "deleted"}, anchor : Int]]
  BY DEF Typed, RowsTyped
<1>2. ASSUME NEW p \in Procs, EndSeries(p)
      PROVE  series'[s].anchor = series[s].anchor /\ series'[s].state # "absent"
  <2>1. \/ series'[s] = series[s]
        \/ series'[s] = [series[s] EXCEPT !.state = "ended"]
    BY <1>2 DEF EndSeries
  <2> QED  BY <1>1, <2>1
<1>3. ASSUME NEW x \in Ids, series[x].state = "absent", Inserted(x)
      PROVE  series'[s] = series[s]
  BY <1>1, <1>3 DEF Inserted
<1>4. CASE \E p \in Procs : SeedSeries(p)
  <2>1. \/ series' = series
        \/ \E x \in Ids : series[x].state = "absent" /\ Inserted(x)
    BY <1>4, SeriesAssumption DEF SeedSeries
  <2> QED  BY <1>3, <2>1
<1>5. CASE \E x \in Ids : CreateSeries(x)
  BY <1>3, <1>5 DEF CreateSeries
<1>6. ASSUME NEW x \in Ids, Compensate(x)
      PROVE  series'[s].anchor = series[s].anchor /\ series'[s].state # "absent"
  <2>1. series' = series \/ series' = [series EXCEPT ![x].state = "deleted"]
    BY <1>6 DEF Compensate, Removed
  <2> QED  BY <1>1, <2>1
<1> QED  BY <1>2, <1>4, <1>5, <1>6, SeriesMoves

\* The market that demo seeding is about to create
Seeded(clock, k) ==
    LET close == ((clock \div DemoGrid) + 1) * DemoGrid
    IN  k = <<Direct, close>> /\ close <= LastDirect

\* A tick between the beginning and the commit of create_instance
Creating(j) == j.at \in {"create", "create seed"}

\* What a step does to the clock and the slots of a tick.
LEMMA JobMoves ==
    ASSUME Typed, [Next]_vars, NEW p \in Procs
    PROVE  /\ job'[p].clock \in {job[p].clock, Epoch, now}
           /\ job'[p].key \in {job[p].key, <<Direct, Epoch>>} \cup job[p].todo
           /\ \A k \in job'[p].todo :
                 k \in job[p].todo \/ k \in Upcoming(now) \/ Seeded(job[p].clock, k)
           /\ job'[p] = job[p] \/ (Creating(job'[p]) => job'[p].key \in job'[p].todo)
<1> DEFINE Moved(q) == /\ job'[q].clock \in {job[q].clock, Epoch, now}
                       /\ job'[q].key \in {job[q].key, <<Direct, Epoch>>} \cup job[q].todo
                       /\ \A k \in job'[q].todo :
                             k \in job[q].todo \/ k \in Upcoming(now) \/ Seeded(job[q].clock, k)
                       /\ \/ job'[q] = job[q]
                          \/ Creating(job'[q]) => job'[q].key \in job'[q].todo
<1>0. JobsTyped
  BY DEF Typed
<1>1. ASSUME NEW q \in Procs, NEW j, Goto(q, j),
             j.clock \in {job[q].clock, Epoch, now},
             j.key \in {job[q].key, <<Direct, Epoch>>} \cup job[q].todo,
             \A k \in j.todo : k \in job[q].todo \/ k \in Upcoming(now) \/ Seeded(job[q].clock, k),
             Creating(j) => j.key \in j.todo
      PROVE  Moved(p)
  <2>1. job'[p] = IF q = p THEN j ELSE job[p]
    BY <1>0, <1>1 DEF Goto, JobsTyped
  <2> QED  BY <1>1, <2>1
<1>2. CASE job' = job
  BY <1>2
<1>3. ASSUME NEW q \in Procs, NEW place \in {"idle", "closed", "spawned", "settling", "seed"},
             Goto(q, At(place)) PROVE Moved(p)
  BY <1>1, <1>3 DEF At, Doing, Creating
<1>4. ASSUME NEW q \in Procs, NEW k, NEW rest, rest \subseteq job[q].todo,
             k = job[q].key \/ k \in job[q].todo, Then(q, k, rest)
      PROVE  Moved(p)
  <2>1. CASE Goto(q, Idle)
    BY <1>3, <2>1 DEF Idle
  <2>2. CASE Goto(q, Doing("spawn", job[q].clock, rest, k))
    BY <1>1, <1>4, <2>2 DEF Doing, Creating
  <2> QED  BY <1>4, <2>1, <2>2 DEF Then
<1>5. ASSUME NEW q \in Procs, Spawning(q) PROVE Moved(p)
  <2>1. CASE SpawnBegin(q)
    BY <1>1, <2>1 DEF SpawnBegin, Doing, Creating
  <2>2. CASE CreateBegin(q)
    <3>1. PICK k \in NextSlots(q) :
            \/ Then(q, k, Without(job[q].todo, k))
            \/ Then(q, k, GivenUp(job[q].todo, k))
            \/ Goto(q, Doing(IF job[q].at = "spawn" THEN "create" ELSE "create seed",
                             job[q].clock, job[q].todo, k))
      BY <2>2 DEF CreateBegin
    <3>2. k \in job[q].todo
      BY NextToDo
    <3>3. /\ Without(job[q].todo, k) \subseteq job[q].todo
          /\ GivenUp(job[q].todo, k) \subseteq job[q].todo
      BY DEF Without, GivenUp
    <3>4. CASE Goto(q, Doing(IF job[q].at = "spawn" THEN "create" ELSE "create seed",
                             job[q].clock, job[q].todo, k))
      BY <1>1, <3>2, <3>4 DEF Doing, Creating
    <3> QED  BY <1>4, <3>1, <3>2, <3>3, <3>4
  <2>3. CASE CreateCommit(q)
    <3>1. \/ Then(q, job[q].key, Without(job[q].todo, job[q].key))
          \/ Then(q, job[q].key, GivenUp(job[q].todo, job[q].key))
      BY <2>3 DEF CreateCommit
    <3>2. /\ Without(job[q].todo, job[q].key) \subseteq job[q].todo
          /\ GivenUp(job[q].todo, job[q].key) \subseteq job[q].todo
      BY DEF Without, GivenUp
    <3> QED  BY <1>4, <3>1, <3>2
  <2>4. CASE EndSeries(q)
    BY <1>3, <2>4 DEF EndSeries
  <2> QED  BY <1>5, <2>1, <2>2, <2>3, <2>4 DEF Spawning
<1>6. ASSUME NEW q \in Procs, Seeding(q, feed = "live") PROVE Moved(p)
  <2>1. CASE SeedBegin(q) \/ SeedSeries(q)
    BY <1>1, <2>1 DEF SeedBegin, SeedSeries, Doing, Creating
  <2>2. CASE SeedDirect(q, feed = "live")
    <3> DEFINE close == ((job[q].clock \div DemoGrid) + 1) * DemoGrid
    <3>1. \/ Goto(q, Idle)
          \/ /\ ~(close > LastDirect)
             /\ Goto(q, Doing("seeding", Epoch, {<<Direct, close>>}, <<Direct, Epoch>>))
      BY <2>2 DEF SeedDirect
    <3>2. CASE Goto(q, Idle)
      BY <1>3, <3>2 DEF Idle
    <3>3. CASE /\ ~(close > LastDirect)
               /\ Goto(q, Doing("seeding", Epoch, {<<Direct, close>>}, <<Direct, Epoch>>))
      <4>1. close \in Int /\ LastDirect \in Int
        <5>1. job[q] \in Jobs
          BY <1>0 DEF JobsTyped
        <5>2. job[q].clock \in Int
          BY <5>1 DEF Jobs
        <5> QED  BY <5>2, SeriesAssumption
      <4>2. close <= LastDirect
        BY <3>3, <4>1
      <4>3. Seeded(job[q].clock, <<Direct, close>>)
        BY <4>2 DEF Seeded
      <4> HIDE DEF close
      <4> QED  BY <1>1, <3>3, <4>3 DEF Doing, Creating
    <3> QED  BY <3>1, <3>2, <3>3
  <2> QED  BY <1>6, <2>1, <2>2 DEF Seeding
<1>7. ASSUME NEW q \in Procs, Tick(q) PROVE Moved(p)
  <2>1. CASE CloseDue(q) \/ Select(q) \/ Purge(q)
    BY <1>3, <2>1 DEF CloseDue, Select, Purge
  <2>2. CASE Processing(q)
    BY <1>2, <2>2 DEF Processing, AskSimulator, AskResolver, RecordAnswer, SettleBatch, seriesVars
  <2> QED  BY <1>5, <1>6, <1>7, <2>1, <2>2 DEF Tick
<1>8. ASSUME NEW q \in Procs, Failure(q) PROVE Moved(p)
  BY <1>2, <1>3, <1>8 DEF Failure, TickFails, Crash, EvidenceFails, Idle
<1>9. CASE \/ \E s \in Ids : Publication(s)
           \/ \E k \in Keys : CreatorSigns(k)
           \/ Advance \/ UNCHANGED vars
  BY <1>2, <1>9 DEF Publication, CreateSeries, PublishOnce, RefuseOnce, PublishFails, Compensate,
     PublisherDies, CreatorSigns, Advance, vars, seriesVars
<1> QED  BY <1>7, <1>8, <1>9 DEF Next

\* Clocks, failures and anchors within their bounds, and the demo's next market with them
Clocked ==
    /\ now \in Epoch .. MaxTime /\ failures \in 0 .. MaxFailures
    /\ \A s \in Ids : series[s].anchor \in Epoch .. now
    /\ \A p \in Procs : /\ job[p].clock \in Epoch .. now
                        /\ \A k \in job[p].todo : k[1] = Direct => k[2] \in Slots(Direct)
                        /\ Creating(job[p]) => job[p].key \in job[p].todo

\* A series is anchored at the time of its creation.
LEMMA AnchorMoves ==
    ASSUME Typed, [Next]_vars, NEW s \in Ids
    PROVE  series'[s].anchor \in {series[s].anchor, now}
<1>1. CASE series[s].state # "absent"
  BY <1>1, AnchorFixed
<1>2. ASSUME NEW x \in Ids, Inserted(x)
      PROVE  series'[s].anchor \in {series[s].anchor, now}
  <2>1. series'[s] = IF s = x THEN [state |-> "active", anchor |-> now] ELSE series[s]
    BY <1>2 DEF Inserted, Typed, RowsTyped
  <2> QED  BY <2>1
<1>3. ASSUME NEW p \in Procs, EndSeries(p), series[s].state = "absent"
      PROVE  series'[s] = series[s]
  BY <1>3 DEF EndSeries, Ending, Active
<1>4. CASE \E p \in Procs : SeedSeries(p)
  <2>1. series' = series \/ \E x \in Ids : Inserted(x)
    BY <1>4, SeriesAssumption DEF SeedSeries
  <2> QED  BY <1>2, <2>1
<1>5. CASE \E x \in Ids : CreateSeries(x)
  BY <1>2, <1>5 DEF CreateSeries
<1>6. ASSUME NEW x \in Ids, Compensate(x)
      PROVE  series'[s].anchor = series[s].anchor
  <2>1. series' = series \/ series' = [series EXCEPT ![x].state = "deleted"]
    BY <1>6 DEF Compensate, Removed
  <2> QED  BY <2>1 DEF Typed, RowsTyped
<1> QED  BY <1>1, <1>3, <1>4, <1>5, <1>6, SeriesMoves

\* The next point of the demo's grid is one of its slots.
LEMMA SeededSlot ==
    ASSUME NEW clock \in Int, Epoch <= clock, NEW k, Seeded(clock, k)
    PROVE  k[2] \in Slots(Direct)
<1> DEFINE q == clock \div DemoGrid
           n == q + 1
           close == n * DemoGrid
<1>1. /\ DemoGrid \in Int /\ DemoGrid > 0 /\ Epoch \in Int /\ LastDirect \in Int
  BY SeriesAssumption
<1>2. q \in Int /\ clock < q * DemoGrid + DemoGrid
  BY <1>1, Floor
<1>3. k[2] = close /\ close <= LastDirect
  BY DEF Seeded
<1> HIDE DEF q
<1>4. close = q * DemoGrid + DemoGrid /\ q * DemoGrid \in Int
  BY <1>1, <1>2
<1>5. close \in Int /\ Epoch <= close
  BY <1>1, <1>2, <1>4
<1>6. close % DemoGrid = 0
  <2> DEFINE zero == 0
  <2>1. close = n * DemoGrid + zero /\ zero \in Int /\ 0 <= zero /\ zero < DemoGrid
    BY <1>1, <1>2
  <2>2. n \in Int
    BY <1>2
  <2> HIDE DEF zero, n
  <2>3. close % DemoGrid = zero
    BY <1>1, <1>5, <2>1, <2>2, Division DEF n
  <2> QED  BY <2>3 DEF zero
<1> HIDE DEF close
<1> QED  BY <1>1, <1>3, <1>5, <1>6 DEF Slots

\* Every step keeps the bounds.
LEMMA ClockedStep == Typed /\ Clocked /\ [Next]_vars => Clocked'
<1> SUFFICES ASSUME Typed, Clocked, [Next]_vars PROVE Clocked'
  OBVIOUS
<1>1. now' \in Epoch .. MaxTime /\ now <= now' /\ now \in Int
  BY TimePasses, SeriesAssumption DEF Clocked
<1>2. failures' \in 0 .. MaxFailures
  BY FailuresGrow, SeriesAssumption DEF Clocked
<1>3. ASSUME NEW s \in Ids PROVE series'[s].anchor \in Epoch .. now'
  BY <1>1, AnchorMoves, SeriesAssumption DEF Clocked
<1>4. ASSUME NEW p \in Procs PROVE job'[p].clock \in Epoch .. now'
  BY <1>1, JobMoves, SeriesAssumption DEF Clocked
<1>5. ASSUME NEW p \in Procs, NEW k \in job'[p].todo, k[1] = Direct
      PROVE  k[2] \in Slots(Direct)
  <2>1. k \notin Upcoming(now)
    BY <1>5, SeriesAssumption DEF Upcoming
  <2>2. CASE k \in job[p].todo
    BY <1>5, <2>2 DEF Clocked
  <2>3. CASE Seeded(job[p].clock, k)
    <3>1. job[p].clock \in Int /\ Epoch <= job[p].clock
      BY SeriesAssumption DEF Clocked
    <3> QED  BY <2>3, <3>1, SeededSlot
  <2> QED  BY <1>5, <2>1, <2>2, <2>3, JobMoves
<1>6. Slots(Direct)' = Slots(Direct)
  BY DEF Slots
<1>7. ASSUME NEW p \in Procs PROVE Creating(job'[p]) => job'[p].key \in job'[p].todo
  BY JobMoves DEF Clocked
<1> QED  BY <1>1, <1>2, <1>3, <1>4, <1>5, <1>6, <1>7 DEF Clocked, Creating

\* Clocks, failures and anchors stay within their bounds.
LEMMA ClockedInvariant == Spec => []Clocked
<1>1. Init => Clocked
  <2> SUFFICES ASSUME Init PROVE Clocked
    OBVIOUS
  <2>1. \A p \in Procs : job[p].clock = Epoch /\ job[p].todo = {} /\ ~Creating(job[p])
    BY DEF Init, SeriesInit, Idle, At, Doing, Creating
  <2>2. now = Epoch /\ failures = 0 /\ \A s \in Ids : series[s].anchor = Epoch
    BY DEF Init, SeriesInit
  <2> QED  BY <2>1, <2>2, SeriesAssumption DEF Clocked
<1> QED  BY <1>1, Types, ClockedStep, PTL DEF Spec

\* A slot stays where it is on the grid, and time brings it nearer.
LEMMA PlacedStays ==
    ASSUME Typed, [Next]_vars, NEW k \in Slotted, Placed(k)
    PROVE  Placed(k)'
<1> SUFFICES ASSUME k[1] \in Ids, ~Once(k[1])
             PROVE  /\ series'[k[1]].state # "absent"
                    /\ OnGrid(k[1], k[2])' /\ Near(k[1], k[2])' /\ Within(k[1], k[2])'
  BY DEF Placed, Once
<1>1. /\ series[k[1]].state # "absent"
      /\ OnGrid(k[1], k[2]) /\ Near(k[1], k[2]) /\ Within(k[1], k[2])
  BY DEF Placed
<1>2. series'[k[1]].anchor = series[k[1]].anchor /\ series'[k[1]].state # "absent"
  BY <1>1, AnchorFixed
<1>3. OnGrid(k[1], k[2])'
  BY <1>1, <1>2 DEF OnGrid
<1>5. Within(k[1], k[2])'
  BY <1>1, <1>2 DEF Within
<1>4. Near(k[1], k[2])'
  <2> DEFINE ahead == Schedules[k[1]].max_concurrency * Schedules[k[1]].interval_ms
  <2>1. Schedules[k[1]].max_concurrency \in Int /\ Schedules[k[1]].interval_ms \in Int
    BY SeriesAssumption
  <2>2. ahead \in Int /\ k[2] \in Int /\ now \in Int
    BY <2>1 DEF Slotted, Typed, RowsTyped
  <2>3. k[2] <= now + ahead
    BY <1>1 DEF Near
  <2> HIDE DEF ahead
  <2>4. k[2] <= now' + ahead
    BY <2>2, <2>3, TimePasses
  <2> QED  BY <2>4 DEF Near, ahead
<1> QED  BY <1>2, <1>3, <1>4, <1>5

\* The slots spawn_due_brackets computes are placed.
LEMMA UpcomingPlaced ==
    ASSUME Typed, Clocked, NEW k \in Upcoming(now)
    PROVE  Placed(k)
<1>1. PICK s \in Ids : /\ Active(s) /\ ~Once(s)
                       /\ k \in {s} \X SlotsAhead(Schedules[s], series[s].anchor, now)
  BY DEF Upcoming
<1>2. /\ Schedules[s].interval_ms > 0 /\ series[s].anchor \in Int /\ now \in Int
      /\ series[s].state # "absent"
  BY <1>1 DEF Typed, RowsTyped, Validated, Active
<1>3. k[1] = s /\ k[2] \in SlotsAhead(Schedules[s], series[s].anchor, now)
  BY <1>1
<1>4. /\ \E n \in Int : k[2] = series[s].anchor + n * Schedules[s].interval_ms
      /\ k[2] <= now + Schedules[s].max_concurrency * Schedules[s].interval_ms
      /\ k[2] \in Int /\ now < k[2]
  BY <1>1, <1>2, <1>3, SlotsOnGrid
<1>5. series[s].anchor <= now
  BY DEF Clocked
<1>6. Within(s, k[2])
  BY <1>2, <1>3, <1>4, <1>5 DEF Within, SlotsAhead
<1> QED  BY <1>2, <1>3, <1>4, <1>6 DEF Placed, OnGrid, Near

\* Every step keeps the slots of ticks, and markets, placed.
LEMMA PlacedStep ==
    Typed /\ LifeInv /\ Clocked /\ PlacedJobs /\ PlacedMarkets /\ [Next]_vars
        => PlacedJobs' /\ PlacedMarkets'
<1> SUFFICES ASSUME Typed, LifeInv, Clocked, PlacedJobs, PlacedMarkets, [Next]_vars
             PROVE  PlacedJobs' /\ PlacedMarkets'
  OBVIOUS
<1>0. /\ \A p \in Procs : job[p].key \in Slotted /\ job[p].todo \subseteq Slotted
      /\ Upcoming(now) \subseteq Slotted
  BY UpcomingSlotted DEF Typed, RowsTyped, JobsTyped, Jobs
<1>1. ASSUME NEW k, k[1] = Direct PROVE Placed(k)'
  BY <1>1, SeriesAssumption DEF Placed
<1>2. ASSUME NEW p \in Procs PROVE Placed(job[p].key)' /\ \A k \in job'[p].todo : Placed(k)'
  <2>1. /\ Placed(job[p].key)
        /\ \A k \in job[p].todo : Placed(k)
    BY DEF PlacedJobs
  <2>2. ASSUME NEW k, k \in {job[p].key, <<Direct, Epoch>>} \cup job[p].todo \cup Upcoming(now)
                              \/ k[1] = Direct
        PROVE  Placed(k)'
    BY <1>0, <1>1, <2>1, <2>2, PlacedStays, UpcomingPlaced
  <2>3. \A k \in job'[p].todo : Placed(k)'
    BY <2>2, JobMoves DEF Seeded
  <2>4. PICK k : k = job'[p].key
    OBVIOUS
  <2>5. Placed(k)'
    BY <2>2, <2>4, JobMoves
  <2>6. Placed(job[p].key)'
    BY <2>4, <2>5 DEF Placed, OnGrid, Near, Within
  <2> QED  BY <2>3, <2>6
<1>3. PlacedJobs'
  BY <1>2 DEF PlacedJobs
<1>4. ASSUME NEW k \in Keys, bracket'[k] # "absent" PROVE Placed(k)'
  <2>1. CASE bracket[k] # "absent"
    BY <2>1, KeysSlotted, PlacedStays DEF PlacedMarkets
  <2>2. CASE bracket[k] = "absent"
    <3>1. OpenedBy(k)
      <4>1. bracket \in [Keys -> Phases]
        BY DEF Typed, RowsTyped
      <4>2. bracket'[k] # bracket[k]
        BY <1>4, <2>2
      <4>3. CASE \E p \in Procs : CloseDue(p)
        BY <2>2, <4>2, <4>3 DEF CloseDue
      <4>4. CASE \E p \in Procs : Purge(p)
        BY <2>2, <4>2, <4>4 DEF Purge, Purgeable, Terminal
      <4>5. ASSUME NEW l \in Keys, Settled(l) PROVE FALSE
        <5>1. Life!Settles(l)
          BY <4>5, SettleLife
        <5> QED  BY <2>2, <4>1, <4>2, <5>1 DEF Life!Settles
      <4>6. ASSUME NEW l \in Keys, Opening(l) PROVE l = k
        BY <4>1, <4>2, <4>6 DEF Opening, Opened
      <4> QED  BY <4>2, <4>3, <4>4, <4>5, <4>6, Moves DEF Opening
    <3>2. CASE \E p \in Procs : k = job[p].key
      BY <3>2, KeysSlotted, PlacedStays DEF PlacedJobs
    <3>3. CASE \E s \in Ids : Once(s) /\ k = <<s, 0>>
      BY <3>3 DEF Placed, Once
    <3> QED  BY <3>1, <3>2, <3>3 DEF OpenedBy
  <2> QED  BY <2>1, <2>2
<1>5. PlacedMarkets'
  BY <1>4 DEF PlacedMarkets
<1> QED  BY <1>3, <1>5

\* Init and every step keep all slots and markets placed.
LEMMA PlacedInvariant == Spec => [](Typed /\ LifeInv /\ Clocked /\ PlacedJobs /\ PlacedMarkets)
<1>1. Init => PlacedJobs /\ PlacedMarkets
  <2> SUFFICES ASSUME Init PROVE PlacedJobs /\ PlacedMarkets
    OBVIOUS
  <2>1. \A p \in Procs : job[p].key = <<Direct, Epoch>> /\ job[p].todo = {}
    BY DEF Init, SeriesInit, Idle, At, Doing
  <2>2. PlacedJobs
    BY <2>1, SeriesAssumption DEF PlacedJobs, Placed
  <2>3. PlacedMarkets
    BY DEF Init, SeriesInit, PlacedMarkets
  <2> QED  BY <2>2, <2>3
<1> QED  BY <1>1, LifeInvariant, ClockedInvariant, PlacedStep, PTL DEF Spec

\* Between the clock and max intervals after it the grid has max points.
LEMMA GridPoints ==
    ASSUME NEW s, NEW I \in Int, I > 0, NEW max \in Nat, NEW anchor \in Int, NEW clock \in Int,
           NEW S,
           \A k \in S : /\ k = <<s, k[2]>>
                        /\ \E n \in Int : k[2] = anchor + n * I
                        /\ clock < k[2] /\ k[2] <= clock + max * I
    PROVE  IsFiniteSet(S) /\ Cardinality(S) <= max
<1> DEFINE q == (clock - anchor) \div I
           J == q + 1 .. q + max
           f == [n \in J |-> <<s, anchor + n * I>>]
           T == {f[n] : n \in J}
<1>1. q \in Int /\ q * I <= clock - anchor /\ clock - anchor < q * I + I
  BY Floor
<1> HIDE DEF q
<1>2. ASSUME NEW k \in S PROVE k \in T
  <2>1. PICK n \in Int : k[2] = anchor + n * I
    OBVIOUS
  <2>2. clock < anchor + n * I /\ anchor + n * I <= clock + max * I
    BY <2>1
  <2>3. n * I \in Int /\ q * I \in Int /\ max * I \in Int
    BY <1>1
  <2>4. q < n
    <3> SUFFICES ASSUME n <= q PROVE FALSE
      BY <1>1
    <3>1. n * I <= q * I
      BY <1>1, Products
    <3> QED  BY <1>1, <2>2, <2>3, <3>1
  <2>5. n <= q + max
    <3> SUFFICES ASSUME q + max + 1 <= n PROVE FALSE
      BY <1>1
    <3>1. (q + max + 1) * I <= n * I
      BY <1>1, Products
    <3>2. (q + max + 1) * I = q * I + max * I + I
      BY <1>1
    <3> QED  BY <1>1, <2>2, <2>3, <3>1, <3>2
  <2>6. n \in J
    BY <1>1, <2>4, <2>5
  <2>7. k = f[n]
    BY <2>1, <2>6
  <2> QED  BY <2>6, <2>7
<1>3. IsFiniteSet(J) /\ Cardinality(J) = max
  <2> DEFINE first == q + 1
             last == q + max
  <2>1. first \in Int /\ last \in Int
    BY <1>1
  <2> HIDE DEF first, last
  <2>2. /\ IsFiniteSet(first .. last)
        /\ Cardinality(first .. last) = IF first > last THEN 0 ELSE last - first + 1
    BY <2>1, FS_Interval
  <2>3. J = first .. last
    BY DEF first, last
  <2>4. (IF first > last THEN 0 ELSE last - first + 1) = max
    BY <1>1 DEF first, last
  <2> HIDE DEF J
  <2> QED  BY <2>2, <2>3, <2>4
<1> HIDE DEF J
<1>4. f \in Surjection(J, T)
  BY DEF Surjection
<1> HIDE DEF f
<1>5. IsFiniteSet(T) /\ Cardinality(T) <= Cardinality(J)
  BY <1>3, <1>4, FS_Surjection
<1> HIDE DEF T
<1>6. S \in SUBSET T
  BY <1>2
<1>7. IsFiniteSet(S) /\ Cardinality(S) <= Cardinality(T)
  BY <1>5, <1>6, FS_Subset
<1>8. Cardinality(S) \in Nat /\ Cardinality(T) \in Nat
  BY <1>5, <1>7, FS_CardinalityType
<1> QED  BY <1>3, <1>5, <1>7, <1>8

\* max_concurrency bounds the upcoming brackets of a series, however many processes
\* fill its horizon, from however old a clock (store.rs, spawn_due_brackets).
THEOREM NeverOverfull == Spec => []HorizonBounded
<1>1. Typed /\ PlacedMarkets => HorizonBounded
  <2> SUFFICES ASSUME Typed, PlacedMarkets, NEW s \in Ids, ~Once(s)
               PROVE  Cardinality({k \in Of(s) : bracket[k] = "open" /\ k[2] > now})
                          <= Schedules[s].max_concurrency
    BY DEF HorizonBounded
  <2> DEFINE S == {k \in Of(s) : bracket[k] = "open" /\ k[2] > now}
             I == Schedules[s].interval_ms
             max == Schedules[s].max_concurrency
  <2>1. I \in Int /\ max \in Nat /\ now \in Int
    BY SeriesAssumption DEF Typed, RowsTyped
  <2>2. CASE S = {}
    BY <2>1, <2>2, FS_EmptySet
  <2>3. CASE S # {}
    <3>1. ASSUME NEW k \in S
          PROVE  /\ series[s].state # "absent"
                 /\ k = <<s, k[2]>> /\ k[2] > now
                 /\ \E n \in Int : k[2] = series[s].anchor + n * I
                 /\ k[2] <= now + max * I
      <4>1. k \in Keys /\ k[1] = s /\ bracket[k] # "absent" /\ k[2] > now
        BY DEF Of
      <4>2. k = <<s, k[2]>>
        BY <4>1, KeysSlotted DEF Slotted
      <4> QED  BY <4>1, <4>2 DEF PlacedMarkets, Placed, OnGrid, Near
    <3>2. series[s].state # "absent"
      BY <2>3, <3>1
    <3>3. I > 0 /\ series[s].anchor \in Int
      BY <3>2 DEF Typed, RowsTyped, Validated
    <3> DEFINE anchor == series[s].anchor
    <3>4. \A k \in S : /\ k = <<s, k[2]>>
                       /\ \E n \in Int : k[2] = anchor + n * I
                       /\ now < k[2] /\ k[2] <= now + max * I
      <4> TAKE k \in S
      <4>1. k[2] > now /\ k[2] \in Int
        <5>1. k \in Slotted
          BY KeysSlotted DEF Of
        <5> QED  BY <3>1, <5>1 DEF Slotted
      <4>2. now < k[2]
        BY <2>1, <4>1
      <4> QED  BY <3>1, <4>2
    <3>5. anchor \in Int
      BY <3>3
    <3> HIDE DEF S, I, max, anchor
    <3>6. Cardinality(S) <= max
      BY <2>1, <3>3, <3>4, <3>5, GridPoints
    <3> QED  BY <3>6 DEF S, max
  <2> QED  BY <2>2, <2>3
<1> QED  BY <1>1, PlacedInvariant, PTL

-----------------------------------------------------------------------------
(***************************************************************************)
(* Arrivals and verdicts.                                                  *)
(***************************************************************************)

\* A market is settled by its evidence, or voided, and was published
Grounded ==
    \A k \in Keys : verdict[k] \notin {None, Void} =>
        verdict[k] = evidence[k] /\ bracket[k] # "absent"

\* Recorded evidence stays.
LEMMA EvidenceStays ==
    ASSUME Typed, [Next]_vars, NEW k \in Keys, evidence[k] # None
    PROVE  evidence'[k] = evidence[k]
<1>1. \/ evidence' = evidence
      \/ \E l \in Keys : evidence[l] = None /\ \E x : evidence' = [evidence EXCEPT ![l] = x]
  BY EvidenceMoves DEF CreatorSigns, AskSimulator, RecordAnswer, Recorded
<1>2. evidence \in [Keys -> Results]
  BY DEF Typed, ResultsTyped
<1> QED  BY <1>1, <1>2

\* No market goes back to having no row, and none settles without one.
LEMMA GroundedStep == Typed /\ LifeInv /\ Grounded /\ [Next]_vars => Grounded'
<1> SUFFICES ASSUME Typed, LifeInv, Grounded, [Next]_vars,
                    NEW k \in Keys, verdict'[k] \notin {None, Void}
             PROVE  verdict'[k] = evidence'[k] /\ bracket'[k] # "absent"
  BY DEF Grounded
<1>0. bracket \in [Keys -> Phases] /\ verdict \in [Keys -> Results \cup {Void}]
  BY DEF Typed, RowsTyped, ResultsTyped
<1>1. ASSUME verdict' = verdict, bracket'[k] = "absent" => bracket[k] = "absent"
      PROVE  verdict'[k] = evidence'[k] /\ bracket'[k] # "absent"
  <2>1. verdict[k] = evidence[k] /\ bracket[k] # "absent" /\ evidence[k] # None
    BY <1>1 DEF Grounded
  <2> QED  BY <1>1, <2>1, EvidenceStays
<1>2. CASE UNCHANGED <<bracket, verdict>>
  BY <1>1, <1>2
<1>3. CASE \E p \in Procs : CloseDue(p)
  BY <1>1, <1>3 DEF CloseDue, workerVars
<1>4. CASE \E p \in Procs : Purge(p) /\ UNCHANGED workerVars
  <2>1. bracket'[k] = bracket[k] \/ bracket'[k] = "purged"
    BY <1>4 DEF Purge
  <2> QED  BY <1>1, <1>4, <2>1 DEF workerVars
<1>5. ASSUME NEW l \in Keys, Settled(l), UNCHANGED <<now, evidence>>
      PROVE  verdict'[k] = evidence'[k] /\ bracket'[k] # "absent"
  <2>1. CASE l = k
    <3>1. bracket'[k] # "absent" /\ bracket[k] # "absent"
      BY <1>0, <1>5, <2>1 DEF Settled, Final, Finalizable
    <3>2. verdict'[k] = evidence[k] \/ verdict'[k] = Void \/ verdict'[k] = verdict[k]
      BY <1>0, <1>5, <2>1 DEF Settled
    <3> QED  BY <1>5, <3>1, <3>2 DEF Grounded
  <2>2. CASE l # k
    <3>1. verdict'[k] = verdict[k] /\ bracket'[k] = bracket[k]
      BY <1>0, <1>5, <2>2 DEF Settled
    <3> QED  BY <1>5, <3>1 DEF Grounded
  <2> QED  BY <2>1, <2>2
<1>6. CASE \E l \in Keys : Opening(l)
  BY <1>0, <1>1, <1>6 DEF Opening, Opened, workerVars
<1> QED  BY <1>2, <1>3, <1>4, <1>5, <1>6, Moves

\* Two slots of one grid are an interval apart.
LEMMA GridApart ==
    ASSUME NEW I \in Int, I > 0, NEW anchor \in Int, NEW m \in Int, NEW n \in Int,
           anchor + m * I < anchor + n * I
    PROVE  anchor + m * I + I <= anchor + n * I
<1>1. m * I \in Int /\ n * I \in Int
  OBVIOUS
<1>2. m + 1 <= n
  <2> SUFFICES ASSUME n <= m PROVE FALSE
    OBVIOUS
  <2>1. n * I <= m * I
    BY Products
  <2> QED  BY <1>1, <2>1
<1>3. (m + 1) * I <= n * I
  BY <1>2, Products
<1>4. (m + 1) * I = m * I + I
  OBVIOUS
<1> QED  BY <1>1, <1>3, <1>4

\* The windows of two published brackets of a series do not overlap.
LEMMA WindowsApart ==
    ASSUME Typed, PlacedMarkets, NEW s \in Ids, NEW k \in Of(s), NEW l \in Of(s),
           bracket[k] # "absent", bracket[l] # "absent", NEW t \in Int,
           Times(k).observation_start_ms <= t, t < Times(k).observation_end_ms,
           Times(l).observation_start_ms <= t, t < Times(l).observation_end_ms
    PROVE  k = l
<1>1. /\ k \in Keys /\ l \in Keys /\ k[1] = s /\ l[1] = s /\ s # Direct
      /\ k = <<s, k[2]>> /\ l = <<s, l[2]>> /\ k[2] \in Int /\ l[2] \in Int
  BY KeysSlotted, SeriesAssumption DEF Of, Slotted
<1>2. CASE Once(s)
  <2>1. k[2] = 0 /\ l[2] = 0
    BY <1>1, <1>2 DEF Keys, Slots
  <2> QED  BY <1>1, <2>1
<1>3. CASE ~Once(s)
  <2> DEFINE I == Schedules[s].interval_ms
             anchor == series[s].anchor
  <2>1. \A j \in {k, l} : series[s].state # "absent" /\ \E n \in Int : j[2] = anchor + n * I
    BY <1>1, <1>3 DEF PlacedMarkets, Placed, OnGrid
  <2>2. anchor \in Int /\ I \in Int /\ I > 0
    BY <1>3, <2>1, SeriesAssumption DEF Typed, RowsTyped, Validated
  <2>3. \A j \in {k, l} : j[2] <= t /\ t < j[2] + I
    BY <1>1, <1>3 DEF Times, bracket_timing, Once
  <2>4. PICK m \in Int : k[2] = anchor + m * I
    BY <2>1
  <2>5. PICK n \in Int : l[2] = anchor + n * I
    BY <2>1
  <2> HIDE DEF I, anchor
  <2>6. ~(k[2] < l[2])
    BY <1>1, <2>2, <2>3, <2>4, <2>5, GridApart
  <2>7. ~(l[2] < k[2])
    BY <1>1, <2>2, <2>3, <2>4, <2>5, GridApart
  <2>8. k[2] = l[2]
    BY <1>1, <2>6, <2>7
  <2> QED  BY <1>1, <2>8
<1> QED  BY <1>2, <1>3

\* What happened is a yes only if a bus arrived in the window.
LEMMA YesArrived ==
    ASSUME NEW k \in Keys, Rule(k).kind = "bus", Happened(k) = 0
    PROVE  \E t \in Arrivals : /\ Times(k).observation_start_ms <= t
                               /\ t < Times(k).observation_end_ms
<1> DEFINE start == Times(k).observation_start_ms
           end == Times(k).observation_end_ms
<1>1. Happened(k) = Binary(Arrives(Arrivals, start, end))
  BY DEF Happened, Evaluate
<1>2. PICK t \in Arrivals : t >= start /\ t < end
  BY <1>1 DEF Binary, Arrives
<1>3. t \in Int /\ start \in Int
  BY WorkerAssumption, KeysSlotted, TimesTyped
<1> QED  BY <1>2, <1>3

\* An arrival of the bus makes at most one bracket of a series resolve to yes, also at
\* the end of one slot and the start of the next (market.rs, evaluate and bracket_timing).
THEOREM CountsOnce == Spec => []ArrivalCountsOnce
<1>1. Init => Grounded
  BY DEF Init, Grounded
<1>2. Typed /\ Grounded /\ PlacedMarkets /\ NotFabricated => ArrivalCountsOnce
  <2> SUFFICES ASSUME Typed, Grounded, PlacedMarkets, NotFabricated, feed # "simulated",
                      NEW s \in Ids, Rule(<<s, 0>>).kind = "bus", Endpoint[s] = "adapter"
               PROVE  Cardinality({k \in Of(s) : verdict[k] = 0}) <= Cardinality(Arrivals)
    BY DEF ArrivalCountsOnce
  <2> DEFINE S == {k \in Of(s) : verdict[k] = 0}
             Saw(k, t) == /\ Times(k).observation_start_ms <= t
                          /\ t < Times(k).observation_end_ms
             f == [k \in S |-> CHOOSE t \in Arrivals : Saw(k, t)]
  <2>1. ASSUME NEW k \in S
        PROVE  /\ k \in Of(s) /\ bracket[k] # "absent"
               /\ \E t \in Arrivals : Saw(k, t)
    <3>1. k \in Keys /\ k[1] = s /\ Rule(k).kind = "bus"
      BY DEF Of, Rule
    <3>2. 0 \notin {None, Void}
      BY WorkerAssumption
    <3>3. evidence[k] = 0 /\ bracket[k] # "absent"
      BY <3>1, <3>2 DEF Grounded
    <3>4. Happened(k) = 0
      BY <3>1, <3>2, <3>3 DEF NotFabricated
    <3> QED  BY <3>1, <3>3, <3>4, YesArrived
  <2>2. \A k \in S : f[k] \in Arrivals /\ Saw(k, f[k])
    <3> TAKE k \in S
    <3> DEFINE P(t) == Saw(k, t)
    <3>1. \E t \in Arrivals : P(t)
      BY <2>1
    <3>2. f[k] = CHOOSE t \in Arrivals : P(t)
      OBVIOUS
    <3> HIDE DEF P
    <3>3. f[k] \in Arrivals /\ P(f[k])
      BY <3>1, <3>2
    <3> QED  BY <3>3 DEF P
  <2>3. f = [k \in S |-> f[k]]
    OBVIOUS
  <2> HIDE DEF f
  <2>4. \A k, l \in S : f[k] = f[l] => k = l
    <3> TAKE k, l \in S
    <3> HAVE f[k] = f[l]
    <3>1. f[k] \in Int
      BY <2>2, WorkerAssumption
    <3>2. k \in Of(s) /\ l \in Of(s) /\ bracket[k] # "absent" /\ bracket[l] # "absent"
      BY <2>1
    <3> QED  BY <2>2, <3>1, <3>2, WindowsApart
  <2>5. f \in Injection(S, Arrivals)
    <3>1. DOMAIN f = S
      BY <2>3
    <3>2. f \in [S -> Arrivals]
      BY <2>2, <2>3
    <3> HIDE DEF S
    <3> QED  BY <2>4, <3>1, <3>2 DEF Injection, IsInjective
  <2> HIDE DEF S
  <2>6. Cardinality(S) <= Cardinality(Arrivals)
    BY <2>5, FS_Injection, WorkerAssumption
  <2> QED  BY <2>6 DEF S
<1> QED  BY <1>1, <1>2, GroundedStep, LifeInvariant, PlacedInvariant, NeverFabricates, PTL
         DEF Spec

-----------------------------------------------------------------------------
(***************************************************************************)
(* Replays of the simulated feed.                                          *)
(***************************************************************************)

Undisturbed == feed = "simulated" /\ failures = 0

\* A task on a market of the simulated feed that closed
Replays(k, task) ==
    /\ bracket[k] \notin {"absent", "open"}
    /\ task.stage = "ask" => Times(k).observation_end_ms <= now
    /\ task.stage = "record" => task.answer # None
    /\ task.stage = "settle" => evidence[k] # None \/ bracket[k] # "closed"

\* Without failures a task settles such a market with its evidence
Replaying ==
    Undisturbed =>
        \A p \in Procs : \A k \in DOMAIN tasks[p] :
            k[1] \in Simulated => Replays(k, tasks[p][k])

\* A market that closed is not opened again, and one that left "closed" does not return.
LEMMA NoReturn ==
    ASSUME Typed, LifeInv, [Next]_vars, NEW k \in Keys, bracket[k] \notin {"absent", "open"}
    PROVE  /\ bracket'[k] \notin {"absent", "open"}
           /\ bracket[k] # "closed" => bracket'[k] # "closed"
<1>0. bracket \in [Keys -> Phases]
  BY DEF Typed, RowsTyped
<1>1. CASE bracket' = bracket
  BY <1>1
<1>2. CASE Life!Closes
  BY <1>2 DEF Life!Closes, Life!Move
<1>3. CASE Life!Forgets
  BY <1>3 DEF Life!Forgets, Life!Move
<1>4. CASE \E l \in Keys : Life!Opens(l)
  BY <1>0, <1>4 DEF Life!Opens
<1>5. CASE \E l \in Keys : Life!Settles(l)
  BY <1>0, <1>5 DEF Life!Settles, Life!Final
<1>6. Life!LifeNext \/ UNCHANGED Life!lifeVars
  BY LifeStep
<1> QED  BY <1>1, <1>2, <1>3, <1>4, <1>5, <1>6 DEF Life!LifeNext, Life!lifeVars

\* A task that waits stays what it is while others work.
LEMMA ReplaysStay ==
    ASSUME Typed, LifeInv, [Next]_vars, NEW k \in Keys, NEW task, Replays(k, task)
    PROVE  Replays(k, task)'
<1>1. bracket'[k] \notin {"absent", "open"} /\ (bracket[k] # "closed" => bracket'[k] # "closed")
  BY NoReturn DEF Replays
<1>2. evidence[k] # None => evidence'[k] # None
  BY EvidenceStays
<1>3. Times(k).observation_end_ms <= now => Times(k).observation_end_ms <= now'
  <2>1. Times(k).observation_end_ms \in Int
    BY KeysSlotted, TimesTyped
  <2>2. now \in Int
    BY DEF Typed, RowsTyped
  <2> QED  BY <2>1, <2>2, TimePasses
<1> QED  BY <1>1, <1>2, <1>3 DEF Replays, Times

\* A simulated market finalizes after its observation, and has a fixed source.
LEMMA SimulatedMarket ==
    ASSUME NEW k \in Keys, k[1] \in Simulated
    PROVE  /\ Times(k).observation_end_ms <= Times(k).finalize_after_ms
           /\ k[1] = Direct \/ (ResolverOwned(k) /\ Endpoint[k[1]] = "adapter"
                                /\ Rule(k).kind = "bus")
<1>1. k \in Slotted /\ k[1] \in Ids \cup {Direct}
  BY KeysSlotted DEF Slotted
<1>2. k[1] # Direct => /\ ~Once(k[1]) /\ ResolverOwned(k) /\ Endpoint[k[1]] = "adapter"
                       /\ Rule(k).kind = "bus"
  BY <1>1, WorkerAssumption, SeriesAssumption DEF ResolverOwned, Rule
<1>3. Times(k).finalize_after_ms = Times(k).observation_end_ms + FinalizeMargin
  BY <1>1, <1>2 DEF Times, bracket_timing, Once
<1>4. FinalizeMargin \in Nat /\ Times(k).observation_end_ms \in Int
  BY <1>1, CalendarAssumption, TimesTyped
<1> QED  BY <1>2, <1>3, <1>4

\* The task of a selected market asks once its observation is over.
LEMMA SelectedReplays ==
    ASSUME Typed, NEW k \in Keys, k[1] \in Simulated, Due(k), Undisturbed
    PROVE  Replays(k, IF Asks(k) THEN Asked ELSE Ready)
<1>1. bracket[k] \in {"closed", "resolving"}
  BY DEF Due
<1>2. bracket[k] = "closed" => Times(k).observation_end_ms <= now
  <2>1. /\ Times(k).observation_end_ms \in Int /\ Times(k).finalize_after_ms \in Int
        /\ now \in Int
    BY KeysSlotted, TimesTyped DEF Typed, RowsTyped
  <2> QED  BY <2>1, SimulatedMarket DEF Due
<1>3. CASE Asks(k)
  BY <1>1, <1>2, <1>3 DEF Asks, Replays, Asked
<1>4. CASE ~Asks(k)
  <2>1. feed # "live"
    BY DEF Undisturbed
  <2>2. bracket[k] # "closed" \/ evidence[k] # None
    BY <1>4, <2>1, SimulatedMarket DEF Asks
  <2> QED  BY <1>1, <1>4, <2>2 DEF Replays, Ready
<1> QED  BY <1>3, <1>4

\* What the simulator observes is a result.
LEMMA ObservedResult ==
    ASSUME NEW k \in Keys
    PROVE  Observed(k) \notin {None, Rejected}
<1>1. k[1] \in Ids \cup {Direct}
  BY DEF Keys
<1>2. Observed(k) \in 0 .. 7
  BY <1>1, ObservedOutcome, OutcomesBounded DEF Rule
<1> QED  BY <1>2, WorkerAssumption

\* Every step of a tick brings a task on with its evidence.
LEMMA ReplayingStep == Typed /\ LifeInv /\ Replaying /\ [Next]_vars => Replaying'
<1> SUFFICES ASSUME Typed, LifeInv, Replaying, [Next]_vars PROVE Replaying'
  OBVIOUS
<1> SUFFICES ASSUME Undisturbed', Undisturbed PROVE Replaying'
  <2>1. failures \in Nat
    BY DEF Typed, RowsTyped
  <2>2. Undisturbed' => Undisturbed
    BY <2>1, FeedFixed, FailuresGrow DEF Undisturbed
  <2> QED  BY <2>2 DEF Replaying
<1>0. /\ \A p \in Procs : \A k \in DOMAIN tasks[p] : k[1] \in Simulated => Replays(k, tasks[p][k])
      /\ \A p \in Procs : DOMAIN tasks[p] \subseteq Keys
      /\ TasksTyped /\ ~Fails
      /\ evidence \in [Keys -> Results]
  BY DEF Replaying, Typed, RowsTyped, TasksTyped, ResultsTyped, Fails, Undisturbed
<1>1. CASE UNCHANGED tasks
  BY <1>0, <1>1, ReplaysStay DEF Replaying
<1>2. ASSUME NEW p \in Procs, NEW f, tasks' = [tasks EXCEPT ![p] = f], DOMAIN f \subseteq Keys,
             \A k \in DOMAIN f : k[1] \in Simulated => Replays(k, f[k])
      PROVE  Replaying'
  <2>1. \A q \in Procs : tasks'[q] = IF q = p THEN f ELSE tasks[q]
    BY <1>0, <1>2 DEF TasksTyped
  <2>2. ASSUME NEW q \in Procs, NEW k \in DOMAIN tasks'[q], k[1] \in Simulated,
               NEW task, task = tasks'[q][k]
        PROVE  Replays(k, task)'
    <3>1. CASE q = p
      <4>1. k \in Keys /\ Replays(k, task)
        BY <1>2, <2>1, <2>2, <3>1
      <4> QED  BY <4>1, ReplaysStay
    <3>2. CASE q # p
      <4>1. k \in Keys /\ Replays(k, task)
        BY <1>0, <2>1, <2>2, <3>2
      <4> QED  BY <4>1, ReplaysStay
    <3> QED  BY <3>1, <3>2
  <2> QED  BY <2>2 DEF Replaying, Replays
<1>3. ASSUME NEW p \in Procs, NEW k \in DOMAIN tasks[p], NEW task, Continue(p, k, task),
             k[1] \in Simulated => Replays(k, task)'
      PROVE  Replaying'
  <2>1. \A q \in Procs : /\ DOMAIN tasks'[q] = DOMAIN tasks[q]
                         /\ \A l \in DOMAIN tasks[q] :
                               tasks'[q][l] = IF q = p /\ l = k THEN task ELSE tasks[q][l]
    BY <1>0, <1>3, TasksOf
  <2>2. ASSUME NEW q \in Procs, NEW l \in DOMAIN tasks'[q], l[1] \in Simulated,
               NEW other, other = tasks'[q][l]
        PROVE  Replays(l, other)'
    <3>1. CASE q = p /\ l = k
      <4>1. other = task
        BY <2>1, <2>2, <3>1
      <4> QED  BY <1>3, <2>2, <3>1, <4>1
    <3>2. CASE ~(q = p /\ l = k)
      <4>1. l \in Keys /\ Replays(l, other)
        BY <1>0, <2>1, <2>2, <3>2
      <4> QED  BY <4>1, ReplaysStay
    <3> QED  BY <3>1, <3>2
  <2> QED  BY <2>2 DEF Replaying, Replays
<1>4. ASSUME NEW p \in Procs, Select(p) PROVE Replaying'
  <2>1. PICK batch \in SUBSET {k \in Keys : Due(k)} :
            tasks' = [tasks EXCEPT ![p] = [k \in batch |-> IF Asks(k) THEN Asked ELSE Ready]]
    BY <1>4 DEF Select
  <2> DEFINE f == [k \in batch |-> IF Asks(k) THEN Asked ELSE Ready]
  <2>2. DOMAIN f = batch /\ \A k \in batch : f[k] = IF Asks(k) THEN Asked ELSE Ready
    OBVIOUS
  <2>3. tasks' = [tasks EXCEPT ![p] = f]
    BY <2>1
  <2> HIDE DEF f
  <2>4. \A k \in DOMAIN f : k[1] \in Simulated => Replays(k, f[k])
    BY <2>2, SelectedReplays
  <2> QED  BY <1>2, <2>2, <2>3, <2>4
<1>5. ASSUME NEW p \in Procs, NEW k \in Keys, AskSimulator(p, k) PROVE Replaying'
  <2>1. k \in DOMAIN tasks[p] /\ tasks[p][k].stage = "ask" /\ Continue(p, k, Ready)
    BY <1>5 DEF AskSimulator, Task
  <2>2. k[1] \in Simulated => Replays(k, Ready)'
    <3> SUFFICES ASSUME k[1] \in Simulated PROVE Replays(k, Ready)'
      OBVIOUS
    <3>1. bracket[k] \notin {"absent", "open"} /\ Times(k).observation_end_ms <= now
      BY <1>0, <2>1 DEF Replays
    <3>2. bracket' = bracket
      BY <1>5 DEF AskSimulator, seriesVars
    <3>3. Times(k).observation_end_ms \in Int /\ now \in Int
      BY KeysSlotted, TimesTyped DEF Typed, RowsTyped
    <3>4. bracket[k] = "closed" => evidence'[k] # None
      BY <1>0, <1>5, <3>1, <3>3, ObservedResult DEF AskSimulator, Recorded
    <3> QED  BY <3>1, <3>2, <3>4 DEF Replays, Ready
  <2> QED  BY <1>3, <2>1, <2>2
<1>6. ASSUME NEW p \in Procs, NEW k \in Keys, AskResolver(p, k) PROVE Replaying'
  <2>1. k \in DOMAIN tasks[p] /\ tasks[p][k].stage = "ask" /\ k[1] # Direct
    BY <1>6 DEF AskResolver, Task
  <2>2. PICK body \in Answers(k) :
            Continue(p, k, IF Parsed(body, Rule(k)) \in {None, Rejected} THEN Ready
                           ELSE Answered(Parsed(body, Rule(k))))
    BY <1>6 DEF AskResolver
  <2> DEFINE task == IF Parsed(body, Rule(k)) \in {None, Rejected} THEN Ready
                     ELSE Answered(Parsed(body, Rule(k)))
  <2>3. k[1] \in Simulated => Replays(k, task)'
    <3> SUFFICES ASSUME k[1] \in Simulated PROVE Replays(k, task)'
      OBVIOUS
    <3>1. bracket[k] \notin {"absent", "open"} /\ Times(k).observation_end_ms <= now
      BY <1>0, <2>1 DEF Replays
    <3>2. Times(k).observation_end_ms \in Int /\ now \in Int
      BY KeysSlotted, TimesTyped DEF Typed, RowsTyped
    <3>3. body = Observed(k)
      BY <2>1, <3>1, <3>2, SimulatedMarket DEF Answers, Adapter, Undisturbed
    <3>4. Parsed(body, Rule(k)) = body
      BY <3>3, ObservedOutcome DEF Parsed
    <3>5. task = Answered(Observed(k))
      BY <3>3, <3>4, ObservedResult
    <3>6. bracket' = bracket
      BY <1>6 DEF AskResolver, seriesVars
    <3> HIDE DEF task
    <3> QED  BY <3>1, <3>5, <3>6, ObservedResult DEF Replays, Answered
  <2> HIDE DEF task
  <2> QED  BY <1>3, <2>1, <2>2, <2>3 DEF task
<1>7. ASSUME NEW p \in Procs, NEW k \in Keys, RecordAnswer(p, k) PROVE Replaying'
  <2>1. k \in DOMAIN tasks[p] /\ tasks[p][k].stage = "record" /\ Continue(p, k, Ready)
    BY <1>7 DEF RecordAnswer, Task
  <2>2. k[1] \in Simulated => Replays(k, Ready)'
    <3> SUFFICES ASSUME k[1] \in Simulated PROVE Replays(k, Ready)'
      OBVIOUS
    <3>1. bracket[k] \notin {"absent", "open"} /\ tasks[p][k].answer # None
      BY <1>0, <2>1 DEF Replays
    <3>2. bracket' = bracket
      BY <1>7 DEF RecordAnswer, seriesVars
    <3>3. bracket[k] = "closed" => evidence'[k] # None
      BY <1>0, <1>7, <3>1 DEF RecordAnswer, Recorded, InTime
    <3> QED  BY <3>1, <3>2, <3>3 DEF Replays, Ready
  <2> QED  BY <1>3, <2>1, <2>2
<1>8. ASSUME NEW p \in Procs, NEW k \in Keys, SettleBatch(p, k) PROVE Replaying'
  <2>1. tasks' = [tasks EXCEPT ![p] = [l \in DOMAIN tasks[p] \ {k} |-> tasks[p][l]]]
    BY <1>0, <1>8 DEF SettleBatch, TasksTyped
  <2> DEFINE f == [l \in DOMAIN tasks[p] \ {k} |-> tasks[p][l]]
  <2>2. DOMAIN f = DOMAIN tasks[p] \ {k} /\ \A l \in DOMAIN f : f[l] = tasks[p][l]
    OBVIOUS
  <2>3. tasks' = [tasks EXCEPT ![p] = f]
    BY <2>1
  <2> HIDE DEF f
  <2>4. \A l \in DOMAIN f : l[1] \in Simulated => Replays(l, f[l])
    BY <1>0, <2>2
  <2>5. DOMAIN f \subseteq Keys
    BY <1>0, <2>2
  <2> QED  BY <1>2, <2>3, <2>4, <2>5
<1>9. ASSUME NEW p \in Procs, Crash(p) \/ \E k \in Keys : EvidenceFails(p, k) PROVE FALSE
  BY <1>0, <1>9 DEF Crash, EvidenceFails
<1> QED  BY <1>1, <1>4, <1>5, <1>6, <1>7, <1>8, <1>9, TaskMoves

\* A result is fixed by the last step of a task.
LEMMA VerdictMoves ==
    ASSUME [Next]_vars
    PROVE  verdict' = verdict \/ \E p \in Procs : \E k \in Keys : SettleBatch(p, k)
<1>1. CASE \E p \in Procs : Tick(p)
  BY <1>1 DEF Tick, CloseDue, Select, Processing, AskSimulator, AskResolver, RecordAnswer,
     workerVars
<1>2. CASE \E p \in Procs : Failure(p)
  BY <1>2 DEF Failure, TickFails, Crash, EvidenceFails, workerVars
<1>3. CASE \E k \in Keys : CreatorSigns(k)
  BY <1>3 DEF CreatorSigns
<1> QED  BY <1>1, <1>2, <1>3 DEF Next, vars, workerVars

\* A settlement that follows a replay has the evidence.
LEMMA NoVoidStep ==
    Typed /\ LifeInv /\ Replaying /\ ReplaysNeverVoid /\ [Next]_vars => ReplaysNeverVoid'
<1> SUFFICES ASSUME Typed, LifeInv, Replaying, ReplaysNeverVoid, [Next]_vars
             PROVE  ReplaysNeverVoid'
  OBVIOUS
<1> SUFFICES ASSUME Undisturbed, NEW l \in Keys, l[1] \in Simulated
             PROVE  verdict'[l] # Void
  <2>1. failures \in Nat
    BY DEF Typed, RowsTyped
  <2>2. Undisturbed' => Undisturbed
    BY <2>1, FeedFixed, FailuresGrow DEF Undisturbed
  <2> QED  BY <2>2 DEF ReplaysNeverVoid, Undisturbed
<1>1. /\ verdict[l] # Void
      /\ verdict \in [Keys -> Results \cup {Void}] /\ evidence[l] \in Results
      /\ Void \notin Results
  BY WorkerAssumption DEF ReplaysNeverVoid, Undisturbed, Typed, ResultsTyped, Results
<1>2. CASE verdict' = verdict
  BY <1>1, <1>2
<1>3. ASSUME NEW p \in Procs, NEW k \in Keys, SettleBatch(p, k) PROVE verdict'[l] # Void
  <2>1. k \in DOMAIN tasks[p] /\ tasks[p][k].stage = "settle"
    BY <1>3 DEF SettleBatch, Task
  <2>2. CASE Unsettled(k) \/ k # l
    BY <1>1, <1>3, <2>2 DEF SettleBatch, Unsettled, Settled
  <2>3. CASE Settled(k) /\ k = l
    <3>1. evidence[l] # None \/ bracket[l] # "closed"
      BY <2>1, <2>3 DEF Replaying, Replays
    <3>2. Finalizable(l) => bracket[l] = "closed"
      BY DEF Finalizable
    <3>3. verdict'[l] = IF Finalizable(l)
                        THEN IF evidence[l] # None THEN evidence[l] ELSE Void
                        ELSE verdict[l]
      BY <1>1, <2>3 DEF Settled
    <3> QED  BY <1>1, <3>1, <3>2, <3>3
  <2> QED  BY <1>3, <2>2, <2>3 DEF SettleBatch
<1> QED  BY <1>2, <1>3, VerdictMoves

\* Without failures no market of the simulated feed is voided, however far the clock jumps
\* over its asking window (worker.rs, process_instance; resolution.rs).
THEOREM ReplaysCount == Spec => []ReplaysNeverVoid
<1>1. Init => Replaying /\ ReplaysNeverVoid
  <2> SUFFICES ASSUME Init PROVE Replaying /\ ReplaysNeverVoid
    OBVIOUS
  <2>1. \A p \in Procs : tasks[p] = <<>>
    BY DEF Init
  <2>2. DOMAIN <<>> = {}
    OBVIOUS
  <2>3. Replaying
    BY <2>1, <2>2 DEF Replaying
  <2>4. ReplaysNeverVoid
    BY WorkerAssumption DEF Init, ReplaysNeverVoid
  <2> QED  BY <2>3, <2>4
<1> QED  BY <1>1, LifeInvariant, ReplayingStep, NoVoidStep, PTL DEF Spec

-----------------------------------------------------------------------------
(***************************************************************************)
(* The hours of a series: the arithmetic of market.rs on a wall clock.     *)
(***************************************************************************)

\* The calendar's reading of a time
Reading(t) ==
    [unit |-> t % MinuteMs, minute |-> (t \div MinuteMs + OffsetMinutes) % DayMinutes,
     day |-> sgt_iso_day(t)]

\* What the calendar reads from a time whose days, minutes and units in Singapore are known.
LEMMA Reads ==
    ASSUME NEW t \in Int, NEW q \in Int, NEW m \in 0 .. DayMinutes - 1, NEW r \in 0 .. MinuteMs - 1,
           t + OffsetMinutes * MinuteMs = (q * DayMinutes + m) * MinuteMs + r
    PROVE  Reading(t) = [unit |-> r, minute |-> m, day |-> ((q + 3) % 7) + 1]
<1> DEFINE M == MinuteMs
           D == DayMinutes
           O == OffsetMinutes
           n == q * D + m
<1>1. M \in Int /\ M > 0 /\ D \in Int /\ D > 0 /\ O \in Int /\ m \in Int /\ r \in Int /\ 0 <= m /\ m < D
      /\ 0 <= r /\ r < M
  BY CalendarAssumption
<1>2. t + O * M = n * M + r
  OBVIOUS
<1>3. DayMs = D * M
  BY DEF DayMs
<1>4. sgt_iso_day(t) = (((t + O * M) \div (D * M) + 3) % 7) + 1
  BY <1>3 DEF sgt_iso_day
<1> HIDE DEF M, D, O
<1>5. n \in Int
  BY <1>1
<1>6. n \div D = q /\ n % D = m
  BY <1>1, <1>5, Division
<1> HIDE DEF n
<1>7. t = (n - O) * M + r
  <2>1. (n - O) * M = n * M - O * M /\ n * M \in Int /\ O * M \in Int
    BY <1>1, <1>5
  <2> QED  BY <1>1, <1>2, <2>1
<1>8. t \div M = n - O /\ t % M = r
  BY <1>1, <1>5, <1>7, Division
<1>9. (t \div M + O) % D = m
  <2>1. t \div M + O = n
    BY <1>1, <1>5, <1>8
  <2> QED  BY <1>6, <2>1
<1>10. (t + O * M) \div (D * M) = q
  <2> DEFINE b == D * M
             rest == m * M + r
  <2>1. b \in Int /\ rest \in Int /\ b > 0
    BY <1>1
  <2>2. 0 <= m * M /\ m * M \in Int
    BY <1>1
  <2>3. (m + 1) * M <= D * M
    BY <1>1, Products
  <2>4. (m + 1) * M = m * M + M
    BY <1>1
  <2>5. 0 <= rest /\ rest < b
    BY <1>1, <2>2, <2>3, <2>4
  <2>6. n * M = q * b + m * M
    BY <1>1 DEF n
  <2>7. q * b \in Int /\ n * M \in Int
    BY <1>1, <1>5, <2>1
  <2>8. t + O * M = q * b + rest
    BY <1>1, <1>2, <2>2, <2>6, <2>7
  <2>9. t + O * M \in Int
    BY <1>1
  <2> HIDE DEF b, rest
  <2> QED  BY <2>1, <2>5, <2>8, <2>9, Division DEF b
<1> QED  BY <1>4, <1>8, <1>9, <1>10 DEF M, D, O, Reading

\* Every time has its days, minutes and units in Singapore.
LEMMA Parts ==
    ASSUME NEW t \in Int
    PROVE  \E q \in Int, m \in 0 .. DayMinutes - 1, r \in 0 .. MinuteMs - 1 :
              t + OffsetMinutes * MinuteMs = (q * DayMinutes + m) * MinuteMs + r
<1> DEFINE M == MinuteMs
           D == DayMinutes
           O == OffsetMinutes
           a == t \div M
           r == t - a * M
           q == (a + O) \div D
           m == (a + O) - q * D
<1>1. M \in Int /\ M > 0 /\ D \in Int /\ D > 0 /\ O \in Int
  BY CalendarAssumption
<1> HIDE DEF M, D, O
<1>2. a \in Int /\ a * M <= t /\ t < a * M + M /\ a * M \in Int
  BY <1>1, Floor
<1> HIDE DEF a
<1>3. r \in 0 .. M - 1
  BY <1>1, <1>2
<1>4. a + O \in Int
  BY <1>1, <1>2
<1>5. q \in Int /\ q * D <= a + O /\ a + O < q * D + D /\ q * D \in Int
  BY <1>1, <1>4, Floor
<1> HIDE DEF q
<1>6. m \in 0 .. D - 1
  BY <1>1, <1>4, <1>5
<1>7. q * D + m = a + O
  BY <1>4, <1>5
<1>8. (a + O) * M = a * M + O * M /\ O * M \in Int
  BY <1>1, <1>2
<1>9. t + O * M = (q * D + m) * M + r
  BY <1>1, <1>2, <1>7, <1>8
<1> HIDE DEF r, m
<1> QED  BY <1>3, <1>5, <1>6, <1>9 DEF M, D, O

\* The clock one unit later.
Later(before) ==
    IF before.unit < MinuteMs - 1 THEN [before EXCEPT !.unit = @ + 1]
    ELSE IF before.minute < DayMinutes - 1
    THEN [before EXCEPT !.unit = 0, !.minute = @ + 1]
    ELSE [unit |-> 0, minute |-> 0, day |-> IF before.day = 7 THEN 1 ELSE before.day + 1]

\* The calendar reads the epoch as the wall clock stands at the start.
LEMMA ReadsEpoch == Reading(0) = [unit |-> 0, minute |-> OffsetMinutes, day |-> 4]
<1>1. /\ MinuteMs \in Int /\ MinuteMs > 0 /\ DayMinutes \in Int /\ DayMinutes > 0
      /\ OffsetMinutes \in 0 .. DayMinutes - 1
  BY CalendarAssumption
<1> DEFINE zero == 0
<1>2. /\ zero \in Int /\ zero \in 0 .. MinuteMs - 1
      /\ zero + OffsetMinutes * MinuteMs = (zero * DayMinutes + OffsetMinutes) * MinuteMs + zero
      /\ ((zero + 3) % 7) + 1 = 4
  BY <1>1
<1> HIDE DEF zero
<1>3. Reading(zero) = [unit |-> zero, minute |-> OffsetMinutes, day |-> ((zero + 3) % 7) + 1]
  BY <1>1, <1>2, Reads
<1> QED  BY <1>2, <1>3 DEF zero

\* The calendar's readings follow one another as those of the wall clock.
LEMMA ReadsLater ==
    ASSUME NEW t \in Int
    PROVE  Reading(t) = Later(Reading(t - 1))
<1> DEFINE s == t - 1
           M == MinuteMs
           D == DayMinutes
           O == OffsetMinutes
<1>0. M \in Int /\ M > 0 /\ D \in Int /\ D > 0 /\ O \in Int /\ s \in Int
  BY CalendarAssumption
<1>1. PICK q \in Int, m \in 0 .. D - 1, r \in 0 .. M - 1 : s + O * M = (q * D + m) * M + r
  BY <1>0, Parts
<1>2. Reading(s) = [unit |-> r, minute |-> m, day |-> ((q + 3) % 7) + 1]
  BY <1>0, <1>1, Reads
<1> DEFINE n == q * D + m
<1>3. /\ n \in Int /\ n * M \in Int /\ O * M \in Int /\ m \in Int /\ r \in Int
      /\ 0 <= m /\ m < D /\ 0 <= r /\ r < M
  BY <1>0
<1>4. t + O * M = n * M + r + 1
  BY <1>0, <1>1, <1>3
<1>5. CASE r < M - 1
  <2>1. r + 1 \in 0 .. M - 1 /\ t + O * M = (q * D + m) * M + (r + 1)
    BY <1>0, <1>3, <1>4, <1>5
  <2> DEFINE later == r + 1
  <2> HIDE DEF later
  <2>2. Reading(t) = [unit |-> later, minute |-> m, day |-> ((q + 3) % 7) + 1]
    BY <1>1, <2>1, Reads DEF later
  <2>3. Later(Reading(s)) = [unit |-> r + 1, minute |-> m, day |-> ((q + 3) % 7) + 1]
    BY <1>2, <1>5 DEF Later
  <2> QED  BY <2>2, <2>3 DEF later
<1>6. CASE r = M - 1 /\ m < D - 1
  <2>1. (n + 1) * M = n * M + M
    BY <1>0, <1>3
  <2>2. q * D + (m + 1) = n + 1
    BY <1>0, <1>3
  <2>3. /\ m + 1 \in 0 .. D - 1 /\ 0 \in 0 .. M - 1
        /\ t + O * M = (q * D + (m + 1)) * M + 0
    BY <1>0, <1>3, <1>4, <1>6, <2>1, <2>2
  <2> DEFINE zero == 0
             later == m + 1
  <2> HIDE DEF zero, later
  <2>4. Reading(t) = [unit |-> zero, minute |-> later, day |-> ((q + 3) % 7) + 1]
    BY <1>1, <2>3, Reads DEF zero, later
  <2>5. Later(Reading(s)) = [unit |-> 0, minute |-> m + 1, day |-> ((q + 3) % 7) + 1]
    <3> DEFINE d == ((q + 3) % 7) + 1
               before == [unit |-> r, minute |-> m, day |-> d]
    <3> HIDE DEF d
    <3>1. before.unit = r /\ before.minute = m
      OBVIOUS
    <3>2. [before EXCEPT !.unit = 0, !.minute = @ + 1] = [unit |-> 0, minute |-> m + 1, day |-> d]
      <4> DEFINE after == [before EXCEPT !.unit = 0, !.minute = @ + 1]
                 told == [unit |-> 0, minute |-> m + 1, day |-> d]
      <4>1. after = [x \in DOMAIN after |-> after[x]] /\ told = [x \in DOMAIN told |-> told[x]]
        OBVIOUS
      <4>2. DOMAIN after = DOMAIN told /\ DOMAIN told = {"unit", "minute", "day"}
        OBVIOUS
      <4>3. after.unit = told.unit /\ after.minute = told.minute /\ after.day = told.day
        BY <3>1
      <4> HIDE DEF after, told
      <4>4. \A x \in DOMAIN after : after[x] = told[x]
        BY <4>2, <4>3
      <4>5. after = told
        BY <4>1, <4>2, <4>4
      <4> QED  BY <4>5 DEF after, told
    <3>3. Reading(s) = before
      BY <1>2 DEF d
    <3> HIDE DEF before
    <3>4. Later(before) = [before EXCEPT !.unit = 0, !.minute = @ + 1]
      BY <1>0, <1>6, <3>1 DEF Later
    <3> QED  BY <3>2, <3>3, <3>4 DEF d
  <2> QED  BY <2>4, <2>5 DEF zero, later
<1>7. CASE r = M - 1 /\ m = D - 1
  <2>1. (n + 1) * M = n * M + M
    BY <1>0, <1>3
  <2>2. (q + 1) * D + 0 = n + 1
    BY <1>0, <1>3, <1>7
  <2>3. /\ q + 1 \in Int /\ 0 \in 0 .. D - 1 /\ 0 \in 0 .. M - 1
        /\ t + O * M = ((q + 1) * D + 0) * M + 0
    BY <1>0, <1>1, <1>3, <1>4, <1>7, <2>1, <2>2
  <2>4. Reading(t) = [unit |-> 0, minute |-> 0, day |-> (((q + 1) + 3) % 7) + 1]
    BY <2>3, Reads
  <2>5. (((q + 1) + 3) % 7) + 1 = IF ((q + 3) % 7) + 1 = 7 THEN 1 ELSE ((q + 3) % 7) + 1 + 1
    BY <1>1
  <2> QED  BY <1>2, <1>7, <2>4, <2>5 DEF Later
<1> QED  BY <1>0, <1>3, <1>5, <1>6, <1>7

\* The wall clock is what its recursive definition says.
LEMMA WallSteps ==
    /\ DOMAIN Wall = 0 .. MaxTime
    /\ \A t \in 0 .. MaxTime :
          Wall[t] = IF t = 0 THEN [unit |-> 0, minute |-> OffsetMinutes, day |-> 4]
                    ELSE Later(Wall[t - 1])
<1> DEFINE Steps(f) == f = [t \in 0 .. MaxTime |->
                              IF t = 0 THEN [unit |-> 0, minute |-> OffsetMinutes, day |-> 4]
                              ELSE Later(f[t - 1])]
           clock == [t \in 0 .. MaxTime |-> Reading(t)]
<1>1. Steps(clock)
  <2>1. \A t \in 0 .. MaxTime : t # 0 => t - 1 \in 0 .. MaxTime
    BY SeriesAssumption
  <2>2. \A t \in 0 .. MaxTime :
          Reading(t) = IF t = 0 THEN [unit |-> 0, minute |-> OffsetMinutes, day |-> 4]
                       ELSE Later(clock[t - 1])
    BY <2>1, ReadsEpoch, ReadsLater
  <2> QED  BY <2>2
<1>2. Wall = CHOOSE f : Steps(f)
  BY DEF Wall, Later
<1>3. Steps(Wall)
  BY <1>1, <1>2
<1> QED  BY <1>3

\* The order of the numbers
Less == {pair \in Nat \X Nat : pair[1] < pair[2]}

\* The calendar reads every time as the wall clock stands then.
LEMMA WallReads ==
    ASSUME NEW t \in 0 .. MaxTime
    PROVE  WallClock[t] = Reading(t)
<1> DEFINE Wrong == {n \in 0 .. MaxTime : Wall[n] # Reading(n)}
<1>1. Wrong = {}
  <2> SUFFICES ASSUME Wrong # {} PROVE FALSE
    OBVIOUS
  <2>1. Wrong \subseteq Nat /\ MaxTime \in Nat
    BY SeriesAssumption
  <2>2. IsWellFoundedOn(Less, Nat)
    BY NatLessThanWellFounded DEF OpToRel, Less
  <2>3. PICK n \in Wrong : \A l \in Wrong : ~(<<l, n>> \in Less)
    BY <2>1, <2>2, WFMin
  <2>4. n # 0
    BY <2>1, <2>3, WallSteps, ReadsEpoch
  <2>5. n - 1 \in 0 .. MaxTime /\ <<n - 1, n>> \in Less /\ n \in Int
    BY <2>1, <2>4 DEF Less
  <2>6. Wall[n - 1] = Reading(n - 1)
    BY <2>3, <2>5
  <2>7. Wall[n] = Reading(n)
    BY <2>1, <2>4, <2>5, <2>6, WallSteps, ReadsLater
  <2> QED  BY <2>3, <2>7
<1> QED  BY <1>1 DEF WallClock

\* A bracket within its schedule opens in the published hours, on the wall clock.
LEMMA WithinHours ==
    ASSUME Typed, Clocked, NEW s \in Ids, ~Once(s), series[s].state # "absent",
           NEW t \in Int, OnGrid(s, t), Within(s, t)
    PROVE  LET sch == Schedules[s]
           IN  /\ WallClock[t].minute >= sch.active_start_minute
               /\ WallClock[t].minute < sch.active_end_minute
               /\ WallClock[t].day \in sch.active_days
               /\ t < sch.end_ms
               /\ \E n \in 1 .. MaxTime : t = series[s].anchor + n * sch.interval_ms
<1> DEFINE I == Schedules[s].interval_ms
           anchor == series[s].anchor
           from == Schedules[s].active_start_minute
           until == Schedules[s].active_end_minute
           minute == (t \div MinuteMs + OffsetMinutes) % DayMinutes
<1>1. /\ I \in Int /\ I > 0 /\ anchor \in Int /\ 0 <= anchor /\ anchor < t
      /\ Schedules[s].end_ms \in Int /\ Schedules[s].end_ms <= MaxTime /\ MaxTime \in Int
  BY SeriesAssumption DEF Typed, RowsTyped, Validated, Clocked, Within
<1>2. t < Schedules[s].end_ms
  BY <1>1, CalendarAssumption DEF Within, Spawnable
<1>3. t \in 0 .. MaxTime
  BY <1>1, <1>2
<1>4. WallClock[t].minute = minute /\ WallClock[t].day = sgt_iso_day(t)
  <2>1. WallClock[t] = Reading(t)
    BY <1>3, WallReads
  <2>2. Reading(t).minute = minute /\ Reading(t).day = sgt_iso_day(t)
    BY DEF Reading
  <2> HIDE DEF minute
  <2> QED  BY <2>1, <2>2
<1>5. sgt_iso_day(t) \in Schedules[s].active_days /\ minute \in from .. until - 1
  BY DEF Within, Spawnable, inside_active_window
<1>7. /\ from \in Int /\ until \in Int
      /\ minute >= from /\ minute < until
  <2>1. from \in Int /\ until \in Int
    BY DEF Typed, RowsTyped, Validated
  <2> HIDE DEF from, until, minute
  <2> QED  BY <1>5, <2>1
<1>6. \E n \in 1 .. MaxTime : t = anchor + n * I
  <2>1. PICK n \in Int : t = anchor + n * I
    BY DEF OnGrid
  <2> HIDE DEF I, anchor
  <2>2. 1 <= n
    <3> SUFFICES ASSUME n <= 0 PROVE FALSE
      BY <2>1
    <3>1. n * I <= 0 * I
      BY <1>1, Products
    <3>2. n * I \in Int /\ 0 * I = 0
      BY <1>1
    <3> QED  BY <1>1, <2>1, <3>1, <3>2
  <2>3. n <= MaxTime
    <3>1. n * 1 <= n * I
      BY <1>1, <2>2
    <3>2. n * I \in Int
      BY <1>1
    <3> QED  BY <1>1, <1>3, <2>1, <3>1, <3>2
  <2> QED  BY <1>1, <2>1, <2>2, <2>3
<1> HIDE DEF minute
<1> QED  BY <1>2, <1>4, <1>5, <1>6, <1>7

\* A recurring bracket opens only in the hours, on the days and on the grid of its series,
\* whichever process computed it, from however old a clock (market.rs, is_bracket_spawnable).
THEOREM OpensWhenPublished == Spec => []OpensInHours
<1>1. Typed /\ Clocked /\ PlacedMarkets => OpensInHours
  <2> SUFFICES ASSUME Typed, Clocked, PlacedMarkets,
                      NEW k \in Keys, k[1] \in Ids, ~Once(k[1]), bracket[k] # "absent"
               PROVE  LET sch == Schedules[k[1]]
                      IN  /\ WallClock[k[2]].minute >= sch.active_start_minute
                          /\ WallClock[k[2]].minute < sch.active_end_minute
                          /\ WallClock[k[2]].day \in sch.active_days
                          /\ k[2] < sch.end_ms
                          /\ \E n \in 1 .. MaxTime :
                                k[2] = series[k[1]].anchor + n * sch.interval_ms
    BY DEF OpensInHours
  <2>1. Placed(k) /\ k[2] \in Int
    BY KeysSlotted DEF PlacedMarkets, Slotted
  <2> QED  BY <2>1, WithinHours DEF Placed
<1> QED  BY <1>1, PlacedInvariant, PTL

-----------------------------------------------------------------------------
(***************************************************************************)
(* Types and bounds, with the treasury's budget.                           *)
(***************************************************************************)

\* The markets that hold a reserve
LiveMarkets == {k \in Keys : bracket[k] \in Live}

\* Every live market holds one reserve, and the treasury has the rest
Funded ==
    /\ IsFiniteSet(LiveMarkets)
    /\ budget \in Nat /\ budget + Cardinality(LiveMarkets) = Subsidies

\* The slots a tick has left are markets of the model.
LEMMA TodoKeys ==
    ASSUME Typed, LifeInv, Clocked, PlacedJobs, NEW p \in Procs, NEW k \in job[p].todo
    PROVE  k \in Keys
<1>1. k \in Slotted
  <2>1. job[p] \in Jobs
    BY DEF Typed, JobsTyped
  <2> QED  BY <2>1 DEF Jobs
<1>2. k = <<k[1], k[2]>> /\ k[1] \in Ids \cup {Direct} /\ k[2] \in Int
  BY <1>1 DEF Slotted
<1>3. k[2] \in Slots(k[1])
  <2>1. CASE k[1] = Direct
    BY <2>1 DEF Clocked
  <2>2. CASE k[1] # Direct
    <3>1. k[1] \in Ids /\ ~Once(k[1])
      BY <1>2, <2>2 DEF LifeInv, RollingJobs, Rolling
    <3>2. Placed(k)
      BY DEF PlacedJobs
    <3>3. /\ series[k[1]].anchor < k[2] /\ series[k[1]].anchor \in Int
          /\ Epoch <= series[k[1]].anchor /\ Epoch \in Int
      BY <3>1, <3>2, SeriesAssumption DEF Placed, Within, Typed, RowsTyped, Clocked
    <3>4. Schedules[k[1]].end_ms \in Int /\ k[2] < Schedules[k[1]].end_ms
      BY <3>1, <3>2, SeriesAssumption, CalendarAssumption DEF Placed, Within, Spawnable
    <3> QED  BY <1>2, <2>2, <3>1, <3>3, <3>4 DEF Slots
  <2> QED  BY <2>1, <2>2
<1> QED  BY <1>2, <1>3 DEF Keys

\* What a step does to the budget.
LEMMA BudgetMoves ==
    ASSUME Typed, LifeInv, Clocked, PlacedJobs, [Next]_vars
    PROVE  \/ budget' = budget
           \/ \E k \in Keys : Settled(k)
           \/ \E k \in Keys : ~Exists(k) /\ Fundable(k) /\ Opened(k)
<1>1. CASE \E p \in Procs : Tick(p)
  <2>1. CASE \E p \in Procs : Processing(p)
    BY <2>1 DEF Processing, AskSimulator, AskResolver, RecordAnswer, SettleBatch, Unsettled,
       seriesVars
  <2>2. ASSUME NEW p \in Procs, CreateCommit(p)
        PROVE  \/ budget' = budget
               \/ \E k \in Keys : ~Exists(k) /\ Fundable(k) /\ Opened(k)
    <3>1. job[p].key \in Keys
      <4>1. job[p].key \in job[p].todo
        BY <2>2 DEF CreateCommit, Clocked, Creating
      <4> QED  BY <4>1, TodoKeys
    <3> QED  BY <2>2, <3>1 DEF CreateCommit
  <2> QED  BY <1>1, <2>1, <2>2 DEF Tick, CloseDue, Spawning, SpawnBegin, CreateBegin, EndSeries,
     Seeding, SeedBegin, SeedSeries, SeedDirect, Select, Purge
<1>2. CASE \E p \in Procs : Failure(p)
  BY <1>2 DEF Failure, TickFails, Crash, EvidenceFails
<1>3. ASSUME NEW s \in Ids, Publication(s)
      PROVE  \/ budget' = budget
             \/ \E k \in Keys : ~Exists(k) /\ Fundable(k) /\ Opened(k)
  <2>1. CASE publisher[s] = "funding"
    <3>1. <<s, 0>> \in Keys /\ ~Exists(<<s, 0>>)
      BY <2>1, OnceKey DEF Typed, RowsTyped, Requested, LifeInv, Unpublished, Exists, Live, Terminal
    <3> QED  BY <1>3, <3>1 DEF Publication, CreateSeries, PublishOnce, RefuseOnce, PublishFails,
             Compensate, PublisherDies
  <2>2. CASE publisher[s] # "funding"
    BY <1>3, <2>2 DEF Publication, CreateSeries, PublishOnce, RefuseOnce, PublishFails, Compensate,
       PublisherDies
  <2> QED  BY <2>1, <2>2
<1>4. CASE \E k \in Keys : CreatorSigns(k)
  BY <1>4 DEF CreatorSigns, seriesVars
<1>5. CASE Advance
  BY <1>5 DEF Advance
<1> QED  BY <1>1, <1>2, <1>3, <1>4, <1>5 DEF Next, vars, seriesVars

\* A step keeps the live markets and the budget, opens a market with a reserve, brings one
\* nearer its end, or frees the reserve of one.
LEMMA ReserveMoves ==
    ASSUME Typed, LifeInv, Clocked, PlacedJobs, Funded, [Next]_vars
    PROVE  \/ LiveMarkets' = LiveMarkets /\ budget' = budget
           \/ \E k \in Keys \ LiveMarkets : /\ LiveMarkets' = LiveMarkets \cup {k}
                                            /\ budget > 0 /\ budget' = budget - 1
           \/ \E k \in LiveMarkets : LiveMarkets' = LiveMarkets \ {k} /\ budget' = budget + 1
<1> DEFINE Goal == \/ LiveMarkets' = LiveMarkets /\ budget' = budget
                   \/ \E k \in Keys \ LiveMarkets : /\ LiveMarkets' = LiveMarkets \cup {k}
                                                    /\ budget > 0 /\ budget' = budget - 1
                   \/ \E k \in LiveMarkets : /\ LiveMarkets' = LiveMarkets \ {k}
                                            /\ budget' = budget + 1
<1>0. /\ bracket \in [Keys -> Phases] /\ budget \in Nat
      /\ Keys' = Keys
      /\ LiveMarkets' = {k \in Keys : bracket'[k] \in Live}
  BY DEF Typed, RowsTyped, Funded, LiveMarkets, Keys, Slots, Once
<1>1. ASSUME NEW p \in Procs, CloseDue(p) PROVE Goal
  <2>1. \A k \in Keys : bracket'[k] \in Live <=> bracket[k] \in Live
    BY <1>1 DEF CloseDue, Live
  <2> QED  BY <1>0, <1>1, <2>1 DEF CloseDue, LiveMarkets
<1>2. ASSUME NEW p \in Procs, Purge(p) PROVE Goal
  <2>1. \A k \in Keys : bracket'[k] \in Live <=> bracket[k] \in Live
    BY <1>2 DEF Purge, Purgeable, Live, Terminal
  <2>2. budget' = budget
    BY <1>2 DEF Purge
  <2> QED  BY <1>0, <2>1, <2>2 DEF LiveMarkets
<1>3. ASSUME NEW k \in Keys, Settled(k) PROVE Goal
  <2>1. bracket[k] \in Live /\ (bracket[k] = "closed" \/ bracket[k] = "resolving")
    BY <1>3 DEF Settled, Finalizable, Live
  <2>2. PICK final \in Terminal :
            \/ bracket' = [bracket EXCEPT ![k] = final] /\ budget' = budget + 1
            \/ bracket' = [bracket EXCEPT ![k] = "resolving"] /\ budget' = budget
    BY <1>3 DEF Settled, Final, Terminal
  <2>3. CASE bracket' = [bracket EXCEPT ![k] = final] /\ budget' = budget + 1
    <3>1. \A l \in Keys : bracket'[l] \in Live <=> bracket[l] \in Live /\ l # k
      BY <1>0, <2>3 DEF Live, Terminal
    <3>2. LiveMarkets' = LiveMarkets \ {k}
      BY <1>0, <3>1 DEF LiveMarkets
    <3>3. k \in LiveMarkets
      BY <2>1 DEF LiveMarkets
    <3> QED  BY <2>3, <3>2, <3>3
  <2>4. CASE bracket' = [bracket EXCEPT ![k] = "resolving"] /\ budget' = budget
    <3>1. \A l \in Keys : bracket'[l] \in Live <=> bracket[l] \in Live
      BY <1>0, <2>1, <2>4 DEF Live
    <3> QED  BY <1>0, <2>4, <3>1 DEF LiveMarkets
  <2> QED  BY <2>2, <2>3, <2>4
<1>4. ASSUME NEW k \in Keys, Opening(k) PROVE Goal
  <2>1. /\ bracket[k] = "absent" /\ bracket' = [bracket EXCEPT ![k] = "open"]
        /\ budget' = budget - 1
    BY <1>4 DEF Opening, Opened
  <2>2. budget > 0
    <3>1. \A l \in Keys : Settled(l) => budget' \in {budget, budget + 1}
      BY DEF Settled
    <3> QED  BY <1>0, <2>1, <3>1, BudgetMoves DEF Fundable
  <2>3. \A l \in Keys : bracket'[l] \in Live <=> bracket[l] \in Live \/ l = k
    BY <1>0, <2>1 DEF Live
  <2>4. LiveMarkets' = LiveMarkets \cup {k}
    BY <1>0, <2>3 DEF LiveMarkets
  <2>5. k \notin LiveMarkets
    BY <2>1 DEF LiveMarkets, Live
  <2> QED  BY <2>1, <2>2, <2>4, <2>5
<1>5. CASE bracket' = bracket
  <2>1. CASE budget' = budget
    BY <1>0, <1>5, <2>1 DEF LiveMarkets
  <2>2. CASE \E k \in Keys : Settled(k)
    BY <1>3, <2>2
  <2>3. ASSUME NEW k \in Keys, ~Exists(k), Opened(k) PROVE FALSE
    BY <1>0, <1>5, <2>3 DEF Exists, Opened, Live
  <2> QED  BY <2>1, <2>2, <2>3, BudgetMoves
<1> QED  BY <1>1, <1>2, <1>3, <1>4, <1>5, Moves

\* Every step keeps the reserves accounted for.
LEMMA FundedStep ==
    Typed /\ LifeInv /\ Clocked /\ PlacedJobs /\ Funded /\ [Next]_vars => Funded'
<1> SUFFICES ASSUME Typed, LifeInv, Clocked, PlacedJobs, Funded, [Next]_vars PROVE Funded'
  OBVIOUS
<1> DEFINE L == LiveMarkets
           M == LiveMarkets'
<1>1. /\ IsFiniteSet(L) /\ Cardinality(L) \in Nat
      /\ budget \in Nat /\ budget + Cardinality(L) = Subsidies
  BY FS_CardinalityType DEF Funded
<1>2. SUFFICES IsFiniteSet(M) /\ budget' \in Nat /\ budget' + Cardinality(M) = Subsidies
  BY DEF Funded
<1>3. \/ M = L /\ budget' = budget
      \/ \E k : k \notin L /\ M = L \cup {k} /\ budget > 0 /\ budget' = budget - 1
      \/ \E k \in L : M = L \ {k} /\ budget' = budget + 1
  BY ReserveMoves
<1> HIDE DEF L, M
<1>4. CASE M = L /\ budget' = budget
  BY <1>1, <1>4
<1>5. ASSUME NEW k, k \notin L, M = L \cup {k}, budget > 0, budget' = budget - 1
      PROVE  IsFiniteSet(M) /\ budget' \in Nat /\ budget' + Cardinality(M) = Subsidies
  <2>1. IsFiniteSet(M) /\ Cardinality(M) = Cardinality(L) + 1
    BY <1>1, <1>5, FS_AddElement
  <2> QED  BY <1>1, <1>5, <2>1
<1>6. ASSUME NEW k \in L, M = L \ {k}, budget' = budget + 1
      PROVE  IsFiniteSet(M) /\ budget' \in Nat /\ budget' + Cardinality(M) = Subsidies
  <2>1. IsFiniteSet(M) /\ Cardinality(M) = Cardinality(L) - 1
    BY <1>1, <1>6, FS_RemoveElement
  <2> QED  BY <1>1, <1>6, <2>1
<1> QED  BY <1>3, <1>4, <1>5, <1>6

\* The clock, the series, the markets, the budget and the ticks stay within their types and
\* bounds: no reserve of the treasury is spent twice, or freed twice by settlements of several
\* processes (store.rs, create_instance; resolution.rs, settle_batch).
THEOREM WorkerTypes == Spec => []TypeOK
<1>1. Init => Funded
  <2> SUFFICES ASSUME Init PROVE Funded
    OBVIOUS
  <2>1. LiveMarkets = {}
    BY DEF Init, SeriesInit, LiveMarkets, Live
  <2>2. budget = Subsidies
    BY DEF Init, SeriesInit
  <2> QED  BY <2>1, <2>2, FS_EmptySet, SeriesAssumption DEF Funded
<1>2. Typed /\ LifeInv /\ Clocked /\ PlacedJobs /\ Funded => TypeOK
  <2> SUFFICES ASSUME Typed, LifeInv, Clocked, PlacedJobs, Funded PROVE TypeOK
    OBVIOUS
  <2>1. now \in Epoch .. MaxTime /\ feed \in Feeds /\ failures \in 0 .. MaxFailures
    BY DEF Clocked, Typed, RowsTyped
  <2>2. ASSUME NEW s \in Ids
        PROVE  /\ series[s].state \in {"absent", "active", "ended", "deleted"}
               /\ series[s].anchor \in Epoch .. MaxTime
    BY SeriesAssumption DEF Clocked, Typed, RowsTyped
  <2>3. /\ publisher \in [Ids -> {"idle", "funding", "removing", "done", "failed", "died"}]
        /\ bracket \in [Keys -> {"absent", "purged"} \cup Live \cup Terminal]
    BY DEF Typed, RowsTyped, Phases
  <2>4. budget \in 0 .. Subsidies
    BY FS_CardinalityType, SeriesAssumption DEF Funded
  <2>5. evidence \in [Keys -> Verdicts] /\ verdict \in [Keys -> Verdicts]
    BY DEF Typed, ResultsTyped, Results, Verdicts
  <2>6. \A p \in Procs : DOMAIN tasks[p] \subseteq Keys /\ job[p].todo \subseteq Keys
    BY TodoKeys DEF Typed, TasksTyped
  <2> QED  BY <2>1, <2>2, <2>3, <2>4, <2>5, <2>6 DEF TypeOK
<1> QED  BY <1>1, <1>2, PlacedInvariant, FundedStep, PTL DEF Spec

=============================================================================
