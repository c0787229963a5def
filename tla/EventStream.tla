---------------------------- MODULE EventStream -----------------------------
(***************************************************************************)
(* Delivery of one market's events: the durable outbox, PostgreSQL's       *)
(* notifications, the listener and its broadcast channel                   *)
(* (backend/src/events.rs), and one server-sent event stream per client    *)
(* (api::events), which the client's browser reconnects.                   *)
(*                                                                         *)
(* The rows of one instance are inserted under its row lock, so their ids  *)
(* commit in order; the n-th row is written n.                             *)
(***************************************************************************)
EXTENDS Naturals, Sequences, Functions

CONSTANTS
    Clients,
    Capacity,       \* events a receiver retains, 1024 in the code
    PageLimit,      \* rows of a catch-up query, 100 in the code
    MaxEvents,      \* bound: rows committed
    MaxFailures     \* bound: lost connections, failed queries and restarts

ASSUME BoundAssumption ==
    /\ Capacity \in Nat \ {0} /\ PageLimit \in Nat \ {0}
    /\ MaxEvents \in Nat /\ MaxFailures \in Nat

VARIABLES
    committed,  \* rows of the outbox
    queue,      \* notifications on their way to the listener
    listening,  \* run_listener's connection is up
    channel,    \* the instance's broadcast channel in the EventBus map
    phase,      \* where each stream is in its loop
    cursor,     \* last id each stream yielded
    buffer,     \* events a stream's receiver retains
    lagged,     \* the receiver dropped events
    orphan,     \* the receiver's channel is gone from the map
    wire,       \* events yielded and not yet received
    seen,       \* ids each client has processed
    missed,     \* history: ids whose notification no listener received
    failures    \* failures so far

vars == <<committed, queue, listening, channel, phase, cursor, buffer, lagged,
          orphan, wire, seen, missed, failures>>

F == INSTANCE Feed

Init ==
    /\ F!FeedInit
    /\ queue = <<>> /\ listening = FALSE /\ channel = "none"
    /\ phase = [c \in Clients |-> "closed"]
    /\ cursor = [c \in Clients |-> 0]
    /\ buffer = [c \in Clients |-> <<>>]
    /\ lagged = [c \in Clients |-> FALSE]
    /\ orphan = [c \in Clients |-> FALSE]
    /\ wire = [c \in Clients |-> <<>>]
    /\ missed = {} /\ failures = 0

Fail == failures < MaxFailures /\ failures' = failures + 1

-----------------------------------------------------------------------------

\* A transaction inserts an outbox row; its notification leaves with the commit
Commit ==
    /\ committed < MaxEvents
    /\ committed' = committed + 1
    /\ IF listening THEN queue' = Append(queue, committed + 1) /\ UNCHANGED missed
                    ELSE missed' = missed \cup {committed + 1} /\ UNCHANGED queue
    /\ UNCHANGED <<listening, channel, phase, cursor, buffer, lagged, orphan, wire,
                   seen, failures>>

\* run_listener connects and LISTENs
Listen ==
    /\ ~listening
    /\ listening' = TRUE
    /\ UNCHANGED <<committed, queue, channel, phase, cursor, buffer, lagged, orphan,
                   wire, seen, missed, failures>>

\* The listener's connection is lost, with the notifications it had not received
Disconnect ==
    /\ listening /\ Fail
    /\ listening' = FALSE
    /\ queue' = <<>>
    /\ missed' = missed \cup Range(queue)
    /\ UNCHANGED <<committed, channel, phase, cursor, buffer, lagged, orphan, wire, seen>>

Receivers == {c \in Clients : phase[c] # "closed" /\ ~orphan[c]}

\* The ring keeps the newest Capacity events
Kept(events) ==
    IF Len(events) <= Capacity THEN events
    ELSE SubSeq(events, Len(events) - Capacity + 1, Len(events))

(***************************************************************************)
(* handle and EventBus::publish: the event goes to every receiver of the   *)
(* channel; a channel without receivers is removed in a second step, after *)
(* the read lock is released.                                              *)
(***************************************************************************)
Deliver ==
    /\ listening /\ queue # <<>> /\ channel # "failing"
    /\ queue' = Tail(queue)
    /\ channel' = IF channel = "open" /\ Receivers = {} THEN "failing" ELSE channel
    /\ buffer' = [c \in Clients |->
                     IF c \in Receivers THEN Kept(Append(buffer[c], Head(queue)))
                                        ELSE buffer[c]]
    /\ lagged' = [c \in Clients |->
                     lagged[c] \/ (c \in Receivers /\ Len(buffer[c]) >= Capacity)]
    /\ UNCHANGED <<committed, listening, phase, cursor, orphan, wire, seen, missed,
                   failures>>

\* The second step; whoever subscribed in between holds a receiver without sender
RemoveChannel ==
    /\ channel = "failing"
    /\ channel' = "none"
    /\ orphan' = [c \in Clients |-> phase[c] # "closed"]
    /\ UNCHANGED <<committed, queue, listening, phase, cursor, buffer, lagged, wire,
                   seen, missed, failures>>

-----------------------------------------------------------------------------

\* The stream's generator is dropped, with its receiver
End(c) ==
    /\ phase' = [phase EXCEPT ![c] = "closed"]
    /\ cursor' = [cursor EXCEPT ![c] = 0]
    /\ buffer' = [buffer EXCEPT ![c] = <<>>]
    /\ lagged' = [lagged EXCEPT ![c] = FALSE]
    /\ orphan' = [orphan EXCEPT ![c] = FALSE]

\* The browser (re)connects with Last-Event-ID; the stream subscribes first
Connect(c) ==
    /\ phase[c] = "closed" /\ wire[c] = <<>>
    /\ phase' = [phase EXCEPT ![c] = "catchup"]
    /\ cursor' = [cursor EXCEPT ![c] = F!LastId(seen[c])]
    /\ channel' = IF channel = "none" THEN "open" ELSE channel
    /\ UNCHANGED <<committed, queue, listening, buffer, lagged, orphan, wire, seen, missed,
                   failures>>

\* The rows of a catch-up query: id > cursor ORDER BY id LIMIT PageLimit
Rows(c) ==
    LET after == committed - cursor[c]
    IN  [k \in 1 .. (IF after < PageLimit THEN after ELSE PageLimit) |-> cursor[c] + k]

\* Mutant: only one page is read
FullNever(rows) == FALSE

\* A full page is followed by another query
Full(rows) == Len(rows) = PageLimit

\* One catch-up query and its yields
CatchUp(c) ==
    /\ phase[c] = "catchup"
    /\ LET rows == Rows(c)
       IN  /\ wire' = [wire EXCEPT ![c] = @ \o rows]
           /\ cursor' = [cursor EXCEPT ![c] = @ + Len(rows)]
           /\ phase' = [phase EXCEPT ![c] = IF Full(rows) THEN "catchup" ELSE "waiting"]
    /\ UNCHANGED <<committed, queue, listening, channel, buffer, lagged, orphan, seen,
                   missed, failures>>

\* The catch-up query fails and the stream ends; what it yielded still arrives
QueryFails(c) ==
    /\ phase[c] = "catchup" /\ Fail
    /\ End(c)
    /\ UNCHANGED <<committed, queue, listening, channel, wire, seen, missed>>

\* Mutant: the interval never fires
TickNever(c) == phase[c] = "waiting" /\ UNCHANGED vars

\* The 30 second interval: back to the catch-up
Tick(c) ==
    /\ phase[c] = "waiting"
    /\ phase' = [phase EXCEPT ![c] = "catchup"]
    /\ UNCHANGED <<committed, queue, listening, channel, cursor, buffer, lagged, orphan,
                   wire, seen, missed, failures>>

\* Mutant: duplicates are not filtered
FreshAll(c, id) == TRUE

\* Duplicates from the broadcast channel are filtered by the cursor
Fresh(c, id) == id > cursor[c]

(***************************************************************************)
(* receiver.recv(): a lag is reported before the retained events, a closed *)
(* channel after them.  Every branch but the last loops to the catch-up.   *)
(***************************************************************************)
Receive(c) ==
    /\ phase[c] = "waiting"
    /\ \/ /\ lagged[c]
          /\ lagged' = [lagged EXCEPT ![c] = FALSE]
          /\ phase' = [phase EXCEPT ![c] = "catchup"]
          /\ UNCHANGED <<cursor, wire, buffer, orphan>>
       \/ /\ ~lagged[c] /\ buffer[c] # <<>>
          /\ LET id == Head(buffer[c])
             IN  IF Fresh(c, id)
                 THEN /\ cursor' = [cursor EXCEPT ![c] = id]
                      /\ wire' = [wire EXCEPT ![c] = Append(@, id)]
                 ELSE UNCHANGED <<cursor, wire>>
          /\ buffer' = [buffer EXCEPT ![c] = Tail(@)]
          /\ phase' = [phase EXCEPT ![c] = "catchup"]
          /\ UNCHANGED <<lagged, orphan>>
       \/ /\ ~lagged[c] /\ buffer[c] = <<>> /\ orphan[c]
          /\ End(c) /\ UNCHANGED wire
    /\ UNCHANGED <<committed, queue, listening, channel, seen, missed, failures>>

-----------------------------------------------------------------------------

\* The browser dispatches the next event and remembers its id
Browse(c) ==
    /\ wire[c] # <<>>
    /\ seen' = [seen EXCEPT ![c] = Append(@, Head(wire[c]))]
    /\ wire' = [wire EXCEPT ![c] = Tail(@)]
    /\ UNCHANGED <<committed, queue, listening, channel, phase, cursor, buffer, lagged,
                   orphan, missed, failures>>

\* The client's connection is lost, with what was on the wire
Drop(c) ==
    /\ phase[c] # "closed" /\ Fail
    /\ End(c)
    /\ wire' = [wire EXCEPT ![c] = <<>>]
    /\ UNCHANGED <<committed, queue, listening, channel, seen, missed>>

\* The process restarts: streams, channel and listener are gone
Restart ==
    /\ Fail
    /\ listening' = FALSE /\ channel' = "none" /\ queue' = <<>>
    /\ missed' = missed \cup Range(queue)
    /\ phase' = [c \in Clients |-> "closed"]
    /\ cursor' = [c \in Clients |-> 0]
    /\ buffer' = [c \in Clients |-> <<>>] /\ wire' = [c \in Clients |-> <<>>]
    /\ lagged' = [c \in Clients |-> FALSE] /\ orphan' = [c \in Clients |-> FALSE]
    /\ UNCHANGED <<committed, seen>>

Server == Commit \/ Listen \/ Disconnect \/ Deliver \/ RemoveChannel \/ Restart

Stream(c) == Connect(c) \/ CatchUp(c) \/ QueryFails(c) \/ Tick(c) \/ Receive(c)

Browser(c) == Browse(c) \/ Drop(c)

Next == Server \/ \E c \in Clients : Stream(c) \/ Browser(c)

Spec == Init /\ [][Next]_vars

(***************************************************************************)
(* The listener reconnects in a loop, the stream's loop and its interval   *)
(* keep running, and an EventSource reconnects until it is closed.  Events *)
(* and failures need not happen.                                           *)
(***************************************************************************)
FairSpec ==
    /\ Spec
    /\ WF_vars(Listen) /\ WF_vars(Deliver) /\ WF_vars(RemoveChannel)
    /\ \A c \in Clients :
          /\ WF_vars(Connect(c)) /\ WF_vars(CatchUp(c)) /\ WF_vars(Tick(c))
          /\ WF_vars(Receive(c)) /\ WF_vars(Browse(c))

-----------------------------------------------------------------------------
(***************************************************************************)
(* Properties.                                                             *)
(***************************************************************************)

Ids == 1 .. MaxEvents

TypeOK ==
    /\ committed \in 0 .. MaxEvents
    /\ queue \in Seq(Ids) /\ listening \in BOOLEAN
    /\ channel \in {"none", "open", "failing"}
    /\ phase \in [Clients -> {"closed", "catchup", "waiting"}]
    /\ cursor \in [Clients -> 0 .. MaxEvents]
    /\ buffer \in [Clients -> Seq(Ids)] /\ \A c \in Clients : Len(buffer[c]) <= Capacity
    /\ lagged \in [Clients -> BOOLEAN] /\ orphan \in [Clients -> BOOLEAN]
    /\ wire \in [Clients -> Seq(Ids)] /\ seen \in [Clients -> Seq(Ids)]
    /\ missed \in SUBSET Ids /\ failures \in 0 .. MaxFailures

\* What a client has been sent over its current or its last connection
Sent(c) == seen[c] \o wire[c]

\* Ids its stream has passed without sending them
Skipped(c) == 1 .. F!LastId(Sent(c)) \ Range(Sent(c))

(***************************************************************************)
(* A stream skips an event only when the listener itself never received    *)
(* its notification: pagination, lag, duplicates, reconnections, restarts  *)
(* and the removal of idle channels lose nothing.                          *)
(***************************************************************************)
SkippedOnlyIfMissed == \A c \in Clients : Skipped(c) \subseteq missed

(***************************************************************************)
(* Every client sees committed events in order and at most once, whatever  *)
(* is lost, repeated or restarted: the stream implements module Feed.      *)
(***************************************************************************)
ImplementsFeed == F!FeedSpec

(***************************************************************************)
(* Every client eventually sees an event at least as recent as any         *)
(* committed one, which is what makes its page refetch the market: lost    *)
(* notifications only delay it, thanks to the interval.                    *)
(***************************************************************************)
Converges ==
    \A c \in Clients, id \in Ids : (committed >= id) ~> (F!LastId(seen[c]) >= id)

(***************************************************************************)
(* The claim of events.rs and api.rs: "a lost or lagged notification       *)
(* delays an event, it never drops it".                                    *)
(***************************************************************************)
NeverDrops == \A c \in Clients : Skipped(c) = {}
=============================================================================
