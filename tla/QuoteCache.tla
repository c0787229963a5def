----------------------------- MODULE QuoteCache -----------------------------
(***************************************************************************)
(* The read-through cache of one market in one process                     *)
(* (backend/src/cache.rs): Store::instance_cached fills it, the handlers   *)
(* of the process write through it after their commit, and its listener    *)
(* applies the notification of every commit, its own included.  Other      *)
(* processes, whose caches this one never sees, only commit and notify.    *)
(*                                                                         *)
(* A row is what a quote depends on.  The row committed n-th has version   *)
(* n - 1.                                                                  *)
(***************************************************************************)
EXTENDS Naturals, Sequences

CONSTANTS
    Requests,       \* requests in flight in the process
    Inventories,
    Created,        \* the inventory a market is created with
    MaxCommits,     \* bound: rows committed after the first
    MaxFailures     \* bound: lost listeners, dropped requests and restarts

ASSUME CacheAssumption ==
    /\ Created \in Inventories
    /\ MaxCommits \in Nat /\ MaxFailures \in Nat

Rows == [inventory : Inventories, tradable : BOOLEAN]

\* A row with its version; a trade's event carries the inventory, others nothing
Events == [version : Nat, row : Rows, trade : BOOLEAN]

VARIABLES
    rows,       \* the rows committed, in version order
    entry,      \* the cache entry, if present, and whether it is within its TTL
    phase,      \* what each request does
    carried,    \* the row a request has read, or the event it has committed
    queue,      \* notifications on their way to the listener
    listening,
    returned,   \* history: the last version a handler of the process returned with
    failures

vars == <<rows, entry, phase, carried, queue, listening, returned, failures>>

\* The version of the row last committed
Version == Len(rows) - 1

Current == rows[Len(rows)]

Entries == [version : Nat, row : Rows, fresh : BOOLEAN, present : BOOLEAN]

FirstRow == [inventory |-> Created, tradable |-> TRUE]

Absent == [version |-> 0, row |-> FirstRow, fresh |-> FALSE, present |-> FALSE]

Nothing == [version |-> 0, row |-> FirstRow, trade |-> FALSE]

Init ==
    /\ rows = <<FirstRow>>
    /\ entry = Absent
    /\ phase = [r \in Requests |-> "idle"]
    /\ carried = [r \in Requests |-> Nothing]
    /\ queue = <<>> /\ listening = FALSE /\ returned = 0
    /\ failures = 0

Fail == failures < MaxFailures /\ failures' = failures + 1

-----------------------------------------------------------------------------
(***************************************************************************)
(* The cache.                                                              *)
(***************************************************************************)

\* Cache::instance finds an entry within its TTL
Hit == entry.present /\ entry.fresh

\* Cache::put_instance
Filled(version, row) ==
    [version |-> version, row |-> row, fresh |-> TRUE, present |-> TRUE]

\* Mutant: a gap of versions is not noticed
AppliedOverGap(e) ==
    IF entry.present /\ entry.version < e.version
    THEN Filled(e.version, [entry.row EXCEPT !.inventory = e.row.inventory])
    ELSE entry

\* Cache::apply_trade: the next version is taken over, a gap drops the entry
Applied(e) ==
    IF ~entry.present \/ e.version <= entry.version THEN entry
    ELSE IF entry.version + 1 = e.version
         THEN Filled(e.version, [entry.row EXCEPT !.inventory = e.row.inventory])
    ELSE Absent

\* A trade is applied, any other event invalidates
Updated(e) == IF e.trade THEN Applied(e) ELSE Absent

-----------------------------------------------------------------------------
(***************************************************************************)
(* Commits, here and in other processes.                                   *)
(***************************************************************************)

\* Store::execute changes the inventory of a tradable row
TradeEvents ==
    IF Current.tradable
    THEN {[version |-> Version + 1, row |-> [Current EXCEPT !.inventory = inv],
           trade |-> TRUE] : inv \in Inventories \ {Current.inventory}}
    ELSE {}

\* Suspension, closing and the other transitions: anything but the inventory
ChangeEvents ==
    {[version |-> Version + 1, row |-> [Current EXCEPT !.tradable = b], trade |-> FALSE] :
        b \in BOOLEAN}

\* The row is committed, and its notification leaves with it
CommitEvent(e) ==
    /\ Version < MaxCommits
    /\ rows' = Append(rows, e.row)
    /\ queue' = IF listening THEN Append(queue, e) ELSE queue

Elsewhere ==
    /\ \E e \in TradeEvents \cup ChangeEvents : CommitEvent(e)
    /\ UNCHANGED <<entry, phase, carried, listening, returned, failures>>

Commit(r) ==
    /\ phase[r] = "idle"
    /\ \E e \in TradeEvents \cup ChangeEvents :
          /\ CommitEvent(e)
          /\ carried' = [carried EXCEPT ![r] = e]
    /\ phase' = [phase EXCEPT ![r] = "writing"]
    /\ UNCHANGED <<entry, listening, returned, failures>>

Return(r) ==
    /\ phase' = [phase EXCEPT ![r] = "idle"]
    /\ carried' = [carried EXCEPT ![r] = Nothing]

\* The handler writes through after its commit, before it answers
WriteThrough(r) ==
    /\ phase[r] = "writing"
    /\ entry' = Updated(carried[r])
    /\ returned' = IF carried[r].version > returned THEN carried[r].version ELSE returned
    /\ Return(r)
    /\ UNCHANGED <<rows, queue, listening, failures>>

-----------------------------------------------------------------------------
(***************************************************************************)
(* Quotes.                                                                 *)
(***************************************************************************)

\* instance_cached finds no entry within its TTL ...
Miss(r) ==
    /\ phase[r] = "idle" /\ ~Hit
    /\ phase' = [phase EXCEPT ![r] = "missed"]
    /\ UNCHANGED <<rows, entry, carried, queue, listening, returned, failures>>

\* ... SELECTs the row, once it has a connection ...
Select(r) ==
    /\ phase[r] = "missed"
    /\ phase' = [phase EXCEPT ![r] = "filling"]
    /\ carried' = [carried EXCEPT ![r] =
                      [version |-> Version, row |-> Current, trade |-> FALSE]]
    /\ UNCHANGED <<rows, entry, queue, listening, returned, failures>>

\* ... and puts what it has read into the cache.
Put(r) ==
    /\ phase[r] = "filling"
    /\ entry' = Filled(carried[r].version, carried[r].row)
    /\ Return(r)
    /\ UNCHANGED <<rows, queue, listening, returned, failures>>

\* The client's connection drops, and the handler with it
Drop(r) ==
    /\ phase[r] # "idle" /\ Fail
    /\ Return(r)
    /\ UNCHANGED <<rows, entry, queue, listening, returned>>

-----------------------------------------------------------------------------
(***************************************************************************)
(* The listener, time and failures.                                        *)
(***************************************************************************)

Listen ==
    /\ ~listening
    /\ listening' = TRUE
    /\ UNCHANGED <<rows, entry, phase, carried, queue, returned, failures>>

\* events::handle
Notify ==
    /\ queue # <<>>
    /\ queue' = Tail(queue)
    /\ entry' = Updated(Head(queue))
    /\ UNCHANGED <<rows, phase, carried, listening, returned, failures>>

\* Mutant: entries stay until they are invalidated
AgesNever == FALSE

\* The TTL of an entry passes some time after it was last written
Ages == Hit

Expire ==
    /\ Ages
    /\ entry' = [entry EXCEPT !.fresh = FALSE]
    /\ UNCHANGED <<rows, phase, carried, queue, listening, returned, failures>>

\* A full cache is cleared when another instance is put
Clear ==
    /\ entry.present
    /\ entry' = Absent
    /\ UNCHANGED <<rows, phase, carried, queue, listening, returned, failures>>

\* The listener's connection is lost, with its notifications; the cache stays
Disconnect ==
    /\ listening /\ Fail
    /\ listening' = FALSE
    /\ queue' = <<>>
    /\ UNCHANGED <<rows, entry, phase, carried, returned>>

\* The process restarts with an empty cache; what it committed stays committed
Restart ==
    /\ Fail
    /\ listening' = FALSE /\ queue' = <<>>
    /\ entry' = Absent
    /\ phase' = [r \in Requests |-> "idle"]
    /\ carried' = [r \in Requests |-> Nothing]
    /\ UNCHANGED <<rows, returned>>

-----------------------------------------------------------------------------

Handler(r) ==
    Commit(r) \/ WriteThrough(r) \/ Miss(r) \/ Select(r) \/ Put(r) \/ Drop(r)

Listener == Listen \/ Notify \/ Disconnect

Next ==
    Elsewhere \/ (\E r \in Requests : Handler(r)) \/ Listener \/ Expire \/ Clear \/ Restart

Spec == Init /\ [][Next]_vars

(***************************************************************************)
(* A handler that has missed, read or committed goes on, the listener      *)
(* reconnects and handles what arrives, and time passes.                   *)
(***************************************************************************)
FairSpec ==
    /\ Spec
    /\ \A r \in Requests : WF_vars(Select(r)) /\ WF_vars(Put(r)) /\ WF_vars(WriteThrough(r))
    /\ WF_vars(Listen) /\ WF_vars(Notify) /\ WF_vars(Expire)

-----------------------------------------------------------------------------
(***************************************************************************)
(* Properties.                                                             *)
(***************************************************************************)

TypeOK ==
    /\ rows \in Seq(Rows) /\ rows # <<>>
    /\ entry \in Entries
    /\ phase \in [Requests -> {"idle", "missed", "filling", "writing"}]
    /\ carried \in [Requests -> Events]
    /\ queue \in Seq(Events)
    /\ listening \in BOOLEAN /\ returned \in Nat
    /\ failures \in Nat

(***************************************************************************)
(* Whatever order fills, write-throughs and notifications come in, an      *)
(* entry is the row that was committed with the entry's version.  So a     *)
(* quote that execute_once accepts, because its version is current, was    *)
(* computed from the current row: "never a wrong trade" (cache.rs).        *)
(***************************************************************************)
EntryCommitted ==
    entry.present => /\ entry.version <= Version
                     /\ entry.row = rows[entry.version + 1]

(***************************************************************************)
(* An entry is stale for a while only: when commits pause, what the        *)
(* process serves becomes the current row and stays so, lost notifications *)
(* and late fills included.                                                *)
(***************************************************************************)
CacheConverges == <>[](Hit => entry.version = Version)

(***************************************************************************)
(* The claim of store.rs: "mutations invalidate or write through before    *)
(* returning, so a hit is at most one trade behind", of the mutations that *)
(* have returned in this process.                                          *)
(***************************************************************************)
HitAtMostOneBehind == Hit => entry.version + 1 >= returned
=============================================================================
