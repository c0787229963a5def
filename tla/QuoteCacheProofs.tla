-------------------------- MODULE QuoteCacheProofs --------------------------
(***************************************************************************)
(* Proof that a cache entry is always the row committed with its version,  *)
(* for any number of requests, commits and failures: every event and every *)
(* read under way belongs to the row committed with its version, and a     *)
(* trade's row is the one before it but for the inventory, so that taking  *)
(* the inventory over into an entry of the version before gives that row.  *)
(***************************************************************************)
EXTENDS QuoteCache, TLAPS

\* An event, or a read, is of a committed row, and a trade's row differs from the
\* one before in the inventory only
Belongs(e, table) ==
    /\ e.version < Len(table)
    /\ e.row = table[e.version + 1]
    /\ e.trade => /\ e.version > 0
                  /\ e.row = [table[e.version] EXCEPT !.inventory = e.row.inventory]

CacheInv ==
    /\ TypeOK
    /\ EntryCommitted
    /\ \A r \in Requests : phase[r] \in {"filling", "writing"} => Belongs(carried[r], rows)
    /\ \A k \in 1 .. Len(queue) : Belongs(queue[k], rows)

-----------------------------------------------------------------------------

(***************************************************************************)
(* What belongs to a row still does when another one is committed.         *)
(***************************************************************************)
LEMMA StillBelongs ==
    ASSUME NEW table \in Seq(Rows), NEW row \in Rows, NEW e \in Events,
           Belongs(e, table)
    PROVE  Belongs(e, Append(table, row))
  <1>1. /\ e.version \in Nat /\ Len(table) \in Nat
        /\ \A k \in 1 .. Len(table) : Append(table, row)[k] = table[k]
        /\ Len(Append(table, row)) = Len(table) + 1
    BY DEF Events
  <1>2. e.version + 1 \in 1 .. Len(table) /\ (e.trade => e.version \in 1 .. Len(table))
    BY <1>1 DEF Belongs
  <1> QED
    BY <1>1, <1>2 DEF Belongs

(***************************************************************************)
(* store::event and FINALIZE_TRADE: the event of a commit is that of the   *)
(* row it commits; a trade's differs from the current one in the inventory *)
(* only, which is all its notification carries.                            *)
(***************************************************************************)
LEMMA NewEventBelongs ==
    ASSUME TypeOK, NEW e \in TradeEvents \cup ChangeEvents
    PROVE  e \in Events /\ Belongs(e, Append(rows, e.row))
  <1>1. Current \in Rows /\ Version \in Nat /\ Len(rows) = Version + 1
    BY DEF TypeOK, Current, Version
  <1>2. /\ e \in Events /\ e.version = Version + 1
        /\ e.trade => e.row = [Current EXCEPT !.inventory = e.row.inventory]
    <2>1. CASE e \in TradeEvents
      <3>1. PICK inv \in Inventories :
               e = [version |-> Version + 1, row |-> [Current EXCEPT !.inventory = inv],
                    trade |-> TRUE]
        BY <2>1 DEF TradeEvents
      <3>2. [Current EXCEPT !.inventory = inv] \in Rows
        BY <1>1 DEF Rows
      <3> QED
        BY <1>1, <3>1, <3>2 DEF Events, Rows
    <2>2. CASE e \in ChangeEvents
      <3>1. PICK b \in BOOLEAN :
               e = [version |-> Version + 1, row |-> [Current EXCEPT !.tradable = b],
                    trade |-> FALSE]
        BY <2>2 DEF ChangeEvents
      <3>2. [Current EXCEPT !.tradable = b] \in Rows
        BY <1>1 DEF Rows
      <3> QED
        BY <1>1, <3>1, <3>2 DEF Events
    <2> QED
      BY <2>1, <2>2
  <1>3. e.row \in Rows /\ rows \in Seq(Rows)
    BY <1>2 DEF Events, TypeOK
  <1>4. /\ Append(rows, e.row)[Version + 1] = Current
        /\ Append(rows, e.row)[Version + 2] = e.row
        /\ Len(Append(rows, e.row)) = Version + 2
    BY <1>1, <1>3 DEF Current
  <1> QED
    BY <1>1, <1>2, <1>4 DEF Belongs

(***************************************************************************)
(* Cache::apply_trade and invalidate leave nothing but a committed row.    *)
(***************************************************************************)
LEMMA UpdatedCommitted ==
    ASSUME TypeOK, EntryCommitted, NEW e \in Events, Belongs(e, rows)
    PROVE  /\ Updated(e) \in Entries
           /\ Updated(e).present =>
                /\ Updated(e).version <= Version
                /\ Updated(e).row = rows[Updated(e).version + 1]
  <1>1. Absent \in Entries /\ ~Absent.present
    BY CacheAssumption DEF Absent, Entries, FirstRow, Rows
  <1>2. entry \in Entries /\ Version = Len(rows) - 1 /\ Len(rows) \in Nat
    BY DEF TypeOK, Version
  <1>3. CASE Updated(e) = Absent
    BY <1>1, <1>3
  <1>4. CASE Updated(e) = entry
    BY <1>2, <1>4 DEF EntryCommitted
  <1>5. CASE Updated(e) # Absent /\ Updated(e) # entry
    <2> DEFINE row == [entry.row EXCEPT !.inventory = e.row.inventory]
    <2>1. e.trade /\ entry.present /\ entry.version + 1 = e.version
          /\ Updated(e) = Filled(e.version, row)
      BY <1>5 DEF Updated, Applied
    <2>2. e.version \in Nat /\ entry.version \in Nat /\ entry.row \in Rows /\ e.row \in Rows
      BY <1>2 DEF Entries, Events
    <2>3. entry.row = rows[e.version]
      BY <2>1, <2>2 DEF EntryCommitted
    <2>4. row = e.row
      BY <2>1, <2>3 DEF Belongs
    <2> QED
      BY <1>2, <2>1, <2>2, <2>4 DEF Filled, Entries, Belongs
  <1> QED
    BY <1>3, <1>4, <1>5

(***************************************************************************)
(* The empty cache of a new process.                                       *)
(***************************************************************************)
LEMMA NothingType ==
    /\ FirstRow \in Rows /\ Absent \in Entries /\ ~Absent.present /\ Nothing \in Events
    /\ <<>> \in Seq(Events)
  BY CacheAssumption DEF FirstRow, Rows, Absent, Entries, Nothing, Events

(***************************************************************************)
(* A process starts with an empty cache and no request.                    *)
(***************************************************************************)
LEMMA CacheInit == Init => CacheInv
  <1> SUFFICES ASSUME Init PROVE CacheInv
    OBVIOUS
  <1>1. TypeOK
    <2>1. rows \in Seq(Rows) /\ rows # <<>>
      BY NothingType DEF Init
    <2>2. carried \in [Requests -> Events]
      BY NothingType DEF Init
    <2>3. queue \in Seq(Events) /\ entry \in Entries
      BY NothingType DEF Init
    <2> QED
      BY <2>1, <2>2, <2>3 DEF Init, TypeOK
  <1> QED
    BY <1>1, NothingType DEF Init, CacheInv, EntryCommitted

(***************************************************************************)
(* A commit, here or elsewhere: what is cached, read and notified still    *)
(* belongs to its row, and so does the new event in the queue.             *)
(***************************************************************************)
LEMMA CommitStep ==
    ASSUME CacheInv, NEW e \in TradeEvents \cup ChangeEvents, CommitEvent(e), entry' = entry
    PROVE  /\ rows' \in Seq(Rows) /\ rows' # <<>> /\ queue' \in Seq(Events)
           /\ EntryCommitted'
           /\ e \in Events /\ Belongs(e, rows')
           /\ \A r \in Requests : phase[r] \in {"filling", "writing"} => Belongs(carried[r], rows')
           /\ \A k \in 1 .. Len(queue') : Belongs(queue'[k], rows')
  <1>1. /\ TypeOK /\ EntryCommitted /\ rows' = Append(rows, e.row) /\ rows \in Seq(Rows)
        /\ e \in Events /\ e.row \in Rows /\ Belongs(e, rows') /\ queue \in Seq(Events)
    BY NewEventBelongs DEF CacheInv, CommitEvent, Events, TypeOK
  <1>2. rows' \in Seq(Rows) /\ rows' # <<>> /\ Version' = Version + 1 /\ Version \in Nat
        /\ \A k \in 1 .. Len(rows) : rows'[k] = rows[k]
    BY <1>1 DEF Version, TypeOK
  <1>3. EntryCommitted'
    <2>1. entry.version \in Nat /\ Len(rows) = Version + 1
      BY <1>1, <1>2 DEF TypeOK, Entries, Version
    <2> QED
      BY <1>1, <1>2, <2>1 DEF CommitEvent, EntryCommitted
  <1>4. \A r \in Requests : phase[r] \in {"filling", "writing"} => Belongs(carried[r], rows')
    BY <1>1, StillBelongs DEF CacheInv, TypeOK
  <1>5. /\ queue' \in Seq(Events)
        /\ \A k \in 1 .. Len(queue') : Belongs(queue'[k], rows')
    <2>1. \A k \in 1 .. Len(queue) : Belongs(queue[k], rows')
      BY <1>1, StillBelongs DEF CacheInv
    <2>2. CASE queue' = queue
      BY <1>1, <2>1, <2>2
    <2>3. CASE queue' = Append(queue, e)
      BY <1>1, <2>1, <2>3
    <2> QED
      BY <2>2, <2>3 DEF CommitEvent
  <1> QED
    BY <1>1, <1>2, <1>3, <1>4, <1>5

(***************************************************************************)
(* Every step of handlers, listener, time and failures keeps the cache     *)
(* invariant.                                                              *)
(***************************************************************************)
LEMMA CacheStep == CacheInv /\ [Next]_vars => CacheInv'
  <1> SUFFICES ASSUME CacheInv, [Next]_vars PROVE CacheInv'
    OBVIOUS
  <1> USE DEF CacheInv
  <1>1. CASE Elsewhere
    <2>1. PICK e \in TradeEvents \cup ChangeEvents : CommitEvent(e)
      BY <1>1 DEF Elsewhere
    <2>2. UNCHANGED <<entry, phase, carried, listening, returned, failures>>
      BY <1>1 DEF Elsewhere
    <2>3. TypeOK'
      BY <2>1, <2>2, CommitStep DEF TypeOK
    <2> QED
      BY <2>1, <2>2, <2>3, CommitStep
  <1>2. ASSUME NEW r \in Requests, Commit(r) PROVE CacheInv'
    <2>1. PICK e \in TradeEvents \cup ChangeEvents :
             CommitEvent(e) /\ carried' = [carried EXCEPT ![r] = e]
      BY <1>2 DEF Commit
    <2>2. /\ UNCHANGED <<entry, listening, returned, failures>>
          /\ phase' = [phase EXCEPT ![r] = "writing"]
      BY <1>2 DEF Commit
    <2>3. TypeOK'
      BY <2>1, <2>2, CommitStep DEF TypeOK
    <2>4. \A q \in Requests : phase'[q] \in {"filling", "writing"} => Belongs(carried'[q], rows')
      BY <2>1, <2>2, CommitStep DEF TypeOK
    <2> QED
      BY <2>1, <2>2, <2>3, <2>4, CommitStep
  <1>3. ASSUME NEW r \in Requests, WriteThrough(r) PROVE CacheInv'
    <2>1. carried[r] \in Events /\ Belongs(carried[r], rows)
      BY <1>3 DEF WriteThrough, TypeOK
    <2>2. TypeOK'
      BY <1>3, <2>1, UpdatedCommitted, NothingType
        DEF WriteThrough, Return, TypeOK, Events
    <2>3. EntryCommitted'
      BY <1>3, <2>1, UpdatedCommitted DEF WriteThrough, EntryCommitted, Version
    <2> QED
      BY <1>3, <2>2, <2>3 DEF WriteThrough, Return, TypeOK
  <1>4. ASSUME NEW r \in Requests, Select(r) PROVE CacheInv'
    <2>1. /\ Version \in Nat /\ Current \in Rows /\ Len(rows) = Version + 1
          /\ Current = rows[Version + 1]
      BY DEF TypeOK, Version, Current
    <2> DEFINE read == [version |-> Version, row |-> Current, trade |-> FALSE]
    <2>2. read \in Events /\ Belongs(read, rows)
      BY <2>1 DEF Events, Belongs
    <2>3. carried' = [carried EXCEPT ![r] = read]
      BY <1>4 DEF Select
    <2> HIDE DEF read
    <2>4. TypeOK' /\ EntryCommitted'
      BY <1>4, <2>2, <2>3 DEF Select, TypeOK, EntryCommitted, Version
    <2> QED
      BY <1>4, <2>2, <2>3, <2>4 DEF Select, TypeOK
  <1>5. ASSUME NEW r \in Requests, Put(r) PROVE CacheInv'
    <2>1. carried[r] \in Events /\ Belongs(carried[r], rows) /\ Len(rows) \in Nat
      BY <1>5 DEF Put, TypeOK
    <2>2. TypeOK'
      BY <1>5, <2>1, NothingType DEF Put, Return, TypeOK, Events, Entries, Filled
    <2>3. EntryCommitted'
      BY <1>5, <2>1 DEF Put, EntryCommitted, Version, Filled, Belongs, Events
    <2> QED
      BY <1>5, <2>2, <2>3 DEF Put, Return, TypeOK
  <1>6. ASSUME NEW r \in Requests, Drop(r) PROVE CacheInv'
    <2>1. TypeOK' /\ EntryCommitted'
      BY <1>6, NothingType DEF Drop, Fail, Return, TypeOK, EntryCommitted, Version
    <2> QED
      BY <1>6, <2>1 DEF Drop, Return, TypeOK
  <1>7. CASE Listen
    BY <1>7 DEF Listen, TypeOK, EntryCommitted, Version
  <1>8. CASE Notify
    <2>1. /\ Head(queue) \in Events /\ Head(queue) = queue[1] /\ 1 \in 1 .. Len(queue)
          /\ Tail(queue) \in Seq(Events) /\ Len(Tail(queue)) = Len(queue) - 1
          /\ \A k \in 1 .. Len(Tail(queue)) :
                k + 1 \in 1 .. Len(queue) /\ Tail(queue)[k] = queue[k + 1]
      BY <1>8 DEF Notify, TypeOK
    <2>2. Belongs(Head(queue), rows)
      BY <2>1
    <2>3. TypeOK' /\ EntryCommitted'
      BY <1>8, <2>1, <2>2, UpdatedCommitted DEF Notify, TypeOK, EntryCommitted, Version
    <2> QED
      BY <1>8, <2>1, <2>3 DEF Notify
  <1>9. CASE Disconnect
    <2>1. TypeOK' /\ EntryCommitted'
      <3>1. queue' \in Seq(Events) /\ failures' \in Nat
        BY <1>9, NothingType DEF Disconnect, Fail, TypeOK
      <3> QED
        BY <1>9, <3>1 DEF Disconnect, TypeOK, EntryCommitted, Version
    <2>2. \A k \in 1 .. Len(queue') : Belongs(queue'[k], rows')
      BY <1>9 DEF Disconnect
    <2> QED
      BY <1>9, <2>1, <2>2 DEF Disconnect
  <1>10. CASE Expire
    BY <1>10 DEF Expire, TypeOK, Entries, EntryCommitted, Version
  <1>11. CASE Clear
    BY <1>11, NothingType DEF Clear, TypeOK, EntryCommitted, Version
  <1>12. CASE Restart
    <2>1. TypeOK'
      <3>1. carried' \in [Requests -> Events]
        BY <1>12, NothingType DEF Restart
      <3>2. queue' \in Seq(Events) /\ failures' \in Nat /\ entry' \in Entries
        BY <1>12, NothingType DEF Restart, Fail, TypeOK
      <3>3. phase' \in [Requests -> {"idle", "missed", "filling", "writing"}]
        BY <1>12 DEF Restart
      <3> QED
        BY <1>12, <3>1, <3>2, <3>3 DEF Restart, TypeOK
    <2>2. EntryCommitted'
      BY <1>12, NothingType DEF Restart, EntryCommitted
    <2>3. \A k \in 1 .. Len(queue') : Belongs(queue'[k], rows')
      BY <1>12 DEF Restart
    <2> QED
      BY <1>12, <2>1, <2>2, <2>3 DEF Restart
  <1>13. ASSUME NEW r \in Requests, Miss(r) PROVE CacheInv'
    <2>1. TypeOK' /\ EntryCommitted'
      BY <1>13 DEF Miss, TypeOK, EntryCommitted, Version
    <2> QED
      BY <1>13, <2>1 DEF Miss, TypeOK
  <1>14. CASE UNCHANGED vars
    BY <1>14 DEF vars, TypeOK, EntryCommitted, Version
  <1> QED
    BY <1>1, <1>2, <1>3, <1>4, <1>5, <1>6, <1>7, <1>8, <1>9, <1>10, <1>11, <1>12, <1>13,
       <1>14
      DEF Next, Handler, Listener

(***************************************************************************)
(* Store::quote: whatever order fills, write-throughs and notifications    *)
(* come in, an entry is the row that was committed with its version, so    *)
(* that a quote execute_once accepts was computed from the current row.    *)
(***************************************************************************)
THEOREM QuotesCommitted == Spec => []EntryCommitted
  <1>1. CacheInv => EntryCommitted
    BY DEF CacheInv
  <1> QED
    BY <1>1, CacheInit, CacheStep, PTL DEF Spec
=============================================================================
