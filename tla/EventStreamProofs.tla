------------------------- MODULE EventStreamProofs --------------------------
(***************************************************************************)
(* Proof that the event stream implements module Feed: for any number of   *)
(* clients, any channel capacity and page size, and any number of events   *)
(* and failures, a client sees committed events only, in commit order and  *)
(* each at most once.  A stream yields ids beyond its cursor, its cursor   *)
(* never falls behind what the client has seen, and nothing that travels   *)
(* is ahead of the outbox.                                                 *)
(* The second half proves that a client lacks only what the listener       *)
(* missed, and the last part the types with their bounds.                  *)
(***************************************************************************)
EXTENDS EventStream, TLAPS

UpTo(s, n) == \A k \in 1 .. Len(s) : s[k] <= n

Beyond(s, n) == \A k \in 1 .. Len(s) : s[k] > n

Increasing(s) == \A j, k \in 1 .. Len(s) : j < k => s[j] < s[k]

StreamType ==
    /\ committed \in Nat
    /\ queue \in Seq(Nat)
    /\ phase \in [Clients -> {"closed", "catchup", "waiting"}]
    /\ cursor \in [Clients -> Nat]
    /\ buffer \in [Clients -> Seq(Nat)]
    /\ wire \in [Clients -> Seq(Nat)]
    /\ seen \in [Clients -> Seq(Nat)]

\* Between a stream's cursor, what it has yielded and what its client has seen
Ordered(c) ==
    /\ Increasing(wire[c])
    /\ Beyond(wire[c], F!LastId(seen[c]))
    /\ UpTo(wire[c], committed)
    /\ F!LastId(seen[c]) <= committed
    /\ phase[c] # "closed" =>
          /\ F!LastId(seen[c]) <= cursor[c]
          /\ UpTo(wire[c], cursor[c])
          /\ cursor[c] <= committed

StreamInv ==
    /\ StreamType
    /\ UpTo(queue, committed)
    /\ \A c \in Clients : UpTo(buffer[c], committed) /\ Ordered(c)

-----------------------------------------------------------------------------

(***************************************************************************)
(* The id a client resumes from is a number.                               *)
(***************************************************************************)
LEMMA LastIdType == \A s \in Seq(Nat) : F!LastId(s) \in Nat
  BY DEF F!LastId

(***************************************************************************)
(* The empty sequence and what sequence operations leave in bounds.        *)
(***************************************************************************)
LEMMA EmptyOK ==
    /\ <<>> \in Seq(Nat) /\ Increasing(<<>>)
    /\ \A n \in Nat : UpTo(<<>>, n) /\ Beyond(<<>>, n)
  BY DEF Increasing, UpTo, Beyond

(***************************************************************************)
(* Appending an id beyond everything on the wire keeps it increasing.      *)
(***************************************************************************)
LEMMA AppendOK ==
    ASSUME NEW s \in Seq(Nat), NEW id \in Nat, NEW n \in Nat, NEW low \in Nat
    PROVE  /\ Append(s, id) \in Seq(Nat)
           /\ UpTo(s, n) /\ id <= n => UpTo(Append(s, id), n)
           /\ Beyond(s, low) /\ id > low => Beyond(Append(s, id), low)
           /\ Increasing(s) /\ UpTo(s, n) /\ id > n => Increasing(Append(s, id))
  <1>1. /\ Append(s, id) \in Seq(Nat) /\ Len(s) \in Nat
        /\ Len(Append(s, id)) = Len(s) + 1
        /\ \A k \in 1 .. Len(s) : Append(s, id)[k] = s[k] /\ s[k] \in Nat
        /\ Append(s, id)[Len(s) + 1] = id
    OBVIOUS
  <1> DEFINE t == Append(s, id)
  <1> HIDE DEF t
  <1>2. \A k \in 1 .. Len(t) : k \in 1 .. Len(s) \/ k = Len(s) + 1
    BY <1>1 DEF t
  <1>3. UpTo(s, n) /\ id <= n => UpTo(t, n)
    BY <1>1, <1>2 DEF UpTo, t
  <1>4. Beyond(s, low) /\ id > low => Beyond(t, low)
    BY <1>1, <1>2 DEF Beyond, t
  <1>5. Increasing(s) /\ UpTo(s, n) /\ id > n => Increasing(t)
    BY <1>1, <1>2 DEF Increasing, UpTo, t
  <1> QED
    BY <1>1, <1>3, <1>4, <1>5 DEF t

(***************************************************************************)
(* Removing the first element: it is below the rest.                       *)
(***************************************************************************)
LEMMA TailOK ==
    ASSUME NEW s \in Seq(Nat), s # <<>>
    PROVE  /\ Tail(s) \in Seq(Nat) /\ Head(s) \in Nat /\ Head(s) = s[1] /\ 1 \in 1 .. Len(s)
           /\ \A n \in Nat : UpTo(s, n) => UpTo(Tail(s), n) /\ Head(s) <= n
           /\ Increasing(s) => Increasing(Tail(s)) /\ Beyond(Tail(s), Head(s))
  <1>1. /\ Tail(s) \in Seq(Nat) /\ Head(s) = s[1] /\ 1 \in 1 .. Len(s) /\ Len(s) \in Nat
        /\ Len(Tail(s)) = Len(s) - 1 /\ s[1] \in Nat
        /\ \A k \in 1 .. Len(Tail(s)) : k + 1 \in 1 .. Len(s) /\ Tail(s)[k] = s[k + 1]
    OBVIOUS
  <1> DEFINE t == Tail(s)
  <1> HIDE DEF t
  <1>2. \A n \in Nat : UpTo(s, n) => UpTo(t, n) /\ s[1] <= n
    BY <1>1 DEF UpTo, t
  <1>3. Increasing(s) => Increasing(t) /\ Beyond(t, s[1])
    BY <1>1 DEF Increasing, Beyond, t
  <1> QED
    BY <1>1, <1>2, <1>3 DEF t

(***************************************************************************)
(* The ring keeps a part of what it held.                                  *)
(***************************************************************************)
LEMMA KeptOK ==
    ASSUME NEW s \in Seq(Nat), NEW n \in Nat, UpTo(s, n)
    PROVE  Kept(s) \in Seq(Nat) /\ UpTo(Kept(s), n)
  <1>1. CASE Len(s) <= Capacity
    BY <1>1 DEF Kept
  <1>2. CASE ~(Len(s) <= Capacity)
    <2> DEFINE first == Len(s) - Capacity + 1
    <2>1. /\ Len(s) \in Nat /\ Capacity \in Nat /\ first \in 1 .. Len(s) + 1
          /\ Kept(s) = SubSeq(s, first, Len(s))
      BY <1>2, BoundAssumption DEF Kept
    <2>2. /\ SubSeq(s, first, Len(s)) \in Seq(Nat)
          /\ Len(SubSeq(s, first, Len(s))) = Len(s) - first + 1
          /\ \A k \in 1 .. Len(s) - first + 1 :
                SubSeq(s, first, Len(s))[k] = s[first + k - 1] /\ first + k - 1 \in 1 .. Len(s)
      BY <2>1
    <2> QED
      BY <2>1, <2>2 DEF UpTo
  <1> QED
    BY <1>1, <1>2

(***************************************************************************)
(* The rows of a catch-up query are the next ones, in order.               *)
(***************************************************************************)
LEMMA RowsOK ==
    ASSUME StreamType, NEW c \in Clients, cursor[c] <= committed
    PROVE  /\ Rows(c) \in Seq(Nat) /\ Increasing(Rows(c)) /\ Beyond(Rows(c), cursor[c])
           /\ UpTo(Rows(c), cursor[c] + Len(Rows(c)))
           /\ cursor[c] + Len(Rows(c)) <= committed
  <1>1. committed \in Nat /\ cursor[c] \in Nat /\ PageLimit \in Nat
    BY BoundAssumption DEF StreamType
  <1> DEFINE after == committed - cursor[c]
             n == IF after < PageLimit THEN after ELSE PageLimit
  <1>2. n \in Nat /\ n <= after /\ after \in Nat
    BY <1>1
  <1>3. Rows(c) = [k \in 1 .. n |-> cursor[c] + k]
    BY DEF Rows
  <1> HIDE DEF n
  <1>4. Rows(c) \in Seq(Nat) /\ Len(Rows(c)) = n
    BY <1>1, <1>2, <1>3
  <1> QED
    BY <1>1, <1>2, <1>3, <1>4 DEF Increasing, Beyond, UpTo

(***************************************************************************)
(* Yielding increasing ids beyond the cursor after those already yielded.  *)
(***************************************************************************)
LEMMA ConcatOK ==
    ASSUME NEW s \in Seq(Nat), NEW t \in Seq(Nat), NEW n \in Nat, NEW m \in Nat,
           NEW low \in Nat, low <= n,
           Increasing(s), UpTo(s, n), Beyond(s, low),
           Increasing(t), Beyond(t, n), UpTo(t, m), n <= m
    PROVE  /\ s \o t \in Seq(Nat) /\ Increasing(s \o t)
           /\ UpTo(s \o t, m) /\ Beyond(s \o t, low)
  <1>1. /\ s \o t \in Seq(Nat) /\ Len(s) \in Nat /\ Len(t) \in Nat
        /\ Len(s \o t) = Len(s) + Len(t)
        /\ \A k \in 1 .. Len(s) : (s \o t)[k] = s[k] /\ s[k] \in Nat
        /\ \A k \in 1 .. Len(s) + Len(t) :
              k > Len(s) => /\ (s \o t)[k] = t[k - Len(s)]
                            /\ k - Len(s) \in 1 .. Len(t) /\ t[k - Len(s)] \in Nat
    OBVIOUS
  <1> DEFINE w == s \o t
  <1> HIDE DEF w
  <1>2. \A k \in 1 .. Len(w) :
           \/ k \in 1 .. Len(s) /\ w[k] = s[k] /\ w[k] <= n /\ w[k] > low /\ w[k] \in Nat
           \/ /\ k > Len(s) /\ k - Len(s) \in 1 .. Len(t) /\ w[k] = t[k - Len(s)]
              /\ w[k] > n /\ w[k] <= m /\ w[k] \in Nat
    BY <1>1 DEF w, UpTo, Beyond
  <1>3. UpTo(w, m) /\ Beyond(w, low)
    BY <1>1, <1>2 DEF UpTo, Beyond
  <1>4. Increasing(w)
    <2> SUFFICES ASSUME NEW j \in 1 .. Len(w), NEW k \in 1 .. Len(w), j < k
                 PROVE  w[j] < w[k]
      BY DEF Increasing
    <2>1. CASE k \in 1 .. Len(s)
      <3>1. j \in 1 .. Len(s) /\ w[j] = s[j] /\ w[k] = s[k]
        BY <1>1, <2>1 DEF w
      <3> QED
        BY <3>1, <2>1 DEF Increasing
    <2>2. CASE j \in 1 .. Len(s) /\ k > Len(s)
      <3>1. w[j] <= n /\ w[j] \in Nat
        BY <1>1, <1>2, <2>2
      <3>2. w[k] > n /\ w[k] \in Nat
        BY <1>1, <1>2, <2>2
      <3> QED
        BY <3>1, <3>2
    <2>3. CASE j > Len(s)
      <3>0. j \in 1 .. Len(s) + Len(t) /\ k \in 1 .. Len(s) + Len(t) /\ k > Len(s)
        BY <1>1, <2>3 DEF w
      <3>1. /\ k - Len(s) \in 1 .. Len(t) /\ j - Len(s) \in 1 .. Len(t)
            /\ w[j] = t[j - Len(s)] /\ w[k] = t[k - Len(s)]
        BY <1>1, <2>3, <3>0 DEF w
      <3>2. j - Len(s) < k - Len(s)
        BY <1>1, <3>0
      <3> QED
        BY <3>1, <3>2 DEF Increasing
    <2> QED
      BY <1>1, <2>1, <2>2, <2>3 DEF w
  <1> QED
    BY <1>1, <1>3, <1>4 DEF w

-----------------------------------------------------------------------------

(***************************************************************************)
(* Nothing travels before the first commit.                                *)
(***************************************************************************)
LEMMA StreamInit == Init => StreamInv
  <1> SUFFICES ASSUME Init PROVE StreamInv
    OBVIOUS
  <1>1. StreamType
    BY EmptyOK DEF Init, F!FeedInit, StreamType
  <1>2. \A c \in Clients : F!LastId(seen[c]) = 0
    BY DEF Init, F!FeedInit, F!LastId
  <1> QED
    BY <1>1, <1>2, EmptyOK DEF Init, F!FeedInit, StreamInv, Ordered

(***************************************************************************)
(* A larger outbox bounds what a smaller one did.                          *)
(***************************************************************************)
LEMMA UpToMore ==
    ASSUME NEW s \in Seq(Nat), NEW n \in Nat, NEW m \in Nat, n <= m, UpTo(s, n)
    PROVE  UpTo(s, m)
  <1>1. \A k \in 1 .. Len(s) : s[k] \in Nat
    OBVIOUS
  <1> QED
    BY <1>1 DEF UpTo

(***************************************************************************)
(* store::event: a commit.                                                 *)
(***************************************************************************)
LEMMA CommitOrdered == StreamInv /\ Commit => StreamInv'
  <1> SUFFICES ASSUME StreamInv, Commit PROVE StreamInv'
    OBVIOUS
  <1>1. /\ StreamType /\ committed \in Nat /\ committed' = committed + 1
        /\ UNCHANGED <<phase, cursor, buffer, wire, seen>>
        /\ queue' = queue \/ queue' = Append(queue, committed + 1)
    BY DEF StreamInv, StreamType, Commit
  <1>2. queue' \in Seq(Nat) /\ UpTo(queue', committed')
    <2>1. UpTo(queue, committed + 1) /\ queue \in Seq(Nat)
      BY <1>1, UpToMore DEF StreamInv, StreamType
    <2>2. CASE queue' = queue
      BY <1>1, <2>1, <2>2
    <2>3. CASE queue' = Append(queue, committed + 1)
      <3>1. committed + 1 \in Nat /\ committed + 1 <= committed + 1
        BY <1>1
      <3>2. /\ Append(queue, committed + 1) \in Seq(Nat)
            /\ UpTo(Append(queue, committed + 1), committed + 1)
        BY <2>1, <3>1, AppendOK
      <3> QED
        BY <1>1, <2>3, <3>2
    <2> QED
      BY <1>1, <2>2, <2>3
  <1>3. StreamType'
    BY <1>1, <1>2 DEF StreamType
  <1>4. ASSUME NEW c \in Clients PROVE UpTo(buffer'[c], committed') /\ Ordered(c)'
    <2>1. /\ wire[c] \in Seq(Nat) /\ buffer[c] \in Seq(Nat) /\ cursor[c] \in Nat
          /\ F!LastId(seen[c]) \in Nat /\ UpTo(buffer[c], committed) /\ Ordered(c)
      BY <1>1, LastIdType DEF StreamType, StreamInv
    <2>2. UpTo(wire[c], committed + 1) /\ UpTo(buffer[c], committed + 1)
      BY <1>1, <2>1, UpToMore DEF Ordered
    <2> QED
      BY <1>1, <2>1, <2>2 DEF Ordered
  <1> QED
    BY <1>2, <1>3, <1>4 DEF StreamInv

(***************************************************************************)
(* What the listener, the channels and a restart do changes no cursor; a   *)
(* closed stream's cursor is read again from what its client has seen.     *)
(***************************************************************************)
LEMMA ServerOrdered == StreamInv /\ Server => StreamInv'
  <1> SUFFICES ASSUME StreamInv, Server PROVE StreamInv'
    OBVIOUS
  <1>1. CASE Commit
    BY <1>1, CommitOrdered
  <1>2. CASE Listen \/ RemoveChannel
    BY <1>2 DEF Listen, RemoveChannel, StreamInv, StreamType, Ordered
  <1>3. CASE Disconnect
    <2>1. queue' = <<>> /\ UNCHANGED <<committed, phase, cursor, buffer, wire, seen>>
      BY <1>3 DEF Disconnect
    <2> QED
      BY <2>1, EmptyOK DEF StreamInv, StreamType, Ordered
  <1>4. CASE Deliver
    <2>1. /\ queue \in Seq(Nat) /\ queue # <<>> /\ UpTo(queue, committed) /\ committed \in Nat
          /\ queue' = Tail(queue)
          /\ buffer' = [c \in Clients |->
                           IF c \in Receivers THEN Kept(Append(buffer[c], Head(queue)))
                                              ELSE buffer[c]]
          /\ UNCHANGED <<committed, phase, cursor, wire, seen>>
      BY <1>4 DEF Deliver, StreamInv, StreamType
    <2>2. /\ queue' \in Seq(Nat) /\ UpTo(queue', committed)
          /\ Head(queue) \in Nat /\ Head(queue) <= committed
      BY <2>1, TailOK
    <2>3. \A c \in Clients : buffer'[c] \in Seq(Nat) /\ UpTo(buffer'[c], committed)
      <3> TAKE c \in Clients
      <3>1. buffer[c] \in Seq(Nat) /\ UpTo(buffer[c], committed)
        BY DEF StreamInv, StreamType
      <3>2. /\ Append(buffer[c], Head(queue)) \in Seq(Nat)
            /\ UpTo(Append(buffer[c], Head(queue)), committed)
        BY <2>1, <2>2, <3>1, AppendOK
      <3> QED
        BY <2>1, <3>1, <3>2, KeptOK
    <2>4. StreamType'
      BY <2>1, <2>2, <2>3 DEF StreamInv, StreamType
    <2> QED
      BY <2>1, <2>2, <2>3, <2>4 DEF StreamInv, Ordered
  <1>5. CASE Restart
    <2>1. /\ queue' = <<>> /\ UNCHANGED <<committed, seen>>
          /\ phase' = [c \in Clients |-> "closed"] /\ cursor' = [c \in Clients |-> 0]
          /\ buffer' = [c \in Clients |-> <<>>] /\ wire' = [c \in Clients |-> <<>>]
      BY <1>5 DEF Restart
    <2>2. StreamType' /\ committed \in Nat
      BY <2>1, EmptyOK DEF StreamInv, StreamType
    <2>3. \A c \in Clients : F!LastId(seen[c]) \in Nat /\ F!LastId(seen[c]) <= committed
      BY LastIdType DEF StreamInv, StreamType, Ordered
    <2> QED
      BY <2>1, <2>2, <2>3, EmptyOK DEF StreamInv, Ordered
  <1> QED
    BY <1>1, <1>2, <1>3, <1>4, <1>5 DEF Server

(***************************************************************************)
(* The stream of one client: it starts at what the client has seen, yields *)
(* only beyond its cursor, and stops at any failure.                       *)
(***************************************************************************)
LEMMA StreamOrdered == StreamInv /\ (\E c \in Clients : Stream(c)) => StreamInv'
  <1> SUFFICES ASSUME StreamInv, NEW c \in Clients, Stream(c) PROVE StreamInv'
    OBVIOUS
  <1>0. /\ StreamType /\ committed \in Nat /\ committed' = committed
        /\ UNCHANGED <<queue, seen>> /\ UpTo(queue, committed)
        /\ wire[c] \in Seq(Nat) /\ buffer[c] \in Seq(Nat) /\ cursor[c] \in Nat
        /\ F!LastId(seen[c]) \in Nat /\ UpTo(buffer[c], committed) /\ Ordered(c)
    BY LastIdType
      DEF StreamInv, StreamType, Stream, Connect, CatchUp, QueryFails, Tick, Receive, vars
  <1>1. CASE Connect(c)
    <2>1. /\ wire[c] = <<>> /\ UNCHANGED <<buffer, wire>>
          /\ phase' = [phase EXCEPT ![c] = "catchup"]
          /\ cursor' = [cursor EXCEPT ![c] = F!LastId(seen[c])]
      BY <1>1 DEF Connect
    <2>2. StreamType'
      BY <1>0, <2>1 DEF StreamType
    <2> QED
      BY <1>0, <2>1, <2>2, EmptyOK DEF StreamInv, StreamType, Ordered
  <1>2. CASE CatchUp(c)
    <2>1. /\ phase[c] = "catchup" /\ UNCHANGED buffer
          /\ wire' = [wire EXCEPT ![c] = @ \o Rows(c)]
          /\ cursor' = [cursor EXCEPT ![c] = @ + Len(Rows(c))]
          /\ phase' = [phase EXCEPT ![c] = IF Full(Rows(c)) THEN "catchup" ELSE "waiting"]
      BY <1>2 DEF CatchUp
    <2> DEFINE next == cursor[c] + Len(Rows(c))
    <2>2. /\ Rows(c) \in Seq(Nat) /\ Increasing(Rows(c)) /\ Beyond(Rows(c), cursor[c])
          /\ UpTo(Rows(c), next) /\ next <= committed /\ next \in Nat /\ cursor[c] <= next
      BY <1>0, <2>1, RowsOK DEF Ordered
    <2>3. /\ wire[c] \o Rows(c) \in Seq(Nat) /\ Increasing(wire[c] \o Rows(c))
          /\ UpTo(wire[c] \o Rows(c), next)
          /\ Beyond(wire[c] \o Rows(c), F!LastId(seen[c]))
      BY <1>0, <2>1, <2>2, ConcatOK DEF Ordered
    <2>4. UpTo(wire[c] \o Rows(c), committed)
      BY <1>0, <2>2, <2>3, UpToMore
    <2> HIDE DEF next
    <2>5. cursor'[c] = next /\ wire'[c] = wire[c] \o Rows(c)
      BY <1>0, <2>1 DEF StreamType, next
    <2>6. StreamType'
      BY <1>0, <2>1, <2>2, <2>3 DEF StreamType, next
    <2>7. Ordered(c)'
      BY <1>0, <2>1, <2>2, <2>3, <2>4, <2>5 DEF Ordered
    <2> QED
      BY <1>0, <2>1, <2>6, <2>7 DEF StreamInv, StreamType, Ordered
  <1>3. CASE QueryFails(c)
    <2>1. End(c) /\ UNCHANGED wire
      BY <1>3 DEF QueryFails
    <2> QED
      BY <1>0, <2>1, EmptyOK DEF End, StreamInv, StreamType, Ordered
  <1>4. CASE Tick(c)
    BY <1>0, <1>4 DEF Tick, StreamInv, StreamType, Ordered
  <1>5. CASE Receive(c)
    <2>1. phase[c] = "waiting"
      BY <1>5 DEF Receive
    <2>2. CASE /\ UNCHANGED <<cursor, wire, buffer>>
               /\ phase' = [phase EXCEPT ![c] = "catchup"]
      BY <1>0, <2>1, <2>2 DEF StreamInv, StreamType, Ordered
    <2>3. CASE End(c) /\ UNCHANGED wire
      BY <1>0, <2>3, EmptyOK DEF End, StreamInv, StreamType, Ordered
    <2>4. CASE /\ buffer[c] # <<>>
               /\ buffer' = [buffer EXCEPT ![c] = Tail(@)]
               /\ phase' = [phase EXCEPT ![c] = "catchup"]
               /\ IF Fresh(c, Head(buffer[c]))
                  THEN /\ cursor' = [cursor EXCEPT ![c] = Head(buffer[c])]
                       /\ wire' = [wire EXCEPT ![c] = Append(@, Head(buffer[c]))]
                  ELSE UNCHANGED <<cursor, wire>>
      <3> DEFINE id == Head(buffer[c])
      <3>1. /\ Tail(buffer[c]) \in Seq(Nat) /\ UpTo(Tail(buffer[c]), committed)
            /\ id \in Nat /\ id <= committed
        BY <1>0, <2>4, TailOK
      <3> HIDE DEF id
      <3>2. CASE ~Fresh(c, id)
        <4>1. UNCHANGED <<cursor, wire>>
          BY <2>4, <3>2 DEF id
        <4> QED
          BY <1>0, <2>1, <2>4, <3>1, <4>1 DEF StreamInv, StreamType, Ordered
      <3>3. CASE Fresh(c, id)
        <4>1. /\ id > cursor[c]
              /\ cursor' = [cursor EXCEPT ![c] = id]
              /\ wire' = [wire EXCEPT ![c] = Append(@, id)]
          BY <2>4, <3>3 DEF Fresh, id
        <4>2. /\ F!LastId(seen[c]) <= cursor[c] /\ UpTo(wire[c], cursor[c])
              /\ UpTo(wire[c], committed) /\ cursor[c] <= committed
              /\ Increasing(wire[c]) /\ Beyond(wire[c], F!LastId(seen[c]))
          BY <1>0, <2>1 DEF Ordered
        <4>3. UpTo(wire[c], id) /\ F!LastId(seen[c]) < id
          BY <1>0, <3>1, <4>1, <4>2, UpToMore
        <4>4. /\ Append(wire[c], id) \in Seq(Nat)
              /\ UpTo(Append(wire[c], id), id) /\ UpTo(Append(wire[c], id), committed)
              /\ Beyond(Append(wire[c], id), F!LastId(seen[c]))
              /\ Increasing(Append(wire[c], id))
          BY <1>0, <3>1, <4>1, <4>2, <4>3, AppendOK
        <4>5. wire'[c] = Append(wire[c], id) /\ cursor'[c] = id
          BY <1>0, <4>1 DEF StreamType
        <4>6. StreamType'
          BY <1>0, <2>4, <3>1, <4>1, <4>4 DEF StreamType
        <4>7. Ordered(c)'
          BY <1>0, <3>1, <4>3, <4>4, <4>5 DEF Ordered
        <4>8. buffer'[c] = Tail(buffer[c])
          BY <1>0, <2>4 DEF StreamType
        <4> QED
          BY <1>0, <2>4, <3>1, <4>1, <4>6, <4>7, <4>8 DEF StreamInv, StreamType, Ordered
      <3> QED
        BY <3>2, <3>3
    <2> QED
      BY <1>5, <2>2, <2>3, <2>4 DEF Receive
  <1> QED
    BY <1>1, <1>2, <1>3, <1>4, <1>5 DEF Stream

(***************************************************************************)
(* The browser sees the first event on the wire, which the rest is beyond. *)
(***************************************************************************)
LEMMA LastOfAppend ==
    ASSUME NEW s \in Seq(Nat), NEW id \in Nat
    PROVE  F!LastId(Append(s, id)) = id
  <1>1. Append(s, id) # <<>> /\ Append(s, id)[Len(Append(s, id))] = id
    OBVIOUS
  <1> QED
    BY <1>1 DEF F!LastId

LEMMA BrowserOrdered == StreamInv /\ (\E c \in Clients : Browser(c)) => StreamInv'
  <1> SUFFICES ASSUME StreamInv, NEW c \in Clients, Browser(c) PROVE StreamInv'
    OBVIOUS
  <1>0. /\ StreamType /\ committed \in Nat /\ committed' = committed
        /\ UNCHANGED queue /\ UpTo(queue, committed)
        /\ wire[c] \in Seq(Nat) /\ seen[c] \in Seq(Nat) /\ cursor[c] \in Nat
        /\ F!LastId(seen[c]) \in Nat /\ UpTo(buffer[c], committed) /\ Ordered(c)
    BY LastIdType DEF StreamInv, StreamType, Browser, Browse, Drop
  <1>1. CASE Browse(c)
    <2> DEFINE id == Head(wire[c])
    <2>1. /\ wire[c] # <<>> /\ UNCHANGED <<phase, cursor, buffer>>
          /\ seen' = [seen EXCEPT ![c] = Append(@, id)]
          /\ wire' = [wire EXCEPT ![c] = Tail(@)]
      BY <1>1 DEF Browse
    <2>2. /\ Tail(wire[c]) \in Seq(Nat) /\ id \in Nat
          /\ UpTo(Tail(wire[c]), committed) /\ id <= committed
          /\ Increasing(Tail(wire[c])) /\ Beyond(Tail(wire[c]), id)
          /\ phase[c] # "closed" => UpTo(Tail(wire[c]), cursor[c]) /\ id <= cursor[c]
      BY <1>0, <2>1, TailOK DEF Ordered
    <2> HIDE DEF id
    <2>3. Append(seen[c], id) \in Seq(Nat) /\ F!LastId(Append(seen[c], id)) = id
      BY <1>0, <2>2, LastOfAppend
    <2>4. seen'[c] = Append(seen[c], id) /\ wire'[c] = Tail(wire[c])
      BY <1>0, <2>1 DEF StreamType
    <2>5. StreamType'
      BY <1>0, <2>1, <2>2, <2>3 DEF StreamType
    <2>6. Ordered(c)'
      BY <1>0, <2>1, <2>2, <2>3, <2>4 DEF Ordered
    <2>7. \A d \in Clients \ {c} : seen'[d] = seen[d] /\ wire'[d] = wire[d]
      BY <1>0, <2>1 DEF StreamType
    <2> QED
      BY <1>0, <2>1, <2>5, <2>6, <2>7 DEF StreamInv, Ordered
  <1>2. CASE Drop(c)
    <2>1. /\ End(c) /\ UNCHANGED seen
          /\ wire' = [wire EXCEPT ![c] = <<>>]
      BY <1>2 DEF Drop
    <2>2. StreamType'
      BY <1>0, <2>1, EmptyOK DEF StreamType, End
    <2> QED
      BY <1>0, <2>1, <2>2, EmptyOK DEF End, StreamInv, StreamType, Ordered
  <1> QED
    BY <1>1, <1>2 DEF Browser

LEMMA StreamStep == StreamInv /\ [Next]_vars => StreamInv'
  <1> SUFFICES ASSUME StreamInv, [Next]_vars PROVE StreamInv'
    OBVIOUS
  <1>1. CASE UNCHANGED vars
    BY <1>1 DEF vars, StreamInv, StreamType, Ordered
  <1> QED
    BY <1>1, ServerOrdered, StreamOrdered, BrowserOrdered DEF Next

-----------------------------------------------------------------------------

(***************************************************************************)
(* What a client sees next is committed and beyond what it has seen.       *)
(***************************************************************************)
LEMMA StepObserved ==
    StreamInv /\ [Next]_vars
        => [F!Happen \/ \E c \in Clients : F!Observe(c)]_(F!feedVars)
  <1> SUFFICES ASSUME StreamInv, [Next]_vars
               PROVE  \/ F!Happen \/ \E c \in Clients : F!Observe(c)
                      \/ UNCHANGED <<committed, seen>>
    BY DEF F!feedVars
  <1>1. CASE Commit
    BY <1>1 DEF Commit, F!Happen
  <1>2. ASSUME NEW c \in Clients, Browse(c) PROVE F!Observe(c)
    <2>1. /\ wire[c] \in Seq(Nat) /\ wire[c] # <<>> /\ committed \in Nat
          /\ F!LastId(seen[c]) \in Nat
          /\ Beyond(wire[c], F!LastId(seen[c])) /\ UpTo(wire[c], committed)
      BY <1>2, LastIdType DEF StreamInv, StreamType, Ordered, Browse
    <2>2. /\ Head(wire[c]) \in Nat /\ Head(wire[c]) = wire[c][1] /\ 1 \in 1 .. Len(wire[c])
      BY <2>1, TailOK
    <2>3. Head(wire[c]) \in F!LastId(seen[c]) + 1 .. committed
      BY <2>1, <2>2 DEF Beyond, UpTo
    <2> QED
      BY <1>2, <2>3 DEF Browse, F!Observe
  <1>3. CASE Listen \/ Disconnect \/ Deliver \/ RemoveChannel \/ Restart
    BY <1>3 DEF Listen, Disconnect, Deliver, RemoveChannel, Restart
  <1>4. CASE \E c \in Clients : Stream(c) \/ Drop(c)
    BY <1>4 DEF Stream, Connect, CatchUp, QueryFails, Tick, Receive, Drop
  <1>5. CASE UNCHANGED vars
    BY <1>5 DEF vars
  <1> QED
    BY <1>1, <1>2, <1>3, <1>4, <1>5 DEF Next, Server, Browser

(***************************************************************************)
(* api::events: with any number of clients, losses, repetitions, lags and  *)
(* restarts, every client sees committed events in commit order and each   *)
(* at most once.                                                           *)
(***************************************************************************)
THEOREM StreamImplementsFeed == Spec => ImplementsFeed
  <1>1. Init => F!FeedInit
    BY DEF Init
  <1> QED
    BY <1>1, StreamInit, StreamStep, StepObserved, PTL DEF Spec, ImplementsFeed, F!FeedSpec

-----------------------------------------------------------------------------
(***************************************************************************)
(* Nothing is skipped unless the listener missed it.  While a stream waits *)
(* it has read the outbox up to its cursor, so whatever was committed      *)
(* since is missed, on its way to the listener, or in its receiver, unless *)
(* the receiver lagged, which sends it back to the outbox.                 *)
(***************************************************************************)

Holds(s, j) == \E k \in 1 .. Len(s) : s[k] = j

Below(s, t) == \A i \in 1 .. Len(s), k \in 1 .. Len(t) : s[i] < t[k]

\* The last id a client has been sent
Reached(c) == IF wire[c] = <<>> THEN F!LastId(seen[c]) ELSE wire[c][Len(wire[c])]

\* What is before a retained event is retained too, or was missed
Gapless(c) ==
    \A k \in 1 .. Len(buffer[c]) : \A j \in Nat :
        cursor[c] < j /\ j < buffer[c][k] => Holds(buffer[c], j) \/ j \in missed

\* What the stream has not read yet will be notified, or was missed
Ahead(c) ==
    \A j \in Nat : cursor[c] < j /\ j <= committed =>
        Holds(buffer[c], j) \/ Holds(queue, j) \/ j \in missed

Accounted(c) ==
    \A j \in Nat \ {0} : j <= Reached(c) =>
        Holds(seen[c], j) \/ Holds(wire[c], j) \/ j \in missed

Notified(c) ==
    /\ Increasing(buffer[c]) /\ Below(buffer[c], queue)
    /\ phase[c] = "waiting" /\ ~lagged[c] => Gapless(c) /\ (~orphan[c] => Ahead(c))

Followed(c) ==
    /\ phase[c] # "closed" => cursor[c] = Reached(c)
    /\ Accounted(c)

MissInv ==
    /\ DOMAIN lagged = Clients /\ DOMAIN orphan = Clients
    /\ Increasing(queue)
    /\ \A c \in Clients : Notified(c) /\ Followed(c)

(***************************************************************************)
(* What a sequence holds after an event was appended to it, or taken off.  *)
(***************************************************************************)
LEMMA HoldsAppend ==
    ASSUME NEW s \in Seq(Nat), NEW id \in Nat
    PROVE  /\ \A j : Holds(Append(s, id), j) <=> Holds(s, j) \/ j = id
           /\ \A n : (\A k \in 1 .. Len(s) : n < s[k]) /\ n < id =>
                  \A k \in 1 .. Len(Append(s, id)) : n < Append(s, id)[k]
<1> DEFINE t == Append(s, id)
<1>1. /\ Len(s) \in Nat /\ Len(t) = Len(s) + 1
      /\ \A k \in 1 .. Len(s) : t[k] = s[k]
      /\ t[Len(s) + 1] = id
  OBVIOUS
<1> HIDE DEF t
<1>2. \A k \in 1 .. Len(t) : k \in 1 .. Len(s) \/ k = Len(s) + 1
  BY <1>1
<1>3. \A k \in 1 .. Len(s) : k \in 1 .. Len(t)
  BY <1>1
<1>4. Len(s) + 1 \in 1 .. Len(t)
  BY <1>1
<1>5. \A j : Holds(t, j) <=> Holds(s, j) \/ j = id
  BY <1>1, <1>2, <1>3, <1>4 DEF Holds
<1> QED  BY <1>1, <1>2, <1>5 DEF t

LEMMA HoldsTail ==
    ASSUME NEW s \in Seq(Nat), s # <<>>
    PROVE  /\ \A j : Holds(s, j) <=> Holds(Tail(s), j) \/ j = Head(s)
           /\ Increasing(s) => \A j : Holds(s, j) => Head(s) <= j
<1> DEFINE t == Tail(s)
<1>1. /\ Head(s) = s[1] /\ 1 \in 1 .. Len(s) /\ Len(s) \in Nat /\ Len(t) = Len(s) - 1
      /\ \A k \in 1 .. Len(t) : k + 1 \in 1 .. Len(s) /\ t[k] = s[k + 1]
      /\ \A k \in 1 .. Len(s) : s[k] \in Nat
  OBVIOUS
<1> HIDE DEF t
<1>2. \A k \in 1 .. Len(s) : k = 1 \/ (k - 1 \in 1 .. Len(t) /\ s[k] = t[k - 1])
  <2> TAKE k \in 1 .. Len(s)
  <2>1. k = 1 \/ k - 1 \in 1 .. Len(t)
    BY <1>1
  <2>2. k - 1 \in 1 .. Len(t) => t[k - 1] = s[(k - 1) + 1]
    BY <1>1
  <2> QED  BY <2>1, <2>2
<1>3. \A j : Holds(s, j) <=> Holds(t, j) \/ j = s[1]
  BY <1>1, <1>2 DEF Holds
<1>4. Increasing(s) => \A j : Holds(s, j) => s[1] <= j
  BY <1>1 DEF Holds, Increasing
<1> QED  BY <1>1, <1>3, <1>4 DEF t

\* What two sequences hold one after the other.
LEMMA HoldsConcat ==
    ASSUME NEW s \in Seq(Nat), NEW t \in Seq(Nat)
    PROVE  \A j : Holds(s \o t, j) <=> Holds(s, j) \/ Holds(t, j)
<1> DEFINE w == s \o t
<1>1. /\ Len(s) \in Nat /\ Len(t) \in Nat /\ Len(w) = Len(s) + Len(t)
      /\ \A k \in 1 .. Len(s) : w[k] = s[k]
      /\ \A k \in 1 .. Len(s) + Len(t) :
            k > Len(s) => w[k] = t[k - Len(s)] /\ k - Len(s) \in 1 .. Len(t)
      /\ \A k \in 1 .. Len(t) : w[Len(s) + k] = t[k]
  OBVIOUS
<1> HIDE DEF w
<1>2. \A k \in 1 .. Len(s) : k \in 1 .. Len(w)
  BY <1>1
<1>3. \A k \in 1 .. Len(t) : Len(s) + k \in 1 .. Len(w)
  BY <1>1
<1>4. \A k \in 1 .. Len(w) : k \in 1 .. Len(s) \/ k - Len(s) \in 1 .. Len(t)
  BY <1>1
<1>5. ASSUME NEW j, Holds(w, j) PROVE Holds(s, j) \/ Holds(t, j)
  <2>1. PICK k \in 1 .. Len(w) : w[k] = j
    BY <1>5 DEF Holds
  <2>2. CASE k \in 1 .. Len(s)
    BY <1>1, <2>1, <2>2 DEF Holds
  <2>3. CASE ~(k \in 1 .. Len(s))
    <3>1. k \in 1 .. Len(s) + Len(t) /\ k > Len(s) /\ k - Len(s) \in 1 .. Len(t)
      BY <1>1, <1>4, <2>3
    <3>2. w[k] = t[k - Len(s)]
      BY <1>1, <3>1
    <3> QED  BY <2>1, <3>1, <3>2 DEF Holds
  <2> QED  BY <2>2, <2>3
<1>6. ASSUME NEW j, Holds(s, j) \/ Holds(t, j) PROVE Holds(w, j)
  BY <1>1, <1>2, <1>3, <1>6 DEF Holds
<1> QED  BY <1>5, <1>6 DEF w

\* A ring that is not full keeps everything, a full one a part, in order.
LEMMA HoldsKept ==
    ASSUME NEW s \in Seq(Nat)
    PROVE  /\ Len(s) <= Capacity => Kept(s) = s
           /\ \A j : Holds(Kept(s), j) => Holds(s, j)
           /\ Increasing(s) => Increasing(Kept(s))
<1>1. CASE Len(s) <= Capacity
  BY <1>1 DEF Kept
<1>2. CASE ~(Len(s) <= Capacity)
  <2> DEFINE first == Len(s) - Capacity + 1
             t == SubSeq(s, first, Len(s))
  <2>1. /\ Len(s) \in Nat /\ Capacity \in Nat /\ first \in 1 .. Len(s) + 1 /\ Kept(s) = t
    BY <1>2, BoundAssumption DEF Kept
  <2>2. /\ Len(t) = Len(s) - first + 1
        /\ \A k \in 1 .. Len(t) : t[k] = s[first + k - 1] /\ first + k - 1 \in 1 .. Len(s)
    BY <2>1
  <2> HIDE DEF t
  <2>3. Len(t) \in Nat
    BY <2>1, <2>2
  <2>4. \A j : Holds(t, j) => Holds(s, j)
    BY <2>2 DEF Holds
  <2>5. ASSUME Increasing(s), NEW j \in 1 .. Len(t), NEW k \in 1 .. Len(t), j < k
        PROVE  t[j] < t[k]
    <3>1. first + j - 1 < first + k - 1
      BY <2>1, <2>3, <2>5
    <3> QED  BY <2>2, <2>5, <3>1 DEF Increasing
  <2> QED  BY <1>2, <2>1, <2>4, <2>5 DEF Increasing
<1> QED  BY <1>1, <1>2

\* Nothing has been sent or committed at first.
LEMMA MissInit == Init => MissInv
<1> SUFFICES ASSUME Init PROVE MissInv
  OBVIOUS
<1>1. ASSUME NEW c \in Clients PROVE Notified(c) /\ Followed(c)
  <2>1. /\ phase[c] = "closed" /\ buffer[c] = <<>> /\ wire[c] = <<>> /\ seen[c] = <<>>
    BY DEF Init, F!FeedInit
  <2>2. Reached(c) = 0
    BY <2>1 DEF Reached, F!LastId
  <2> QED  BY <2>1, <2>2, EmptyOK DEF Notified, Followed, Accounted, Below
<1> QED  BY <1>1, EmptyOK DEF Init, MissInv

\* A commit is notified, or the listener is down and misses it.
LEMMA CommitMiss == StreamInv /\ MissInv /\ Commit => MissInv'
<1> SUFFICES ASSUME StreamInv, MissInv, Commit PROVE MissInv'
  OBVIOUS
<1> DEFINE id == committed + 1
<1>1. /\ committed \in Nat /\ id \in Nat /\ committed' = id /\ queue \in Seq(Nat)
      /\ UNCHANGED <<phase, cursor, buffer, lagged, orphan, wire, seen>>
      /\ \/ queue' = Append(queue, id) /\ missed' = missed
         \/ queue' = queue /\ missed' = missed \cup {id}
  BY DEF Commit, StreamInv, StreamType
<1>2. UpTo(queue, committed) /\ Increasing(queue)
  BY DEF StreamInv, MissInv
<1> HIDE DEF id
<1>3. id > committed /\ id <= committed + 1
  BY DEF id, StreamInv, StreamType
<1>4. Increasing(queue')
  <2>1. Increasing(Append(queue, id))
    BY <1>1, <1>2, <1>3, AppendOK
  <2>2. queue' = queue \/ queue' = Append(queue, id)
    BY <1>1
  <2> QED  BY <1>2, <2>1, <2>2 DEF Increasing
<1>5. /\ \A j : Holds(queue', j) \/ j \in missed' <=> Holds(queue, j) \/ j \in missed \/ j = id
      /\ \A j : j \in missed => j \in missed'
  <2>1. \A j : Holds(Append(queue, id), j) <=> Holds(queue, j) \/ j = id
    BY <1>1, HoldsAppend
  <2>2. CASE queue' = Append(queue, id) /\ missed' = missed
    BY <2>1, <2>2
  <2>3. CASE queue' = queue /\ missed' = missed \cup {id}
    <3>1. \A j : Holds(queue', j) <=> Holds(queue, j)
      BY <2>3 DEF Holds
    <3> QED  BY <2>3, <3>1
  <2> QED  BY <1>1, <2>2, <2>3
<1>6. ASSUME NEW c \in Clients PROVE Notified(c)' /\ Followed(c)'
  <2>1. Notified(c) /\ Followed(c) /\ buffer[c] \in Seq(Nat) /\ UpTo(buffer[c], committed)
    BY DEF MissInv, StreamInv, StreamType
  <2>2. Below(buffer[c], queue')
    <3>1. ASSUME NEW i \in 1 .. Len(buffer[c]), NEW k \in 1 .. Len(queue')
          PROVE  buffer[c][i] < queue'[k]
      <4>1. buffer[c][i] \in Nat /\ buffer[c][i] < id
        BY <1>1, <1>3, <2>1 DEF UpTo
      <4>2. \A l \in 1 .. Len(queue) : buffer[c][i] < queue[l]
        BY <2>1 DEF Notified, Below
      <4> QED  BY <1>1, <4>1, <4>2, HoldsAppend
    <3> QED  BY <3>1 DEF Below
  <2>3. Gapless(c) => Gapless(c)'
    BY <1>1, <1>5 DEF Gapless
  <2>4. Ahead(c) => Ahead(c)'
    <3>1. ASSUME NEW j \in Nat, j <= id PROVE j <= committed \/ j = id
      BY <3>1, <1>1 DEF id
    <3> QED  BY <1>1, <1>5, <3>1 DEF Ahead
  <2>5. Followed(c)'
    BY <1>1, <1>5, <2>1 DEF Followed, Accounted, Reached
  <2> QED  BY <1>1, <2>1, <2>2, <2>3, <2>4, <2>5 DEF Notified
<1> QED  BY <1>1, <1>4, <1>6 DEF MissInv

\* The first notification reaches every receiver, and a full one reports a lag.
LEMMA DeliverMiss == StreamInv /\ MissInv /\ Deliver => MissInv'
<1> SUFFICES ASSUME StreamInv, MissInv, Deliver PROVE MissInv'
  OBVIOUS
<1> DEFINE h == Head(queue)
<1>1. /\ queue \in Seq(Nat) /\ queue # <<>> /\ queue' = Tail(queue)
      /\ UNCHANGED <<committed, phase, cursor, orphan, wire, seen, missed>>
      /\ buffer' = [c \in Clients |-> IF c \in Receivers THEN Kept(Append(buffer[c], h))
                                                         ELSE buffer[c]]
      /\ lagged' = [c \in Clients |-> lagged[c] \/ (c \in Receivers /\ Len(buffer[c]) >= Capacity)]
  BY DEF Deliver, StreamInv, StreamType
<1>2. /\ queue' \in Seq(Nat) /\ h \in Nat
      /\ Increasing(queue) /\ Increasing(queue') /\ Beyond(queue', h)
      /\ \A k \in 1 .. Len(queue') : queue'[k] \in Nat /\ k + 1 \in 1 .. Len(queue)
                                     /\ queue'[k] = queue[k + 1]
      /\ 1 \in 1 .. Len(queue) /\ h = queue[1]
  BY <1>1, TailOK DEF MissInv
<1>3. /\ \A j : Holds(queue, j) <=> Holds(queue', j) \/ j = h
      /\ \A j : Holds(queue, j) => h <= j
  BY <1>1, <1>2, HoldsTail
<1> HIDE DEF h
<1>4. ASSUME NEW c \in Clients PROVE Notified(c)' /\ Followed(c)'
  <2>1. Notified(c) /\ Followed(c) /\ buffer[c] \in Seq(Nat) /\ cursor[c] \in Nat
    BY DEF MissInv, StreamInv, StreamType
  <2>2. Followed(c)'
    BY <1>1, <2>1 DEF Followed, Accounted, Reached
  <2>3. Increasing(buffer[c]) /\ Below(buffer[c], queue')
    BY <1>2, <2>1 DEF Notified, Below
  <2>4. CASE c \notin Receivers
    <3>1. buffer'[c] = buffer[c] /\ (lagged'[c] <=> lagged[c])
      BY <1>1, <2>4
    <3>2. phase[c] # "closed" => orphan[c]
      BY <2>4 DEF Receivers
    <3>3. Gapless(c) => Gapless(c)'
      BY <1>1, <3>1 DEF Gapless
    <3> QED  BY <1>1, <2>1, <2>2, <2>3, <3>1, <3>2, <3>3 DEF Notified
  <2>5. CASE c \in Receivers
    <3> DEFINE s == Append(buffer[c], h)
    <3>1. /\ buffer'[c] = Kept(s) /\ (lagged'[c] <=> lagged[c] \/ Len(buffer[c]) >= Capacity)
      BY <1>1, <2>5
    <3>2. /\ s \in Seq(Nat) /\ Len(s) = Len(buffer[c]) + 1 /\ Len(buffer[c]) \in Nat
          /\ \A j : Holds(s, j) <=> Holds(buffer[c], j) \/ j = h
      BY <1>2, <2>1, HoldsAppend
    <3>3. UpTo(buffer[c], h) /\ \A k \in 1 .. Len(buffer[c]) : buffer[c][k] < h
      BY <1>2, <2>1 DEF Notified, Below, UpTo
    <3>4. Increasing(s)
      <4>1. \A k \in 1 .. Len(buffer[c]) : s[k] = buffer[c][k] /\ s[k] < h
        BY <1>2, <2>1, <3>3
      <4>2. s[Len(buffer[c]) + 1] = h
        BY <1>2, <2>1
      <4>3. \A k \in 1 .. Len(s) : k \in 1 .. Len(buffer[c]) \/ k = Len(buffer[c]) + 1
        BY <3>2
      <4> HIDE DEF s
      <4> SUFFICES ASSUME NEW j \in 1 .. Len(s), NEW k \in 1 .. Len(s), j < k PROVE s[j] < s[k]
        BY DEF Increasing
      <4>4. j \in 1 .. Len(buffer[c])
        BY <3>2, <4>3
      <4> QED  BY <2>3, <4>1, <4>2, <4>3, <4>4 DEF Increasing
    <3> HIDE DEF s
    <3>5. Increasing(Kept(s)) /\ \A j : Holds(Kept(s), j) => Holds(s, j)
      BY <3>2, <3>4, HoldsKept
    <3>6. Below(Kept(s), queue')
      <4> SUFFICES ASSUME NEW i \in 1 .. Len(Kept(s)), NEW k \in 1 .. Len(queue')
                   PROVE  Kept(s)[i] < queue'[k]
        BY DEF Below
      <4>1. Holds(buffer[c], Kept(s)[i]) \/ Kept(s)[i] = h
        BY <3>2, <3>5 DEF Holds
      <4> QED  BY <1>2, <2>3, <4>1 DEF Below, Beyond, Holds
    <3>7. ASSUME phase[c] = "waiting", ~lagged'[c] PROVE Gapless(c)' /\ Ahead(c)'
      <4>1. ~lagged[c] /\ ~(Len(buffer[c]) >= Capacity) /\ ~orphan[c]
        BY <2>5, <3>1, <3>7 DEF Receivers
      <4>2. Len(s) <= Capacity
        BY <3>2, <4>1, BoundAssumption
      <4>3. buffer'[c] = s
        BY <3>1, <3>2, <4>2, HoldsKept
      <4>4. Gapless(c) /\ Ahead(c)
        BY <2>1, <3>7, <4>1 DEF Notified
      <4>5. Ahead(c)'
        BY <1>1, <1>3, <3>2, <4>3, <4>4 DEF Ahead
      <4>6. ASSUME NEW k \in 1 .. Len(s), NEW j \in Nat, cursor[c] < j, j < s[k]
            PROVE  Holds(s, j) \/ j \in missed
        <5>1. Holds(buffer[c], s[k]) \/ s[k] = h
          BY <3>2 DEF Holds
        <5>2. CASE Holds(buffer[c], s[k])
          BY <3>2, <4>4, <4>6, <5>2 DEF Holds, Gapless
        <5>3. CASE s[k] = h
          <6>1. h <= committed /\ committed \in Nat
            BY <1>1, <1>2 DEF StreamInv, StreamType, UpTo
          <6>2. Holds(buffer[c], j) \/ Holds(queue, j) \/ j \in missed
            BY <1>2, <4>4, <4>6, <5>3, <6>1 DEF Ahead
          <6>3. ~Holds(queue, j)
            BY <1>2, <1>3, <4>6, <5>3
          <6> QED  BY <3>2, <6>2, <6>3
        <5> QED  BY <5>1, <5>2, <5>3
      <4>7. Gapless(c)'
        BY <1>1, <4>3, <4>6 DEF Gapless
      <4> QED  BY <4>5, <4>7
    <3> QED  BY <1>1, <2>2, <3>1, <3>5, <3>6, <3>7 DEF Notified
  <2> QED  BY <2>4, <2>5
<1> QED  BY <1>1, <1>2, <1>4 DEF MissInv

\* Notifications that are lost count as missed; closed streams have lost nothing for good.
LEMMA ServerMiss == StreamInv /\ MissInv /\ Server => MissInv'
<1> SUFFICES ASSUME StreamInv, MissInv, Server PROVE MissInv'
  OBVIOUS
<1>0. /\ queue \in Seq(Nat) /\ committed \in Nat
      /\ \A j : Holds(queue, j) => j \in Range(queue)
  <2>1. queue \in Seq(Nat) /\ committed \in Nat
    BY DEF StreamInv, StreamType
  <2>2. DOMAIN queue = 1 .. Len(queue)
    BY <2>1
  <2> QED  BY <2>1, <2>2 DEF Holds, Range
<1>1. CASE Commit \/ Deliver
  BY <1>1, CommitMiss, DeliverMiss
<1>2. CASE Listen
  BY <1>2 DEF Listen, MissInv, Notified, Followed, Gapless, Ahead, Accounted, Reached, Below,
     Holds
<1>3. CASE RemoveChannel
  <2>1. /\ UNCHANGED <<committed, queue, phase, cursor, buffer, lagged, wire, seen, missed>>
        /\ orphan' = [c \in Clients |-> phase[c] # "closed"]
    BY <1>3 DEF RemoveChannel
  <2>2. ASSUME NEW c \in Clients PROVE Notified(c)' /\ Followed(c)'
    <3>1. Notified(c) /\ Followed(c)
      BY DEF MissInv
    <3>2. Followed(c)'
      BY <2>1, <3>1 DEF Followed, Accounted, Reached
    <3>3. Gapless(c) => Gapless(c)'
      BY <2>1 DEF Gapless
    <3> QED  BY <2>1, <3>1, <3>2, <3>3 DEF Notified
  <2> QED  BY <2>1, <2>2 DEF MissInv
<1>4. CASE Disconnect
  <2>1. /\ UNCHANGED <<committed, phase, cursor, buffer, lagged, orphan, wire, seen>>
        /\ queue' = <<>> /\ missed' = missed \cup Range(queue)
    BY <1>4 DEF Disconnect
  <2>2. ASSUME NEW c \in Clients PROVE Notified(c)' /\ Followed(c)'
    <3>1. Notified(c) /\ Followed(c)
      BY DEF MissInv
    <3>2. Followed(c)'
      BY <2>1, <3>1 DEF Followed, Accounted, Reached
    <3>3. Gapless(c) => Gapless(c)'
      BY <2>1 DEF Gapless
    <3>4. Ahead(c) => Ahead(c)'
      BY <1>0, <2>1 DEF Ahead
    <3>5. Below(buffer[c], queue')
      BY <2>1 DEF Below
    <3> QED  BY <2>1, <3>1, <3>2, <3>3, <3>4, <3>5 DEF Notified
  <2> QED  BY <2>1, <2>2, EmptyOK DEF MissInv
<1>5. CASE Restart
  <2>1. /\ queue' = <<>> /\ UNCHANGED <<committed, seen>> /\ missed' = missed \cup Range(queue)
        /\ phase' = [c \in Clients |-> "closed"]
        /\ buffer' = [c \in Clients |-> <<>>] /\ wire' = [c \in Clients |-> <<>>]
        /\ lagged' = [c \in Clients |-> FALSE] /\ orphan' = [c \in Clients |-> FALSE]
    BY <1>5 DEF Restart
  <2>2. ASSUME NEW c \in Clients PROVE Notified(c)' /\ Followed(c)'
    <3>1. Accounted(c) /\ Ordered(c) /\ wire[c] \in Seq(Nat) /\ F!LastId(seen[c]) \in Nat
      BY LastIdType DEF MissInv, Followed, StreamInv, StreamType
    <3>2. Reached(c)' = F!LastId(seen[c])
      BY <2>1 DEF Reached
    <3>3. F!LastId(seen[c]) <= Reached(c) /\ \A j \in Nat : Holds(wire[c], j) => F!LastId(seen[c]) < j
      BY <3>1 DEF Ordered, Beyond, Reached, Holds
    <3>4. Accounted(c)'
      <4>1. Reached(c) \in Nat
        BY <3>1 DEF Reached
      <4> SUFFICES ASSUME NEW j \in Nat \ {0}, j <= F!LastId(seen[c])
                   PROVE  Holds(seen[c], j) \/ j \in missed
        BY <2>1, <3>2 DEF Accounted
      <4> QED  BY <3>1, <3>3, <4>1 DEF Accounted
    <3> QED  BY <2>1, <3>4, EmptyOK DEF Notified, Followed, Below
  <2> QED  BY <2>1, <2>2, EmptyOK DEF MissInv
<1> QED  BY <1>1, <1>2, <1>3, <1>4, <1>5 DEF Server

\* A step of one client leaves the others as they are.
LEMMA OthersMiss ==
    ASSUME MissInv, NEW c \in Clients, StreamInv,
           UNCHANGED <<committed, queue, missed>>,
           DOMAIN lagged' = Clients, DOMAIN orphan' = Clients,
           \A d \in Clients \ {c} :
               /\ phase'[d] = phase[d] /\ cursor'[d] = cursor[d] /\ buffer'[d] = buffer[d]
               /\ lagged'[d] = lagged[d] /\ orphan'[d] = orphan[d]
               /\ wire'[d] = wire[d] /\ seen'[d] = seen[d],
           Notified(c)', Followed(c)'
    PROVE  MissInv'
<1>1. ASSUME NEW d \in Clients, d # c PROVE Notified(d)' /\ Followed(d)'
  <2>1. Notified(d) /\ Followed(d)
    BY DEF MissInv
  <2>2. Followed(d)'
    BY <1>1, <2>1 DEF Followed, Accounted, Reached
  <2>3. (Gapless(d) => Gapless(d)') /\ (Ahead(d) => Ahead(d)')
    BY <1>1 DEF Gapless, Ahead
  <2> QED  BY <1>1, <2>1, <2>2, <2>3 DEF Notified
<1> QED  BY <1>1 DEF MissInv

\* A stream that ends keeps what its client has been sent.
LEMMA EndMiss ==
    ASSUME StreamInv, MissInv, NEW c \in Clients, End(c),
           UNCHANGED <<committed, queue, missed, seen, wire>>
    PROVE  MissInv'
<1>1. /\ phase' = [phase EXCEPT ![c] = "closed"] /\ cursor' = [cursor EXCEPT ![c] = 0]
      /\ buffer' = [buffer EXCEPT ![c] = <<>>] /\ lagged' = [lagged EXCEPT ![c] = FALSE]
      /\ orphan' = [orphan EXCEPT ![c] = FALSE]
      /\ DOMAIN phase = Clients /\ DOMAIN cursor = Clients /\ DOMAIN buffer = Clients
      /\ DOMAIN lagged = Clients /\ DOMAIN orphan = Clients
  BY DEF End, StreamInv, StreamType, MissInv
<1>2. Notified(c)'
  BY <1>1, EmptyOK DEF Notified, Below
<1>3. Followed(c)'
  BY <1>1 DEF MissInv, Followed, Accounted, Reached
<1> QED  BY <1>1, <1>2, <1>3, OthersMiss

\* A lost connection loses only what is sent again.
LEMMA DropMiss ==
    ASSUME StreamInv, MissInv, NEW c \in Clients, Drop(c)
    PROVE  MissInv'
<1>1. /\ phase' = [phase EXCEPT ![c] = "closed"] /\ cursor' = [cursor EXCEPT ![c] = 0]
      /\ buffer' = [buffer EXCEPT ![c] = <<>>] /\ lagged' = [lagged EXCEPT ![c] = FALSE]
      /\ orphan' = [orphan EXCEPT ![c] = FALSE] /\ wire' = [wire EXCEPT ![c] = <<>>]
      /\ UNCHANGED <<committed, queue, missed, seen>>
      /\ DOMAIN phase = Clients /\ DOMAIN cursor = Clients /\ DOMAIN buffer = Clients
      /\ DOMAIN lagged = Clients /\ DOMAIN orphan = Clients /\ DOMAIN wire = Clients
  BY DEF Drop, End, StreamInv, StreamType, MissInv
<1>2. Notified(c)'
  BY <1>1, EmptyOK DEF Notified, Below
<1>3. Followed(c)'
  <2>1. Accounted(c) /\ Ordered(c) /\ wire[c] \in Seq(Nat) /\ F!LastId(seen[c]) \in Nat
    BY LastIdType DEF MissInv, Followed, StreamInv, StreamType
  <2>2. Reached(c)' = F!LastId(seen[c])
    BY <1>1 DEF Reached
  <2>3. /\ F!LastId(seen[c]) <= Reached(c) /\ Reached(c) \in Nat
        /\ \A j \in Nat : Holds(wire[c], j) => F!LastId(seen[c]) < j
    BY <2>1 DEF Ordered, Beyond, Reached, Holds
  <2>4. ASSUME NEW j \in Nat \ {0}, j <= F!LastId(seen[c])
        PROVE  Holds(seen[c], j) \/ j \in missed
    BY <2>1, <2>3, <2>4 DEF Accounted
  <2>5. Accounted(c)'
    BY <1>1, <2>2, <2>4 DEF Accounted
  <2> QED  BY <1>1, <2>5 DEF Followed
<1> QED  BY <1>1, <1>2, <1>3, OthersMiss

\* Only the empty sequence has no elements.
LEMMA EmptyLen == \A s \in Seq(Nat) : s = <<>> <=> Len(s) = 0
  OBVIOUS

\* Taking the first event off leaves the last one, unless it was the only one.
LEMMA LastOfTail ==
    ASSUME NEW s \in Seq(Nat), s # <<>>
    PROVE  IF Tail(s) = <<>> THEN Head(s) = s[Len(s)] ELSE Tail(s)[Len(Tail(s))] = s[Len(s)]
<1> DEFINE t == Tail(s)
<1>1. /\ Len(s) \in Nat /\ Len(s) # 0 /\ Head(s) = s[1]
      /\ t \in Seq(Nat) /\ Len(t) = Len(s) - 1
      /\ \A k \in 1 .. Len(s) - 1 : t[k] = s[k + 1]
  OBVIOUS
<1> HIDE DEF t
<1>2. CASE t = <<>>
  <2>1. Len(t) = 0
    BY <1>1, <1>2, EmptyLen
  <2>2. Len(s) = 1
    BY <1>1, <2>1
  <2> QED  BY <1>1, <1>2, <2>2 DEF t
<1>3. CASE t # <<>>
  <2>0. t \in Seq(Nat)
    BY <1>1
  <2>1. Len(t) # 0
    BY <1>3, <2>0, EmptyLen
  <2>2. Len(t) \in 1 .. Len(s) - 1 /\ Len(t) + 1 = Len(s)
    BY <1>1, <2>1
  <2>3. t[Len(t)] = s[Len(t) + 1]
    BY <1>1, <2>2
  <2> QED  BY <1>3, <2>2, <2>3 DEF t
<1> QED  BY <1>2, <1>3

\* What the browser dispatches moves from the wire to what it has seen.
LEMMA BrowseMiss ==
    ASSUME StreamInv, MissInv, NEW c \in Clients, Browse(c)
    PROVE  MissInv'
<1> DEFINE id == Head(wire[c])
<1>1. /\ wire[c] # <<>> /\ wire[c] \in Seq(Nat) /\ seen[c] \in Seq(Nat)
      /\ seen' = [seen EXCEPT ![c] = Append(@, id)]
      /\ wire' = [wire EXCEPT ![c] = Tail(@)]
      /\ UNCHANGED <<committed, queue, missed, phase, cursor, buffer, lagged, orphan>>
      /\ DOMAIN wire = Clients /\ DOMAIN seen = Clients
      /\ DOMAIN lagged = Clients /\ DOMAIN orphan = Clients
  BY DEF Browse, StreamInv, StreamType, MissInv
<1>2. /\ seen'[c] = Append(seen[c], id) /\ wire'[c] = Tail(wire[c]) /\ id \in Nat
  BY <1>1, TailOK
<1>3. /\ F!LastId(seen'[c]) = id
      /\ \A j : Holds(seen'[c], j) <=> Holds(seen[c], j) \/ j = id
      /\ \A j : Holds(wire[c], j) <=> Holds(wire'[c], j) \/ j = id
  BY <1>1, <1>2, LastOfAppend, HoldsAppend, HoldsTail
<1>4. Reached(c)' = Reached(c)
  <2>1. IF wire'[c] = <<>> THEN id = wire[c][Len(wire[c])]
        ELSE wire'[c][Len(wire'[c])] = wire[c][Len(wire[c])]
    BY <1>1, <1>2, LastOfTail
  <2> HIDE DEF id
  <2> QED  BY <1>1, <1>3, <2>1 DEF Reached
<1> HIDE DEF id
<1>5. Followed(c)'
  <2>1. Followed(c)
    BY DEF MissInv
  <2> QED  BY <1>1, <1>3, <1>4, <2>1 DEF Followed, Accounted
<1>6. Notified(c)'
  <2>1. Notified(c)
    BY DEF MissInv
  <2>2. (Gapless(c) => Gapless(c)') /\ (Ahead(c) => Ahead(c)')
    BY <1>1 DEF Gapless, Ahead
  <2> QED  BY <1>1, <2>1, <2>2 DEF Notified
<1>7. \A d \in Clients \ {c} : wire'[d] = wire[d] /\ seen'[d] = seen[d]
  BY <1>1
<1> QED  BY <1>1, <1>5, <1>6, <1>7, OthersMiss

\* A catch-up query returns the next rows, all of them unless its page is full.
LEMMA RowsAll ==
    ASSUME StreamType, NEW c \in Clients, cursor[c] <= committed
    PROVE  /\ Rows(c) \in Seq(Nat) /\ Len(Rows(c)) \in Nat
           /\ \A k \in 1 .. Len(Rows(c)) : Rows(c)[k] = cursor[c] + k
           /\ ~Full(Rows(c)) => cursor[c] + Len(Rows(c)) = committed
<1>1. committed \in Nat /\ cursor[c] \in Nat /\ PageLimit \in Nat
  BY BoundAssumption DEF StreamType
<1> DEFINE after == committed - cursor[c]
           n == IF after < PageLimit THEN after ELSE PageLimit
<1>2. n \in Nat /\ n <= after /\ after \in Nat /\ (n # PageLimit => cursor[c] + n = committed)
  BY <1>1
<1>3. Rows(c) = [k \in 1 .. n |-> cursor[c] + k]
  BY DEF Rows
<1> HIDE DEF n
<1>4. Rows(c) \in Seq(Nat) /\ Len(Rows(c)) = n
  BY <1>1, <1>2, <1>3
<1> QED  BY <1>2, <1>3, <1>4 DEF Full

\* A stream that goes back to the outbox, by its interval or after a lag.
LEMMA BackMiss ==
    ASSUME StreamInv, MissInv, NEW c \in Clients,
           phase' = [phase EXCEPT ![c] = "catchup"],
           lagged' = lagged \/ lagged' = [lagged EXCEPT ![c] = FALSE],
           UNCHANGED <<committed, queue, cursor, buffer, orphan, wire, seen, missed>>,
           phase[c] # "closed"
    PROVE  MissInv'
<1>1. /\ phase'[c] = "catchup" /\ DOMAIN lagged = Clients /\ DOMAIN orphan = Clients
      /\ \A d \in Clients \ {c} : phase'[d] = phase[d] /\ lagged'[d] = lagged[d]
      /\ DOMAIN lagged' = Clients
  BY DEF StreamInv, StreamType, MissInv
<1>2. Notified(c)'
  BY <1>1 DEF MissInv, Notified
<1>3. Followed(c)'
  BY DEF MissInv, Followed, Accounted, Reached
<1> QED  BY <1>1, <1>2, <1>3, OthersMiss

\* A stream starts at the last event its client has seen.
LEMMA ConnectMiss ==
    ASSUME StreamInv, MissInv, NEW c \in Clients, Connect(c)
    PROVE  MissInv'
<1>1. /\ wire[c] = <<>>
      /\ phase' = [phase EXCEPT ![c] = "catchup"]
      /\ cursor' = [cursor EXCEPT ![c] = F!LastId(seen[c])]
      /\ UNCHANGED <<committed, queue, buffer, lagged, orphan, wire, seen, missed>>
      /\ DOMAIN phase = Clients /\ DOMAIN cursor = Clients
      /\ DOMAIN lagged = Clients /\ DOMAIN orphan = Clients
  BY DEF Connect, StreamInv, StreamType, MissInv
<1>2. Notified(c)'
  BY <1>1 DEF MissInv, Notified
<1>3. Followed(c)'
  BY <1>1 DEF MissInv, Followed, Accounted, Reached
<1> QED  BY <1>1, <1>2, <1>3, OthersMiss

\* A catch-up sends the rows after the cursor and leaves none before it starts waiting.
LEMMA CatchUpMiss ==
    ASSUME StreamInv, MissInv, NEW c \in Clients, CatchUp(c)
    PROVE  MissInv'
<1> DEFINE n == Len(Rows(c))
<1>1. /\ phase[c] = "catchup"
      /\ wire' = [wire EXCEPT ![c] = @ \o Rows(c)]
      /\ cursor' = [cursor EXCEPT ![c] = @ + n]
      /\ phase' = [phase EXCEPT ![c] = IF Full(Rows(c)) THEN "catchup" ELSE "waiting"]
      /\ UNCHANGED <<committed, queue, buffer, lagged, orphan, seen, missed>>
      /\ DOMAIN phase = Clients /\ DOMAIN cursor = Clients /\ DOMAIN wire = Clients
      /\ DOMAIN lagged = Clients /\ DOMAIN orphan = Clients
  BY DEF CatchUp, StreamInv, StreamType, MissInv
<1>2. /\ StreamType /\ cursor[c] \in Nat /\ committed \in Nat /\ cursor[c] <= committed
      /\ wire[c] \in Seq(Nat) /\ buffer[c] \in Seq(Nat) /\ UpTo(buffer[c], committed)
      /\ Notified(c) /\ Accounted(c) /\ cursor[c] = Reached(c)
  BY <1>1 DEF StreamInv, StreamType, Ordered, MissInv, Followed
<1>3. /\ Rows(c) \in Seq(Nat) /\ n \in Nat
      /\ \A k \in 1 .. n : Rows(c)[k] = cursor[c] + k
      /\ ~Full(Rows(c)) => cursor[c] + n = committed
  BY <1>2, RowsAll
<1>4. wire'[c] = wire[c] \o Rows(c) /\ cursor'[c] = cursor[c] + n
  BY <1>1
<1>5. \A j : Holds(wire'[c], j) <=> Holds(wire[c], j) \/ Holds(Rows(c), j)
  BY <1>2, <1>3, <1>4, HoldsConcat
<1>6. Reached(c)' = cursor[c] + n
  <2>0. Rows(c) \in Seq(Nat)
    BY <1>3
  <2>1. /\ Len(wire[c]) \in Nat
        /\ Rows(c) = <<>> => wire'[c] = wire[c]
        /\ Rows(c) # <<>> => wire'[c] # <<>>
    BY <1>2, <1>3, <1>4
  <2>2. Rows(c) # <<>> => n # 0
    BY <2>0, EmptyLen
  <2>3. CASE Rows(c) = <<>>
    <3>1. n = 0
      BY <2>3
    <3> QED  BY <1>1, <1>2, <2>1, <2>3, <3>1 DEF Reached
  <2>4. CASE Rows(c) # <<>>
    <3>1. Len(wire'[c]) = Len(wire[c]) + n
      BY <1>2, <1>3, <1>4
    <3>2. n \in 1 .. n /\ Rows(c)[n] = cursor[c] + n
      BY <1>3, <2>2, <2>4
    <3>3. \A k \in 1 .. n : wire'[c][Len(wire[c]) + k] = Rows(c)[k]
      BY <1>2, <1>3, <1>4
    <3>4. wire'[c][Len(wire'[c])] = cursor[c] + n
      BY <3>1, <3>2, <3>3
    <3> QED  BY <2>1, <2>4, <3>4 DEF Reached
  <2> QED  BY <2>3, <2>4
<1> HIDE DEF n
<1>7. Followed(c)'
  <2>1. ASSUME NEW j \in Nat \ {0}, j <= cursor[c] + n
        PROVE  Holds(seen[c], j) \/ Holds(wire'[c], j) \/ j \in missed
    <3>1. CASE j <= cursor[c]
      BY <1>2, <1>5, <3>1 DEF Accounted
    <3>2. CASE ~(j <= cursor[c])
      <4>1. j - cursor[c] \in 1 .. n
        BY <1>2, <1>3, <2>1, <3>2
      <4>2. Rows(c)[j - cursor[c]] = j
        <5>1. Rows(c)[j - cursor[c]] = cursor[c] + (j - cursor[c])
          BY <1>3, <4>1
        <5> QED  BY <1>2, <5>1
      <4>3. Holds(Rows(c), j)
        BY <4>1, <4>2 DEF Holds, n
      <4> QED  BY <1>5, <4>3
    <3> QED  BY <3>1, <3>2
  <2>2. Accounted(c)'
    BY <1>1, <1>6, <2>1 DEF Accounted
  <2> QED  BY <1>4, <1>6, <2>2 DEF Followed
<1>8. Notified(c)'
  <2>1. CASE Full(Rows(c))
    BY <1>1, <1>2, <2>1 DEF Notified
  <2>2. CASE ~Full(Rows(c))
    <3>1. cursor'[c] = committed
      BY <1>3, <1>4, <2>2
    <3>2. Gapless(c)'
      <4> SUFFICES ASSUME NEW k \in 1 .. Len(buffer[c]), NEW j \in Nat,
                          committed < j, j < buffer[c][k]
                   PROVE  FALSE
        BY <1>1, <3>1 DEF Gapless
      <4>1. buffer[c][k] <= committed /\ buffer[c][k] \in Nat
        BY <1>2 DEF UpTo
      <4> QED  BY <1>2, <4>1
    <3>3. Ahead(c)'
      BY <1>1, <1>2, <3>1 DEF Ahead
    <3> QED  BY <1>1, <1>2, <3>2, <3>3 DEF Notified
  <2> QED  BY <2>1, <2>2
<1>9. \A d \in Clients \ {c} :
         phase'[d] = phase[d] /\ cursor'[d] = cursor[d] /\ wire'[d] = wire[d]
  BY <1>1
<1> QED  BY <1>1, <1>7, <1>8, <1>9, OthersMiss

\* What a waiting stream receives follows its cursor without a gap.
LEMMA ReceiveMiss ==
    ASSUME StreamInv, MissInv, NEW c \in Clients, Receive(c)
    PROVE  MissInv'
<1>1. /\ phase[c] = "waiting"
      /\ UNCHANGED <<committed, queue, seen, missed>>
      /\ DOMAIN phase = Clients /\ DOMAIN cursor = Clients /\ DOMAIN wire = Clients
      /\ DOMAIN buffer = Clients /\ DOMAIN lagged = Clients /\ DOMAIN orphan = Clients
  BY DEF Receive, StreamInv, StreamType, MissInv
<1>2. CASE /\ lagged' = [lagged EXCEPT ![c] = FALSE]
           /\ phase' = [phase EXCEPT ![c] = "catchup"]
           /\ UNCHANGED <<cursor, wire, buffer, orphan>>
  BY <1>1, <1>2, BackMiss
<1>3. CASE End(c) /\ UNCHANGED wire
  BY <1>1, <1>3, EndMiss
<1>4. CASE /\ ~lagged[c] /\ buffer[c] # <<>>
           /\ IF Fresh(c, Head(buffer[c]))
              THEN /\ cursor' = [cursor EXCEPT ![c] = Head(buffer[c])]
                   /\ wire' = [wire EXCEPT ![c] = Append(@, Head(buffer[c]))]
              ELSE UNCHANGED <<cursor, wire>>
           /\ buffer' = [buffer EXCEPT ![c] = Tail(@)]
           /\ phase' = [phase EXCEPT ![c] = "catchup"]
           /\ UNCHANGED <<lagged, orphan>>
  <2> DEFINE id == Head(buffer[c])
  <2>1. /\ buffer[c] \in Seq(Nat) /\ wire[c] \in Seq(Nat) /\ cursor[c] \in Nat
        /\ Increasing(buffer[c]) /\ Below(buffer[c], queue) /\ Gapless(c)
        /\ Accounted(c) /\ cursor[c] = Reached(c)
    BY <1>1, <1>4 DEF StreamInv, StreamType, MissInv, Notified, Followed
  <2>2. /\ Tail(buffer[c]) \in Seq(Nat) /\ Increasing(Tail(buffer[c])) /\ id \in Nat
        /\ id = buffer[c][1] /\ 1 \in 1 .. Len(buffer[c])
        /\ \A k \in 1 .. Len(Tail(buffer[c])) :
              k + 1 \in 1 .. Len(buffer[c]) /\ Tail(buffer[c])[k] = buffer[c][k + 1]
    BY <1>4, <2>1, TailOK
  <2>3. \A j : Holds(buffer[c], j) => id <= j
    BY <1>4, <2>1, HoldsTail
  <2>4. buffer'[c] = Tail(buffer[c]) /\ phase'[c] = "catchup"
    BY <1>1, <1>4
  <2>5. Notified(c)'
    <3>1. Below(Tail(buffer[c]), queue)
      BY <2>1, <2>2 DEF Below
    <3> QED  BY <1>1, <2>2, <2>4, <3>1 DEF Notified
  <2> HIDE DEF id
  <2>6. Followed(c)'
    <3>1. CASE ~Fresh(c, id)
      <4>1. UNCHANGED <<cursor, wire>>
        BY <1>4, <3>1 DEF id
      <4> QED  BY <1>1, <2>1, <4>1 DEF Followed, Accounted, Reached
    <3>2. CASE Fresh(c, id)
      <4>1. id > cursor[c] /\ cursor'[c] = id /\ wire'[c] = Append(wire[c], id)
        BY <1>1, <1>4, <3>2 DEF Fresh, id
      <4>2. Reached(c)' = id
        <5>1. Append(wire[c], id) # <<>> /\ Append(wire[c], id)[Len(Append(wire[c], id))] = id
          BY <2>1, <2>2
        <5> QED  BY <4>1, <5>1 DEF Reached
      <4>3. \A j : Holds(wire'[c], j) <=> Holds(wire[c], j) \/ j = id
        BY <2>1, <2>2, <4>1, HoldsAppend
      <4>4. ASSUME NEW j \in Nat \ {0}, j <= id
            PROVE  Holds(seen[c], j) \/ Holds(wire'[c], j) \/ j \in missed
        <5>1. CASE j <= cursor[c]
          BY <2>1, <4>3, <5>1 DEF Accounted
        <5>2. CASE j = id
          BY <4>3, <5>2
        <5>3. CASE cursor[c] < j /\ j < id
          <6>1. ~Holds(buffer[c], j)
            BY <2>2, <2>3, <5>3
          <6> QED  BY <2>1, <2>2, <5>3, <6>1 DEF Gapless
        <5> QED  BY <2>1, <2>2, <4>4, <5>1, <5>2, <5>3
      <4>5. Accounted(c)'
        BY <1>1, <4>2, <4>4 DEF Accounted
      <4> QED  BY <4>1, <4>2, <4>5 DEF Followed
    <3> QED  BY <3>1, <3>2
  <2>7. \A d \in Clients \ {c} :
           /\ phase'[d] = phase[d] /\ buffer'[d] = buffer[d]
           /\ cursor'[d] = cursor[d] /\ wire'[d] = wire[d]
    BY <1>1, <1>4
  <2> QED  BY <1>1, <1>4, <2>5, <2>6, <2>7, OthersMiss
<1> QED  BY <1>2, <1>3, <1>4 DEF Receive

LEMMA MissStep == StreamInv /\ MissInv /\ [Next]_vars => MissInv'
<1> SUFFICES ASSUME StreamInv, MissInv, [Next]_vars PROVE MissInv'
  OBVIOUS
<1>1. CASE UNCHANGED vars
  BY <1>1 DEF vars, MissInv, Notified, Followed, Gapless, Ahead, Accounted, Reached, Below,
     Holds
<1>2. CASE Server
  BY <1>2, ServerMiss
<1>3. ASSUME NEW c \in Clients, Stream(c) PROVE MissInv'
  <2>1. CASE Connect(c) \/ CatchUp(c) \/ Receive(c)
    BY <2>1, ConnectMiss, CatchUpMiss, ReceiveMiss
  <2>2. CASE QueryFails(c)
    BY <2>2, EndMiss DEF QueryFails
  <2>3. CASE Tick(c)
    <3>1. phase[c] # "closed"
      BY <2>3 DEF Tick
    <3> QED  BY <2>3, <3>1, BackMiss DEF Tick
  <2> QED  BY <1>3, <2>1, <2>2, <2>3 DEF Stream
<1>4. ASSUME NEW c \in Clients, Browser(c) PROVE MissInv'
  BY <1>4, BrowseMiss, DropMiss DEF Browser
<1> QED  BY <1>1, <1>2, <1>3, <1>4 DEF Next

\* The last of two sequences is the last of the second, unless that is empty.
LEMMA LastOfConcat ==
    ASSUME NEW s \in Seq(Nat), NEW t \in Seq(Nat)
    PROVE  F!LastId(s \o t) = IF t = <<>> THEN F!LastId(s) ELSE t[Len(t)]
<1> DEFINE w == s \o t
<1>1. CASE t = <<>>
  <2>1. w = s
    BY <1>1
  <2> QED  BY <1>1, <2>1
<1>2. CASE t # <<>>
  <2>1. /\ Len(s) \in Nat /\ Len(t) \in Nat /\ Len(w) = Len(s) + Len(t) /\ w \in Seq(Nat)
        /\ \A k \in 1 .. Len(t) : w[Len(s) + k] = t[k]
    OBVIOUS
  <2>2. Len(t) # 0
    BY <1>2, EmptyLen
  <2> HIDE DEF w
  <2>3. Len(t) \in 1 .. Len(t) /\ Len(w) # 0
    BY <2>1, <2>2
  <2>4. w # <<>> /\ w[Len(w)] = t[Len(t)]
    BY <2>1, <2>3
  <2>5. F!LastId(w) = t[Len(t)]
    BY <2>4 DEF F!LastId
  <2> QED  BY <1>2, <2>5 DEF w
<1> QED  BY <1>1, <1>2

\* With what each stream accounts for, a client lacks only what the listener missed.
LEMMA AccountedSkips == StreamInv /\ MissInv => SkippedOnlyIfMissed
<1> SUFFICES ASSUME StreamInv, MissInv, NEW c \in Clients, NEW j \in Skipped(c)
             PROVE  j \in missed
  BY DEF SkippedOnlyIfMissed
<1>1. seen[c] \in Seq(Nat) /\ wire[c] \in Seq(Nat) /\ Accounted(c)
  BY DEF StreamInv, StreamType, MissInv, Followed
<1> DEFINE s == seen[c] \o wire[c]
<1>2. s \in Seq(Nat) /\ \A i : Holds(s, i) <=> Holds(seen[c], i) \/ Holds(wire[c], i)
  BY <1>1, HoldsConcat
<1>3. F!LastId(s) = Reached(c)
  BY <1>1, LastOfConcat DEF Reached
<1>4. j \in 1 .. Reached(c) /\ j \notin Range(s)
  BY <1>3 DEF Skipped, Sent
<1>5. DOMAIN s = 1 .. Len(s)
  BY <1>2
<1> HIDE DEF s
<1>6. ~Holds(s, j)
  BY <1>4, <1>5 DEF Holds, Range
<1>7. Reached(c) \in Nat
  BY <1>1, <1>2, <1>3, LastIdType
<1> QED  BY <1>1, <1>2, <1>4, <1>6, <1>7 DEF Accounted

(***************************************************************************)
(* api::events and events::run_listener: for any number of clients, any    *)
(* capacity and page size, and whatever is lost, repeated or restarted, a  *)
(* client is passed over by an event only when the listener itself never   *)
(* received that event's notification.                                     *)
(***************************************************************************)
THEOREM LosesOnlyMissed == Spec => []SkippedOnlyIfMissed
<1>1. Init => StreamInv /\ MissInv
  BY StreamInit, MissInit
<1>2. StreamInv /\ MissInv /\ [Next]_vars => StreamInv' /\ MissInv'
  BY StreamStep, MissStep
<1> QED  BY <1>1, <1>2, AccountedSkips, PTL DEF Spec

-----------------------------------------------------------------------------
(***************************************************************************)
(* Types, with the bounds of ids, channels and failures.                   *)
(***************************************************************************)

(***************************************************************************)
(* What the sequence operations of a stream do to sequences of ids.        *)
(***************************************************************************)
LEMMA IdsOf ==
    /\ Ids \subseteq Nat /\ <<>> \in Seq(Ids) /\ Len(<<>>) = 0
    /\ \A s \in Seq(Ids) : /\ Len(s) \in Nat /\ F!LastId(s) \in 0 .. MaxEvents
                           /\ \A id \in Ids : Append(s, id) \in Seq(Ids)
                           /\ s # <<>> => Head(s) \in Ids /\ Tail(s) \in Seq(Ids)
                                          /\ Len(Tail(s)) = Len(s) - 1
                           /\ Range(s) \subseteq Ids
    /\ \A s, t \in Seq(Ids) : s \o t \in Seq(Ids)
  <1>1. Ids \subseteq Nat /\ MaxEvents \in Nat
    BY BoundAssumption DEF Ids
  <1>2. ASSUME NEW s \in Seq(Ids) PROVE F!LastId(s) \in 0 .. MaxEvents /\ Range(s) \subseteq Ids
    BY <1>1, <1>2 DEF F!LastId, Range, Ids
  <1> QED
    BY <1>1, <1>2

(***************************************************************************)
(* The ring never keeps more than its capacity.                            *)
(***************************************************************************)
LEMMA KeptFits ==
    ASSUME NEW s \in Seq(Ids)
    PROVE  Kept(s) \in Seq(Ids) /\ Len(Kept(s)) <= Capacity
  <1>1. CASE Len(s) <= Capacity
    BY <1>1 DEF Kept
  <1>2. CASE ~(Len(s) <= Capacity)
    <2> DEFINE first == Len(s) - Capacity + 1
    <2>1. /\ Len(s) \in Nat /\ Capacity \in Nat /\ first \in 1 .. Len(s) + 1
          /\ Kept(s) = SubSeq(s, first, Len(s))
      BY <1>2, BoundAssumption DEF Kept
    <2>2. /\ SubSeq(s, first, Len(s)) \in Seq(Ids)
          /\ Len(SubSeq(s, first, Len(s))) = Len(s) - first + 1
      BY <2>1
    <2> QED
      BY <2>1, <2>2
  <1> QED
    BY <1>1, <1>2

(***************************************************************************)
(* The rows of a query are ids, and lead no further than the outbox.       *)
(***************************************************************************)
LEMMA RowsFit ==
    ASSUME StreamInv, TypeOK, NEW c \in Clients, phase[c] # "closed"
    PROVE  Rows(c) \in Seq(Ids) /\ cursor[c] + Len(Rows(c)) \in 0 .. MaxEvents
  <1>1. cursor[c] <= committed /\ cursor[c] \in Nat /\ committed \in 0 .. MaxEvents
    BY DEF StreamInv, StreamType, Ordered, TypeOK
  <1>2. /\ Rows(c) \in Seq(Nat) /\ Beyond(Rows(c), cursor[c])
        /\ UpTo(Rows(c), cursor[c] + Len(Rows(c))) /\ cursor[c] + Len(Rows(c)) <= committed
    BY <1>1, RowsOK DEF StreamInv
  <1> DEFINE rows == Rows(c)
  <1> HIDE DEF rows
  <1>3. rows \in Seq(Nat) /\ \A k \in 1 .. Len(rows) : rows[k] \in Ids
    BY <1>1, <1>2, BoundAssumption DEF rows, Beyond, UpTo, Ids
  <1>4. rows \in Seq(Ids)
    BY <1>3
  <1> QED
    BY <1>1, <1>2, <1>4, BoundAssumption DEF rows

(***************************************************************************)
(* Every step keeps the types: the outbox bounds all ids that travel.      *)
(***************************************************************************)
LEMMA BoundedStep == StreamInv /\ TypeOK /\ [Next]_vars => TypeOK'
  <1> SUFFICES ASSUME StreamInv, TypeOK, [Next]_vars PROVE TypeOK'
    OBVIOUS
  <1>0. /\ MaxEvents \in Nat /\ MaxFailures \in Nat /\ Capacity \in Nat /\ 0 <= Capacity
        /\ 0 \in 0 .. MaxEvents
    BY BoundAssumption
  <1>f. Fail => failures' \in 0 .. MaxFailures
    BY <1>0 DEF Fail, TypeOK
  <1>1. CASE Commit
    <2>1. committed + 1 \in Ids /\ committed + 1 \in 0 .. MaxEvents
      BY <1>0, <1>1 DEF Commit, TypeOK, Ids
    <2>2. Append(queue, committed + 1) \in Seq(Ids)
      BY <2>1, IdsOf DEF TypeOK
    <2>3. queue' \in Seq(Ids) /\ missed' \in SUBSET Ids
      BY <1>1, <2>1, <2>2 DEF Commit, TypeOK
    <2> QED
      BY <1>1, <2>1, <2>3 DEF Commit, TypeOK
  <1>2. CASE Listen
    BY <1>2 DEF Listen, TypeOK
  <1>3. CASE Disconnect
    BY <1>3, <1>f, IdsOf DEF Disconnect, TypeOK
  <1>4. CASE Deliver
    <2>1. Head(queue) \in Ids /\ Tail(queue) \in Seq(Ids)
      BY <1>4, IdsOf DEF Deliver, TypeOK
    <2>2. \A c \in Clients : /\ Append(buffer[c], Head(queue)) \in Seq(Ids)
                             /\ buffer[c] \in Seq(Ids) /\ Len(buffer[c]) <= Capacity
      BY <2>1, IdsOf DEF TypeOK
    <2>3. \A c \in Clients : buffer'[c] \in Seq(Ids) /\ Len(buffer'[c]) <= Capacity
      BY <1>4, <2>2, KeptFits DEF Deliver
    <2>4. DOMAIN buffer' = Clients /\ buffer' = [c \in Clients |-> buffer'[c]]
      BY <1>4 DEF Deliver
    <2>5. buffer' \in [Clients -> Seq(Ids)]
      BY <2>3, <2>4
    <2>6. lagged' \in [Clients -> BOOLEAN]
      BY <1>4 DEF Deliver, TypeOK
    <2>7. channel' \in {"none", "open", "failing"}
      BY <1>4 DEF Deliver, TypeOK
    <2>8. UNCHANGED <<committed, listening, phase, cursor, orphan, wire, seen, missed, failures>>
          /\ queue' \in Seq(Ids)
      BY <1>4, <2>1 DEF Deliver
    <2> QED
      BY <2>3, <2>5, <2>6, <2>7, <2>8 DEF TypeOK
  <1>5. CASE RemoveChannel
    BY <1>5 DEF RemoveChannel, TypeOK
  <1>6. CASE Restart
    BY <1>0, <1>6, <1>f, IdsOf DEF Restart, TypeOK
  <1>7. ASSUME NEW c \in Clients, End(c)
        PROVE  /\ phase' \in [Clients -> {"closed", "catchup", "waiting"}]
               /\ cursor' \in [Clients -> 0 .. MaxEvents]
               /\ buffer' \in [Clients -> Seq(Ids)]
               /\ \A d \in Clients : Len(buffer'[d]) <= Capacity
               /\ lagged' \in [Clients -> BOOLEAN] /\ orphan' \in [Clients -> BOOLEAN]
    BY <1>0, <1>7, IdsOf DEF End, TypeOK
  <1>8. ASSUME NEW c \in Clients, Connect(c) PROVE TypeOK'
    BY <1>8, IdsOf DEF Connect, TypeOK
  <1>9. ASSUME NEW c \in Clients, CatchUp(c) PROVE TypeOK'
    <2>1. Rows(c) \in Seq(Ids) /\ cursor[c] + Len(Rows(c)) \in 0 .. MaxEvents
      BY <1>9, RowsFit DEF CatchUp
    <2>2. wire[c] \o Rows(c) \in Seq(Ids)
      BY <2>1, IdsOf DEF TypeOK
    <2>3. /\ wire' \in [Clients -> Seq(Ids)] /\ cursor' \in [Clients -> 0 .. MaxEvents]
          /\ phase' \in [Clients -> {"closed", "catchup", "waiting"}]
      BY <1>9, <2>1, <2>2 DEF CatchUp, TypeOK
    <2> QED
      BY <1>9, <2>3 DEF CatchUp, TypeOK
  <1>10. ASSUME NEW c \in Clients, QueryFails(c) PROVE TypeOK'
    BY <1>10, <1>7, <1>f DEF QueryFails, TypeOK
  <1>11. ASSUME NEW c \in Clients, Tick(c) PROVE TypeOK'
    BY <1>11 DEF Tick, TypeOK
  <1>12. ASSUME NEW c \in Clients, Receive(c) PROVE TypeOK'
    <2>0. UNCHANGED <<committed, queue, listening, channel, seen, missed, failures>>
      BY <1>12 DEF Receive
    <2>1. CASE /\ lagged' = [lagged EXCEPT ![c] = FALSE]
               /\ phase' = [phase EXCEPT ![c] = "catchup"]
               /\ UNCHANGED <<cursor, wire, buffer, orphan>>
      BY <2>0, <2>1 DEF TypeOK
    <2>2. ASSUME buffer[c] # <<>>,
                 \/ /\ cursor' = [cursor EXCEPT ![c] = Head(buffer[c])]
                    /\ wire' = [wire EXCEPT ![c] = Append(@, Head(buffer[c]))]
                 \/ UNCHANGED <<cursor, wire>>,
                 buffer' = [buffer EXCEPT ![c] = Tail(@)],
                 phase' = [phase EXCEPT ![c] = "catchup"], UNCHANGED <<lagged, orphan>>
          PROVE  TypeOK'
      <3>1. /\ Head(buffer[c]) \in Ids /\ Head(buffer[c]) \in 0 .. MaxEvents
            /\ Append(wire[c], Head(buffer[c])) \in Seq(Ids)
            /\ Tail(buffer[c]) \in Seq(Ids) /\ Len(Tail(buffer[c])) <= Capacity
        <4>1. buffer[c] \in Seq(Ids) /\ Len(buffer[c]) <= Capacity /\ wire[c] \in Seq(Ids)
          BY DEF TypeOK
        <4>2. Head(buffer[c]) \in Ids /\ Tail(buffer[c]) \in Seq(Ids)
              /\ Len(Tail(buffer[c])) = Len(buffer[c]) - 1 /\ Len(buffer[c]) \in Nat
          BY <2>2, <4>1, IdsOf
        <4> QED
          BY <1>0, <4>1, <4>2, IdsOf DEF Ids
      <3>2. /\ cursor' \in [Clients -> 0 .. MaxEvents] /\ wire' \in [Clients -> Seq(Ids)]
        BY <2>2, <3>1 DEF TypeOK
      <3>3. /\ buffer' \in [Clients -> Seq(Ids)]
            /\ \A d \in Clients : Len(buffer'[d]) <= Capacity
        BY <2>2, <3>1 DEF TypeOK
      <3> QED
        BY <2>0, <2>2, <3>2, <3>3 DEF TypeOK
    <2>3. CASE End(c) /\ UNCHANGED wire
      BY <1>7, <2>0, <2>3 DEF TypeOK
    <2> QED
      BY <1>12, <2>1, <2>2, <2>3 DEF Receive
  <1>13. ASSUME NEW c \in Clients, Browse(c) PROVE TypeOK'
    <2>1. /\ Append(seen[c], Head(wire[c])) \in Seq(Ids) /\ Tail(wire[c]) \in Seq(Ids)
      BY <1>13, IdsOf DEF Browse, TypeOK
    <2> QED
      BY <1>13, <2>1 DEF Browse, TypeOK
  <1>14. ASSUME NEW c \in Clients, Drop(c) PROVE TypeOK'
    BY <1>14, <1>7, <1>f, IdsOf DEF Drop, TypeOK
  <1>15. CASE UNCHANGED vars
    BY <1>15 DEF vars, TypeOK
  <1> QED
    BY <1>1, <1>2, <1>3, <1>4, <1>5, <1>6, <1>8, <1>9, <1>10, <1>11, <1>12, <1>13, <1>14, <1>15
      DEF Next, Server, Stream, Browser

(***************************************************************************)
(* Every state of the stream is well typed; in particular a receiver never *)
(* retains more than the channel's capacity, and no cursor, notification   *)
(* or browser is ahead of the outbox.                                      *)
(***************************************************************************)
THEOREM StreamTypes == Spec => []TypeOK
  <1>1. Init => TypeOK
    <2> SUFFICES ASSUME Init PROVE TypeOK
      OBVIOUS
    <2>1. 0 \in 0 .. MaxEvents /\ 0 \in 0 .. MaxFailures /\ 0 <= Capacity
      BY BoundAssumption
    <2>2. /\ buffer \in [Clients -> Seq(Ids)] /\ wire \in [Clients -> Seq(Ids)]
          /\ seen \in [Clients -> Seq(Ids)] /\ queue \in Seq(Ids)
          /\ \A c \in Clients : Len(buffer[c]) <= Capacity
      BY <2>1, IdsOf DEF Init, F!FeedInit
    <2> QED
      BY <2>1, <2>2 DEF Init, F!FeedInit, TypeOK
  <1> QED
    BY <1>1, BoundedStep, StreamInit, StreamStep, PTL DEF Spec
=============================================================================
