--------------------------- MODULE AccountsProofs ---------------------------
(***************************************************************************)
(* Proofs about accounts, for any number of accounts, processes, handlers, *)
(* tokens, requests and failures.                                          *)
(***************************************************************************)
EXTENDS Accounts, FiniteSetTheorems, TLAPS

\* Calls a token, or the id of a request, is kept for
Rotating == {c \in Calls : step[c] = "rotate"}
Applying == {c \in Calls : step[c] \in {"lock account", "insert"}}

Kept ==
    /\ Cardinality(Rotating) <= Cardinality(Unissued)
    /\ Cardinality(Applying) <= Cardinality(Unfiled)

\* What each call is about
Cast ==
    \A c \in Calls :
        /\ step[c] \in {"rotate", "lock account", "insert"} => subject[c] \in Accounts
        /\ step[c] \in {"lock to approve", "lock to reject", "approve"} =>
              subject[c] \in Requests
        /\ step[c] = "put" => subject[c] \in Tokens

\* One call at a time approves a request, which is pending until it commits
Deciding ==
    \A c \in Calls : step[c] = "approve" =>
        /\ request[subject[c]].status = "pending"
        /\ \A d \in Calls : step[d] = "approve" /\ subject[d] = subject[c] => d = c

Base == TypeOK /\ Cast /\ Kept /\ Deciding

-----------------------------------------------------------------------------
(***************************************************************************)
(* Counting.                                                               *)
(***************************************************************************)

\* What is kept for a call is there.
LEMMA Remaining ==
    ASSUME NEW S, IsFiniteSet(S), NEW T, IsFiniteSet(T),
           Cardinality(T) <= Cardinality(S), T # {}
    PROVE  S # {}
<1>1. Cardinality(T) \in Nat /\ Cardinality(T) # 0
  BY FS_EmptySet, FS_CardinalityType
<1>2. Cardinality({}) = 0
  BY FS_EmptySet
<1> QED  BY <1>1, <1>2

\* Taking one, and the call it was kept for, leaves enough for the others.
LEMMA TakeOne ==
    ASSUME NEW S, IsFiniteSet(S), NEW T, IsFiniteSet(T),
           Cardinality(T) <= Cardinality(S), NEW s \in S, NEW t \in T
    PROVE  Cardinality(T \ {t}) <= Cardinality(S \ {s})
<1>1. Cardinality(T) \in Nat /\ Cardinality(S) \in Nat
  BY FS_CardinalityType
<1>2. Cardinality(T \ {t}) = Cardinality(T) - 1
  BY FS_RemoveElement
<1>3. Cardinality(S \ {s}) = Cardinality(S) - 1
  BY FS_RemoveElement
<1> QED  BY <1>1, <1>2, <1>3

\* Taking one that is kept for no call leaves enough.
LEMMA TakeSpare ==
    ASSUME NEW S, IsFiniteSet(S), NEW T, IsFiniteSet(T),
           Cardinality(S) > Cardinality(T), NEW s \in S
    PROVE  Cardinality(T) <= Cardinality(S \ {s})
<1>1. Cardinality(T) \in Nat /\ Cardinality(S) \in Nat
  BY FS_CardinalityType
<1>2. Cardinality(S \ {s}) = Cardinality(S) - 1
  BY FS_RemoveElement
<1> QED  BY <1>1, <1>2

\* One more call may come while one is spare.
LEMMA OneMore ==
    ASSUME NEW S, IsFiniteSet(S), NEW T, IsFiniteSet(T),
           Cardinality(S) > Cardinality(T), NEW t
    PROVE  Cardinality(T \cup {t}) <= Cardinality(S)
<1>1. Cardinality(T) \in Nat /\ Cardinality(S) \in Nat
  BY FS_CardinalityType
<1>2. Cardinality(T \cup {t}) \in {Cardinality(T), Cardinality(T) + 1}
  BY FS_AddElement
<1> QED  BY <1>1, <1>2

\* Fewer calls need fewer.
LEMMA Fewer ==
    ASSUME NEW S, IsFiniteSet(S), NEW T, IsFiniteSet(T),
           Cardinality(T) <= Cardinality(S), NEW U \in SUBSET T
    PROVE  Cardinality(U) <= Cardinality(S)
<1>1. IsFiniteSet(U) /\ Cardinality(U) <= Cardinality(T)
  BY FS_Subset
<1>2. /\ Cardinality(T) \in Nat /\ Cardinality(S) \in Nat
      /\ Cardinality(U) \in Nat
  BY <1>1, FS_CardinalityType
<1> QED  BY <1>1, <1>2

\* The counted sets are finite.
LEMMA Finite ==
    /\ IsFiniteSet(Rotating) /\ IsFiniteSet(Applying)
    /\ IsFiniteSet(Unissued) /\ IsFiniteSet(Unfiled) /\ IsFiniteSet(Ungranted)
    /\ IsFiniteSet({a \in Accounts : role[a] # "absent"})
<1>1. Rotating \in SUBSET Calls /\ Applying \in SUBSET Calls
  BY DEF Rotating, Applying
<1>2. Unissued \in SUBSET Tokens /\ Unfiled \in SUBSET Requests
  BY DEF Unissued, Unfiled
<1>3. Ungranted \in SUBSET Accounts /\ {a \in Accounts : role[a] # "absent"} \in SUBSET Accounts
  BY DEF Ungranted, Accounts
<1> QED  BY <1>1, <1>2, <1>3, FS_Subset, AccountsAssumption

-----------------------------------------------------------------------------
(***************************************************************************)
(* Steps of a call.                                                        *)
(***************************************************************************)

\* random_token: a token never issued before, which an account then has.
LEMMA FreshToken ==
    ASSUME TypeOK, Unissued # {}
    PROVE  Fresh \in Tokens /\ owner[Fresh] = Nobody
<1>1. Fresh \in Unissued
  BY DEF Fresh
<1> QED  BY <1>1 DEF Unissued

\* Issuing takes one of the unissued tokens.
LEMMA IssuedToken ==
    ASSUME TypeOK, Unissued # {}, NEW a \in Accounts, Issued(a)
    PROVE  /\ token' \in [Accounts -> Tokens \cup {Discarded}]
           /\ owner' \in [Tokens -> Accounts \cup {Nobody}]
           /\ Fresh \in Unissued /\ Unissued' = Unissued \ {Fresh}
<1>1. Fresh \in Tokens /\ owner[Fresh] = Nobody
  BY FreshToken
<1>2. a # Nobody
  BY AccountsAssumption
<1> QED  BY <1>1, <1>2 DEF TypeOK, Issued, Unissued

\* A handler that returns is idle, about nothing.
LEMMA Returned ==
    ASSUME Base, NEW c \in Calls, Return(c)
    PROVE  /\ step' \in [Calls -> Steps]
           /\ subject' \in [Calls -> Accounts \cup Tokens \cup Requests \cup {Nobody}]
           /\ previous' \in [Calls -> Tokens \cup {Discarded}]
           /\ Cast'
           /\ Rotating' = Rotating \ {c} /\ Applying' = Applying \ {c}
BY DEF Base, TypeOK, Steps, Return, Cast, Rotating, Applying

\* While only calls return, what is kept stays enough.
LEMMA KeptFewer ==
    ASSUME Base, Rotating' \in SUBSET Rotating, Applying' \in SUBSET Applying,
           Unissued' = Unissued, Unfiled' = Unfiled
    PROVE  Kept'
BY Finite, Fewer DEF Base, Kept

-----------------------------------------------------------------------------
(***************************************************************************)
(* Every step keeps the types, what calls are about, and what they need.   *)
(***************************************************************************)

\* A database without accounts.
LEMMA BaseInit == Init => Base
<1> SUFFICES ASSUME Init PROVE Base
  OBVIOUS
<1>1. TypeOK /\ Cast /\ Deciding
  BY AccountsAssumption DEF Init, TypeOK, Cast, Deciding, Steps, Statuses
<1>2. Rotating = {} /\ Applying = {}
  BY DEF Init, Rotating, Applying
<1>3. Kept
  <2>1. Cardinality(Unissued) \in Nat /\ Cardinality(Unfiled) \in Nat
    BY Finite, FS_CardinalityType
  <2>2. Cardinality(Rotating) = 0 /\ Cardinality(Applying) = 0
    BY <1>2, FS_EmptySet
  <2> QED  BY <2>1, <2>2 DEF Kept
<1> QED  BY <1>1, <1>3 DEF Base

\* bootstrap seeds accounts and pays what the treasury has.
LEMMA StartBase ==
    ASSUME Base, NEW p \in Procs, Start(p)
    PROVE  Base'
<1>1. Cardinality(Ungranted) \in Nat
  BY Finite, FS_CardinalityType
<1>2. budget' \in 0 .. Budget
  BY <1>1, AccountsAssumption DEF Base, TypeOK, Start
<1>3. /\ role' \in [Accounts -> Roles \cup {"absent"}]
      /\ grants' \in [Accounts -> Nat] /\ up' \subseteq Procs
  BY AccountsAssumption DEF Base, TypeOK, Start, Roles, Ungranted
<1>4. UNCHANGED <<token, owner, request, cache, step, subject, previous, evictor, failures>>
  BY DEF Start, callVars
<1>5. TypeOK' /\ Cast' /\ Deciding'
  BY <1>2, <1>3, <1>4 DEF Base, TypeOK, Cast, Deciding
<1>6. Kept'
  BY <1>4 DEF Base, Kept, Rotating, Applying, Unissued, Unfiled
<1> QED  BY <1>5, <1>6 DEF Base

\* The calls of a process that dies are gone.
LEMMA CrashBase ==
    ASSUME Base, NEW p \in Procs, Crash(p)
    PROVE  Base'
<1>1. UNCHANGED <<role, token, owner, budget, grants, request, evictor>>
  BY DEF Crash, accountVars
<1>2. TypeOK'
  <2>1. failures' \in 0 .. MaxFailures
    BY AccountsAssumption DEF Base, TypeOK, Crash, Fails
  <2>2. step' \in [Calls -> Steps] /\ cache' \in [Procs -> SUBSET Tokens]
    BY DEF Base, TypeOK, Crash, Steps
  <2>3. /\ subject' \in [Calls -> Accounts \cup Tokens \cup Requests \cup {Nobody}]
        /\ previous' \in [Calls -> Tokens \cup {Discarded}]
    BY DEF Base, TypeOK, Crash
  <2> QED  BY <1>1, <2>1, <2>2, <2>3 DEF Base, TypeOK, Crash
<1>3. Cast' /\ Deciding'
  BY <1>1 DEF Base, TypeOK, Cast, Deciding, Crash
<1>4. Kept'
  BY <1>1, KeptFewer DEF Base, Crash, Rotating, Applying, Unissued, Unfiled
<1> QED  BY <1>2, <1>3, <1>4 DEF Base

\* Registration takes a token that no login in flight needs.
LEMMA RegisterBase ==
    ASSUME Base, NEW a \in Accounts, Register(a)
    PROVE  Base'
<1>1. /\ UNCHANGED <<up, request, cache, step, subject, previous, evictor, failures>>
      /\ Issued(a)
  BY DEF Register, callVars
<1>2. Cardinality(Unissued) > Cardinality(Rotating)
  BY DEF Register, TokensLeft, Rotating
<1>3. Unissued # {}
  <2>1. Cardinality(Rotating) \in Nat /\ Cardinality({}) = 0
    BY Finite, FS_CardinalityType, FS_EmptySet
  <2> QED  BY <1>2, <2>1
<1>4. /\ token' \in [Accounts -> Tokens \cup {Discarded}]
      /\ owner' \in [Tokens -> Accounts \cup {Nobody}]
      /\ Fresh \in Unissued /\ Unissued' = Unissued \ {Fresh}
  BY <1>1, <1>3, IssuedToken DEF Base
<1>5. TypeOK' /\ Cast' /\ Deciding'
  <2>1. /\ role' \in [Accounts -> Roles \cup {"absent"}] /\ budget' \in 0 .. Budget
        /\ grants' \in [Accounts -> Nat]
    BY AccountsAssumption DEF Base, TypeOK, Register, Roles
  <2> QED  BY <1>1, <1>4, <2>1 DEF Base, TypeOK, Cast, Deciding
<1>6. Kept'
  <2>1. Rotating' = Rotating /\ Applying' = Applying /\ Unfiled' = Unfiled
    BY <1>1 DEF Rotating, Applying, Unfiled
  <2> QED  BY <1>2, <1>4, <2>1, Finite, TakeSpare DEF Base, Kept
<1> QED  BY <1>5, <1>6 DEF Base

\* A login, a lookup, an application or a decision begins.
LEMMA ArriveBase ==
    ASSUME Base, NEW c \in Calls, Arrive(c)
    PROVE  Base'
<1>1. UNCHANGED <<up, role, token, owner, budget, grants, request, cache, evictor, failures>>
  BY DEF Arrive, ReadAccount, BeginApply, LookUp, BeginDecide, accountVars
<1>2. PICK next \in Steps \ {"idle"}, about \in Accounts \cup Tokens \cup Requests :
        /\ Begin(c, next, about)
        /\ \/ next = "rotate" /\ about \in Accounts /\ TokensLeft
           \/ next = "lock account" /\ about \in Accounts /\ RequestsLeft
           \/ next = "put" /\ about \in Tokens
           \/ next \in {"lock to approve", "lock to reject"} /\ about \in Requests
  BY DEF Arrive, ReadAccount, BeginApply, LookUp, BeginDecide, Steps
<1>3. /\ step' = [step EXCEPT ![c] = next] /\ subject' = [subject EXCEPT ![c] = about]
      /\ step[c] = "idle"
      /\ previous' \in [Calls -> Tokens \cup {Discarded}]
  BY <1>2 DEF Begin, Base, TypeOK
<1>4. TypeOK' /\ Cast' /\ Deciding'
  BY <1>1, <1>2, <1>3 DEF Base, TypeOK, Cast, Deciding
<1>5. Unissued' = Unissued /\ Unfiled' = Unfiled
  BY <1>1 DEF Unissued, Unfiled
<1>6. CASE next = "rotate"
  <2>1. Rotating' = Rotating \cup {c} /\ Applying' = Applying
    BY <1>3, <1>6 DEF Base, TypeOK, Rotating, Applying
  <2>2. Cardinality(Unissued) > Cardinality(Rotating)
    BY <1>2, <1>6 DEF TokensLeft, Rotating
  <2> QED  BY <1>4, <1>5, <2>1, <2>2, Finite, OneMore DEF Base, Kept
<1>7. CASE next = "lock account"
  <2>1. Rotating' = Rotating /\ Applying' = Applying \cup {c}
    BY <1>3, <1>7 DEF Base, TypeOK, Rotating, Applying
  <2>2. Cardinality(Unfiled) > Cardinality(Applying)
    BY <1>2, <1>7 DEF RequestsLeft, Applying
  <2> QED  BY <1>4, <1>5, <2>1, <2>2, Finite, OneMore DEF Base, Kept
<1>8. CASE next \notin {"rotate", "lock account"}
  <2>1. Rotating' = Rotating /\ Applying' = Applying
    BY <1>2, <1>3, <1>8 DEF Base, TypeOK, Rotating, Applying
  <2> QED  BY <1>4, <1>5, <2>1, KeptFewer DEF Base
<1> QED  BY <1>6, <1>7, <1>8

\* login: the token it needs is there, and the call needs none afterwards.
LEMMA RotateBase ==
    ASSUME Base, NEW c \in Calls, Rotate(c)
    PROVE  /\ Base'
           /\ Fresh \in Tokens /\ owner[Fresh] = Nobody
<1>1. /\ c \in Rotating /\ subject[c] \in Accounts
      /\ step' = [step EXCEPT ![c] = "evict"] /\ UNCHANGED <<subject, previous>>
      /\ UNCHANGED <<up, role, budget, grants, request, cache, failures>>
      /\ Issued(subject[c])
  BY DEF Rotate, At, Rotating, Base, Cast, Goto
<1>2. Cardinality(Rotating) <= Cardinality(Unissued)
  BY DEF Base, Kept
<1>3. Unissued # {}
  BY <1>1, <1>2, Finite, Remaining
<1>4. /\ token' \in [Accounts -> Tokens \cup {Discarded}]
      /\ owner' \in [Tokens -> Accounts \cup {Nobody}]
      /\ Fresh \in Unissued /\ Unissued' = Unissued \ {Fresh}
  BY <1>1, <1>3, IssuedToken DEF Base
<1>5. evictor' \in [Tokens -> Procs \cup {Nobody}]
  BY AccountsAssumption DEF Rotate, Base, TypeOK
<1>6. TypeOK' /\ Cast' /\ Deciding'
  BY <1>1, <1>4, <1>5 DEF Base, TypeOK, Cast, Deciding, Steps
<1>7. Kept'
  <2>1. Rotating' = Rotating \ {c} /\ Applying' = Applying
    BY <1>1 DEF Base, TypeOK, Rotating, Applying
  <2>2. Unfiled' = Unfiled
    BY <1>1 DEF Unfiled
  <2> QED  BY <1>1, <1>2, <1>4, <2>1, <2>2, Finite, TakeOne DEF Base, Kept
<1> QED  BY <1>3, <1>6, <1>7, FreshToken DEF Base

\* Calls that return, and touch neither tokens nor requests.
LEMMA ReturnBase ==
    ASSUME Base, NEW c \in Calls, Return(c),
           UNCHANGED <<up, accountVars, request, failures>>,
           cache' \in [Procs -> SUBSET Tokens],
           evictor' \in [Tokens -> Procs \cup {Nobody}]
    PROVE  Base'
<1>1. TypeOK' /\ Cast'
  BY Returned DEF Base, TypeOK, accountVars
<1>2. Deciding'
  BY DEF Base, TypeOK, Deciding, Return
<1>3. Kept'
  BY Returned, KeptFewer DEF accountVars, Unissued, Unfiled
<1> QED  BY <1>1, <1>2, <1>3 DEF Base

\* create_verification_request goes on, or has nothing to do.
LEMMA LockAccountBase ==
    ASSUME Base, NEW c \in Calls, LockAccount(c)
    PROVE  Base'
<1>1. /\ UNCHANGED <<up, accountVars, request, cache, evictor, failures>>
      /\ step[c] = "lock account"
  BY DEF LockAccount, At
<1>2. CASE Return(c)
  BY <1>1, <1>2, ReturnBase DEF Base, TypeOK
<1>3. CASE Goto(c, "insert")
  <2>1. step' = [step EXCEPT ![c] = "insert"] /\ UNCHANGED <<subject, previous>>
    BY <1>3 DEF Goto
  <2>2. TypeOK' /\ Cast' /\ Deciding'
    BY <1>1, <2>1 DEF Base, TypeOK, Cast, Deciding, Steps, accountVars
  <2>3. Rotating' = Rotating /\ Applying' = Applying
    BY <1>1, <2>1 DEF Base, TypeOK, Rotating, Applying
  <2>4. Kept'
    BY <1>1, <2>3, KeptFewer DEF accountVars, Unissued, Unfiled
  <2> QED  BY <2>2, <2>4 DEF Base
<1> QED  BY <1>2, <1>3 DEF LockAccount

\* An application takes the id that was kept for it, if it takes one.
LEMMA InsertBase ==
    ASSUME Base, NEW c \in Calls, InsertRequest(c)
    PROVE  /\ Base'
           /\ \/ request' = request
              \/ \E q \in Unfiled :
                    /\ request' = [request EXCEPT ![q] =
                                      [account |-> subject[c], status |-> "pending"]]
                    /\ PendingOf(subject[c]) = {}
<1>1. /\ c \in Applying /\ subject[c] \in Accounts /\ Return(c)
      /\ UNCHANGED <<up, accountVars, cache, evictor, failures>>
  BY DEF InsertRequest, At, Applying, Base, Cast
<1>2. CASE request' = request
  BY <1>1, <1>2, ReturnBase DEF Base, TypeOK
<1>3. CASE request' # request
  <2> DEFINE q == CHOOSE r \in Unfiled : TRUE
             filed == [account |-> subject[c], status |-> "pending"]
  <2>1. Cardinality(Applying) <= Cardinality(Unfiled)
    BY DEF Base, Kept
  <2>2. q \in Unfiled
    BY <1>1, <2>1, Finite, Remaining
  <2>3. request' = [request EXCEPT ![q] = filed] /\ PendingOf(subject[c]) = {}
    BY <1>3 DEF InsertRequest
  <2> HIDE DEF q
  <2>4. /\ q \in Requests /\ filed \in [account : Accounts \cup {Nobody}, status : Statuses]
        /\ request[q].status = "unfiled"
    BY <1>1, <2>2 DEF Unfiled, Statuses
  <2>5. request' \in [Requests -> [account : Accounts \cup {Nobody}, status : Statuses]]
    BY <2>3, <2>4 DEF Base, TypeOK
  <2>6. TypeOK' /\ Cast'
    BY <1>1, <2>5, Returned DEF Base, TypeOK, accountVars
  <2>7. Deciding'
    BY <1>1, <2>3, <2>4 DEF Base, TypeOK, Cast, Deciding, Return
  <2>8. Unfiled' = Unfiled \ {q} /\ Unissued' = Unissued
    BY <1>1, <2>3, <2>4 DEF Unfiled, Unissued, accountVars, Base, TypeOK
  <2>9. Kept'
    BY <1>1, <2>1, <2>2, <2>8, Finite, TakeOne, Fewer, Returned DEF Base, Kept
  <2> QED  BY <2>2, <2>3, <2>6, <2>7, <2>9 DEF Base
<1> QED  BY <1>2, <1>3

\* A pending request gets another status: the ids left stay the same.
LEMMA StatusType ==
    ASSUME Base, NEW q \in Requests, request[q].status # "unfiled",
           NEW status \in Statuses \ {"unfiled"},
           request' = [request EXCEPT ![q].status = status]
    PROVE  /\ request' \in [Requests -> [account : Accounts \cup {Nobody}, status : Statuses]]
           /\ Unfiled' = Unfiled
BY DEF Base, TypeOK, Unfiled

\* decide_verification_request locks a request that is not being decided.
LEMMA LockRequestBase ==
    ASSUME Base, NEW c \in Calls, LockRequest(c)
    PROVE  Base'
<1> DEFINE q == subject[c]
<1>1. /\ UNCHANGED <<up, accountVars, cache, evictor, failures>>
      /\ step[c] \in {"lock to approve", "lock to reject"} /\ q \in Requests
      /\ ~RequestHeld(q)
  BY DEF LockRequest, At, Base, Cast
<1>2. CASE Return(c) /\ UNCHANGED request
  BY <1>1, <1>2, ReturnBase DEF Base, TypeOK
<1>3. CASE request[q].status = "pending" /\ Goto(c, "approve") /\ UNCHANGED request
  <2>1. step' = [step EXCEPT ![c] = "approve"] /\ UNCHANGED <<subject, previous>>
    BY <1>3 DEF Goto
  <2>2. TypeOK' /\ Cast' /\ Deciding'
    BY <1>1, <1>3, <2>1 DEF Base, TypeOK, Cast, Deciding, Steps, accountVars, RequestHeld
  <2>3. Rotating' = Rotating /\ Applying' = Applying
    BY <1>1, <2>1 DEF Base, TypeOK, Rotating, Applying
  <2>4. Kept'
    BY <1>1, <1>3, <2>3, KeptFewer DEF accountVars, Unissued, Unfiled
  <2> QED  BY <2>2, <2>4 DEF Base
<1>4. CASE /\ request[q].status = "pending" /\ Return(c)
           /\ request' = [request EXCEPT ![q].status = "rejected"]
  <2>1. /\ request' \in [Requests -> [account : Accounts \cup {Nobody}, status : Statuses]]
        /\ Unfiled' = Unfiled
    <3>1. "rejected" \in Statuses \ {"unfiled"} /\ request[q].status # "unfiled"
      BY <1>4 DEF Statuses
    <3> HIDE DEF q
    <3> QED  BY <1>1, <1>4, <3>1, StatusType
  <2>2. TypeOK' /\ Cast'
    BY <1>1, <1>4, <2>1, Returned DEF Base, TypeOK, accountVars
  <2>3. Deciding'
    BY <1>1, <1>4 DEF Base, TypeOK, Cast, Deciding, Return, RequestHeld
  <2>4. Kept'
    BY <1>1, <1>4, <2>1, Returned, KeptFewer DEF accountVars, Unissued
  <2> QED  BY <2>2, <2>3, <2>4 DEF Base
<1> QED  BY <1>2, <1>3, <1>4 DEF LockRequest

\* An approval commits, or finds that the requester is no member.
LEMMA ApproveBase ==
    ASSUME Base, NEW c \in Calls, Approve(c)
    PROVE  Base'
<1> DEFINE q == subject[c]
           a == request[q].account
<1>1. /\ UNCHANGED <<up, token, owner, budget, grants, cache, evictor, failures>>
      /\ step[c] = "approve" /\ q \in Requests /\ request[q].status = "pending" /\ Return(c)
  BY DEF Approve, At, Base, Cast, Deciding
<1>2. CASE UNCHANGED <<role, request>>
  BY <1>1, <1>2, ReturnBase DEF Base, TypeOK, accountVars
<1>3. CASE /\ role' = [role EXCEPT ![a] = "creator"]
           /\ request' = [request EXCEPT ![q].status = "approved"]
  <2>1. /\ request' \in [Requests -> [account : Accounts \cup {Nobody}, status : Statuses]]
        /\ Unfiled' = Unfiled
    BY <1>1, <1>3, StatusType DEF Statuses
  <2>2. role' \in [Accounts -> Roles \cup {"absent"}]
    BY <1>3 DEF Base, TypeOK, Roles
  <2>3. TypeOK' /\ Cast'
    BY <1>1, <2>1, <2>2, Returned DEF Base, TypeOK
  <2>4. Deciding'
    BY <1>1, <1>3 DEF Base, TypeOK, Cast, Deciding, Return
  <2>5. Kept'
    BY <1>1, <2>1, Returned, KeptFewer DEF Unissued
  <2> QED  BY <2>3, <2>4, <2>5 DEF Base
<1> QED  BY <1>2, <1>3 DEF Approve

\* A client that disconnects ends its call.
LEMMA DisconnectBase ==
    ASSUME Base, NEW c \in Calls, Disconnect(c)
    PROVE  Base'
<1>1. /\ UNCHANGED <<up, accountVars, request, cache>> /\ Return(c)
      /\ failures' \in 0 .. MaxFailures
  BY AccountsAssumption DEF Disconnect, Fails, Base, TypeOK
<1>2. evictor' \in [Tokens -> Procs \cup {Nobody}]
  BY DEF Disconnect, Base, TypeOK
<1>3. TypeOK' /\ Cast'
  BY <1>1, <1>2, Returned DEF Base, TypeOK, accountVars
<1>4. Deciding'
  BY <1>1 DEF Base, TypeOK, Deciding, Return
<1>5. Kept'
  BY <1>1, Returned, KeptFewer DEF accountVars, Unissued, Unfiled
<1> QED  BY <1>3, <1>4, <1>5 DEF Base

\* Every step of processes, calls and clients keeps the base invariant.
LEMMA BaseStep == Base /\ [Next]_vars => Base'
<1> SUFFICES ASSUME Base, [Next]_vars PROVE Base'
  OBVIOUS
<1>1. ASSUME NEW c \in Calls, Evict(c) PROVE Base'
  <2>1. cache' \in [Procs -> SUBSET Tokens]
    BY <1>1 DEF Evict, Base, TypeOK
  <2> QED  BY <1>1, <2>1, ReturnBase DEF Evict, Base, TypeOK
<1>2. ASSUME NEW c \in Calls, Put(c) PROVE Base'
  <2>1. subject[c] \in Tokens
    BY <1>2 DEF Put, At, Base, Cast
  <2>2. cache' \in [Procs -> SUBSET Tokens]
    BY <1>2, <2>1, AccountsAssumption DEF Put, Base, TypeOK
  <2> QED  BY <1>2, <2>2, ReturnBase DEF Put, Base, TypeOK
<1>3. ASSUME NEW c \in Calls, Expire(c) PROVE Base'
  BY <1>3, ReturnBase DEF Expire, Base, TypeOK
<1>4. CASE UNCHANGED vars
  BY <1>4 DEF vars, accountVars, callVars, Base, TypeOK, Cast, Kept, Deciding, Rotating,
              Applying, Unissued, Unfiled
<1> QED
  BY <1>1, <1>2, <1>3, <1>4, StartBase, CrashBase, RegisterBase, ArriveBase, RotateBase,
     LockAccountBase, InsertBase, LockRequestBase, ApproveBase, DisconnectBase
    DEF Next, Continue

(***************************************************************************)
(* Accounts, tokens and requests keep their types; in particular there is  *)
(* always the token and the id that a call which got so far takes.         *)
(***************************************************************************)
THEOREM AccountsTypeCorrect == Spec => [](TypeOK /\ Kept)
<1>1. Base => TypeOK /\ Kept
  BY DEF Base
<1> QED  BY <1>1, BaseInit, BaseStep, PTL DEF Spec

-----------------------------------------------------------------------------
(***************************************************************************)
(* Welcome gifts: GrantedOnce is inductive given the types.                *)
(***************************************************************************)

Registered == {a \in Accounts : role[a] # "absent"}

\* No step but seeding, registering and approving touches roles or gifts.
LEMMA GrantUnchanged ==
    ASSUME GrantedOnce, UNCHANGED <<role, budget, grants>>
    PROVE  GrantedOnce'
BY DEF GrantedOnce

\* A start pays the seeded accounts that have no row yet, and only those.
LEMMA StartGrants ==
    ASSUME Base, GrantedOnce, NEW p \in Procs, Start(p)
    PROVE  GrantedOnce'
<1>1. Ungranted = {a \in SeededAccounts : role[a] = "absent"} /\ Ungranted \subseteq Accounts
  BY DEF Ungranted, GrantedOnce, Accounts
<1>2. \A a \in Accounts : role'[a] # "absent" <=> role[a] # "absent" \/ a \in Ungranted
  <2>1. \A a \in SeededAccounts : Seeded[a] # "absent"
    BY AccountsAssumption
  <2> QED  BY <1>1, <2>1 DEF Start
<1>3. \A a \in Accounts : grants'[a] = IF role'[a] = "absent" THEN 0 ELSE 1
  BY <1>1, <1>2 DEF Start, GrantedOnce
<1>4. Registered' = Registered \cup Ungranted /\ Registered \cap Ungranted = {}
  BY <1>1, <1>2 DEF Registered
<1>5. /\ Cardinality(Registered') = Cardinality(Registered) + Cardinality(Ungranted)
      /\ Cardinality(Registered) \in Nat /\ Cardinality(Ungranted) \in Nat
  <2>1. IsFiniteSet(Registered) /\ IsFiniteSet(Ungranted)
    BY Finite DEF Registered
  <2>2. Cardinality(Registered') = Cardinality(Registered) + Cardinality(Ungranted)
                                    - Cardinality(Registered \cap Ungranted)
    BY <1>4, <2>1, FS_Union
  <2>3. Cardinality(Registered \cap Ungranted) = 0
    BY <1>4, FS_EmptySet
  <2> QED  BY <2>1, <2>2, <2>3, FS_CardinalityType
<1>6. budget \in Int /\ Budget \in Int /\ budget' = budget - Cardinality(Ungranted)
  BY AccountsAssumption DEF Base, TypeOK, Start
<1>7. budget + Cardinality(Registered) = Budget
  BY DEF GrantedOnce, Registered
<1>8. budget' + Cardinality(Registered') = Budget
  BY <1>5, <1>6, <1>7
<1> QED  BY <1>3, <1>8 DEF GrantedOnce, Registered

\* A registration pays one gift.
LEMMA RegisterGrants ==
    ASSUME Base, GrantedOnce, NEW a \in Accounts, Register(a)
    PROVE  GrantedOnce'
<1>1. \A b \in Accounts : role'[b] # "absent" <=> role[b] # "absent" \/ b = a
  BY DEF Register, Base, TypeOK
<1>2. \A b \in Accounts : grants'[b] = IF role'[b] = "absent" THEN 0 ELSE 1
  BY <1>1 DEF Register, GrantedOnce, Base, TypeOK
<1>3. Registered' = Registered \cup {a} /\ a \notin Registered
  BY <1>1 DEF Registered, Register
<1>4. Cardinality(Registered') = Cardinality(Registered) + 1 /\ Cardinality(Registered) \in Nat
  <2>1. IsFiniteSet(Registered)
    BY Finite DEF Registered
  <2> QED  BY <1>3, <2>1, FS_AddElement, FS_CardinalityType
<1>5. budget' = budget - 1 /\ budget \in Int /\ Budget \in Int
  BY AccountsAssumption DEF Register, Base, TypeOK
<1>6. budget + Cardinality(Registered) = Budget
  BY DEF GrantedOnce, Registered
<1>7. budget' + Cardinality(Registered') = Budget
  BY <1>4, <1>5, <1>6
<1> QED  BY <1>2, <1>7 DEF GrantedOnce, Registered

\* A promotion gives nothing.
LEMMA ApproveGrants ==
    ASSUME Base, GrantedOnce, NEW c \in Calls, Approve(c)
    PROVE  GrantedOnce'
<1>1. \A b \in Accounts : role'[b] # "absent" <=> role[b] # "absent"
  BY DEF Approve, Base, TypeOK
<1>2. UNCHANGED <<budget, grants>>
  BY DEF Approve
<1>3. Registered' = Registered
  BY <1>1 DEF Registered
<1> QED  BY <1>1, <1>2, <1>3 DEF GrantedOnce, Registered

\* Every step keeps the books of the welcome gifts.
LEMMA GrantStep == Base /\ GrantedOnce /\ [Next]_vars => GrantedOnce'
<1> SUFFICES ASSUME Base, GrantedOnce, [Next]_vars PROVE GrantedOnce'
  OBVIOUS
<1>1. ASSUME NEW p \in Procs, Crash(p) PROVE GrantedOnce'
  BY <1>1, GrantUnchanged DEF Crash, accountVars
<1>2. ASSUME NEW c \in Calls, Arrive(c) \/ Disconnect(c) PROVE GrantedOnce'
  BY <1>2, GrantUnchanged
    DEF Arrive, ReadAccount, BeginApply, LookUp, BeginDecide, Disconnect, accountVars
<1>3. ASSUME NEW c \in Calls, Continue(c), ~Approve(c) PROVE GrantedOnce'
  BY <1>3, GrantUnchanged
    DEF Continue, Rotate, Evict, Put, LockAccount, InsertRequest, LockRequest, Expire,
        accountVars
<1>4. CASE UNCHANGED vars
  BY <1>4, GrantUnchanged DEF vars, accountVars
<1> QED
  BY <1>1, <1>2, <1>3, <1>4, StartGrants, RegisterGrants, ApproveGrants DEF Next

\* Before the first start nobody was given anything.
LEMMA GrantInit == Init => GrantedOnce
<1> SUFFICES ASSUME Init PROVE GrantedOnce
  OBVIOUS
<1>1. Registered = {}
  BY DEF Init, Registered
<1>2. Cardinality(Registered) = 0 /\ budget = Budget /\ Budget \in Int
  BY <1>1, FS_EmptySet, AccountsAssumption DEF Init
<1> QED  BY <1>2 DEF Init, GrantedOnce, Registered

(***************************************************************************)
(* Store::bootstrap and registration: one gift for each account that there *)
(* is, however often and by how many processes the accounts are seeded.    *)
(***************************************************************************)
THEOREM OneGift == Spec => []GrantedOnce
BY BaseInit, BaseStep, GrantInit, GrantStep, PTL DEF Spec

-----------------------------------------------------------------------------
(***************************************************************************)
(* Verification.  ApprovalIsFinal needs that an application which got past *)
(* its check of the role still holds the account of a member: the approval *)
(* that would change the role waits for the row it has locked.             *)
(***************************************************************************)

Applicants == \A c \in Calls : step[c] = "insert" => role[subject[c]] = "member"

ApprovalInv == ApprovalIsFinal /\ Applicants

\* No step but these changes a role or a request.
LEMMA ApprovalUnchanged ==
    ASSUME ApprovalInv, UNCHANGED <<role, request>>,
           \A c \in Calls : step'[c] = "insert" =>
               step[c] = "insert" /\ subject'[c] = subject[c]
    PROVE  ApprovalInv'
BY DEF ApprovalInv, ApprovalIsFinal, Applicants, PendingOf

\* Roles that change from "absent" alone leave members and creators as they are.
LEMMA ApprovalNewcomers ==
    ASSUME Base, ApprovalInv, UNCHANGED <<request, step, subject>>,
           \A a \in Accounts : role'[a] = role[a] \/ role[a] = "absent",
           \A a \in Registrants : role[a] = "absent" => role'[a] # "creator"
    PROVE  ApprovalInv'
<1>1. ApprovalIsFinal'
  <2>1. Registrants \subseteq Accounts
    BY DEF Accounts
  <2> QED  BY <2>1 DEF ApprovalInv, ApprovalIsFinal, PendingOf
<1>2. Applicants'
  BY DEF ApprovalInv, Applicants, Base, Cast
<1> QED  BY <1>1, <1>2 DEF ApprovalInv

\* A member without a pending request files one.
LEMMA InsertApproval ==
    ASSUME Base, ApprovalInv, NEW c \in Calls, InsertRequest(c)
    PROVE  ApprovalInv'
<1>1. /\ step[c] = "insert" /\ role[subject[c]] = "member" /\ Return(c) /\ role' = role
  BY DEF InsertRequest, At, accountVars, ApprovalInv, Applicants
<1>2. \A d \in Calls : step'[d] = "insert" => step[d] = "insert" /\ subject'[d] = subject[d]
  BY <1>1 DEF Return, Base, TypeOK
<1>3. CASE request' = request
  BY <1>1, <1>2, <1>3, ApprovalUnchanged
<1>4. ASSUME NEW q \in Unfiled, PendingOf(subject[c]) = {},
             request' = [request EXCEPT ![q] = [account |-> subject[c], status |-> "pending"]]
      PROVE  ApprovalInv'
  <2>1. q \in Requests /\ request[q].status = "unfiled"
    BY DEF Unfiled
  <2>2. \A r \in Requests :
           request'[r] = IF r = q THEN [account |-> subject[c], status |-> "pending"]
                         ELSE request[r]
    BY <1>4 DEF Base, TypeOK
  <2>3. ASSUME NEW a \in Registrants
        PROVE  {r \in Requests : request'[r] = [account |-> a, status |-> "approved"]}
                 = {r \in Requests : request[r] = [account |-> a, status |-> "approved"]}
    BY <2>1, <2>2
  <2>4. \A a \in Registrants :
           PendingOf(a)' = IF a = subject[c] THEN {q} ELSE PendingOf(a)
    BY <1>4, <2>1, <2>2 DEF PendingOf
  <2>5. ApprovalIsFinal'
    BY <1>1, <2>3, <2>4 DEF ApprovalInv, ApprovalIsFinal
  <2> QED  BY <1>1, <1>2, <2>5 DEF ApprovalInv, Applicants
<1> QED  BY <1>3, <1>4, InsertBase

\* A rejection takes a request out of the pending ones.
LEMMA LockApproval ==
    ASSUME Base, ApprovalInv, NEW c \in Calls, LockRequest(c)
    PROVE  ApprovalInv'
<1> DEFINE q == subject[c]
<1>1. role' = role /\ step[c] \in {"lock to approve", "lock to reject"}
  BY DEF LockRequest, At, accountVars
<1>2. \A d \in Calls : step'[d] = "insert" => step[d] = "insert" /\ subject'[d] = subject[d]
  BY <1>1 DEF LockRequest, Return, Goto, Base, TypeOK
<1>3. CASE request' = request
  BY <1>1, <1>2, <1>3, ApprovalUnchanged
<1>4. CASE /\ request[q].status = "pending"
           /\ request' = [request EXCEPT ![q].status = "rejected"]
  <2>1. q \in Requests
    BY <1>1 DEF Base, Cast
  <2>2. \A r \in Requests : /\ request'[r].account = request[r].account
                            /\ r # q => request'[r] = request[r]
        /\ request'[q].status = "rejected"
    BY <1>4, <2>1 DEF Base, TypeOK
  <2>3. ASSUME NEW a \in Registrants
        PROVE  /\ {r \in Requests : request'[r] = [account |-> a, status |-> "approved"]}
                    = {r \in Requests : request[r] = [account |-> a, status |-> "approved"]}
               /\ PendingOf(a)' \subseteq PendingOf(a)
    BY <1>4, <2>1, <2>2 DEF PendingOf
  <2>4. ApprovalIsFinal'
    BY <1>1, <2>3 DEF ApprovalInv, ApprovalIsFinal
  <2> QED  BY <1>1, <1>2, <2>4 DEF ApprovalInv, Applicants
<1> QED  BY <1>3, <1>4 DEF LockRequest

\* An approval makes a member with one pending request a creator.
LEMMA ApproveApproval ==
    ASSUME Base, ApprovalInv, NEW c \in Calls, Approve(c)
    PROVE  ApprovalInv'
<1> DEFINE q == subject[c]
           a == request[q].account
<1>1. /\ step[c] = "approve" /\ q \in Requests /\ request[q].status = "pending" /\ Return(c)
      /\ ~AccountHeld(a)
  BY DEF Approve, At, Base, Cast, Deciding
<1>2. \A d \in Calls : step'[d] = "insert" => step[d] = "insert" /\ subject'[d] = subject[d]
  BY <1>1 DEF Return, Base, TypeOK
<1>3. CASE UNCHANGED <<role, request>>
  BY <1>2, <1>3, ApprovalUnchanged
<1>4. CASE /\ role[a] = "member" /\ role' = [role EXCEPT ![a] = "creator"]
           /\ request' = [request EXCEPT ![q].status = "approved"]
  <2>1. /\ \A r \in Requests : r # q => request'[r] = request[r]
        /\ request'[q] = [account |-> a, status |-> "approved"]
    BY <1>1, <1>4 DEF Base, TypeOK
  <2>2. \A b \in Accounts : role'[b] = IF b = a THEN "creator" ELSE role[b]
    BY <1>4 DEF Base, TypeOK
  <2> HIDE DEF a
  <2>3. ApprovalIsFinal'
    <3> SUFFICES ASSUME NEW b \in Registrants
                 PROVE  LET approved == {r \in Requests :
                                request'[r] = [account |-> b, status |-> "approved"]}
                        IN  /\ role'[b] = "creator" <=> approved # {}
                            /\ \A r, s \in approved : r = s
                            /\ role'[b] = "creator" => PendingOf(b)' = {}
                            /\ \A r, s \in PendingOf(b)' : r = s
      BY DEF ApprovalIsFinal
    <3>1. b \in Accounts
      BY DEF Accounts
    <3>2. CASE b # a
      <4>1. /\ {r \in Requests : request'[r] = [account |-> b, status |-> "approved"]}
                 = {r \in Requests : request[r] = [account |-> b, status |-> "approved"]}
            /\ PendingOf(b)' = PendingOf(b)
        BY <1>1, <2>1, <3>2 DEF PendingOf, a
      <4> QED  BY <2>2, <3>1, <3>2, <4>1 DEF ApprovalInv, ApprovalIsFinal
    <3>3. CASE b = a
      <4>1. {r \in Requests : request[r] = [account |-> b, status |-> "approved"]} = {}
        BY <1>4, <3>3 DEF ApprovalInv, ApprovalIsFinal, a
      <4>2. {r \in Requests : request'[r] = [account |-> b, status |-> "approved"]} = {q}
        BY <1>1, <2>1, <3>3, <4>1
      <4>3. PendingOf(b) = {q}
        <5>1. q \in PendingOf(b)
          BY <1>1, <3>3 DEF PendingOf, a
        <5>2. \A r, s \in PendingOf(b) : r = s
          BY DEF ApprovalInv, ApprovalIsFinal
        <5> QED  BY <5>1, <5>2
      <4>4. PendingOf(b)' = {}
        BY <1>1, <2>1, <4>3 DEF PendingOf
      <4> QED  BY <2>2, <3>1, <3>3, <4>2, <4>4
    <3> QED  BY <3>2, <3>3
  <2>4. Applicants'
    <3> SUFFICES ASSUME NEW d \in Calls, step'[d] = "insert"
                 PROVE  role'[subject'[d]] = "member"
      BY DEF Applicants
    <3>1. step[d] = "insert" /\ subject'[d] = subject[d]
      BY <1>2
    <3>2. subject[d] # a /\ subject[d] \in Accounts
      BY <1>1, <3>1 DEF AccountHeld, Base, Cast, a
    <3>3. role[subject[d]] = "member"
      BY <3>1 DEF ApprovalInv, Applicants
    <3> QED  BY <2>2, <3>1, <3>2, <3>3
  <2> QED  BY <2>3, <2>4 DEF ApprovalInv
<1> QED  BY <1>3, <1>4 DEF Approve

\* Every step keeps creators and approved requests together.
LEMMA ApprovalStep == Base /\ ApprovalInv /\ [Next]_vars => ApprovalInv'
<1> SUFFICES ASSUME Base, ApprovalInv, [Next]_vars PROVE ApprovalInv'
  OBVIOUS
<1>1. ASSUME NEW p \in Procs, Start(p) PROVE ApprovalInv'
  <2>1. /\ \A a \in Accounts : role'[a] = role[a] \/ role[a] = "absent"
        /\ UNCHANGED <<request, step, subject>>
    BY <1>1 DEF Start, callVars
  <2>2. \A a \in Registrants : a \in Accounts /\ a \notin SeededAccounts
    BY AccountsAssumption DEF Accounts
  <2>3. \A a \in Registrants : role'[a] = role[a]
    BY <1>1, <2>2 DEF Start
  <2> QED  BY <2>1, <2>3, ApprovalNewcomers
<1>2. ASSUME NEW p \in Procs, Crash(p) PROVE ApprovalInv'
  BY <1>2, ApprovalUnchanged DEF Crash, accountVars
<1>3. ASSUME NEW a \in Accounts, Register(a) PROVE ApprovalInv'
  BY <1>3, ApprovalNewcomers, AccountsAssumption DEF Register, callVars, Base, TypeOK
<1>4. ASSUME NEW c \in Calls, Arrive(c) PROVE ApprovalInv'
  BY <1>4, ApprovalUnchanged
    DEF Arrive, ReadAccount, BeginApply, LookUp, BeginDecide, Begin, accountVars, Base, TypeOK
<1>5. ASSUME NEW c \in Calls, LockAccount(c) PROVE ApprovalInv'
  <2>1. /\ role' = role /\ request' = request /\ subject[c] \in Accounts
        /\ role[subject[c]] = "member" => Goto(c, "insert")
        /\ role[subject[c]] # "member" => Return(c)
    BY <1>5 DEF LockAccount, At, accountVars, Base, Cast
  <2>2. Applicants'
    BY <2>1 DEF ApprovalInv, Applicants, Goto, Return, Base, TypeOK
  <2> QED  BY <2>1, <2>2 DEF ApprovalInv, ApprovalIsFinal, PendingOf
<1>6. ASSUME NEW c \in Calls, Rotate(c) \/ Evict(c) \/ Put(c) \/ Expire(c) PROVE ApprovalInv'
  BY <1>6, ApprovalUnchanged
    DEF Rotate, Evict, Put, Expire, Goto, Return, accountVars, Base, TypeOK
<1>7. ASSUME NEW c \in Calls, Disconnect(c) PROVE ApprovalInv'
  BY <1>7, ApprovalUnchanged DEF Disconnect, Return, accountVars, Base, TypeOK
<1>8. CASE UNCHANGED vars
  BY <1>8, ApprovalUnchanged DEF vars, accountVars, callVars
<1> QED
  BY <1>1, <1>2, <1>3, <1>4, <1>5, <1>6, <1>7, <1>8, InsertApproval, LockApproval,
     ApproveApproval DEF Next, Continue

\* Nobody is a creator, and nobody has applied.
LEMMA ApprovalInit == Init => ApprovalInv
<1>1. Registrants \subseteq Accounts
  BY DEF Accounts
<1> QED  BY <1>1 DEF Init, ApprovalInv, ApprovalIsFinal, Applicants, PendingOf

(***************************************************************************)
(* create_verification_request and decide_verification_request: a creator  *)
(* is a member of whom exactly one request was approved, and none is left  *)
(* pending, although the two lock the account and the request in opposite  *)
(* orders and either may be cut off.                                       *)
(***************************************************************************)
THEOREM ApprovalFinal == Spec => []ApprovalIsFinal
<1>1. ApprovalInv => ApprovalIsFinal
  BY DEF ApprovalInv
<1> QED  BY <1>1, BaseInit, BaseStep, ApprovalInit, ApprovalStep, PTL DEF Spec

-----------------------------------------------------------------------------
(***************************************************************************)
(* Token caches.  A token that a process has to keep out is no account's   *)
(* any more, so that no lookup finds it, and none that found it earlier is *)
(* still to put it.                                                        *)
(***************************************************************************)

OwnTokens == \A a \in Accounts : token[a] \in Tokens => owner[token[a]] = a

Replaced ==
    \A t \in Tokens : evictor[t] # Nobody =>
        /\ owner[t] \in Accounts /\ token[owner[t]] # t
        /\ ~BeingCached(evictor[t], t)

TokenInv == OwnTokens /\ Replaced /\ EvictedStaysOut

\* An account's new token replaces its old one and is nobody else's.
LEMMA IssuedOwn ==
    ASSUME TypeOK, TokenInv, NEW a \in Accounts, Issued(a),
           Fresh \in Tokens, owner[Fresh] = Nobody
    PROVE  /\ OwnTokens'
           /\ \A t \in Tokens : evictor[t] # Nobody =>
                 owner'[t] \in Accounts /\ token'[owner'[t]] # t
           /\ token[a] \in Tokens => /\ owner'[token[a]] = a /\ token'[a] # token[a]
<1>1. Nobody \notin Accounts
  BY AccountsAssumption
<1>2. /\ \A b \in Accounts : token'[b] = IF b = a THEN Fresh ELSE token[b]
      /\ \A t \in Tokens : owner'[t] = IF t = Fresh THEN a ELSE owner[t]
  BY DEF Issued, TypeOK
<1>3. \A b \in Accounts : token[b] \in Tokens => owner[token[b]] = b /\ token[b] # Fresh
  BY <1>1 DEF TokenInv, OwnTokens
<1>4. OwnTokens'
  BY <1>2, <1>3 DEF OwnTokens
<1>5. \A t \in Tokens : evictor[t] # Nobody =>
         t # Fresh /\ owner[t] \in Accounts /\ token[owner[t]] # t
  BY <1>1 DEF TokenInv, Replaced
<1> QED  BY <1>2, <1>3, <1>4, <1>5

\* A call that only ends, and was neither putting nor evicting, changes nothing.
LEMMA TokenUnchanged ==
    ASSUME TokenInv, UNCHANGED <<token, owner, evictor>>,
           \A p \in Procs : cache'[p] \subseteq cache[p],
           \A c \in Calls : step'[c] = "put" => step[c] = "put" /\ subject'[c] = subject[c],
           \A c \in Calls : step[c] = "evict" =>
               /\ step'[c] = "evict" /\ previous'[c] = previous[c]
    PROVE  TokenInv'
BY DEF TokenInv, OwnTokens, Replaced, EvictedStaysOut, BeingCached

\* Registration issues a token that no cache has to keep out.
LEMMA RegisterTokens ==
    ASSUME Base, TokenInv, NEW a \in Accounts, Register(a)
    PROVE  TokenInv'
<1>1. /\ UNCHANGED <<cache, step, subject, previous, evictor>> /\ Issued(a)
      /\ Cardinality(Unissued) > Cardinality(Rotating)
  BY DEF Register, callVars, TokensLeft, Rotating
<1>2. Unissued # {}
  <2>1. Cardinality(Rotating) \in Nat /\ Cardinality({}) = 0
    BY Finite, FS_CardinalityType, FS_EmptySet
  <2> QED  BY <1>1, <2>1
<1>3. Fresh \in Tokens /\ owner[Fresh] = Nobody
  BY <1>2, FreshToken DEF Base
<1>4. /\ OwnTokens'
      /\ \A t \in Tokens : evictor[t] # Nobody =>
            owner'[t] \in Accounts /\ token'[owner'[t]] # t
  BY <1>1, <1>3, IssuedOwn DEF Base
<1> QED  BY <1>1, <1>4 DEF TokenInv, Replaced, EvictedStaysOut, BeingCached

\* A login that replaces the token it read, and will evict it.
LEMMA RotateTokens ==
    ASSUME Base, TokenInv, NEW c \in Calls, Rotate(c)
    PROVE  TokenInv'
<1> DEFINE a == subject[c]
<1>1. /\ step[c] = "rotate" /\ a \in Accounts /\ cache' = cache
      /\ step' = [step EXCEPT ![c] = "evict"] /\ UNCHANGED <<subject, previous>>
      /\ Issued(a)
  BY DEF Rotate, At, Base, Cast, Goto
<1>2. /\ OwnTokens'
      /\ \A t \in Tokens : evictor[t] # Nobody =>
            owner'[t] \in Accounts /\ token'[owner'[t]] # t
      /\ token[a] \in Tokens => owner'[token[a]] = a /\ token'[a] # token[a]
  BY <1>1, RotateBase, IssuedOwn DEF Base
<1>3. \A t \in Tokens :
         \/ evictor'[t] = evictor[t]
         \/ /\ evictor'[t] = ProcOf[c] /\ t = token[a] /\ t = previous[c]
            /\ ~BeingCached(ProcOf[c], t)
  BY DEF Rotate, Base, TypeOK
<1>4. \A p, t : BeingCached(p, t)' => BeingCached(p, t)
  BY <1>1 DEF BeingCached, Base, TypeOK
<1>5. Replaced'
  BY <1>1, <1>2, <1>3, <1>4 DEF TokenInv, Replaced
<1>6. EvictedStaysOut'
  <2>1. \A d \in Calls : step'[d] = IF d = c THEN "evict" ELSE step[d]
    BY <1>1 DEF Base, TypeOK
  <2> QED  BY <1>1, <1>3, <2>1 DEF TokenInv, EvictedStaysOut
<1> QED  BY <1>2, <1>5, <1>6 DEF TokenInv

\* The login evicts the token that it read.
LEMMA EvictTokens ==
    ASSUME Base, TokenInv, NEW c \in Calls, Evict(c)
    PROVE  TokenInv'
<1>1. /\ step[c] = "evict" /\ Return(c) /\ UNCHANGED <<token, owner, evictor>>
      /\ cache' = [cache EXCEPT ![ProcOf[c]] = @ \ {previous[c]}]
  BY DEF Evict, At, Evicted, accountVars
<1>2. \A d \in Calls : /\ d # c => /\ step'[d] = step[d] /\ subject'[d] = subject[d]
                                   /\ previous'[d] = previous[d]
                       /\ d = c => step'[d] = "idle"
  BY <1>1 DEF Return, Base, TypeOK
<1>3. OwnTokens' /\ Replaced'
  BY <1>1, <1>2 DEF TokenInv, OwnTokens, Replaced, BeingCached
<1>4. EvictedStaysOut'
  <2> SUFFICES ASSUME NEW t \in Tokens, NEW p \in Procs, t \in cache'[p], evictor'[t] = p
               PROVE  \E d \in Calls : step'[d] = "evict" /\ previous'[d] = t /\ ProcOf[d] = p
    BY DEF EvictedStaysOut
  <2>1. t \in cache[p] /\ (p = ProcOf[c] => t # previous[c])
    BY <1>1 DEF Base, TypeOK
  <2>2. PICK d \in Calls : step[d] = "evict" /\ previous[d] = t /\ ProcOf[d] = p
    BY <1>1, <2>1 DEF TokenInv, EvictedStaysOut
  <2> QED  BY <1>2, <2>1, <2>2
<1> QED  BY <1>3, <1>4 DEF TokenInv

\* A lookup finds only a token that its account has.
LEMMA LookUpTokens ==
    ASSUME Base, TokenInv, NEW c \in Calls, NEW t \in Tokens, LookUp(c, t)
    PROVE  TokenInv'
<1>1. /\ step[c] = "idle" /\ step' = [step EXCEPT ![c] = "put"]
      /\ subject' = [subject EXCEPT ![c] = t]
      /\ owner[t] # Nobody /\ token[owner[t]] = t
      /\ UNCHANGED <<token, owner, cache, evictor>>
  BY DEF LookUp, Begin, accountVars
<1>2. \A d \in Calls : d # c => /\ step'[d] = step[d] /\ subject'[d] = subject[d]
                                /\ previous'[d] = previous[d]
  BY DEF LookUp, Begin, Base, TypeOK
<1>3. evictor[t] = Nobody
  BY <1>1 DEF TokenInv, Replaced
<1>4. \A u \in Tokens : u # t => (BeingCached(evictor[u], u)' => BeingCached(evictor[u], u))
  BY <1>1, <1>2 DEF BeingCached, Base, TypeOK
<1>5. OwnTokens' /\ Replaced'
  BY <1>1, <1>3, <1>4 DEF TokenInv, OwnTokens, Replaced
<1>6. EvictedStaysOut'
  BY <1>1, <1>2 DEF TokenInv, EvictedStaysOut
<1> QED  BY <1>5, <1>6 DEF TokenInv

\* What a lookup puts need not be kept out.
LEMMA PutTokens ==
    ASSUME Base, TokenInv, NEW c \in Calls, Put(c)
    PROVE  TokenInv'
<1>1. /\ step[c] = "put" /\ subject[c] \in Tokens /\ Return(c)
      /\ UNCHANGED <<token, owner, evictor>>
      /\ \A p \in Procs : \A t : t \in cache'[p] =>
            t \in cache[p] \/ (p = ProcOf[c] /\ t = subject[c])
  BY AccountsAssumption DEF Put, At, accountVars, Base, Cast, TypeOK
<1>2. \A d \in Calls : /\ d # c => /\ step'[d] = step[d] /\ subject'[d] = subject[d]
                                   /\ previous'[d] = previous[d]
                       /\ d = c => step'[d] = "idle"
  BY <1>1 DEF Return, Base, TypeOK
<1>3. evictor[subject[c]] = Nobody \/ evictor[subject[c]] # ProcOf[c]
  BY <1>1 DEF TokenInv, Replaced, BeingCached
<1>4. OwnTokens' /\ Replaced'
  BY <1>1, <1>2 DEF TokenInv, OwnTokens, Replaced, BeingCached
<1>5. EvictedStaysOut'
  <2> SUFFICES ASSUME NEW t \in Tokens, NEW p \in Procs, t \in cache'[p], evictor'[t] = p
               PROVE  \E d \in Calls : step'[d] = "evict" /\ previous'[d] = t /\ ProcOf[d] = p
    BY DEF EvictedStaysOut
  <2>1. p # Nobody
    BY AccountsAssumption
  <2>2. t \in cache[p]
    BY <1>1, <1>3, <2>1
  <2>3. PICK d \in Calls : step[d] = "evict" /\ previous[d] = t /\ ProcOf[d] = p
    BY <1>1, <2>2 DEF TokenInv, EvictedStaysOut
  <2> QED  BY <1>1, <1>2, <2>3
<1> QED  BY <1>4, <1>5 DEF TokenInv

\* A login that is dropped before it evicts leaves its token where it is.
LEMMA DisconnectTokens ==
    ASSUME Base, TokenInv, NEW c \in Calls, Disconnect(c)
    PROVE  TokenInv'
<1>1. Return(c) /\ UNCHANGED <<token, owner, cache>>
  BY DEF Disconnect, accountVars
<1>2. \A d \in Calls : /\ d # c => /\ step'[d] = step[d] /\ subject'[d] = subject[d]
                                   /\ previous'[d] = previous[d]
                       /\ d = c => step'[d] = "idle"
  BY <1>1 DEF Return, Base, TypeOK
<1>3. \A t \in Tokens :
         \/ /\ evictor'[t] = evictor[t]
            /\ ~(step[c] = "evict" /\ t = previous[c] /\ evictor[t] = ProcOf[c])
         \/ evictor'[t] = Nobody
  BY DEF Disconnect, At, Base, TypeOK
<1>4. OwnTokens' /\ Replaced'
  BY <1>1, <1>2, <1>3 DEF TokenInv, OwnTokens, Replaced, BeingCached
<1>5. EvictedStaysOut'
  <2> SUFFICES ASSUME NEW t \in Tokens, NEW p \in Procs, t \in cache'[p], evictor'[t] = p
               PROVE  \E d \in Calls : step'[d] = "evict" /\ previous'[d] = t /\ ProcOf[d] = p
    BY DEF EvictedStaysOut
  <2>1. p # Nobody
    BY AccountsAssumption
  <2>2. evictor[t] = p /\ ~(step[c] = "evict" /\ t = previous[c] /\ p = ProcOf[c])
    BY <1>3, <2>1
  <2>3. PICK d \in Calls : step[d] = "evict" /\ previous[d] = t /\ ProcOf[d] = p
    BY <1>1, <2>2 DEF TokenInv, EvictedStaysOut
  <2> QED  BY <1>2, <2>2, <2>3
<1> QED  BY <1>4, <1>5 DEF TokenInv

\* A process that dies forgets its cache with its calls.
LEMMA CrashTokens ==
    ASSUME Base, TokenInv, NEW p \in Procs, Crash(p)
    PROVE  TokenInv'
<1>1. /\ UNCHANGED <<token, owner, evictor>> /\ cache'[p] = {}
      /\ \A q \in Procs : q # p => cache'[q] = cache[q]
  BY DEF Crash, accountVars, Base, TypeOK
<1>2. \A d \in Calls :
         /\ ProcOf[d] # p => /\ step'[d] = step[d] /\ subject'[d] = subject[d]
                             /\ previous'[d] = previous[d]
         /\ ProcOf[d] = p => step'[d] = "idle"
  BY DEF Crash
<1>3. OwnTokens' /\ Replaced'
  BY <1>1, <1>2 DEF TokenInv, OwnTokens, Replaced, BeingCached
<1>4. EvictedStaysOut'
  <2> SUFFICES ASSUME NEW t \in Tokens, NEW q \in Procs, t \in cache'[q], evictor'[t] = q
               PROVE  \E d \in Calls : step'[d] = "evict" /\ previous'[d] = t /\ ProcOf[d] = q
    BY DEF EvictedStaysOut
  <2>1. q # p /\ t \in cache[q]
    BY <1>1
  <2>2. PICK d \in Calls : step[d] = "evict" /\ previous[d] = t /\ ProcOf[d] = q
    BY <1>1, <2>1 DEF TokenInv, EvictedStaysOut
  <2> QED  BY <1>2, <2>1, <2>2
<1> QED  BY <1>3, <1>4 DEF TokenInv

\* Every step keeps replaced tokens out.
LEMMA TokenStep == Base /\ TokenInv /\ [Next]_vars => TokenInv'
<1> SUFFICES ASSUME Base, TokenInv, [Next]_vars PROVE TokenInv'
  OBVIOUS
<1>1. ASSUME NEW p \in Procs, Start(p) PROVE TokenInv'
  BY <1>1, TokenUnchanged DEF Start, callVars
<1>2. ASSUME NEW c \in Calls,
             \/ \E a \in Accounts : ReadAccount(c, a) \/ BeginApply(c, a)
             \/ \E q \in Requests : BeginDecide(c, q)
      PROVE  TokenInv'
  <2>1. UNCHANGED <<token, owner, cache, evictor>> /\ step[c] = "idle"
    BY <1>2 DEF ReadAccount, BeginApply, BeginDecide, Begin, accountVars
  <2>2. \A d \in Calls : /\ d # c => /\ step'[d] = step[d] /\ subject'[d] = subject[d]
                                     /\ previous'[d] = previous[d]
                         /\ d = c => step'[d] # "put"
    BY <1>2 DEF ReadAccount, BeginApply, BeginDecide, Begin, Base, TypeOK
  <2> QED  BY <2>1, <2>2, TokenUnchanged
<1>3. ASSUME NEW c \in Calls,
             LockAccount(c) \/ InsertRequest(c) \/ LockRequest(c) \/ Approve(c) \/ Expire(c)
      PROVE  TokenInv'
  <2>1. UNCHANGED <<token, owner, cache, evictor>> /\ step[c] # "evict"
    BY <1>3 DEF LockAccount, InsertRequest, LockRequest, Approve, Expire, Expired, Blocked,
                At, accountVars
  <2>2. \A d \in Calls : /\ d # c => /\ step'[d] = step[d] /\ subject'[d] = subject[d]
                                     /\ previous'[d] = previous[d]
                         /\ d = c => step'[d] # "put"
    BY <1>3 DEF LockAccount, InsertRequest, LockRequest, Approve, Expire, Goto, Return, Base,
                TypeOK
  <2> QED  BY <2>1, <2>2, TokenUnchanged
<1>4. CASE UNCHANGED vars
  BY <1>4, TokenUnchanged DEF vars, accountVars, callVars
<1> QED
  BY <1>1, <1>2, <1>3, <1>4, CrashTokens, RegisterTokens, RotateTokens, EvictTokens,
     LookUpTokens, PutTokens, DisconnectTokens DEF Next, Arrive, Continue

\* No token is issued.
LEMMA TokenInit == Init => TokenInv
BY AccountsAssumption DEF Init, TokenInv, OwnTokens, Replaced, EvictedStaysOut

(***************************************************************************)
(* Store::login and auth_account_for_token: a process whose login evicted  *)
(* the token it replaced does not resolve it again, however lookups,       *)
(* logins, crashes and disconnects interleave, unless a lookup of it was   *)
(* in flight there when it was replaced.                                   *)
(***************************************************************************)
THEOREM ReplacedTokenGone == Spec => []EvictedStaysOut
<1>1. TokenInv => EvictedStaysOut
  BY DEF TokenInv
<1> QED  BY <1>1, BaseInit, BaseStep, TokenInit, TokenStep, PTL DEF Spec
=============================================================================
