------------------------------ MODULE Accounts ------------------------------
(***************************************************************************)
(* Accounts of backend/src/store.rs: bootstrap, registration and its grant,*)
(* login with its rotation of the session token, the token cache of each   *)
(* process (cache.rs), and creator verification with the rows it locks.    *)
(*                                                                         *)
(* An account is known by its email, a guest or demo trader by a name.  A  *)
(* call is a request handler between two of its statements; locks are held *)
(* by the steps that hold them, and a call that waits for one is Blocked.  *)
(* Names, passwords and who may ask for what are left out: any call may    *)
(* come for any account.                                                   *)
(***************************************************************************)
EXTENDS Integers, FiniteSets

CONSTANTS
    Registrants,    \* accounts with an email: members when registered
    Guests,         \* demo accounts, without email and role
    Seeded,         \* what bootstrap inserts: [account -> role]
    Procs,          \* backend processes
    Calls,          \* request handlers at a time
    ProcOf,         \* the process of each: [Calls -> Procs]
    Tokens,         \* random_token never returns one twice
    Requests,       \* ids of verification requests
    Discarded,      \* the token of a seeded account, which nobody knows
    Nobody,         \* no account, process, token or request
    Budget,         \* welcome gifts the treasury can fund
    TokenCapacity,  \* TOKEN_CAPACITY
    MaxFailures     \* bound: crashes and clients that disconnect

VARIABLES
    up,         \* processes that run
    role,       \* accounts.role, "guest" for NULL, "absent" without a row
    token,      \* accounts.token_hash
    owner,      \* the account each token was made for
    budget,     \* gifts the treasury can still fund
    grants,     \* gifts each account received
    request,    \* verification_requests: account and status
    cache,      \* Inner::tokens of each process
    step,       \* the next statement of each call
    subject,    \* the account, request or token it is about
    previous,   \* login: the token it read
    evictor,    \* ghost: the process whose login has to keep a token out
    failures    \* how many there have been

accountVars == <<role, token, owner, budget, grants>>
callVars == <<step, subject, previous>>
vars == <<up, accountVars, request, cache, callVars, evictor, failures>>

SeededAccounts == DOMAIN Seeded
Accounts == Registrants \cup Guests \cup SeededAccounts

Roles == {"guest", "member", "creator", "admin"}

Statuses == {"unfiled", "pending", "approved", "rejected"}

Steps == {"idle", "put", "rotate", "evict", "lock account", "insert",
          "lock to approve", "lock to reject", "approve"}

ASSUME AccountsAssumption ==
    /\ Registrants \cap Guests = {} /\ (Registrants \cup Guests) \cap SeededAccounts = {}
    /\ \A a \in SeededAccounts : Seeded[a] \in {"guest", "creator", "admin"}
    /\ IsFiniteSet(Accounts) /\ IsFiniteSet(Calls)
    /\ IsFiniteSet(Tokens) /\ IsFiniteSet(Requests)
    /\ ProcOf \in [Calls -> Procs]
    /\ Discarded \notin Tokens /\ Nobody \notin Accounts \cup Procs \cup Tokens
    /\ Budget \in Nat /\ TokenCapacity \in Nat \ {0} /\ MaxFailures \in Nat
    /\ Cardinality(SeededAccounts) <= Budget

Init ==
    /\ up = {}
    /\ role = [a \in Accounts |-> "absent"]
    /\ token = [a \in Accounts |-> Discarded]
    /\ owner = [t \in Tokens |-> Nobody]
    /\ budget = Budget
    /\ grants = [a \in Accounts |-> 0]
    /\ request = [q \in Requests |-> [account |-> Nobody, status |-> "unfiled"]]
    /\ cache = [p \in Procs |-> {}]
    /\ step = [c \in Calls |-> "idle"]
    /\ subject = [c \in Calls |-> Nobody]
    /\ previous = [c \in Calls |-> Discarded]
    /\ evictor = [t \in Tokens |-> Nobody]
    /\ failures = 0

-----------------------------------------------------------------------------
(***************************************************************************)
(* Processes.                                                              *)
(***************************************************************************)

Fails == failures < MaxFailures /\ failures' = failures + 1

\* Mutant: a restart does not look for the transfer of an earlier one
Regranted == SeededAccounts

\* Seeded accounts whose grant is not in the ledger
Ungranted == {a \in SeededAccounts : grants[a] = 0}

(***************************************************************************)
(* Store::connect_with and initialize: one transaction under the settings  *)
(* row, which inserts what an earlier start has not.                       *)
(***************************************************************************)
Start(p) ==
    /\ p \notin up
    /\ up' = up \cup {p}
    /\ role' = [a \in Accounts |->
                  IF a \in SeededAccounts /\ role[a] = "absent" THEN Seeded[a] ELSE role[a]]
    /\ budget >= Cardinality(Ungranted)
    /\ budget' = budget - Cardinality(Ungranted)
    /\ grants' = [a \in Accounts |-> IF a \in Ungranted THEN grants[a] + 1 ELSE grants[a]]
    /\ UNCHANGED <<token, owner, request, cache, callVars, evictor, failures>>

Crash(p) ==
    /\ p \in up /\ Fails
    /\ up' = up \ {p}
    /\ cache' = [cache EXCEPT ![p] = {}]
    /\ step' = [c \in Calls |-> IF ProcOf[c] = p THEN "idle" ELSE step[c]]
    /\ subject' = [c \in Calls |-> IF ProcOf[c] = p THEN Nobody ELSE subject[c]]
    /\ previous' = [c \in Calls |-> IF ProcOf[c] = p THEN Discarded ELSE previous[c]]
    /\ UNCHANGED <<accountVars, request, evictor>>

Begin(c, next, about) ==
    /\ step[c] = "idle" /\ ProcOf[c] \in up
    /\ step' = [step EXCEPT ![c] = next]
    /\ subject' = [subject EXCEPT ![c] = about]
    /\ previous' = [previous EXCEPT ![c] = IF next = "rotate" THEN token[about] ELSE @]

Goto(c, next) ==
    /\ step' = [step EXCEPT ![c] = next]
    /\ UNCHANGED <<subject, previous>>

\* The handler returns: its transaction, if any, has committed or is rolled back
Return(c) ==
    /\ step' = [step EXCEPT ![c] = "idle"]
    /\ subject' = [subject EXCEPT ![c] = Nobody]
    /\ previous' = [previous EXCEPT ![c] = Discarded]

At(c, s) == step[c] = s

-----------------------------------------------------------------------------
(***************************************************************************)
(* Locks.                                                                  *)
(***************************************************************************)

\* Mutant: the role is read without a lock
HeldByNone(a) == FALSE

\* create_verification_request keeps FOR NO KEY UPDATE of the account's row
AccountHeld(a) == \E d \in Calls : step[d] = "insert" /\ subject[d] = a

\* decide_verification_request keeps the request's row, updated
RequestHeld(q) == \E d \in Calls : step[d] = "approve" /\ subject[d] = q

\* A pending request of the account is being updated: the unique index waits
BeingDecided(a) ==
    \E d \in Calls : step[d] = "approve" /\ request[subject[d]].account = a

Blocked(c) ==
    \/ step[c] \in {"rotate", "lock account"} /\ AccountHeld(subject[c])
    \/ step[c] \in {"lock to approve", "lock to reject"} /\ RequestHeld(subject[c])
    \/ step[c] = "insert" /\ BeingDecided(subject[c])
    \/ step[c] = "approve" /\ AccountHeld(request[subject[c]].account)

\* Mutant: lock_timeout is not set
NeverExpires(c) == FALSE

\* lock_timeout
Expired(c) == Blocked(c)

-----------------------------------------------------------------------------
(***************************************************************************)
(* Registration and login.                                                 *)
(***************************************************************************)

Unissued == {t \in Tokens : owner[t] = Nobody}
Fresh == CHOOSE t \in Unissued : TRUE

\* Bound: a token is left for every login in flight
TokensLeft ==
    Cardinality(Unissued) > Cardinality({c \in Calls : step[c] = "rotate"})

Issued(a) ==
    /\ token' = [token EXCEPT ![a] = Fresh]
    /\ owner' = [owner EXCEPT ![Fresh] = a]

\* register_account and create_account: refused when registered, or over the budget
Register(a) ==
    /\ up # {} /\ a \in Registrants \cup Guests
    /\ role[a] = "absent" /\ budget > 0 /\ TokensLeft
    /\ Issued(a)
    /\ role' = [role EXCEPT ![a] = IF a \in Guests THEN "guest" ELSE "member"]
    /\ budget' = budget - 1
    /\ grants' = [grants EXCEPT ![a] = @ + 1]
    /\ UNCHANGED <<up, request, cache, callVars, evictor, failures>>

\* login reads the row of the email and verifies the password
ReadAccount(c, a) ==
    /\ role[a] \in Roles \ {"guest"} /\ TokensLeft
    /\ Begin(c, "rotate", a)
    /\ UNCHANGED <<up, accountVars, request, cache, evictor, failures>>

\* A lookup of the token is between its SELECT and its put
BeingCached(p, t) ==
    \E d \in Calls : ProcOf[d] = p /\ step[d] = "put" /\ subject[d] = t

(***************************************************************************)
(* UPDATE accounts SET token_hash, and commit.  The login will evict the   *)
(* token it read, which is the token it replaces unless another login came *)
(* between; nothing keeps a lookup in flight from putting it back later.   *)
(***************************************************************************)
Rotate(c) ==
    LET a == subject[c]
    IN  /\ At(c, "rotate") /\ ~AccountHeld(a)
        /\ Issued(a)
        /\ evictor' = [t \in Tokens |->
                IF t = token[a] /\ t = previous[c] /\ ~BeingCached(ProcOf[c], t)
                THEN ProcOf[c] ELSE evictor[t]]
        /\ Goto(c, "evict")
        /\ UNCHANGED <<up, role, budget, grants, request, cache, failures>>

\* Mutant: the account's token, which is the new one by now
EvictedNow(c) == token[subject[c]]

\* evict_account(previous_hash)
Evicted(c) == previous[c]

\* Then the account is read and the handler returns
Evict(c) ==
    /\ At(c, "evict")
    /\ cache' = [cache EXCEPT ![ProcOf[c]] = @ \ {Evicted(c)}]
    /\ Return(c)
    /\ UNCHANGED <<up, accountVars, request, evictor, failures>>

\* auth_account_for_token: a hit changes nothing, a miss reads the row, if any
LookUp(c, t) ==
    /\ t \notin cache[ProcOf[c]]
    /\ owner[t] # Nobody /\ token[owner[t]] = t
    /\ Begin(c, "put", t)
    /\ UNCHANGED <<up, accountVars, request, cache, evictor, failures>>

\* put_account, into an emptied map when it is full
Put(c) ==
    LET kept == IF Cardinality(cache[ProcOf[c]]) >= TokenCapacity THEN {}
                ELSE cache[ProcOf[c]]
    IN  /\ At(c, "put")
        /\ cache' = [cache EXCEPT ![ProcOf[c]] = kept \cup {subject[c]}]
        /\ Return(c)
        /\ UNCHANGED <<up, accountVars, request, evictor, failures>>

-----------------------------------------------------------------------------
(***************************************************************************)
(* Creator verification.                                                   *)
(***************************************************************************)

Unfiled == {q \in Requests : request[q].status = "unfiled"}

PendingOf(a) == {q \in Requests : request[q].account = a /\ request[q].status = "pending"}

\* Bound: an id is left for every request in flight
RequestsLeft ==
    Cardinality(Unfiled)
        > Cardinality({c \in Calls : step[c] \in {"lock account", "insert"}})

BeginApply(c, a) ==
    /\ role[a] # "absent" /\ RequestsLeft
    /\ Begin(c, "lock account", a)
    /\ UNCHANGED <<up, accountVars, request, cache, evictor, failures>>

\* Locks the account and reads its role
LockAccount(c) ==
    /\ At(c, "lock account") /\ ~AccountHeld(subject[c])
    /\ IF role[subject[c]] = "member" THEN Goto(c, "insert") ELSE Return(c)
    /\ UNCHANGED <<up, accountVars, request, cache, evictor, failures>>

\* INSERT ... ON CONFLICT DO NOTHING, and commit
InsertRequest(c) ==
    LET a == subject[c]
        q == CHOOSE r \in Unfiled : TRUE
    IN  /\ At(c, "insert") /\ ~BeingDecided(a)
        /\ request' = IF PendingOf(a) # {} THEN request
                      ELSE [request EXCEPT ![q] = [account |-> a, status |-> "pending"]]
        /\ Return(c)
        /\ UNCHANGED <<up, accountVars, cache, evictor, failures>>

BeginDecide(c, q) ==
    /\ request[q].status # "unfiled"
    /\ Begin(c, "lock to approve", q) \/ Begin(c, "lock to reject", q)
    /\ UNCHANGED <<up, accountVars, request, cache, evictor, failures>>

\* Locks the request if it is pending and updates it; a rejection commits
LockRequest(c) ==
    LET q == subject[c]
    IN  /\ At(c, "lock to approve") \/ At(c, "lock to reject")
        /\ ~RequestHeld(q)
        /\ \/ /\ request[q].status = "pending" /\ At(c, "lock to approve")
              /\ Goto(c, "approve")
              /\ UNCHANGED request
           \/ /\ request[q].status = "pending" /\ At(c, "lock to reject")
              /\ request' = [request EXCEPT ![q].status = "rejected"]
              /\ Return(c)
           \/ /\ request[q].status # "pending" \/ At(c, "lock to reject")
              /\ Return(c)      \* not pending any more, or no reason given
              /\ UNCHANGED request
        /\ UNCHANGED <<up, accountVars, cache, evictor, failures>>

\* UPDATE accounts SET role, and commit; or the requester is no member any more
Approve(c) ==
    LET q == subject[c]
        a == request[q].account
    IN  /\ At(c, "approve") /\ ~AccountHeld(a)
        /\ IF role[a] = "member"
           THEN /\ role' = [role EXCEPT ![a] = "creator"]
                /\ request' = [request EXCEPT ![q].status = "approved"]
           ELSE UNCHANGED <<role, request>>
        /\ Return(c)
        /\ UNCHANGED <<up, token, owner, budget, grants, cache, evictor, failures>>

-----------------------------------------------------------------------------

\* The statement waits too long: an error, and a rollback
Expire(c) ==
    /\ Expired(c)
    /\ Return(c)
    /\ UNCHANGED <<up, accountVars, request, cache, evictor, failures>>

\* The client disconnects and the handler is dropped: its login does not evict
Disconnect(c) ==
    /\ ~At(c, "idle") /\ Fails
    /\ evictor' = [t \in Tokens |->
            IF At(c, "evict") /\ t = previous[c] /\ evictor[t] = ProcOf[c]
            THEN Nobody ELSE evictor[t]]
    /\ Return(c)
    /\ UNCHANGED <<up, accountVars, request, cache>>

Arrive(c) ==
    \/ \E a \in Accounts : ReadAccount(c, a) \/ BeginApply(c, a)
    \/ \E t \in Tokens : LookUp(c, t)
    \/ \E q \in Requests : BeginDecide(c, q)

Continue(c) ==
    \/ Rotate(c) \/ Evict(c) \/ Put(c)
    \/ LockAccount(c) \/ InsertRequest(c)
    \/ LockRequest(c) \/ Approve(c)
    \/ Expire(c)

Next ==
    \/ \E p \in Procs : Start(p) \/ Crash(p)
    \/ \E a \in Accounts : Register(a)
    \/ \E c \in Calls : Arrive(c) \/ Continue(c) \/ Disconnect(c)

Spec == Init /\ [][Next]_vars

\* A handler that can go on does, and lock_timeout ends a wait; nothing arrives fairly
FairSpec == Spec /\ \A c \in Calls : WF_vars(Continue(c))

-----------------------------------------------------------------------------
(***************************************************************************)
(* Properties.                                                             *)
(***************************************************************************)

TypeOK ==
    /\ up \subseteq Procs
    /\ role \in [Accounts -> Roles \cup {"absent"}]
    /\ token \in [Accounts -> Tokens \cup {Discarded}]
    /\ owner \in [Tokens -> Accounts \cup {Nobody}]
    /\ budget \in 0 .. Budget /\ grants \in [Accounts -> Nat]
    /\ request \in [Requests -> [account : Accounts \cup {Nobody}, status : Statuses]]
    /\ cache \in [Procs -> SUBSET Tokens]
    /\ step \in [Calls -> Steps]
    /\ subject \in [Calls -> Accounts \cup Tokens \cup Requests \cup {Nobody}]
    /\ previous \in [Calls -> Tokens \cup {Discarded}]
    /\ evictor \in [Tokens -> Procs \cup {Nobody}]
    /\ failures \in 0 .. MaxFailures

(***************************************************************************)
(* Approval is final: a registered account is a creator exactly when one   *)
(* request of its own was approved, and then no other is pending, however  *)
(* applications and decisions interleave, time out or are cut off.         *)
(***************************************************************************)
ApprovalIsFinal ==
    \A a \in Registrants :
        LET approved == {q \in Requests : request[q] = [account |-> a, status |-> "approved"]}
        IN  /\ role[a] = "creator" <=> approved # {}
            /\ \A q, r \in approved : q = r
            /\ role[a] = "creator" => PendingOf(a) = {}
            /\ \A q, r \in PendingOf(a) : q = r

(***************************************************************************)
(* What rotation guarantees: once a login has evicted the token it         *)
(* replaced, its process never resolves that token again, provided no      *)
(* lookup of it was in flight there and no other login came between.       *)
(***************************************************************************)
EvictedStaysOut ==
    \A t \in Tokens, p \in Procs :
        t \in cache[p] /\ evictor[t] = p =>
            \E c \in Calls : step[c] = "evict" /\ previous[c] = t /\ ProcOf[c] = p

(***************************************************************************)
(* Every account was paid one welcome gift out of the treasury, seeded     *)
(* accounts too, however often and by how many processes they are seeded.  *)
(***************************************************************************)
GrantedOnce ==
    /\ \A a \in Accounts : grants[a] = IF role[a] = "absent" THEN 0 ELSE 1
    /\ budget + Cardinality({a \in Accounts : role[a] # "absent"}) = Budget

(***************************************************************************)
(* No request hangs: an application that holds the account and waits for   *)
(* the decision of a request, and the decision that waits for the account, *)
(* both return.                                                            *)
(***************************************************************************)
CallsReturn == \A c \in Calls : ~At(c, "idle") ~> At(c, "idle")
=============================================================================
