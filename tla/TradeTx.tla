------------------------------ MODULE TradeTx -------------------------------
(***************************************************************************)
(* The trade transaction of backend/src/execution.rs statement by          *)
(* statement, with the locks each statement waits for: the idempotency     *)
(* key, the instance row, the accounts in id order.  Calls run at the same *)
(* time, for one order or for several, against the worker's closing and    *)
(* settlement transactions, and the browser of TradePanel.jsx sends them,  *)
(* loses their answers and sends them again.                               *)
(*                                                                         *)
(* A rolled back transaction leaves no step but the release of its locks.  *)
(* A market's reserve row is locked only under its instance row lock, so   *)
(* it can never be waited for and is left out.                             *)
(***************************************************************************)
EXTENDS Exchange, Sequences

CONSTANTS
    Keys,
    Treasury,       \* the account every settlement also locks
    Creator,        \* the creator of each market, or Nobody: locked by its settlement
    AccountOrder,   \* all accounts, ordered by id
    Calls,          \* requests the server can be handling at a time
    Attempts,       \* tries per request, 3 in the code
    QuoteLife,      \* 15 s in the code
    FinalizeMs,     \* finalize_after_ms of every market
    Nobody,
    MaxTime,        \* bound: the clock stops here
    MaxFailures     \* bound: crashes, and answers that do not reach the browser

Accounts == Users \cup {Treasury}

Txs == Calls \cup Markets

Locks == Keys \cup Markets \cup Accounts

ASSUME OrderAssumption ==
    /\ Order \in [Orders -> [user : Users, market : Markets, key : Keys,
                            side : {"buy", "sell"}, cost : Nat]]
    /\ Creator \in [Markets -> Users \cup {Nobody}]
    /\ \A o \in Orders : Creator[Order[o].market] # Order[o].user
    /\ Grants \in [Users -> Nat] /\ Payout \in Nat
    /\ AccountOrder \in Seq(Accounts)
    /\ \A a \in Accounts : \E i \in DOMAIN AccountOrder : AccountOrder[i] = a
    /\ \A i, j \in DOMAIN AccountOrder : AccountOrder[i] = AccountOrder[j] => i = j

ASSUME NamesAssumption ==
    /\ Calls \cap Markets = {}
    /\ Keys \cap Markets = {} /\ Keys \cap Accounts = {} /\ Markets \cap Accounts = {}
    /\ Nobody \notin Txs \cup Orders

ASSUME BoundAssumption ==
    /\ Attempts \in Nat \ {0} /\ QuoteLife \in Nat \ {0}
    /\ CloseMs \in Nat /\ FinalizeMs \in Nat /\ CloseMs <= FinalizeMs
    /\ MaxTime \in Nat /\ MaxFailures \in Nat

VARIABLES
    reply,      \* idempotency.response: the order executed under a key
    holder,     \* the transaction holding each lock
    order,      \* the order of each call
    step,       \* the next statement of each transaction
    attempt,    \* the retry loop's counter
    checked,    \* the clock read after the instance lock
    answer,     \* how a finished call answers
    quote,      \* the version and expiry each order was quoted
    status,     \* what the browser knows of each order
    waiting,    \* the call whose answer the browser awaits
    failures

txVars == <<reply, holder, order, step, attempt, checked, answer>>

browserVars == <<quote, status, waiting>>

vars == <<exchangeVars, txVars, browserVars, failures>>

Init ==
    /\ ExchangeInit
    /\ reply = [k \in Keys |-> Nobody]
    /\ holder = [l \in Locks |-> Nobody]
    /\ order = [c \in Calls |-> Nobody]
    /\ step = [t \in Txs |-> "idle"]
    /\ attempt = [c \in Calls |-> 0]
    /\ checked = [c \in Calls |-> 0]
    /\ answer = [c \in Calls |-> "none"]
    /\ quote = [o \in Orders |-> [version |-> 0, expires |-> 0]]
    /\ status = [o \in Orders |-> "new"]
    /\ waiting = [o \in Orders |-> Nobody]
    /\ failures = 0

Fail == failures < MaxFailures /\ failures' = failures + 1

-----------------------------------------------------------------------------
(***************************************************************************)
(* Locks.                                                                  *)
(***************************************************************************)

Free(l) == holder[l] = Nobody

\* Mutant: a failed transaction goes back to the pool without a rollback
HeldBy(t) == holder

\* Commit or rollback
Released(t) == [l \in Locks |-> IF holder[l] = t THEN Nobody ELSE holder[l]]

\* The place of an account in the order of the ids
Place(a) == CHOOSE i \in DOMAIN AccountOrder : AccountOrder[i] = a

\* Mutant: in the order in which settle_batch collects them, the creator last
CollectedBefore(m, a, b) == a # Creator[m] /\ (b = Creator[m] \/ Place(a) < Place(b))

\* SELECT id FROM accounts WHERE id = ANY(ids) ORDER BY id FOR NO KEY UPDATE
LockedBefore(m, a, b) == Place(a) < Place(b)

\* The accounts a settlement of the market locks
SettledAccounts(m) ==
    {u \in Users : Holding(u, m) > 0} \cup {Treasury} \cup ({Creator[m]} \ {Nobody})

\* Those of them it does not hold yet
Unlocked(m) == {a \in SettledAccounts(m) : holder[a] # m}

\* The one it takes next
NextAccount(m) == {a \in Unlocked(m) : \A b \in Unlocked(m) \ {a} : LockedBefore(m, a, b)}

\* The lock the next statement of a transaction takes
Wanted(t) ==
    IF step[t] = "key" THEN {Order[order[t]].key}
    ELSE IF step[t] = "market" THEN {IF t \in Calls THEN Order[order[t]].market ELSE t}
    ELSE IF step[t] # "account" THEN {}
    ELSE IF t \in Calls THEN {Order[order[t]].user}
    ELSE NextAccount(t)

\* Transactions that hold what a transaction wants
Blockers(t) == {holder[l] : l \in Wanted(t)} \ {Nobody}

-----------------------------------------------------------------------------
(***************************************************************************)
(* Store::execute and execute_once.                                        *)
(***************************************************************************)

\* The handler returns: its transaction is over and the response is on its way
Respond(c, kind) ==
    /\ holder' = Released(c)
    /\ step' = [step EXCEPT ![c] = "responded"]
    /\ answer' = [answer EXCEPT ![c] = kind]

\* Mutant: a committed response is not replayed
ReplayForgotten(k) == Nobody

\* The committed response of a key
Replay(k) == reply[k]

\* INSERT INTO idempotency ... ON CONFLICT DO NOTHING, and the replay
ClaimKey(c) ==
    LET o == order[c]
        k == Order[o].key
    IN  /\ step[c] = "key" /\ Free(k)
        /\ IF Replay(k) = Nobody
           THEN /\ holder' = [holder EXCEPT ![k] = c]
                /\ step' = [step EXCEPT ![c] = "market"]
                /\ UNCHANGED answer
           ELSE Respond(c, IF Replay(k) = o THEN "receipt" ELSE "refused")
        /\ UNCHANGED <<exchangeVars, browserVars, reply, order, attempt, checked,
                       failures>>

\* SELECT * FROM instances WHERE id=$1 FOR UPDATE
LockInstance(c) ==
    LET m == Order[order[c]].market
    IN  /\ step[c] = "market" /\ Free(m)
        /\ holder' = [holder EXCEPT ![m] = c]
        /\ step' = [step EXCEPT ![c] = "clock"]
        /\ UNCHANGED <<exchangeVars, browserVars, reply, order, attempt, checked,
                       answer, failures>>

\* Mutant: the version of the quote is not compared
QuotedAnyVersion(o) ==
    /\ state[Order[o].market] = "open"
    /\ now < CloseMs
    /\ now < quote[o].expires

\* Mutant: the quote is only checked when the request arrives, before the lock
QuotedOnArrival(o) == TRUE

\* Tradable, and the quote neither expired nor outdated
Quoted(o) ==
    /\ state[Order[o].market] = "open"
    /\ now < CloseMs
    /\ now < quote[o].expires
    /\ version[Order[o].market] = quote[o].version

\* db_now in a statement of its own, and the checks of the quote
CheckQuote(c) ==
    /\ step[c] = "clock"
    /\ checked' = [checked EXCEPT ![c] = now]
    /\ IF Quoted(order[c])
       THEN step' = [step EXCEPT ![c] = "account"] /\ UNCHANGED <<holder, answer>>
       ELSE Respond(c, "refused")
    /\ UNCHANGED <<exchangeVars, browserVars, reply, order, attempt, failures>>

\* Mutant: the balance is read without waiting for the row
UnguardedAccount(c) == step[c] = "account"

\* The account row can be locked
AccountReady(c) == step[c] = "account" /\ Free(Order[order[c]].user)

\* SELECT ... FROM accounts ... FOR NO KEY UPDATE, and the balance or position check
LockAccount(c) ==
    LET u == Order[order[c]].user
    IN  /\ AccountReady(c)
        /\ IF Affordable(order[c])
           THEN /\ holder' = [holder EXCEPT ![u] = c]
                /\ step' = [step EXCEPT ![c] = "write"]
                /\ UNCHANGED answer
           ELSE Respond(c, "refused")
        /\ UNCHANGED <<exchangeVars, browserVars, reply, order, attempt, checked, failures>>

(***************************************************************************)
(* The transfer, FINALIZE_TRADE and the commit.  A balance CHECK or an     *)
(* outdated version fails the statement and the request with it.           *)
(***************************************************************************)
Commit(c) ==
    LET o == order[c]
        m == Order[o].market
        charged == Charge(o)
    IN  /\ step[c] = "write"
        /\ IF charged[Order[o].user] >= 0
           THEN /\ balance' = charged
                /\ version' = [version EXCEPT ![m] = @ + 1]
                /\ trades' = trades \cup
                      {[order |-> o, version |-> version[m], at |-> checked[c]]}
                /\ reply' = [reply EXCEPT ![Order[o].key] = o]
                /\ Respond(c, "receipt")
           ELSE /\ Respond(c, "error")
                /\ UNCHANGED <<balance, version, trades, reply>>
        /\ UNCHANGED <<now, state, browserVars, order, attempt, checked, failures>>

\* Mutant: one retry too many
MayRetryTwice(c) == attempt[c] <= Attempts

\* The loop's counter allows another attempt
MayRetry(c) == attempt[c] < Attempts

\* lock_timeout: rolled back, and tried again up to Attempts times
TimeOut(c) ==
    /\ Blockers(c) # {}
    /\ IF MayRetry(c)
       THEN /\ holder' = Released(c)
            /\ step' = [step EXCEPT ![c] = "key"]
            /\ attempt' = [attempt EXCEPT ![c] = @ + 1]
            /\ UNCHANGED answer
       ELSE Respond(c, "busy") /\ UNCHANGED attempt
    /\ UNCHANGED <<exchangeVars, browserVars, reply, order, checked, failures>>

\* The call's process crashes, or its connection drops and the handler with it
Die(c) ==
    /\ order[c] # Nobody /\ step[c] # "responded" /\ Fail
    /\ holder' = Released(c)
    /\ step' = [step EXCEPT ![c] = "idle"]
    /\ order' = [order EXCEPT ![c] = Nobody]
    /\ waiting' = [o \in Orders |-> IF waiting[o] = c THEN Nobody ELSE waiting[o]]
    /\ UNCHANGED <<exchangeVars, reply, attempt, checked, answer, quote, status>>

-----------------------------------------------------------------------------
(***************************************************************************)
(* The worker.                                                             *)
(***************************************************************************)

\* Store::close_due skips a row that is locked
CloseDue(m) ==
    /\ Free(m)
    /\ CloseMarket(m)
    /\ UNCHANGED <<txVars, browserVars, failures>>

\* Store::settle_batch locks the instance ...
SettleBegin(m) ==
    /\ step[m] = "idle" /\ state[m] = "closed" /\ now >= FinalizeMs
    /\ Free(m)
    /\ holder' = [holder EXCEPT ![m] = m]
    /\ step' = [step EXCEPT ![m] = "account"]
    /\ UNCHANGED <<exchangeVars, browserVars, reply, order, attempt, checked,
                   answer, failures>>

\* ... then the accounts, one after the other ...
SettleLock(m) ==
    /\ step[m] = "account"
    /\ \E a \in NextAccount(m) : Free(a) /\ holder' = [holder EXCEPT ![a] = m]
    /\ UNCHANGED <<exchangeVars, browserVars, reply, order, step, attempt, checked,
                   answer, failures>>

\* ... and pays the claims.
SettleCommit(m) ==
    /\ step[m] = "account" /\ Unlocked(m) = {}
    /\ SettleMarket(m)
    /\ holder' = Released(m)
    /\ step' = [step EXCEPT ![m] = "idle"]
    /\ UNCHANGED <<browserVars, reply, order, attempt, checked, answer, failures>>

\* A settlement that waits too long is rolled back; the next tick tries again
SettleTimeOut(m) ==
    /\ Blockers(m) # {}
    /\ holder' = Released(m)
    /\ step' = [step EXCEPT ![m] = "idle"]
    /\ UNCHANGED <<exchangeVars, browserVars, reply, order, attempt, checked, answer,
                   failures>>

Advance ==
    /\ now < MaxTime
    /\ now' = now + 1
    /\ UNCHANGED <<balance, state, version, trades, txVars, browserVars, failures>>

-----------------------------------------------------------------------------
(***************************************************************************)
(* TradePanel.jsx.                                                         *)
(***************************************************************************)

\* A quote of the market as it is now, expiring with the market at the latest
Preview(o) ==
    [version |-> version[Order[o].market],
     expires |-> IF now + QuoteLife < CloseMs THEN now + QuoteLife ELSE CloseMs]

\* execute: the request is saved with its key, then sent; a pending one is sent again
Send(o, c) ==
    /\ waiting[o] = Nobody /\ order[c] = Nobody
    /\ \/ /\ status[o] = "new" /\ state[Order[o].market] = "open" /\ now < CloseMs
          /\ quote' = [quote EXCEPT ![o] = Preview(o)]
       \/ /\ status[o] = "pending"
          /\ UNCHANGED quote
    /\ status' = [status EXCEPT ![o] = "pending"]
    /\ waiting' = [waiting EXCEPT ![o] = c]
    /\ order' = [order EXCEPT ![c] = o]
    /\ step' = [step EXCEPT ![c] = "key"]
    /\ attempt' = [attempt EXCEPT ![c] = 1]
    /\ UNCHANGED <<exchangeVars, reply, holder, checked, answer, failures>>

\* What the browser makes of an answer: 409 clears the saved request, 500 does not
Learned(o, kind) ==
    IF kind \in {"receipt", "refused"} THEN kind
    ELSE IF kind = "busy" THEN "forgotten" ELSE status[o]

\* The response arrives, or nobody waits for it any more
Arrive(c) ==
    LET o == order[c]
    IN  /\ step[c] = "responded"
        /\ status' = IF waiting[o] = c
                     THEN [status EXCEPT ![o] = Learned(o, answer[c])] ELSE status
        /\ waiting' = IF waiting[o] = c THEN [waiting EXCEPT ![o] = Nobody] ELSE waiting
        /\ step' = [step EXCEPT ![c] = "idle"]
        /\ order' = [order EXCEPT ![c] = Nobody]
        /\ attempt' = [attempt EXCEPT ![c] = 0]
        /\ checked' = [checked EXCEPT ![c] = 0]
        /\ answer' = [answer EXCEPT ![c] = "none"]
        /\ UNCHANGED <<exchangeVars, reply, holder, quote, failures>>

\* The browser loses the connection or reloads while the call goes on
Lose(o) ==
    /\ waiting[o] # Nobody /\ Fail
    /\ waiting' = [waiting EXCEPT ![o] = Nobody]
    /\ UNCHANGED <<exchangeVars, txVars, quote, status>>

-----------------------------------------------------------------------------

Execution(c) ==
    ClaimKey(c) \/ LockInstance(c) \/ CheckQuote(c) \/ LockAccount(c) \/ Commit(c)
        \/ TimeOut(c) \/ Arrive(c)

Settlement(m) == SettleBegin(m) \/ SettleLock(m) \/ SettleCommit(m)

Next ==
    \/ \E c \in Calls : Execution(c) \/ Die(c) \/ \E o \in Orders : Send(o, c)
    \/ \E m \in Markets : CloseDue(m) \/ Settlement(m) \/ SettleTimeOut(m)
    \/ \E o \in Orders : Lose(o)
    \/ Advance

Spec == Init /\ [][Next]_vars

(***************************************************************************)
(* Handlers run, a lock wait ends in the lock or in its timeout, the       *)
(* worker ticks and time passes.  Nobody has to send or to fail.           *)
(***************************************************************************)
FairSpec ==
    /\ Spec
    /\ \A c \in Calls : WF_vars(Execution(c))
    /\ \A m \in Markets : WF_vars(CloseDue(m)) /\ WF_vars(Settlement(m))
    /\ WF_vars(Advance)

-----------------------------------------------------------------------------
(***************************************************************************)
(* Properties.                                                             *)
(***************************************************************************)

TypeOK ==
    /\ now \in 0 .. MaxTime /\ failures \in 0 .. MaxFailures
    /\ balance \in [Users -> Nat]
    /\ state \in [Markets -> {"open", "closed", "settled"}]
    /\ version \in [Markets -> Nat]
    /\ trades \subseteq [order : Orders, version : Nat, at : 0 .. MaxTime]
    /\ reply \in [Keys -> Orders \cup {Nobody}]
    /\ holder \in [Locks -> Txs \cup {Nobody}]
    /\ order \in [Calls -> Orders \cup {Nobody}]
    /\ step \in [Txs -> {"idle", "key", "market", "clock", "account", "write", "responded"}]
    /\ attempt \in [Calls -> 0 .. Attempts]
    /\ checked \in [Calls -> 0 .. MaxTime]
    /\ answer \in [Calls -> {"none", "receipt", "refused", "busy", "error"}]
    /\ quote \in [Orders -> [version : Nat, expires : 0 .. CloseMs]]
    /\ status \in [Orders -> {"new", "pending", "receipt", "refused", "forgotten"}]
    /\ waiting \in [Orders -> Calls \cup {Nobody}]

(***************************************************************************)
(* Interleaved, retried, timed out and lost calls amount to executing each *)
(* order in one instant, at most once per key.                             *)
(***************************************************************************)
ImplementsExchange == ExchangeSpec

(***************************************************************************)
(* An order is executed at the version its holder saw and before its quote *)
(* expired, however long its statements waited for locks.                  *)
(***************************************************************************)
TradedAsQuoted ==
    \A t \in trades : /\ t.version = quote[t.order].version
                      /\ t.at < quote[t.order].expires

(***************************************************************************)
(* A check made under the account lock still holds at the transfer: the    *)
(* balance CHECK never turns a checked trade into an internal error.       *)
(***************************************************************************)
ChecksHold == \A c \in Calls : answer[c] # "error"

(***************************************************************************)
(* No set of transactions waits for itself: the lock order makes deadlock  *)
(* impossible, settlements that share holders and creators included.       *)
(***************************************************************************)
NoWaitCycle ==
    \A S \in (SUBSET Txs) \ {{}} : \E t \in S : Blockers(t) \cap S = {}

(***************************************************************************)
(* A call that answers an order with a refusal does so before the order    *)
(* ever executed: a repeated request is answered with its receipt.         *)
(***************************************************************************)
RefusedNotExecuted ==
    [][\A c \in Calls : answer[c] = "none" /\ answer'[c] = "refused"
                            => ~Executed(order[c])]_vars

(***************************************************************************)
(* Traders who hold and wait for locks, and settlements that time out on   *)
(* them or on each other, cannot keep a closed market from being settled.  *)
(***************************************************************************)
SettlementNotBlocked ==
    \A m \in Markets : (state[m] = "closed") ~> (state[m] = "settled")

(***************************************************************************)
(* docs/api.md: "Do not generate a replacement key until the original      *)
(* request has a definitive result"; the busy answer itself asks to retry  *)
(* the same key.  The browser never forgets the key of an executed order   *)
(* without having its receipt.                                             *)
(***************************************************************************)
ForgottenNotExecuted ==
    \A o \in Orders : status[o] = "forgotten" => ~Executed(o)
=============================================================================
