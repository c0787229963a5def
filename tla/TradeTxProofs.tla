--------------------------- MODULE TradeTxProofs ---------------------------
(***************************************************************************)
(* Proofs about the trade transaction, for any number of orders, calls,    *)
(* markets, attempts, lost answers and crashes.                            *)
(***************************************************************************)
EXTENDS TradeTx, FiniteSetTheorems, WellFoundedInduction, TLAPS

Steps == {"idle", "key", "market", "clock", "account", "write", "responded"}

\* A call past a lock holds it, and its key has no answer yet
Kept(c) ==
    /\ step[c] # "idle" => order[c] # Nobody
    /\ step[c] \in {"market", "clock", "account", "write"} =>
          /\ holder[Order[order[c]].key] = c
          /\ reply[Order[order[c]].key] = Nobody
    /\ step[c] \in {"clock", "account", "write"} => holder[Order[order[c]].market] = c
    /\ step[c] = "write" => holder[Order[order[c]].user] = c

Keeps == \A c \in Calls : Kept(c)

\* What a call has checked under its locks still holds
Checked(c) ==
    /\ checked[c] <= now
    /\ step[c] \in {"account", "write"} =>
          /\ state[Order[order[c]].market] = "open"
          /\ version[Order[order[c]].market] = quote[order[c]].version
          /\ checked[c] < quote[order[c]].expires
    /\ step[c] = "write" => Affordable(order[c])

Checks == \A c \in Calls : Checked(c)

\* Every trade is the one of its key, and no account sold what it did not have
Trades ==
    /\ IsFiniteSet(trades)
    /\ \A t \in trades : reply[Order[t.order].key] = t.order
    /\ \A u \in Users, m \in Markets : Holding(u, m) >= 0

\* An order nobody sent has no call, no trade, and any quote
Unsent ==
    \A o \in Orders : status[o] = "new" => ~Executed(o) /\ \A c \in Calls : order[c] # o

Inv == TypeOK /\ Keeps /\ Checks /\ Trades /\ Unsent /\ TradedAsQuoted /\ ChecksHold

-----------------------------------------------------------------------------
(***************************************************************************)
(* Shares.                                                                 *)
(***************************************************************************)

Deals(u, m, side) ==
    {t \in trades : /\ Order[t.order].user = u
                    /\ Order[t.order].market = m
                    /\ Order[t.order].side = side}

\* Shares are the trades of an account on one side without those on the other.
LEMMA HoldingDeals ==
    ASSUME NEW u, NEW m, IsFiniteSet(trades)
    PROVE  /\ Holding(u, m) = Cardinality(Deals(u, m, "buy")) - Cardinality(Deals(u, m, "sell"))
           /\ \A side \in {"buy", "sell"} : /\ IsFiniteSet(Deals(u, m, side))
                                            /\ Cardinality(Deals(u, m, side)) \in Nat
           /\ Holding(u, m) \in Int
<1>1. Holding(u, m) = Cardinality(Deals(u, m, "buy")) - Cardinality(Deals(u, m, "sell"))
  BY DEF Holding, Deals
<1>2. ASSUME NEW side
      PROVE  IsFiniteSet(Deals(u, m, side)) /\ Cardinality(Deals(u, m, side)) \in Nat
  <2>1. Deals(u, m, side) \in SUBSET trades
    BY DEF Deals
  <2>2. IsFiniteSet(Deals(u, m, side))
    BY <2>1, FS_Subset
  <2> QED  BY <2>2, FS_CardinalityType
<1> QED  BY <1>1, <1>2

\* One more trade is one more deal on its side, or none.
LEMMA OneDeal ==
    ASSUME NEW u, NEW m, NEW side, IsFiniteSet(trades),
           NEW t, trades' = trades \cup {t}
    PROVE  /\ \/ Cardinality(Deals(u, m, side))' = Cardinality(Deals(u, m, side))
              \/ /\ Cardinality(Deals(u, m, side))' = Cardinality(Deals(u, m, side)) + 1
                 /\ Order[t.order].user = u /\ Order[t.order].market = m
                 /\ Order[t.order].side = side
<1>1. Deals(u, m, side) \in SUBSET trades
  BY DEF Deals
<1>2. IsFiniteSet(Deals(u, m, side))
  BY <1>1, FS_Subset
<1>3. CASE /\ Order[t.order].user = u /\ Order[t.order].market = m
           /\ Order[t.order].side = side
  <2>1. Deals(u, m, side)' = Deals(u, m, side) \cup {t}
    BY <1>3 DEF Deals
  <2> QED  BY <1>2, <1>3, <2>1, FS_AddElement
<1>4. CASE ~(/\ Order[t.order].user = u /\ Order[t.order].market = m
             /\ Order[t.order].side = side)
  <2>1. Deals(u, m, side)' = Deals(u, m, side)
    BY <1>4 DEF Deals
  <2> QED  BY <2>1
<1> QED  BY <1>3, <1>4

\* A trade changes the shares of its own account in its own market, and by one at most.
LEMMA HoldingMoves ==
    ASSUME NEW u, NEW m, IsFiniteSet(trades), NEW t, trades' = trades \cup {t}
    PROVE  /\ Holding(u, m)' \in Int
           /\ ~(Order[t.order].user = u /\ Order[t.order].market = m) =>
                  Holding(u, m)' = Holding(u, m)
           /\ Order[t.order].side # "sell" => Holding(u, m)' >= Holding(u, m)
           /\ Holding(u, m)' >= Holding(u, m) - 1
<1>1. IsFiniteSet(trades')
  BY FS_AddElement
<1>2. /\ Holding(u, m) = Cardinality(Deals(u, m, "buy")) - Cardinality(Deals(u, m, "sell"))
      /\ Cardinality(Deals(u, m, "buy")) \in Nat /\ Cardinality(Deals(u, m, "sell")) \in Nat
  BY HoldingDeals
<1>3. Holding(u, m)' = Cardinality(Deals(u, m, "buy"))' - Cardinality(Deals(u, m, "sell"))'
  BY DEF Holding, Deals
<1>4. \/ Cardinality(Deals(u, m, "buy"))' = Cardinality(Deals(u, m, "buy"))
      \/ /\ Cardinality(Deals(u, m, "buy"))' = Cardinality(Deals(u, m, "buy")) + 1
         /\ Order[t.order].user = u /\ Order[t.order].market = m
         /\ Order[t.order].side = "buy"
  BY OneDeal
<1>5. \/ Cardinality(Deals(u, m, "sell"))' = Cardinality(Deals(u, m, "sell"))
      \/ /\ Cardinality(Deals(u, m, "sell"))' = Cardinality(Deals(u, m, "sell")) + 1
         /\ Order[t.order].user = u /\ Order[t.order].market = m
         /\ Order[t.order].side = "sell"
  BY OneDeal
<1> QED  BY <1>2, <1>3, <1>4, <1>5

-----------------------------------------------------------------------------
(***************************************************************************)
(* Steps of calls.                                                         *)
(***************************************************************************)

\* A step of a call's handler, or of the browser that sends it
Moves(c) == Execution(c) \/ Die(c) \/ \E o \in Orders : Send(o, c)

\* A call is no market, and neither is Nobody.
LEMMA Names ==
    /\ \A c \in Calls : c \notin Markets /\ c # Nobody /\ c \in Txs
    /\ \A m \in Markets : m \notin Calls /\ m # Nobody /\ m \in Txs
  BY NamesAssumption DEF Txs

\* A lock is taken when it is free, and given up by its holder.
LEMMA HoldersKeep ==
    ASSUME TypeOK, [Next]_vars, NEW d \in Txs, NEW l \in Locks, holder[l] = d, holder'[l] # d
    PROVE  \/ d \in Calls /\ Moves(d)
           \/ d \in Markets /\ (SettleCommit(d) \/ SettleTimeOut(d))
<1>0. holder \in [Locks -> Txs \cup {Nobody}] /\ d # Nobody
  BY Names DEF TypeOK, Txs
<1>1. ASSUME NEW t \in Txs, t # d, holder' = Released(t) PROVE FALSE
  BY <1>0, <1>1 DEF Released
<1>2. ASSUME NEW t \in Txs, NEW k, Free(k), holder' = [holder EXCEPT ![k] = t] PROVE FALSE
  BY <1>0, <1>2 DEF Free
<1>3. ASSUME NEW c \in Calls, Execution(c)
      PROVE  \/ UNCHANGED holder \/ holder' = Released(c)
             \/ \E k : Free(k) /\ holder' = [holder EXCEPT ![k] = c]
  BY <1>3 DEF Execution, ClaimKey, LockInstance, CheckQuote, LockAccount, AccountReady,
     Commit, TimeOut, Arrive, Respond
<1>4. ASSUME NEW c \in Calls, Die(c) \/ \E o \in Orders : Send(o, c)
      PROVE  UNCHANGED holder \/ holder' = Released(c)
  BY <1>4 DEF Die, Send
<1>5. ASSUME NEW m \in Markets, CloseDue(m) \/ SettleBegin(m) \/ SettleLock(m)
      PROVE  \/ UNCHANGED holder
             \/ \E k : Free(k) /\ holder' = [holder EXCEPT ![k] = m]
  BY <1>5 DEF CloseDue, SettleBegin, SettleLock, txVars
<1>6. ASSUME NEW m \in Markets, SettleCommit(m) \/ SettleTimeOut(m)
      PROVE  holder' = Released(m)
  BY <1>6 DEF SettleCommit, SettleTimeOut
<1>7. CASE Advance \/ \E o \in Orders : Lose(o)
  BY <1>0, <1>7 DEF Advance, Lose, txVars
<1>8. CASE UNCHANGED vars
  BY <1>0, <1>8 DEF vars, txVars
<1>9. CASE \E c \in Calls : Moves(c)
  <2>1. PICK c \in Calls : Moves(c)
    BY <1>9
  <2>2. c = d
    BY <1>0, <1>1, <1>2, <1>3, <1>4, <2>1, Names DEF Moves
  <2> QED  BY <2>1, <2>2
<1>10. CASE \E m \in Markets : CloseDue(m) \/ Settlement(m) \/ SettleTimeOut(m)
  <2>1. PICK m \in Markets : CloseDue(m) \/ Settlement(m) \/ SettleTimeOut(m)
    BY <1>10
  <2>2. SettleCommit(m) \/ SettleTimeOut(m)
    BY <1>0, <1>2, <1>5, <2>1, Names DEF Settlement
  <2>3. m = d
    BY <1>1, <1>6, <2>2, Names
  <2> QED  BY <2>2, <2>3
<1> QED  BY <1>7, <1>8, <1>9, <1>10 DEF Next, Moves

\* A step that is not the call's own leaves the call where it is.
LEMMA OthersKeep ==
    ASSUME TypeOK, [Next]_vars, NEW d \in Calls, ~Moves(d)
    PROVE  /\ step'[d] = step[d] /\ order'[d] = order[d] /\ checked'[d] = checked[d]
           /\ answer'[d] = answer[d] /\ attempt'[d] = attempt[d]
           /\ \A l \in Locks : holder[l] = d => holder'[l] = d
<1>1. \A l \in Locks : holder[l] = d => holder'[l] = d
  BY HoldersKeep, Names
<1>2. /\ step \in [Txs -> Steps] /\ order \in [Calls -> Orders \cup {Nobody}]
      /\ DOMAIN checked = Calls /\ DOMAIN answer = Calls /\ DOMAIN attempt = Calls
  BY DEF TypeOK, Steps
<1> DEFINE Same == /\ step'[d] = step[d] /\ order'[d] = order[d] /\ checked'[d] = checked[d]
                   /\ answer'[d] = answer[d] /\ attempt'[d] = attempt[d]
<1>3. ASSUME NEW c \in Calls, Moves(c) PROVE Same
  <2>1. c # d
    BY <1>3
  <2>2. CASE Execution(c)
    BY <1>2, <2>1, <2>2, Names DEF Execution, ClaimKey, LockInstance, CheckQuote, LockAccount,
       Commit, TimeOut, Arrive, Respond
  <2>3. CASE Die(c)
    BY <1>2, <2>1, <2>3, Names DEF Die
  <2>4. CASE \E o \in Orders : Send(o, c)
    BY <1>2, <2>1, <2>4, Names DEF Send
  <2> QED  BY <1>3, <2>2, <2>3, <2>4 DEF Moves
<1>4. ASSUME NEW m \in Markets, CloseDue(m) \/ Settlement(m) \/ SettleTimeOut(m) PROVE Same
  BY <1>2, <1>4, Names DEF CloseDue, Settlement, SettleBegin, SettleLock, SettleCommit,
     SettleTimeOut, txVars
<1>5. CASE Advance \/ \E o \in Orders : Lose(o)
  BY <1>5 DEF Advance, Lose, txVars
<1>6. CASE UNCHANGED vars
  BY <1>6 DEF vars, txVars
<1> QED  BY <1>1, <1>3, <1>4, <1>5, <1>6 DEF Next, Moves

\* What a step does to the exchange.
LEMMA ExchangeMoves ==
    ASSUME [Next]_vars
    PROVE  \/ UNCHANGED <<exchangeVars, reply>>
           \/ \E c \in Calls : Commit(c)
           \/ \E m \in Markets : (CloseDue(m) \/ SettleCommit(m)) /\ UNCHANGED reply
           \/ Advance /\ UNCHANGED reply
<1>1. ASSUME NEW c \in Calls, Execution(c)
      PROVE  UNCHANGED <<exchangeVars, reply>> \/ Commit(c)
  BY <1>1 DEF Execution, ClaimKey, LockInstance, CheckQuote, LockAccount, TimeOut, Arrive
<1>2. ASSUME NEW c \in Calls, Die(c) \/ \E o \in Orders : Send(o, c)
      PROVE  UNCHANGED <<exchangeVars, reply>>
  BY <1>2 DEF Die, Send
<1>3. ASSUME NEW m \in Markets, CloseDue(m) \/ Settlement(m) \/ SettleTimeOut(m)
      PROVE  \/ UNCHANGED <<exchangeVars, reply>>
             \/ (CloseDue(m) \/ SettleCommit(m)) /\ UNCHANGED reply
  BY <1>3 DEF CloseDue, Settlement, SettleBegin, SettleLock, SettleCommit, SettleTimeOut, txVars
<1>4. CASE Advance
  BY <1>4 DEF Advance, txVars
<1>5. CASE \E o \in Orders : Lose(o)
  BY <1>5 DEF Lose, txVars
<1>6. CASE UNCHANGED vars
  BY <1>6 DEF vars, txVars
<1> QED  BY <1>1, <1>2, <1>3, <1>4, <1>5, <1>6 DEF Next

-----------------------------------------------------------------------------
(***************************************************************************)
(* Types.                                                                  *)
(***************************************************************************)

\* The parts of an order, and the locks they name.
LEMMA OrderParts ==
    ASSUME NEW o \in Orders
    PROVE  /\ Order[o].user \in Users /\ Order[o].market \in Markets
           /\ Order[o].key \in Keys /\ Order[o].side \in {"buy", "sell"}
           /\ Order[o].cost \in Nat
           /\ Order[o].user \in Locks /\ Order[o].market \in Locks /\ Order[o].key \in Locks
           /\ o # Nobody
  BY OrderAssumption, NamesAssumption DEF Locks, Accounts

\* A call that is past "idle" handles an order.
LEMMA Handling ==
    ASSUME TypeOK, Keeps, NEW c \in Calls, step[c] # "idle"
    PROVE  order[c] \in Orders
  BY DEF TypeOK, Keeps, Kept

\* Only calls with something to wait for are past "idle".
LEMMA Awaiting ==
    ASSUME NEW t, Blockers(t) # {}
    PROVE  step[t] \in {"key", "market", "account"}
  BY DEF Blockers, Wanted

\* Paying an order leaves every balance a number, its own account's perhaps negative.
LEMMA Charged ==
    ASSUME balance \in [Users -> Nat], NEW o \in Orders
    PROVE  /\ Charge(o) \in [Users -> Int]
           /\ \A u \in Users : u # Order[o].user => Charge(o)[u] = balance[u]
           /\ Affordable(o) => Charge(o)[Order[o].user] >= 0
           /\ Charge(o)[Order[o].user] >= 0 => Charge(o) \in [Users -> Nat]
  BY OrderParts DEF Charge, Affordable

\* A settlement pays a market's shares at a price that is not negative.
LEMMA Paid ==
    ASSUME balance \in [Users -> Nat], Trades, NEW m \in Markets, SettleMarket(m)
    PROVE  balance' \in [Users -> Nat] /\ \A u \in Users : balance'[u] >= balance[u]
<1>1. ASSUME NEW u \in Users PROVE Payout * Holding(u, m) \in Nat
  <2>1. Payout \in Nat /\ Holding(u, m) \in Nat
    BY OrderAssumption, HoldingDeals DEF Trades
  <2> DEFINE h == Holding(u, m)
  <2> HIDE DEF h
  <2>2. \A p, q \in Nat : p * q \in Nat
    OBVIOUS
  <2>3. h \in Nat
    BY <2>1 DEF h
  <2>4. Payout * h \in Nat
    BY <2>1, <2>2, <2>3
  <2> QED  BY <2>4 DEF h
<1> QED  BY <1>1 DEF SettleMarket

\* Every step keeps the types.
LEMMA TypeStep ==
    ASSUME Inv, [Next]_vars
    PROVE  TypeOK'
<1> USE DEF Inv
<1>0. /\ \A c \in Calls : c \in Txs
      /\ \A m \in Markets : m \in Txs
  BY Names
<1>r. \A t : Released(t) \in [Locks -> Txs \cup {Nobody}]
  BY DEF Released, TypeOK
<1>1. ASSUME NEW c \in Calls, ClaimKey(c) PROVE TypeOK'
  <2>1. step[c] # "idle" /\ order[c] \in Orders
    BY <1>1, Handling DEF ClaimKey
  <2>2. /\ holder' \in [Locks -> Txs \cup {Nobody}]
        /\ step' \in [Txs -> Steps]
        /\ answer' \in [Calls -> {"none", "receipt", "refused", "busy", "error"}]
    <3>1. CASE Respond(c, "receipt") \/ Respond(c, "refused")
      BY <1>0, <1>r, <3>1 DEF Respond, TypeOK, Steps
    <3>2. CASE /\ holder' = [holder EXCEPT ![Order[order[c]].key] = c]
               /\ step' = [step EXCEPT ![c] = "market"]
               /\ UNCHANGED answer
      BY <1>0, <3>2 DEF TypeOK, Steps
    <3> QED  BY <1>1, <3>1, <3>2 DEF ClaimKey
  <2> QED  BY <1>1, <2>2 DEF ClaimKey, TypeOK, Steps, exchangeVars, browserVars
<1>2. ASSUME NEW c \in Calls, LockInstance(c) PROVE TypeOK'
  BY <1>0, <1>2 DEF LockInstance, TypeOK, exchangeVars, browserVars
<1>3. ASSUME NEW c \in Calls, CheckQuote(c) PROVE TypeOK'
  BY <1>0, <1>3 DEF CheckQuote, Respond, Released, TypeOK, exchangeVars, browserVars
<1>4. ASSUME NEW c \in Calls, LockAccount(c) PROVE TypeOK'
  BY <1>0, <1>4 DEF LockAccount, Respond, Released, TypeOK, exchangeVars, browserVars
<1>5. ASSUME NEW c \in Calls, Commit(c) PROVE TypeOK'
  <2>1. step[c] = "write" /\ order[c] \in Orders
    BY <1>5, Handling DEF Commit
  <2>2. /\ now' \in 0 .. MaxTime /\ balance' \in [Users -> Nat]
        /\ state' \in [Markets -> {"open", "closed", "settled"}]
    BY <1>5, <2>1, Charged, OrderParts DEF Commit, TypeOK
  <2>3. version' \in [Markets -> Nat]
    BY <1>5, <2>1, OrderParts DEF Commit, TypeOK
  <2>4. trades' \subseteq [order : Orders, version : Nat, at : 0 .. MaxTime]
    <3>1. [order |-> order[c], version |-> version[Order[order[c]].market], at |-> checked[c]]
             \in [order : Orders, version : Nat, at : 0 .. MaxTime]
      BY <2>1, OrderParts DEF TypeOK
    <3> QED  BY <1>5, <3>1 DEF Commit, TypeOK
  <2>5. /\ reply' \in [Keys -> Orders \cup {Nobody}]
        /\ holder' \in [Locks -> Txs \cup {Nobody}]
        /\ step' \in [Txs -> Steps]
        /\ answer' \in [Calls -> {"none", "receipt", "refused", "busy", "error"}]
    <3>1. reply' \in [Keys -> Orders \cup {Nobody}]
      BY <1>5, <2>1 DEF Commit, TypeOK
    <3>2. holder' = Released(c)
      BY <1>5 DEF Commit, Respond
    <3>3. \/ Respond(c, "receipt")
          \/ Respond(c, "error")
      BY <1>5 DEF Commit
    <3> QED  BY <1>0, <1>r, <3>1, <3>2, <3>3 DEF Respond, TypeOK, Steps
  <2> QED  BY <1>5, <2>2, <2>3, <2>4, <2>5 DEF Commit, TypeOK, Steps, browserVars
<1>6. ASSUME NEW c \in Calls, TimeOut(c) PROVE TypeOK'
  <2>1. /\ holder' \in [Locks -> Txs \cup {Nobody}]
        /\ step' \in [Txs -> Steps]
        /\ answer' \in [Calls -> {"none", "receipt", "refused", "busy", "error"}]
        /\ attempt' \in [Calls -> 0 .. Attempts]
    <3>1. CASE Respond(c, "busy") /\ UNCHANGED attempt
      BY <1>0, <1>r, <3>1 DEF Respond, TypeOK, Steps
    <3>2. CASE /\ MayRetry(c) /\ holder' = Released(c)
               /\ step' = [step EXCEPT ![c] = "key"]
               /\ attempt' = [attempt EXCEPT ![c] = @ + 1]
               /\ UNCHANGED answer
      <4>1. attempt' \in [Calls -> 0 .. Attempts]
        BY <3>2, BoundAssumption DEF MayRetry, TypeOK
      <4> QED  BY <1>0, <1>r, <3>2, <4>1 DEF TypeOK, Steps
    <3> QED  BY <1>6, <3>1, <3>2 DEF TimeOut
  <2> QED  BY <1>6, <2>1 DEF TimeOut, TypeOK, Steps, exchangeVars, browserVars
<1>7. ASSUME NEW c \in Calls, Arrive(c) PROVE TypeOK'
  <2>1. order[c] \in Orders
    BY <1>7, Handling DEF Arrive
  <2>2. Learned(order[c], answer[c]) \in {"new", "pending", "receipt", "refused", "forgotten"}
    BY <2>1 DEF Learned, TypeOK
  <2> QED  BY <1>0, <1>7, <2>1, <2>2, BoundAssumption DEF Arrive, TypeOK, exchangeVars
<1>8. ASSUME NEW c \in Calls, Die(c) PROVE TypeOK'
  BY <1>0, <1>8, BoundAssumption DEF Die, Fail, Released, TypeOK, exchangeVars
<1>9. ASSUME NEW c \in Calls, NEW o \in Orders, Send(o, c) PROVE TypeOK'
  <2>1. Preview(o) \in [version : Nat, expires : 0 .. CloseMs] \/ status[o] = "pending"
    BY <1>9, OrderParts, BoundAssumption DEF Send, Preview, TypeOK
  <2>2. quote' \in [Orders -> [version : Nat, expires : 0 .. CloseMs]]
    BY <1>9, <2>1 DEF Send, TypeOK
  <2>3. /\ status' \in [Orders -> {"new", "pending", "receipt", "refused", "forgotten"}]
        /\ waiting' \in [Orders -> Calls \cup {Nobody}]
        /\ order' \in [Calls -> Orders \cup {Nobody}]
    BY <1>9 DEF Send, TypeOK
  <2>4. step' \in [Txs -> Steps] /\ attempt' \in [Calls -> 0 .. Attempts]
    BY <1>0, <1>9, BoundAssumption DEF Send, TypeOK, Steps
  <2> QED  BY <1>9, <2>2, <2>3, <2>4 DEF Send, TypeOK, Steps, exchangeVars
<1>10. ASSUME NEW m \in Markets, CloseDue(m) PROVE TypeOK'
  BY <1>10 DEF CloseDue, CloseMarket, txVars, browserVars, TypeOK
<1>11. ASSUME NEW m \in Markets, SettleBegin(m) \/ SettleLock(m) \/ SettleTimeOut(m) PROVE TypeOK'
  <2>1. holder' \in [Locks -> Txs \cup {Nobody}] /\ step' \in [Txs -> Steps]
    <3>1. (\E k : holder' = [holder EXCEPT ![k] = m]) \/ holder' = Released(m)
      BY <1>11 DEF SettleBegin, SettleLock, SettleTimeOut
    <3>2. holder' \in [Locks -> Txs \cup {Nobody}]
      BY <1>0, <1>r, <3>1 DEF TypeOK
    <3>3. \/ UNCHANGED step \/ step' = [step EXCEPT ![m] = "account"]
          \/ step' = [step EXCEPT ![m] = "idle"]
      BY <1>11 DEF SettleBegin, SettleLock, SettleTimeOut
    <3> QED  BY <3>2, <3>3 DEF TypeOK, Steps
  <2>2. UNCHANGED <<exchangeVars, browserVars, reply, order, attempt, checked, answer, failures>>
    BY <1>11 DEF SettleBegin, SettleLock, SettleTimeOut
  <2> QED  BY <2>1, <2>2 DEF TypeOK, Steps, exchangeVars, browserVars
<1>12. ASSUME NEW m \in Markets, SettleCommit(m) PROVE TypeOK'
  <2>1. balance' \in [Users -> Nat]
    BY <1>12, Paid DEF SettleCommit, TypeOK
  <2> QED  BY <1>0, <1>12, <2>1 DEF SettleCommit, SettleMarket, Released, TypeOK, browserVars
<1>13. CASE Advance
  BY <1>13, BoundAssumption DEF Advance, txVars, browserVars, TypeOK
<1>14. ASSUME NEW o \in Orders, Lose(o) PROVE TypeOK'
  BY <1>14, BoundAssumption DEF Lose, Fail, exchangeVars, txVars, TypeOK
<1>15. CASE UNCHANGED vars
  BY <1>15 DEF vars, exchangeVars, txVars, browserVars, TypeOK
<1> QED  BY <1>1, <1>2, <1>3, <1>4, <1>5, <1>6, <1>7, <1>8, <1>9, <1>10, <1>11, <1>12, <1>13,
     <1>14, <1>15 DEF Next, Execution, Settlement

-----------------------------------------------------------------------------
(***************************************************************************)
(* Locks and checks.                                                       *)
(***************************************************************************)

\* A call's own steps take its locks one after the other and give all up at once.
LEMMA OwnKept ==
    ASSUME Inv, NEW c \in Calls, Moves(c)
    PROVE  Kept(c)'
<1> USE DEF Inv
<1>0. /\ c \in Txs /\ c # Nobody /\ Kept(c)
      /\ DOMAIN step = Txs /\ DOMAIN order = Calls /\ DOMAIN holder = Locks
  BY Names DEF Keeps, TypeOK
<1>1. CASE ClaimKey(c)
  <2>1. order[c] \in Orders
    BY <1>1, Handling DEF ClaimKey
  <2> QED  BY <1>0, <1>1, <2>1, OrderParts DEF ClaimKey, Respond, Replay, Kept
<1>2. CASE LockInstance(c)
  <2>1. order[c] \in Orders
    BY <1>2, Handling DEF LockInstance
  <2> QED  BY <1>0, <1>2, <2>1, OrderParts DEF LockInstance, Kept
<1>3. CASE CheckQuote(c)
  BY <1>0, <1>3 DEF CheckQuote, Respond, Kept
<1>4. CASE LockAccount(c)
  <2>1. order[c] \in Orders
    BY <1>4, Handling DEF LockAccount, AccountReady
  <2> QED  BY <1>0, <1>4, <2>1, OrderParts DEF LockAccount, AccountReady, Respond, Kept
<1>5. CASE Commit(c)
  BY <1>0, <1>5 DEF Commit, Respond, Kept
<1>6. CASE TimeOut(c)
  BY <1>0, <1>6, Awaiting DEF TimeOut, Respond, Kept
<1>7. CASE Arrive(c)
  BY <1>0, <1>7 DEF Arrive, Kept
<1>8. CASE Die(c)
  BY <1>0, <1>8 DEF Die, Kept
<1>9. ASSUME NEW o \in Orders, Send(o, c) PROVE Kept(c)'
  BY <1>0, <1>9, OrderParts DEF Send, Kept
<1> QED  BY <1>1, <1>2, <1>3, <1>4, <1>5, <1>6, <1>7, <1>8, <1>9 DEF Moves, Execution

\* A call that commits holds the key, the market and the account it changes.
LEMMA Committing ==
    ASSUME TypeOK, Keeps, Checks, NEW c \in Calls, Commit(c)
    PROVE  /\ order[c] \in Orders
           /\ holder[Order[order[c]].key] = c /\ reply[Order[order[c]].key] = Nobody
           /\ holder[Order[order[c]].market] = c /\ holder[Order[order[c]].user] = c
           /\ Charge(order[c])[Order[order[c]].user] >= 0
           /\ balance' = Charge(order[c])
           /\ trades' = trades \cup {[order |-> order[c],
                                      version |-> version[Order[order[c]].market],
                                      at |-> checked[c]]}
<1>1. order[c] \in Orders
  BY Handling DEF Commit
<1>2. Charge(order[c])[Order[order[c]].user] >= 0
  BY <1>1, Charged DEF Commit, Checks, Checked, TypeOK
<1> QED  BY <1>1, <1>2 DEF Commit, Keeps, Kept

\* Nobody answers the key of a call that holds it.
LEMMA OthersKept ==
    ASSUME Inv, [Next]_vars, NEW d \in Calls, ~Moves(d)
    PROVE  Kept(d)'
<1> USE DEF Inv
<1>1. /\ step'[d] = step[d] /\ order'[d] = order[d]
      /\ \A l \in Locks : holder[l] = d => holder'[l] = d
  BY OthersKeep
<1>2. Kept(d)
  BY DEF Keeps
<1>3. CASE step[d] \in {"market", "clock", "account", "write"}
  <2>1. order[d] \in Orders
    BY <1>3, Handling
  <2>2. reply'[Order[order[d]].key] = Nobody
    <3>1. ASSUME NEW c \in Calls, Commit(c) PROVE reply'[Order[order[d]].key] = Nobody
      <4>1. c # d
        BY <3>1 DEF Moves, Execution
      <4>2. Order[order[c]].key # Order[order[d]].key
        BY <1>2, <1>3, <3>1, <4>1, Committing DEF Kept
      <4> QED  BY <1>2, <1>3, <2>1, <3>1, <4>2, OrderParts DEF Commit, Kept, TypeOK
    <3> QED  BY <1>2, <1>3, <3>1, ExchangeMoves DEF Kept
  <2> QED  BY <1>1, <1>2, <1>3, <2>1, <2>2, OrderParts DEF Kept
<1>4. CASE step[d] \notin {"market", "clock", "account", "write"}
  BY <1>1, <1>2, <1>4 DEF Kept
<1> QED  BY <1>3, <1>4

\* What a call checks holds when it checks it.
LEMMA OwnChecked ==
    ASSUME Inv, NEW c \in Calls, Moves(c)
    PROVE  Checked(c)'
<1> USE DEF Inv
<1>0. /\ c \in Txs /\ Checked(c) /\ now \in Nat
      /\ DOMAIN step = Txs /\ DOMAIN order = Calls /\ DOMAIN checked = Calls
  BY Names DEF Checks, TypeOK
<1>1. CASE ClaimKey(c)
  BY <1>0, <1>1 DEF ClaimKey, Respond, Checked, exchangeVars
<1>2. CASE LockInstance(c)
  BY <1>0, <1>2 DEF LockInstance, Checked, exchangeVars
<1>3. CASE CheckQuote(c)
  BY <1>0, <1>3 DEF CheckQuote, Quoted, Respond, Checked, exchangeVars, browserVars
<1>4. CASE LockAccount(c)
  BY <1>0, <1>4 DEF LockAccount, AccountReady, Respond, Checked, Affordable, Holding,
     exchangeVars, browserVars
<1>5. CASE Commit(c)
  BY <1>0, <1>5 DEF Commit, Respond, Checked
<1>6. CASE TimeOut(c)
  BY <1>0, <1>6 DEF TimeOut, Respond, Checked, exchangeVars
<1>7. CASE Arrive(c)
  BY <1>0, <1>7 DEF Arrive, Checked, exchangeVars
<1>8. CASE Die(c)
  BY <1>0, <1>8 DEF Die, Checked, exchangeVars
<1>9. ASSUME NEW o \in Orders, Send(o, c) PROVE Checked(c)'
  BY <1>0, <1>9 DEF Send, Checked, exchangeVars
<1> QED  BY <1>1, <1>2, <1>3, <1>4, <1>5, <1>6, <1>7, <1>8, <1>9 DEF Moves, Execution

\* An order is quoted once, before it is sent.
LEMMA QuoteStays ==
    ASSUME [Next]_vars, TypeOK, NEW o \in Orders, status[o] # "new"
    PROVE  quote'[o] = quote[o]
<1>1. ASSUME NEW c \in Calls, NEW p \in Orders, Send(p, c) PROVE quote'[o] = quote[o]
  BY <1>1 DEF Send, TypeOK
<1>2. ASSUME NEW c \in Calls, Execution(c) \/ Die(c) PROVE UNCHANGED quote
  BY <1>2 DEF Execution, ClaimKey, LockInstance, CheckQuote, LockAccount, Commit, TimeOut,
     Arrive, Die, browserVars
<1>3. ASSUME NEW m \in Markets, CloseDue(m) \/ Settlement(m) \/ SettleTimeOut(m)
      PROVE  UNCHANGED quote
  BY <1>3 DEF CloseDue, Settlement, SettleBegin, SettleLock, SettleCommit, SettleTimeOut,
     browserVars
<1>4. CASE Advance \/ \E p \in Orders : Lose(p)
  BY <1>4 DEF Advance, Lose, browserVars
<1>5. CASE UNCHANGED vars
  BY <1>5 DEF vars, browserVars
<1> QED  BY <1>1, <1>2, <1>3, <1>4, <1>5 DEF Next

\* What a call can pay or sell, it still can while it holds the account.
LEMMA StaysAffordable ==
    ASSUME Inv, [Next]_vars, NEW d \in Calls, ~Moves(d), step[d] = "write",
           NEW o \in Orders, o = order[d]
    PROVE  Affordable(o)'
<1> USE DEF Inv
<1> DEFINE m == Order[o].market
           u == Order[o].user
<1>1. m \in Markets /\ u \in Users /\ u \in Locks
  BY OrderParts
<1>2. Affordable(o) /\ holder[u] = d
  BY DEF Checks, Checked, Keeps, Kept
<1>3. ASSUME NEW c \in Calls, Commit(c) PROVE Affordable(o)'
  <2>1. c # d
    BY <1>3 DEF Moves, Execution
  <2>2. order[c] \in Orders /\ Order[order[c]].user # u
    BY <1>2, <1>3, <2>1, Committing
  <2>3. balance'[u] = balance[u]
    BY <1>1, <1>3, <2>2, Committing, Charged DEF TypeOK
  <2>4. Holding(u, m)' = Holding(u, m)
    <3> DEFINE t == [order |-> order[c], version |-> version[Order[order[c]].market],
                     at |-> checked[c]]
    <3>1. trades' = trades \cup {t} /\ t.order = order[c]
      BY <1>3, Committing
    <3> HIDE DEF t
    <3>2. \A p : p = t => p.order = order[c] /\ trades' = trades \cup {p}
      BY <3>1
    <3>3. PICK p : p = t
      OBVIOUS
    <3>4. Order[p.order].user # u /\ trades' = trades \cup {p} /\ IsFiniteSet(trades)
      BY <2>2, <3>2, <3>3 DEF Trades
    <3> QED  BY <3>4, HoldingMoves
  <2> QED  BY <1>2, <2>3, <2>4 DEF Affordable
<1>4. ASSUME NEW n \in Markets, SettleCommit(n) PROVE Affordable(o)'
  <2>1. balance'[u] >= balance[u] /\ balance[u] \in Nat /\ balance'[u] \in Nat
    BY <1>1, <1>4, Paid DEF SettleCommit, TypeOK
  <2>2. Holding(u, m)' = Holding(u, m)
    BY <1>4 DEF SettleCommit, SettleMarket, Holding
  <2> QED  BY <1>1, <1>2, <2>1, <2>2, OrderParts DEF Affordable
<1>5. CASE UNCHANGED <<balance, trades>>
  BY <1>2, <1>5 DEF Affordable, Holding
<1> QED  BY <1>3, <1>4, <1>5, ExchangeMoves DEF exchangeVars, Advance, CloseDue, CloseMarket

\* No other transaction changes a market or spends from an account under a call's locks.
LEMMA OthersChecked ==
    ASSUME Inv, [Next]_vars, NEW d \in Calls, ~Moves(d)
    PROVE  Checked(d)'
<1> USE DEF Inv
<1>1. /\ step'[d] = step[d] /\ order'[d] = order[d] /\ checked'[d] = checked[d]
  BY OthersKeep
<1>2. Kept(d) /\ Checked(d)
  BY DEF Keeps, Checks
<1>3. checked'[d] <= now'
  <2>1. now' = now \/ now' = now + 1
    BY ExchangeMoves DEF exchangeVars, Commit, CloseDue, CloseMarket, SettleCommit,
       SettleMarket, Advance
  <2> QED  BY <1>1, <1>2, <2>1 DEF Checked, TypeOK
<1>4. CASE step[d] \in {"account", "write"}
  <2> DEFINE o == order[d]
             m == Order[o].market
             u == Order[o].user
  <2>1. /\ o \in Orders /\ m \in Markets /\ u \in Users
        /\ m \in Locks /\ u \in Locks /\ d # Nobody
    BY <1>4, Handling, OrderParts, Names
  <2>2. holder[m] = d /\ state[m] = "open" /\ version[m] = quote[o].version
    BY <1>2, <1>4 DEF Kept, Checked
  <2>3. quote'[o] = quote[o]
    BY <2>1, QuoteStays DEF Unsent
  <2>4. ASSUME NEW c \in Calls, Commit(c)
        PROVE  /\ c # d /\ Order[order[c]].market # m
               /\ step[d] = "write" => Order[order[c]].user # u
    <3>1. c # d
      BY <2>4 DEF Moves, Execution
    <3> QED  BY <1>2, <2>2, <2>4, <3>1, Committing DEF Kept
  <2>5. state'[m] = "open" /\ version'[m] = version[m]
    <3>1. ASSUME NEW c \in Calls, Commit(c) PROVE state'[m] = "open" /\ version'[m] = version[m]
      BY <2>1, <2>2, <2>4, <3>1 DEF Commit, TypeOK
    <3>2. ASSUME NEW n \in Markets, CloseDue(n) \/ SettleCommit(n)
          PROVE  state'[m] = "open" /\ version'[m] = version[m]
      <4>1. n # m
        BY <2>1, <2>2, <3>2 DEF CloseDue, Free, SettleCommit, SettleMarket
      <4> QED  BY <2>1, <2>2, <3>2, <4>1 DEF CloseDue, CloseMarket, SettleCommit, SettleMarket,
               TypeOK
    <3> QED  BY <2>2, <3>1, <3>2, ExchangeMoves DEF exchangeVars, Advance
  <2>6. step[d] = "write" => Affordable(order[d])'
    <3>1. ASSUME step[d] = "write", NEW p \in Orders, p = order[d] PROVE Affordable(p)'
      BY <3>1, StaysAffordable
    <3> QED  BY <1>1, <2>1, <3>1 DEF Affordable, Holding
  <2> QED  BY <1>1, <1>2, <1>3, <1>4, <2>2, <2>3, <2>5, <2>6 DEF Checked
<1>5. CASE step[d] \notin {"account", "write"}
  BY <1>1, <1>3, <1>5 DEF Checked
<1> QED  BY <1>4, <1>5

-----------------------------------------------------------------------------
(***************************************************************************)
(* Trades.                                                                 *)
(***************************************************************************)

\* The new trade takes an unanswered key, and a sale a share that is there.
LEMMA TradesStep ==
    ASSUME Inv, [Next]_vars
    PROVE  Trades'
<1> USE DEF Inv
<1>1. ASSUME NEW c \in Calls, Commit(c) PROVE Trades'
  <2>1. \E t : /\ t.order = order[c] /\ trades' = trades \cup {t}
               /\ t = [order |-> order[c], version |-> version[Order[order[c]].market],
                       at |-> checked[c]]
    BY <1>1, Committing
  <2>2. PICK t : t.order = order[c] /\ trades' = trades \cup {t}
    BY <2>1
  <2>3. order[c] \in Orders /\ reply[Order[order[c]].key] = Nobody /\ Affordable(order[c])
    BY <1>1, Committing DEF Commit, Checks, Checked
  <2>4. IsFiniteSet(trades')
    BY <2>2, FS_AddElement DEF Trades
  <2>5. reply' = [reply EXCEPT ![Order[order[c]].key] = order[c]]
    BY <1>1, Charged, Committing DEF Commit
  <2>6. ASSUME NEW s \in trades' PROVE reply'[Order[s.order].key] = s.order
    <3>1. CASE s \in trades
      <4>1. s.order \in Orders /\ reply[Order[s.order].key] = s.order
        BY <3>1 DEF TypeOK, Trades
      <4>2. Order[s.order].key # Order[order[c]].key
        BY <2>3, <4>1, OrderParts
      <4> QED  BY <2>5, <4>1, <4>2, OrderParts DEF TypeOK
    <3>2. CASE s = t
      BY <2>2, <2>3, <2>5, <3>2, OrderParts DEF TypeOK
    <3> QED  BY <2>2, <3>1, <3>2
  <2>7. ASSUME NEW u \in Users, NEW m \in Markets PROVE Holding(u, m)' >= 0
    <3>1. Holding(u, m) \in Int /\ Holding(u, m) >= 0
      BY HoldingDeals DEF Trades
    <3>2. /\ Holding(u, m)' \in Int
          /\ ~(Order[t.order].user = u /\ Order[t.order].market = m) =>
                 Holding(u, m)' = Holding(u, m)
          /\ Order[t.order].side # "sell" => Holding(u, m)' >= Holding(u, m)
          /\ Holding(u, m)' >= Holding(u, m) - 1
      BY <2>2, HoldingMoves DEF Trades
    <3>3. ASSUME Order[t.order].user = u, Order[t.order].market = m,
                 Order[t.order].side = "sell"
          PROVE  Holding(u, m) > 0
      BY <2>2, <2>3, <3>3 DEF Affordable
    <3> QED  BY <3>1, <3>2, <3>3
  <2> QED  BY <2>4, <2>6, <2>7 DEF Trades
<1>2. CASE UNCHANGED <<trades, reply>>
  BY <1>2 DEF Trades, Holding
<1> QED  BY <1>1, <1>2, ExchangeMoves DEF exchangeVars, CloseDue, CloseMarket, SettleCommit,
     SettleMarket, Advance

\* A browser never takes an order it sent for a new one.
LEMMA StatusStep ==
    ASSUME Inv, [Next]_vars, NEW o \in Orders, status'[o] = "new"
    PROVE  status[o] = "new"
<1> USE DEF Inv
<1>1. ASSUME NEW c \in Calls, Arrive(c) PROVE status[o] = "new"
  <2>1. order[c] \in Orders
    BY <1>1, Handling DEF Arrive
  <2>2. order[c] # o \/ status[o] # "new"
    BY DEF Unsent
  <2>3. status[order[c]] # "new"
    BY <2>1 DEF Unsent
  <2>4. Learned(order[c], answer[c]) # "new"
    BY <2>3 DEF Learned
  <2> QED  BY <1>1, <2>1, <2>4 DEF Arrive, TypeOK
<1>2. ASSUME NEW c \in Calls, Execution(c) \/ Die(c), ~Arrive(c) PROVE UNCHANGED status
  BY <1>2 DEF Execution, ClaimKey, LockInstance, CheckQuote, LockAccount, Commit, TimeOut,
     Die, browserVars
<1>3. ASSUME NEW c \in Calls, NEW p \in Orders, Send(p, c) PROVE status[o] = "new"
  BY <1>3 DEF Send, TypeOK
<1>4. ASSUME NEW m \in Markets, CloseDue(m) \/ Settlement(m) \/ SettleTimeOut(m)
      PROVE  UNCHANGED status
  BY <1>4 DEF CloseDue, Settlement, SettleBegin, SettleLock, SettleCommit, SettleTimeOut,
     browserVars
<1>5. CASE Advance \/ \E p \in Orders : Lose(p)
  BY <1>5 DEF Advance, Lose, browserVars
<1>6. CASE UNCHANGED vars
  BY <1>6 DEF vars, browserVars
<1> QED  BY <1>1, <1>2, <1>3, <1>4, <1>5, <1>6 DEF Next

\* A call handles the order it did, or one that is being sent to it.
LEMMA OrderStep ==
    ASSUME TypeOK, [Next]_vars, NEW c \in Calls, NEW o \in Orders, order'[c] = o
    PROVE  order[c] = o \/ status'[o] # "new"
<1>1. CASE ~Moves(c)
  BY <1>1, OthersKeep
<1>2. CASE Execution(c)
  BY <1>2, OrderParts DEF Execution, ClaimKey, LockInstance, CheckQuote, LockAccount, Commit,
     TimeOut, Arrive, TypeOK
<1>3. CASE Die(c)
  BY <1>3, OrderParts DEF Die, TypeOK
<1>4. ASSUME NEW p \in Orders, Send(p, c) PROVE order[c] = o \/ status'[o] # "new"
  BY <1>4 DEF Send, TypeOK
<1> QED  BY <1>1, <1>2, <1>3, <1>4 DEF Moves

\* An order that is executed has been sent.
LEMMA UnsentStep ==
    ASSUME Inv, [Next]_vars
    PROVE  Unsent'
<1> USE DEF Inv
<1> SUFFICES ASSUME NEW o \in Orders, status'[o] = "new"
             PROVE  ~Executed(o)' /\ \A c \in Calls : order'[c] # o
  BY DEF Unsent
<1>1. status[o] = "new" /\ ~Executed(o) /\ \A c \in Calls : order[c] # o
  BY StatusStep DEF Unsent
<1>2. ~Executed(o)'
  <2>1. ASSUME NEW c \in Calls, Commit(c) PROVE ~Executed(o)'
    BY <1>1, <2>1, Committing DEF Executed
  <2> QED  BY <1>1, <2>1, ExchangeMoves DEF Executed, exchangeVars, CloseDue, CloseMarket,
           SettleCommit, SettleMarket, Advance
<1> QED  BY <1>1, <1>2, OrderStep

\* A trade keeps the quote it was made on.
LEMMA QuotedStep ==
    ASSUME Inv, [Next]_vars
    PROVE  TradedAsQuoted'
<1> USE DEF Inv
<1>1. ASSUME NEW t \in trades
      PROVE  t.version = quote'[t.order].version /\ t.at < quote'[t.order].expires
  <2>1. t.order \in Orders /\ status[t.order] # "new"
    BY DEF TypeOK, Unsent, Executed
  <2> QED  BY <2>1, QuoteStays DEF TradedAsQuoted
<1>2. ASSUME NEW c \in Calls, Commit(c) PROVE TradedAsQuoted'
  <2>1. trades' = trades \cup {[order |-> order[c],
                                version |-> version[Order[order[c]].market],
                                at |-> checked[c]]}
    BY <1>2, Committing
  <2>2. /\ version[Order[order[c]].market] = quote[order[c]].version
        /\ checked[c] < quote[order[c]].expires
        /\ UNCHANGED quote
    BY <1>2 DEF Commit, Checks, Checked, browserVars
  <2> QED  BY <1>1, <2>1, <2>2 DEF TradedAsQuoted
<1>3. CASE UNCHANGED trades
  BY <1>1, <1>3 DEF TradedAsQuoted
<1> QED  BY <1>2, <1>3, ExchangeMoves DEF exchangeVars, CloseDue, CloseMarket, SettleCommit,
     SettleMarket, Advance

\* No handler fails at the transfer.
LEMMA AnswerStep ==
    ASSUME Inv, [Next]_vars
    PROVE  ChecksHold'
<1> USE DEF Inv
<1> SUFFICES ASSUME NEW c \in Calls PROVE answer'[c] # "error"
  BY DEF ChecksHold
<1>0. answer[c] # "error" /\ DOMAIN answer = Calls
  BY DEF ChecksHold, TypeOK
<1>1. CASE ~Moves(c)
  BY <1>0, <1>1, OthersKeep
<1>2. CASE Commit(c)
  BY <1>0, <1>2, Committing DEF Commit, Respond
<1>3. CASE Execution(c) /\ ~Commit(c)
  BY <1>0, <1>3 DEF Execution, ClaimKey, LockInstance, CheckQuote, LockAccount, TimeOut,
     Arrive, Respond
<1>4. CASE Die(c) \/ \E o \in Orders : Send(o, c)
  BY <1>0, <1>4 DEF Die, Send
<1> QED  BY <1>1, <1>2, <1>3, <1>4 DEF Moves

-----------------------------------------------------------------------------
(***************************************************************************)
(* Results.                                                                *)
(***************************************************************************)

\* The invariant holds at first.
LEMMA InitInv ==
    ASSUME Init
    PROVE  Inv
<1>1. TypeOK
  BY OrderAssumption, BoundAssumption DEF Init, ExchangeInit, TypeOK
<1>2. Keeps /\ Checks
  BY Names DEF Init, ExchangeInit, Keeps, Kept, Checks, Checked
<1>3. Trades
  <2>1. trades = {} /\ IsFiniteSet(trades)
    BY FS_EmptySet DEF Init, ExchangeInit
  <2>2. ASSUME NEW u \in Users, NEW m \in Markets PROVE Holding(u, m) >= 0
    <3>1. Deals(u, m, "buy") = {} /\ Deals(u, m, "sell") = {}
      BY <2>1 DEF Deals
    <3>2. Holding(u, m) = Cardinality({}) - Cardinality({})
      BY <2>1, <3>1, HoldingDeals
    <3> QED  BY <3>2, FS_EmptySet
  <2> QED  BY <2>1, <2>2 DEF Trades
<1>4. Unsent
  BY OrderParts DEF Init, ExchangeInit, Unsent, Executed
<1>5. TradedAsQuoted /\ ChecksHold
  BY DEF Init, ExchangeInit, TradedAsQuoted, ChecksHold
<1> QED  BY <1>1, <1>2, <1>3, <1>4, <1>5 DEF Inv

\* Every step keeps it.
LEMMA NextInv ==
    ASSUME Inv, [Next]_vars
    PROVE  Inv'
<1>1. Keeps'
  BY OwnKept, OthersKept DEF Keeps
<1>2. Checks'
  BY OwnChecked, OthersChecked DEF Checks
<1> QED  BY <1>1, <1>2, TypeStep, TradesStep, UnsentStep, QuotedStep, AnswerStep DEF Inv

\* The invariant holds in every reachable state.
LEMMA Invariance == Spec => []Inv
<1>1. Init => Inv
  BY InitInv
<1>2. Inv /\ [Next]_vars => Inv'
  BY NextInv
<1> QED  BY <1>1, <1>2, PTL DEF Spec

(***************************************************************************)
(* The transaction's state has its types: no balance is ever negative,     *)
(* whatever trades, settlements and retries run at the same time.          *)
(***************************************************************************)
THEOREM TradeTypes == Spec => []TypeOK
<1>1. Inv => TypeOK
  BY DEF Inv
<1> QED  BY <1>1, Invariance, PTL

(***************************************************************************)
(* Every trade is executed at the version its holder was quoted, and was   *)
(* checked before the quote expired.                                       *)
(***************************************************************************)
THEOREM ExecutedAsQuoted == Spec => []TradedAsQuoted
<1>1. Inv => TradedAsQuoted
  BY DEF Inv
<1> QED  BY <1>1, Invariance, PTL

(***************************************************************************)
(* A balance or position checked under the account's lock is still there   *)
(* at the transfer, so no checked trade ends in an internal error.         *)
(***************************************************************************)
THEOREM CheckedTradesSucceed == Spec => []ChecksHold
<1>1. Inv => ChecksHold
  BY DEF Inv
<1> QED  BY <1>1, Invariance, PTL

\* An order whose key is unanswered has no trade, and a trade's key has its order.
LEMMA AnsweredKeys ==
    ASSUME TypeOK, Trades
    PROVE  /\ \A o \in Orders : Executed(o) => reply[Order[o].key] = o
           /\ \A k : reply[k] = Nobody => ~KeyUsed(k)
  BY OrderParts DEF Trades, TypeOK, Executed, KeyUsed

(***************************************************************************)
(* A call never refuses an order that has been executed: neither a replay  *)
(* of its key nor a check of its quote or account can.                     *)
(***************************************************************************)
THEOREM ExecutedNotRefused == Spec => RefusedNotExecuted
<1>1. ASSUME Inv, [Next]_vars, NEW c \in Calls, answer[c] = "none", answer'[c] = "refused"
      PROVE  ~Executed(order[c])
  <2>0. TypeOK /\ Keeps /\ Trades /\ DOMAIN answer = Calls
    BY <1>1 DEF Inv, TypeOK
  <2>1. Moves(c)
    BY <1>1, <2>0, OthersKeep
  <2>2. CASE ClaimKey(c)
    <3>1. order[c] \in Orders
      BY <2>0, <2>2, Handling DEF ClaimKey
    <3>2. reply[Order[order[c]].key] # order[c]
      BY <1>1, <2>0, <2>2 DEF ClaimKey, Replay, Respond
    <3> QED  BY <2>0, <3>1, <3>2, AnsweredKeys
  <2>3. CASE CheckQuote(c) \/ LockAccount(c)
    <3>1. step[c] \in {"clock", "account"}
      BY <2>3 DEF CheckQuote, LockAccount, AccountReady
    <3>2. order[c] \in Orders /\ reply[Order[order[c]].key] = Nobody
      BY <2>0, <3>1, Handling DEF Keeps, Kept
    <3> QED  BY <2>0, <3>2, AnsweredKeys, OrderParts
  <2>4. CASE LockInstance(c) \/ Commit(c) \/ TimeOut(c) \/ Arrive(c)
    BY <1>1, <2>0, <2>4 DEF LockInstance, Commit, TimeOut, Arrive, Respond
  <2>5. CASE Die(c) \/ \E o \in Orders : Send(o, c)
    BY <1>1, <2>0, <2>5 DEF Die, Send
  <2> QED  BY <2>1, <2>2, <2>3, <2>4, <2>5 DEF Moves, Execution
<1>2. Inv /\ [Next]_vars =>
          [\A c \in Calls : answer[c] = "none" /\ answer'[c] = "refused"
                                => ~Executed(order[c])]_vars
  BY <1>1
<1> QED  BY <1>2, Invariance, PTL DEF RefusedNotExecuted, Spec

\* Every step is one of the exchange, or changes nothing of it.
LEMMA ExchangeStep ==
    ASSUME Inv, [Next]_vars
    PROVE  [ExchangeNext]_exchangeVars
<1>1. TypeOK /\ Keeps /\ Checks /\ Trades
  BY DEF Inv
<1>2. ASSUME NEW c \in Calls, Commit(c) PROVE ExchangeNext
  <2> DEFINE o == order[c]
             m == Order[o].market
  <2>1. o \in Orders /\ reply[Order[o].key] = Nobody /\ balance' = Charge(o)
    BY <1>1, <1>2, Committing
  <2>2. state[m] = "open" /\ Affordable(o) /\ checked[c] <= now /\ checked[c] < quote[o].expires
    BY <1>1, <1>2 DEF Checks, Checked, Commit
  <2>3. ~KeyUsed(Order[o].key)
    BY <1>1, <2>1, AnsweredKeys
  <2>4. version' = [version EXCEPT ![m] = @ + 1] /\ UNCHANGED <<now, state>>
    BY <1>1, <1>2, Committing DEF Commit
  <2>5. checked[c] \in 0 .. now /\ checked[c] < CloseMs
    BY <1>1, <2>1, <2>2, BoundAssumption DEF TypeOK
  <2>6. \E at \in 0 .. now :
           /\ at < CloseMs
           /\ trades' = trades \cup {[order |-> o, version |-> version[m], at |-> at]}
    BY <1>1, <1>2, <2>5, Committing
  <2>7. ExecuteOrder(o)
    BY <2>1, <2>2, <2>3, <2>4, <2>6 DEF ExecuteOrder
  <2> QED  BY <2>1, <2>7 DEF ExchangeNext
<1>3. ASSUME NEW m \in Markets, CloseDue(m) \/ SettleCommit(m) PROVE ExchangeNext
  BY <1>3 DEF CloseDue, SettleCommit, ExchangeNext
<1>4. CASE Advance
  BY <1>1, <1>4 DEF Advance, Pass, ExchangeNext, TypeOK
<1> QED  BY <1>2, <1>3, <1>4, ExchangeMoves

(***************************************************************************)
(* The locks and statements of the trade transaction implement the         *)
(* exchange: however calls interleave, time out, crash and are sent again, *)
(* orders are executed one at a time, at most once per key, at the quoted  *)
(* version, before the close and with what the account has.                *)
(***************************************************************************)
THEOREM TradesImplementExchange == Spec => ImplementsExchange
<1>1. Init => ExchangeInit
  BY DEF Init
<1>2. Inv /\ [Next]_vars => [ExchangeNext]_exchangeVars
  BY ExchangeStep
<1> QED  BY <1>1, <1>2, Invariance, PTL DEF Spec, ImplementsExchange, ExchangeSpec

\* The versions of a market's trades are behind it
Behind ==
    /\ version \in [Markets -> Nat]
    /\ \A t \in trades : /\ t.order \in Orders /\ t.version \in Nat
                        /\ t.version < version[Order[t.order].market]

\* The abstract exchange executes the trades of a market one after the other.
LEMMA ExchangeSerial == ExchangeSpec => [](Behind /\ TradesSerial)
<1>1. ExchangeInit => Behind /\ TradesSerial
  BY DEF ExchangeInit, Behind, TradesSerial
<1>2. Behind /\ TradesSerial /\ [ExchangeNext]_exchangeVars => Behind' /\ TradesSerial'
  <2> SUFFICES ASSUME Behind, TradesSerial, [ExchangeNext]_exchangeVars
               PROVE  Behind' /\ TradesSerial'
    OBVIOUS
  <2>1. ASSUME NEW o \in Orders, ExecuteOrder(o) PROVE Behind' /\ TradesSerial'
    <3> DEFINE m == Order[o].market
    <3>1. PICK at : trades' = trades \cup {[order |-> o, version |-> version[m], at |-> at]}
      BY <2>1 DEF ExecuteOrder
    <3>2. \E t : /\ t.order = o /\ t.version = version[m] /\ trades' = trades \cup {t}
      BY <3>1
    <3>3. PICK t : t.order = o /\ t.version = version[m] /\ trades' = trades \cup {t}
      BY <3>2
    <3>4. /\ m \in Markets /\ version[m] \in Nat
          /\ version' = [version EXCEPT ![m] = @ + 1]
          /\ \A s \in trades : Order[s.order].key # Order[o].key
      BY <2>1, OrderParts DEF ExecuteOrder, KeyUsed, Behind
    <3>5. Behind'
      <4>1. ASSUME NEW s \in trades
            PROVE  s.version < version'[Order[s.order].market]
        BY <3>4, OrderParts DEF Behind
      <4> QED  BY <3>3, <3>4, <4>1 DEF Behind
    <3>6. TradesSerial'
      <4>1. ASSUME NEW s \in trades, Order[s.order].market = m PROVE s.version # t.version
        BY <3>3, <3>4, <4>1 DEF Behind
      <4> QED  BY <3>3, <3>4, <4>1 DEF TradesSerial
    <3> QED  BY <3>5, <3>6
  <2>2. ASSUME NEW m \in Markets, CloseMarket(m) \/ SettleMarket(m)
        PROVE  Behind' /\ TradesSerial'
    <3>1. /\ trades' = trades
          /\ \/ version' = [version EXCEPT ![m] = @ + 1]
             \/ version' = [version EXCEPT ![m] = @ + 2]
      BY <2>2 DEF CloseMarket, SettleMarket
    <3>2. /\ version' \in [Markets -> Nat]
          /\ \A n \in Markets : version'[n] >= version[n]
      BY <3>1 DEF Behind
    <3>3. ASSUME NEW s \in trades PROVE s.version < version'[Order[s.order].market]
      BY <3>2, OrderParts DEF Behind
    <3> QED  BY <3>1, <3>2, <3>3 DEF Behind, TradesSerial
  <2>3. CASE Pass \/ UNCHANGED exchangeVars
    BY <2>3 DEF Pass, exchangeVars, Behind, TradesSerial
  <2> QED  BY <2>1, <2>2, <2>3 DEF ExchangeNext
<1> QED  BY <1>1, <1>2, PTL DEF ExchangeSpec

(***************************************************************************)
(* A key is spent on one trade, and no version of a market is traded on    *)
(* twice, however often a request is sent, retried or replayed: because    *)
(* the exchange, which the transaction implements, has it so.              *)
(***************************************************************************)
THEOREM TradedOnce == Spec => []TradesSerial
<1>1. ExchangeSpec => []TradesSerial
  BY ExchangeSerial, PTL
<1> QED  BY <1>1, TradesImplementExchange DEF ImplementsExchange

-----------------------------------------------------------------------------
(***************************************************************************)
(* Who holds what.                                                         *)
(***************************************************************************)

\* The locks a call has taken by the statement it is at
Taken(c, l) ==
    \/ step[c] \in {"market", "clock", "account", "write"} /\ l = Order[order[c]].key
    \/ step[c] \in {"clock", "account", "write"} /\ l = Order[order[c]].market
    \/ step[c] = "write" /\ l = Order[order[c]].user

\* A call holds no other lock than those
CallHolds(c) == \A l \in Locks : holder[l] = c => Taken(c, l)

\* A settlement has the accounts before each one it holds
InOrder(m, l) ==
    /\ l \in SettledAccounts(m)
    /\ \A b \in SettledAccounts(m) : Place(b) < Place(l) => holder[b] = m

\* A settlement holds its market, and the first accounts of those it needs
MarketHolds(m) ==
    /\ step[m] \in {"idle", "account"}
    /\ step[m] = "account" => holder[m] = m
    /\ \A l \in Locks : holder[l] = m => step[m] = "account" /\ (l = m \/ InOrder(m, l))

Holds == (\A c \in Calls : CallHolds(c)) /\ (\A m \in Markets : MarketHolds(m))

\* A step of a market's settlement
SettlementMoves(m) == Settlement(m) \/ SettleTimeOut(m)

\* A lock that a transaction holds after a step it held before, or took in it.
LEMMA TakersMove ==
    ASSUME TypeOK, [Next]_vars, NEW d \in Txs, NEW l \in Locks, holder[l] # d, holder'[l] = d
    PROVE  \/ d \in Calls /\ Moves(d)
           \/ d \in Markets /\ SettlementMoves(d)
<1>0. holder \in [Locks -> Txs \cup {Nobody}] /\ d # Nobody
  BY Names DEF TypeOK, Txs
<1>1. ASSUME NEW t \in Txs, holder' = Released(t) PROVE FALSE
  BY <1>0, <1>1 DEF Released
<1>2. ASSUME NEW t \in Txs, t # d, NEW k, holder' = [holder EXCEPT ![k] = t] PROVE FALSE
  BY <1>0, <1>2
<1>3. ASSUME NEW c \in Calls, Execution(c)
      PROVE  \/ UNCHANGED holder \/ holder' = Released(c)
             \/ \E k : holder' = [holder EXCEPT ![k] = c]
  BY <1>3 DEF Execution, ClaimKey, LockInstance, CheckQuote, LockAccount, AccountReady,
     Commit, TimeOut, Arrive, Respond
<1>4. ASSUME NEW c \in Calls, Die(c) \/ \E o \in Orders : Send(o, c)
      PROVE  UNCHANGED holder \/ holder' = Released(c)
  BY <1>4 DEF Die, Send
<1>5. ASSUME NEW m \in Markets, CloseDue(m) PROVE UNCHANGED holder
  BY <1>5 DEF CloseDue, txVars
<1>6. ASSUME NEW m \in Markets, SettlementMoves(m)
      PROVE  holder' = Released(m) \/ \E k : holder' = [holder EXCEPT ![k] = m]
  BY <1>6 DEF SettlementMoves, Settlement, SettleBegin, SettleLock, SettleCommit, SettleTimeOut
<1>7. CASE Advance \/ \E o \in Orders : Lose(o)
  BY <1>0, <1>7 DEF Advance, Lose, txVars
<1>8. CASE UNCHANGED vars
  BY <1>0, <1>8 DEF vars, txVars
<1>9. CASE \E c \in Calls : Moves(c)
  <2>1. PICK c \in Calls : Moves(c)
    BY <1>9
  <2>2. c = d
    BY <1>0, <1>1, <1>2, <1>3, <1>4, <2>1, Names DEF Moves
  <2> QED  BY <2>1, <2>2
<1>10. CASE \E m \in Markets : CloseDue(m) \/ SettlementMoves(m)
  <2>1. PICK m \in Markets : CloseDue(m) \/ SettlementMoves(m)
    BY <1>10
  <2>2. SettlementMoves(m) /\ m = d
    BY <1>0, <1>1, <1>2, <1>5, <1>6, <2>1, Names
  <2> QED  BY <2>1, <2>2
<1> QED  BY <1>7, <1>8, <1>9, <1>10 DEF Next, Moves, SettlementMoves

\* A call's own steps take one lock each, and the last gives up all.
LEMMA OwnHolds ==
    ASSUME Inv, NEW c \in Calls, CallHolds(c), Moves(c)
    PROVE  CallHolds(c)'
<1> USE DEF Inv
<1>0. /\ c \in Txs /\ c # Nobody /\ Kept(c)
      /\ DOMAIN step = Txs /\ DOMAIN order = Calls /\ DOMAIN holder = Locks
  BY Names DEF Keeps, TypeOK
<1>r. ASSUME NEW l \in Locks, holder' = Released(c) PROVE holder'[l] # c
  BY <1>0, <1>r DEF Released
<1>1. CASE ClaimKey(c)
  BY <1>0, <1>1, <1>r DEF ClaimKey, Respond, CallHolds, Taken
<1>2. CASE LockInstance(c)
  BY <1>0, <1>2 DEF LockInstance, CallHolds, Taken
<1>3. CASE CheckQuote(c)
  BY <1>0, <1>3, <1>r DEF CheckQuote, Respond, CallHolds, Taken
<1>4. CASE LockAccount(c)
  BY <1>0, <1>4, <1>r DEF LockAccount, AccountReady, Respond, CallHolds, Taken
<1>5. CASE Commit(c) \/ TimeOut(c) \/ Die(c)
  BY <1>5, <1>r DEF Commit, TimeOut, Die, Respond, CallHolds
<1>6. CASE Arrive(c)
  BY <1>0, <1>6 DEF Arrive, CallHolds, Taken
<1>7. ASSUME NEW o \in Orders, Send(o, c) PROVE CallHolds(c)'
  BY <1>0, <1>7 DEF Send, Kept, CallHolds, Taken
<1> QED  BY <1>1, <1>2, <1>3, <1>4, <1>5, <1>6, <1>7 DEF Moves, Execution

\* Nobody takes a lock for a call.
LEMMA OthersHold ==
    ASSUME Inv, [Next]_vars, NEW d \in Calls, CallHolds(d), ~Moves(d)
    PROVE  CallHolds(d)'
<1>1. step'[d] = step[d] /\ order'[d] = order[d]
  BY OthersKeep DEF Inv
<1>2. \A l \in Locks : holder'[l] = d => holder[l] = d
  BY TakersMove, Names DEF Inv
<1> QED  BY <1>1, <1>2 DEF CallHolds, Taken

\* Places are whole numbers, each account has its own, and they end.
LEMMA Places ==
    /\ \A a \in Accounts : Place(a) \in 1 .. Len(AccountOrder)
    /\ \A a, b \in Accounts : Place(a) = Place(b) => a = b
<1>1. ASSUME NEW a \in Accounts
      PROVE  Place(a) \in DOMAIN AccountOrder /\ AccountOrder[Place(a)] = a
  BY OrderAssumption DEF Place
<1> QED  BY <1>1, OrderAssumption

\* The accounts a settlement needs are accounts.
LEMMA Settled ==
    ASSUME NEW m \in Markets
    PROVE  SettledAccounts(m) \subseteq Accounts
  BY OrderAssumption DEF SettledAccounts, Accounts

\* The locks a settlement needs do not change while it holds its market.
LEMMA SettledStay ==
    ASSUME Inv, [Next]_vars, NEW m \in Markets, holder[m] = m
    PROVE  SettledAccounts(m)' = SettledAccounts(m)
<1>1. ASSUME NEW u \in Users PROVE Holding(u, m)' = Holding(u, m)
  <2>1. ASSUME NEW c \in Calls, Commit(c) PROVE Holding(u, m)' = Holding(u, m)
    <3>1. /\ holder[Order[order[c]].market] = c /\ IsFiniteSet(trades)
          /\ \E t : t.order = order[c] /\ trades' = trades \cup {t}
      <4>1. /\ holder[Order[order[c]].market] = c
            /\ trades' = trades \cup {[order |-> order[c],
                                       version |-> version[Order[order[c]].market],
                                       at |-> checked[c]]}
        BY <2>1, Committing DEF Inv
      <4> QED  BY <4>1 DEF Inv, Trades
    <3>2. PICK t : t.order = order[c] /\ trades' = trades \cup {t}
      BY <3>1
    <3>3. Order[t.order].market # m
      BY <3>1, <3>2, Names
    <3> QED  BY <3>1, <3>2, <3>3, HoldingMoves
  <2>2. CASE UNCHANGED trades
    BY <2>2 DEF Holding
  <2> QED  BY <2>1, <2>2, ExchangeMoves DEF exchangeVars, CloseDue, CloseMarket, SettleCommit,
           SettleMarket, Advance
<1> QED  BY <1>1 DEF SettledAccounts

\* A settlement's own steps take the accounts in their order.
LEMMA OwnMarketHolds ==
    ASSUME Inv, [Next]_vars, NEW m \in Markets, MarketHolds(m), SettlementMoves(m)
    PROVE  MarketHolds(m)'
<1>0. /\ m \in Txs /\ m # Nobody /\ m \in Locks
      /\ DOMAIN step = Txs /\ DOMAIN holder = Locks
  BY Names DEF Inv, TypeOK, Locks
<1>1. CASE SettleBegin(m)
  BY <1>0, <1>1 DEF SettleBegin, MarketHolds
<1>2. CASE SettleLock(m)
  <2>1. step'[m] = "account" /\ holder[m] = m
    BY <1>2 DEF SettleLock, MarketHolds
  <2>2. PICK a \in NextAccount(m) : Free(a) /\ holder' = [holder EXCEPT ![a] = m]
    BY <1>2 DEF SettleLock
  <2>3. /\ a \in SettledAccounts(m) /\ a \in Accounts /\ a \in Locks
        /\ \A b \in SettledAccounts(m) : b # a /\ holder[b] # m => Place(a) < Place(b)
    BY <2>2, Settled DEF NextAccount, Unlocked, LockedBefore, Locks
  <2>4. SettledAccounts(m)' = SettledAccounts(m)
    BY <2>1, SettledStay
  <2>5. \A b : holder[b] = m => holder'[b] = m
    BY <1>0, <2>2, <2>3 DEF Free
  <2>6. ASSUME NEW l \in Locks, holder'[l] = m PROVE l = m \/ InOrder(m, l)'
    <3>1. CASE l = a
      <4>1. ASSUME NEW b \in SettledAccounts(m), Place(b) < Place(a) PROVE holder'[b] = m
        BY <2>3, <2>5, <4>1, Settled, Places
      <4> QED  BY <2>3, <2>4, <3>1, <4>1 DEF InOrder, Place
    <3>2. CASE l # a
      <4>1. holder[l] = m
        BY <1>0, <2>2, <2>6, <3>2
      <4> QED  BY <2>4, <2>5, <4>1 DEF MarketHolds, InOrder, Place
    <3> QED  BY <3>1, <3>2
  <2>7. holder'[m] = m
    BY <2>1, <2>5
  <2> QED  BY <2>1, <2>6, <2>7 DEF MarketHolds
<1>3. CASE SettleCommit(m) \/ SettleTimeOut(m)
  BY <1>0, <1>3 DEF SettleCommit, SettleTimeOut, Released, MarketHolds
<1> QED  BY <1>1, <1>2, <1>3 DEF SettlementMoves, Settlement

\* Nobody takes a lock from a settlement or for it, or changes what it needs.
LEMMA OthersMarketHolds ==
    ASSUME Inv, [Next]_vars, NEW m \in Markets, MarketHolds(m), ~SettlementMoves(m)
    PROVE  MarketHolds(m)'
<1>0. m \in Txs /\ m \in Locks /\ DOMAIN step = Txs
  BY Names DEF Inv, TypeOK, Locks
<1>1. step'[m] = step[m]
  <2>1. ASSUME NEW c \in Calls, Moves(c) PROVE step'[m] = step[m]
    <3>1. c # m
      BY Names
    <3>2. CASE Execution(c)
      BY <1>0, <3>1, <3>2 DEF Execution, ClaimKey, LockInstance, CheckQuote, LockAccount,
         Commit, TimeOut, Arrive, Respond
    <3>3. CASE Die(c) \/ \E o \in Orders : Send(o, c)
      BY <1>0, <3>1, <3>3 DEF Die, Send
    <3> QED  BY <2>1, <3>2, <3>3 DEF Moves
  <2>2. ASSUME NEW n \in Markets, CloseDue(n) PROVE step'[m] = step[m]
    BY <2>2 DEF CloseDue, txVars
  <2>3. ASSUME NEW n \in Markets, n # m, SettlementMoves(n) PROVE step'[m] = step[m]
    BY <1>0, <2>3 DEF SettlementMoves, Settlement, SettleBegin, SettleLock, SettleCommit,
       SettleTimeOut
  <2>4. CASE Advance \/ (\E o \in Orders : Lose(o)) \/ UNCHANGED vars
    BY <2>4 DEF Advance, Lose, vars, txVars
  <2> QED  BY <2>1, <2>2, <2>3, <2>4 DEF Next, Moves, SettlementMoves
<1>2. \A l \in Locks : holder'[l] = m <=> holder[l] = m
  BY <1>0, HoldersKeep, TakersMove, Names DEF Inv, SettlementMoves, Settlement
<1>3. CASE step[m] = "account"
  <2>1. holder[m] = m
    BY <1>3 DEF MarketHolds
  <2>2. SettledAccounts(m)' = SettledAccounts(m) /\ SettledAccounts(m) \subseteq Locks
    BY <2>1, SettledStay, Settled DEF Locks
  <2>3. ASSUME NEW l \in Locks, holder'[l] = m PROVE l = m \/ InOrder(m, l)'
    <3>1. l = m \/ InOrder(m, l)
      BY <1>2, <2>3 DEF MarketHolds
    <3> QED  BY <1>2, <2>2, <3>1 DEF InOrder, Place
  <2> QED  BY <1>0, <1>1, <1>2, <1>3, <2>1, <2>3 DEF MarketHolds
<1>4. CASE step[m] # "account"
  BY <1>1, <1>2, <1>4 DEF MarketHolds
<1> QED  BY <1>3, <1>4

\* The two invariants together, in every reachable state.
LEMMA HoldsInvariance == Spec => [](Inv /\ Holds)
<1>1. Init => Inv /\ Holds
  <2>1. ASSUME Init PROVE Holds
    BY <2>1, Names DEF Init, Holds, CallHolds, MarketHolds
  <2> QED  BY <2>1, InitInv
<1>2. Inv /\ Holds /\ [Next]_vars => Inv' /\ Holds'
  <2>1. ASSUME Inv, Holds, [Next]_vars PROVE Holds'
    <3>1. ASSUME NEW c \in Calls PROVE CallHolds(c)'
      BY <2>1, OwnHolds, OthersHold DEF Holds
    <3>2. ASSUME NEW m \in Markets PROVE MarketHolds(m)'
      BY <2>1, OwnMarketHolds, OthersMarketHolds DEF Holds
    <3> QED  BY <3>1, <3>2 DEF Holds
  <2> QED  BY <2>1, NextInv
<1> QED  BY <1>1, <1>2, PTL DEF Spec

-----------------------------------------------------------------------------
(***************************************************************************)
(* Waiting.                                                                *)
(***************************************************************************)

\* The rank of a lock: keys, then markets, then the accounts in their order
Rank(l) == IF l \in Keys THEN 0 ELSE IF l \in Markets THEN 1 ELSE 1 + Place(l)

\* The order of the numbers
Less == {pair \in Nat \X Nat : pair[1] < pair[2]}

\* Ranks are natural numbers, and the last account has the greatest.
LEMMA Ranks ==
    /\ \A l \in Locks : Rank(l) \in 0 .. 1 + Len(AccountOrder)
    /\ \A l \in Keys : Rank(l) = 0
    /\ \A l \in Markets : Rank(l) = 1
    /\ \A l \in Accounts : Rank(l) = 1 + Place(l) /\ Rank(l) > 1
<1>1. Len(AccountOrder) \in Nat
  BY OrderAssumption
<1> QED  BY <1>1, Places, NamesAssumption DEF Rank, Locks

\* What a transaction wants is one of the locks, and is not held by itself.
LEMMA Wants ==
    ASSUME Inv, Holds, NEW t \in Txs, NEW l \in Wanted(t)
    PROVE  /\ l \in Locks
           /\ t \in Calls => \/ step[t] = "key" /\ l \in Keys
                             \/ step[t] = "market" /\ l \in Markets
                             \/ step[t] = "account" /\ l \in Accounts
           /\ t \in Markets => step[t] = "account" /\ l \in NextAccount(t) /\ l \in Accounts
<1>1. CASE t \in Calls
  <2>1. step[t] \in {"key", "market", "account"}
    BY DEF Wanted
  <2>2. order[t] \in Orders
    BY <1>1, <2>1, Handling DEF Inv
  <2>3. /\ step[t] = "key" => l = Order[order[t]].key
        /\ step[t] = "market" => l = Order[order[t]].market
        /\ step[t] = "account" => l = Order[order[t]].user
    BY <1>1 DEF Wanted
  <2>4. /\ Order[order[t]].key \in Keys /\ Order[order[t]].market \in Markets
        /\ Order[order[t]].user \in Accounts
    BY <2>2, OrderParts DEF Accounts
  <2>5. l \in Locks /\ t \notin Markets
    BY <1>1, <2>1, <2>3, <2>4, Names DEF Locks
  <2> QED  BY <2>1, <2>3, <2>4, <2>5
<1>2. CASE t \in Markets
  <2>1. step[t] = "account" /\ l \in NextAccount(t)
    BY <1>2, Names DEF Wanted, Holds, MarketHolds
  <2>2. l \in Accounts
    BY <1>2, <2>1, Settled DEF NextAccount, Unlocked
  <2> QED  BY <1>2, <2>1, <2>2, Names DEF Locks
<1> QED  BY <1>1, <1>2 DEF Txs

\* Whoever holds a lock that is waited for waits for none but later ones.
LEMMA RankGrows ==
    ASSUME Inv, Holds, NEW t \in Txs, NEW l \in Wanted(t), NEW s \in Txs, holder[l] = s,
           NEW k \in Wanted(s)
    PROVE  Rank(l) < Rank(k)
<1>1. l \in Locks /\ k \in Locks
  BY Wants
<1>2. CASE s \in Calls
  <2>1. Taken(s, l)
    BY <1>1, <1>2 DEF Holds, CallHolds
  <2>2. step[s] # "write" /\ step[s] # "clock" /\ step[s] # "key"
    BY <1>2, <2>1, Wants DEF Taken
  <2>3. order[s] \in Orders
    BY <1>2, <2>1, Handling DEF Inv, Taken
  <2>4. CASE step[s] = "market"
    <3>1. l \in Keys /\ k \in Markets
      BY <1>2, <2>1, <2>3, <2>4, OrderParts, Wants DEF Taken
    <3> QED  BY <3>1, Ranks
  <2>5. CASE step[s] = "account"
    <3>1. l \in Keys \cup Markets /\ k \in Accounts
      BY <1>2, <2>1, <2>3, <2>5, OrderParts, Wants DEF Taken
    <3> QED  BY <3>1, Ranks, Places
  <2> QED  BY <1>2, <2>2, <2>4, <2>5, Wants
<1>3. CASE s \in Markets
  <2>1. k \in NextAccount(s) /\ k \in Accounts
    BY <1>3, Wants
  <2>2. l = s \/ InOrder(s, l)
    BY <1>1, <1>3 DEF Holds, MarketHolds
  <2>3. CASE l = s
    BY <1>3, <2>1, <2>3, Ranks
  <2>4. CASE InOrder(s, l)
    <3>1. l \in Accounts /\ k \in SettledAccounts(s) /\ holder[k] # s
      BY <1>3, <2>1, <2>4, Settled DEF InOrder, NextAccount, Unlocked
    <3>2. ~(Place(k) < Place(l)) /\ k # l
      BY <2>4, <3>1 DEF InOrder
    <3> QED  BY <2>1, <3>1, <3>2, Places, Ranks
  <2> QED  BY <2>2, <2>3, <2>4
<1> QED  BY <1>2, <1>3 DEF Txs

(***************************************************************************)
(* Transactions never wait in a circle: calls take a key, a market and an  *)
(* account in that order, settlements a market and accounts by their ids,  *)
(* so of a set that waits, one that waits for the last of the locks waits  *)
(* for a transaction outside it.                                           *)
(***************************************************************************)
THEOREM NoDeadlock == Spec => []NoWaitCycle
<1>1. ASSUME Inv, Holds PROVE NoWaitCycle
  <2> SUFFICES ASSUME NEW S \in (SUBSET Txs) \ {{}}, \A t \in S : Blockers(t) \cap S # {}
               PROVE  FALSE
    BY DEF NoWaitCycle
  <2> DEFINE last == 1 + Len(AccountOrder)
             Blocked == {l \in Locks : \E t \in S : l \in Wanted(t) /\ holder[l] \in S}
             After(l) == last - Rank(l)
             Ends == {After(l) : l \in Blocked}
  <2>1. last \in Nat /\ \A l \in Locks : Rank(l) \in 0 .. last
    BY OrderAssumption, Ranks
  <2>2. \A t \in S : \E l \in Blocked : l \in Wanted(t)
    BY <1>1, Wants DEF Blockers
  <2>3. Ends \subseteq Nat /\ Ends # {}
    <3>1. \A l \in Blocked : After(l) \in Nat
      BY <2>1
    <3> QED  BY <2>2, <3>1
  <2>4. PICK l \in Blocked : \A k \in Blocked : ~(<<After(k), After(l)>> \in Less)
    <3> HIDE DEF Ends
    <3>1. IsWellFoundedOn(Less, Nat)
      BY NatLessThanWellFounded DEF OpToRel, Less
    <3>2. PICK end \in Ends : \A n \in Ends : ~(<<n, end>> \in Less)
      BY <2>3, <3>1, WFMin
    <3> QED  BY <3>2 DEF Ends
  <2>5. PICK s \in S : s = holder[l]
    OBVIOUS
  <2>6. PICK k \in Blocked : k \in Wanted(s)
    BY <2>2
  <2>7. Rank(l) < Rank(k)
    BY <1>1, <2>5, <2>6, RankGrows
  <2>8. <<After(k), After(l)>> \in Less
    BY <2>1, <2>7 DEF Less
  <2> QED  BY <2>4, <2>8
<1> QED  BY <1>1, HoldsInvariance, PTL
=============================================================================
