------------------------------ MODULE Exchange ------------------------------
(***************************************************************************)
(* What trading several markets from several sessions promises: every      *)
(* order is executed at once and at most once per key, at the version it   *)
(* was quoted, before the market closed, with units or shares the account  *)
(* has at that instant, whatever other orders and settlements do.  Module  *)
(* TradeTx is the protocol of locks and statements that implements it.     *)
(***************************************************************************)
EXTENDS Integers, FiniteSets

CONSTANTS
    Users, Markets, Orders,
    Order,      \* the account, market, key, side and all-in amount of an order
    CloseMs,    \* close_ms, of every market
    Payout,     \* what a settled share pays
    Grants      \* opening balances

VARIABLES
    now,        \* db_now
    balance,    \* accounts.balance_micros
    state,      \* instances.state
    version,    \* instances.version
    trades      \* the trades table: order, instance_version - 1, created_ms

exchangeVars == <<now, balance, state, version, trades>>

Executed(o) == \E t \in trades : t.order = o

\* A committed trade has used the key
KeyUsed(k) == \E t \in trades : Order[t.order].key = k

\* The shares of an account in a market, one for each order
Holding(u, m) ==
    LET Of(side) == {t \in trades : /\ Order[t.order].user = u
                                    /\ Order[t.order].market = m
                                    /\ Order[t.order].side = side}
    IN  Cardinality(Of("buy")) - Cardinality(Of("sell"))

\* The account can pay for an order, or has the share it sells
Affordable(o) ==
    IF Order[o].side = "buy" THEN balance[Order[o].user] >= Order[o].cost
                             ELSE Holding(Order[o].user, Order[o].market) > 0

\* The account's balance once an order is executed
Charge(o) ==
    [balance EXCEPT ![Order[o].user] =
        IF Order[o].side = "buy" THEN @ - Order[o].cost ELSE @ + Order[o].cost]

ExchangeInit ==
    /\ now = 0
    /\ balance = Grants
    /\ state = [m \in Markets |-> "open"]
    /\ version = [m \in Markets |-> 0]
    /\ trades = {}

\* The version and the time are those of the market when the order was checked
ExecuteOrder(o) ==
    LET m == Order[o].market
    IN  /\ state[m] = "open"
        /\ ~KeyUsed(Order[o].key)
        /\ Affordable(o)
        /\ balance' = Charge(o)
        /\ version' = [version EXCEPT ![m] = @ + 1]
        /\ \E at \in 0 .. now :
              /\ at < CloseMs
              /\ trades' = trades \cup {[order |-> o, version |-> version[m], at |-> at]}
        /\ UNCHANGED <<now, state>>

CloseMarket(m) ==
    /\ state[m] = "open" /\ CloseMs <= now
    /\ state' = [state EXCEPT ![m] = "closed"]
    /\ version' = [version EXCEPT ![m] = @ + 1]
    /\ UNCHANGED <<now, balance, trades>>

\* Every holder is paid in the same instant; fix the result and end, two versions
SettleMarket(m) ==
    /\ state[m] = "closed"
    /\ balance' = [u \in Users |-> balance[u] + Payout * Holding(u, m)]
    /\ state' = [state EXCEPT ![m] = "settled"]
    /\ version' = [version EXCEPT ![m] = @ + 2]
    /\ UNCHANGED <<now, trades>>

Pass ==
    /\ now' > now
    /\ UNCHANGED <<balance, state, version, trades>>

ExchangeNext ==
    \/ \E o \in Orders : ExecuteOrder(o)
    \/ \E m \in Markets : CloseMarket(m) \/ SettleMarket(m)
    \/ Pass

ExchangeSpec == ExchangeInit /\ [][ExchangeNext]_exchangeVars

(***************************************************************************)
(* What it comes to: a key is spent on one trade, also by two orders sent  *)
(* under it, and each version of a market was traded on by one trade, so   *)
(* the trades of a market are in one order, each priced after the others.  *)
(***************************************************************************)
TradesSerial ==
    \A s, t \in trades : s # t =>
        /\ Order[s.order].key # Order[t.order].key
        /\ Order[s.order].market = Order[t.order].market => s.version # t.version
=============================================================================
