-------------------------------- MODULE Feed --------------------------------
(***************************************************************************)
(* What the event stream of one market promises a browser, and no more     *)
(* than the page needs: it sees committed events only, in commit order and *)
(* each at most once.  Whether it may miss some is the question module     *)
(* EventStream answers.                                                    *)
(***************************************************************************)
EXTENDS Naturals, Sequences

CONSTANT Clients

VARIABLES
    committed,  \* number of committed outbox rows; the n-th has id n
    seen        \* ids each client has processed, in order

feedVars == <<committed, seen>>

\* The last id of a sequence, 0 before the first
LastId(s) == IF s = <<>> THEN 0 ELSE s[Len(s)]

FeedInit ==
    /\ committed = 0
    /\ seen = [c \in Clients |-> <<>>]

Happen == committed' = committed + 1 /\ UNCHANGED seen

Observe(c) ==
    /\ \E id \in LastId(seen[c]) + 1 .. committed :
          seen' = [seen EXCEPT ![c] = Append(@, id)]
    /\ UNCHANGED committed

FeedSpec == FeedInit /\ [][Happen \/ \E c \in Clients : Observe(c)]_feedVars
=============================================================================
