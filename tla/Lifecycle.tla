----------------------------- MODULE Lifecycle ------------------------------
(***************************************************************************)
(* What every market promises, whoever publishes, closes and settles it:   *)
(* its phases follow one another in one direction, its verdict is fixed    *)
(* once, when it leaves the closed phase, and its final phase agrees with  *)
(* the verdict.  A final market may be forgotten, and then never returns.  *)
(***************************************************************************)
EXTENDS Naturals

CONSTANTS Markets, Verdicts, Void, NoResult

VARIABLES phase, verdict

lifeVars == <<phase, verdict>>

Final(v) == IF v = Void THEN "voided" ELSE "resolved"

LifeInit ==
    /\ phase = [m \in Markets |-> "absent"]
    /\ verdict = [m \in Markets |-> NoResult]

Opens(m) ==
    /\ phase[m] = "absent"
    /\ phase' = [phase EXCEPT ![m] = "open"]
    /\ UNCHANGED verdict

\* One transaction may move many markets from a set of phases to a phase
Move(from, to) ==
    /\ phase' = [m \in Markets |-> phase'[m]]
    /\ \A m \in Markets : phase'[m] = phase[m] \/ (phase[m] \in from /\ phase'[m] = to)
    /\ UNCHANGED verdict

Closes == Move({"open"}, "closed")

Forgets == Move({"resolved", "voided"}, "purged")

\* Fixes the verdict, or goes on paying what it fixed
Settles(m) ==
    \E v \in Verdicts \ {NoResult} :
        /\ phase[m] = "closed" \/ (phase[m] = "resolving" /\ verdict[m] = v)
        /\ verdict' = [verdict EXCEPT ![m] = v]
        /\ \E f \in {"resolving", Final(v)} : phase' = [phase EXCEPT ![m] = f]

LifeNext ==
    \/ \E m \in Markets : Opens(m) \/ Settles(m)
    \/ Closes \/ Forgets

LifeSpec == LifeInit /\ [][LifeNext]_lifeVars
=============================================================================
