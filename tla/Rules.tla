------------------------------- MODULE Rules --------------------------------
(***************************************************************************)
(* What an observation says about a published rule (market.rs, Rule), and  *)
(* what a resolver's answer says about the published outcomes              *)
(* (resolver.rs).  Station, route, stop, metric and location names are one *)
(* field, source: evaluate only compares them.  Outcomes are indices.      *)
(***************************************************************************)
EXTENDS Integers, Sequences, Functions

CONSTANTS
    Void,       \* Resolution::Void
    None,       \* no result yet: insufficient or non-final evidence
    Rejected    \* an error: the observation does not fit the rule

\* Rule::outcomes: yes and no, or one per candidate
OutcomesOf(rule) ==
    IF rule.kind = "election" THEN 0 .. Len(rule.candidates) - 1 ELSE 0 .. 1

MaxThreshold == 1000000

RuleValid(rule) ==
    /\ rule.kind \in {"weather", "count"} => rule.threshold \in 1 .. MaxThreshold
    /\ rule.kind = "election" =>
          Len(rule.candidates) \in 2 .. 8 /\ IsInjective(rule.candidates)

Binary(yes) == IF yes THEN 0 ELSE 1

\* Mutant: an arrival at the end of the window counts too
ArrivesByEnd(arrivals, start, end) == \E t \in arrivals : t >= start /\ t <= end

\* A matching bus arrives in [start, end)
Arrives(arrivals, start, end) == \E t \in arrivals : t >= start /\ t < end

Position(x, s) == CHOOSE i \in DOMAIN s : s[i] = x /\ \A j \in 1 .. i - 1 : s[j] # x

(***************************************************************************)
(* Rule::evaluate: a winner's index, Void, None, or Rejected.              *)
(***************************************************************************)
Evaluate(rule, obs, start, end) ==
    IF obs.kind # rule.kind THEN Rejected
    ELSE IF rule.kind \in {"weather", "count"}
    THEN IF rule.source # obs.source \/ obs.value < 0 THEN Rejected
         ELSE IF obs.complete THEN Binary(obs.value >= rule.threshold) ELSE None
    ELSE IF rule.kind = "bus"
    THEN IF rule.source # obs.source THEN Rejected
         ELSE IF obs.complete THEN Binary(Arrives(obs.arrivals, start, end)) ELSE None
    ELSE IF rule.kind = "election"
    THEN IF ~obs.is_final THEN None
         ELSE IF obs.winner = None THEN Void
         ELSE IF obs.winner \notin Range(rule.candidates) THEN Rejected
         ELSE Position(obs.winner, rule.candidates) - 1
    ELSE IF obs.outcome \in OutcomesOf(rule) \cup {None} THEN obs.outcome ELSE Rejected

\* Rule::simulated: a complete observation drawn from one byte of a private hash
Simulation(rule, sample, start, end) ==
    LET even == sample % 2 = 0
    IN  IF rule.kind = "weather"
        THEN [kind |-> "weather", source |-> rule.source, complete |-> TRUE,
              value |-> IF even THEN rule.threshold + 100 ELSE 0]
        ELSE IF rule.kind = "count"
        THEN [kind |-> "count", source |-> rule.source, complete |-> TRUE,
              value |-> (rule.threshold + (sample % 21))
                         - (IF rule.threshold < 10 THEN rule.threshold ELSE 10)]
        ELSE IF rule.kind = "bus"
        THEN [kind |-> "bus", source |-> rule.source, complete |-> TRUE,
              arrivals |-> IF even THEN {start + (end - start) \div 2} ELSE {}]
        ELSE IF rule.kind = "election"
        THEN [kind |-> "election", is_final |-> TRUE,
              winner |-> rule.candidates[(sample % Len(rule.candidates)) + 1]]
        ELSE [kind |-> "other", outcome |-> Binary(even)]

(***************************************************************************)
(* parse_response: an answer names an outcome, published or not, or says   *)
(* that it is pending (None); a malformed one is like an unpublished name. *)
(***************************************************************************)
Parsed(answer, rule) == IF answer \in OutcomesOf(rule) \cup {None} THEN answer ELSE Rejected
=============================================================================
