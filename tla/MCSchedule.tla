----------------------------- MODULE MCSchedule -----------------------------
(***************************************************************************)
(* A day of three minutes, Singapore a minute ahead of UTC: 5 to 7 is a    *)
(* Saturday there and 8 to 10 a Sunday.  The demo series has a slot every  *)
(* minute in the first two of Sundays: 8 and 9, while 10 is too late       *)
(* (though not in UTC) and 11 a Monday (though still a Sunday in UTC).     *)
(***************************************************************************)
EXTENDS Worker, TLC

CONSTANTS r, o, c, p1, p2

MCSchedules ==
    [x \in {r} |-> [kind |-> "recurring", interval_ms |-> 1, max_concurrency |-> 1,
             active_start_minute |-> 0, active_end_minute |-> 2,
             active_days |-> {7}, end_ms |-> 12]]
    @@ [x \in {o, c} |-> [kind |-> "once",
             times |-> [close_ms |-> 8, observation_start_ms |-> 8,
                        observation_end_ms |-> 9, finalize_after_ms |-> 9,
                        evidence_deadline_ms |-> 12]]]

Bus == [kind |-> "bus", source |-> "stop"]

MCRules == [x \in Ids \cup {Direct} |->
              IF x = r THEN Bus
              ELSE IF x = Direct THEN [kind |-> "count", source |-> "stall", threshold |-> 20]
              ELSE [kind |-> "other"]]

MCAuthority == [x \in Ids |-> IF x = c THEN "creator" ELSE "resolver"]
MCEndpoint == [x \in Ids |-> IF x = r THEN "adapter" ELSE "external"]
MCSimulated == {r, Direct}
\* The bus comes as one bracket ends and the next begins
MCArrivals == {9}
MCSample == [k \in Keys |-> IF k[2] % 2 = 0 THEN 6 ELSE 9]
=============================================================================
