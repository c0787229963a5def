------------------------------ MODULE Calendar ------------------------------
(***************************************************************************)
(* The schedules of backend/src/market.rs: which points of a series' grid  *)
(* may open a bracket, and the times of a bracket.  Times are in ms in the *)
(* code; the lengths of a minute and of a day are parameters, so that a    *)
(* small instance still has minutes, days and weeks.                       *)
(***************************************************************************)
EXTENDS Integers

CONSTANTS
    MinuteMs,           \* 60000
    DayMinutes,         \* 1440
    OffsetMinutes,      \* Singapore time, 8 * 60 minutes before UTC
    FinalizeMargin,     \* BRACKET_FINALIZE_MARGIN_MS
    DeadlineMargin,     \* BRACKET_DEADLINE_MARGIN_MS
    MaxSpan,            \* 366 days: how far a deadline may lie ahead
    Forever             \* no end_ms

DayMs == DayMinutes * MinuteMs

ASSUME CalendarAssumption ==
    /\ MinuteMs \in Nat \ {0} /\ DayMinutes \in Nat \ {0}
    /\ OffsetMinutes \in 0 .. DayMinutes - 1
    /\ FinalizeMargin \in Nat /\ DeadlineMargin \in Nat /\ MaxSpan \in Nat
    /\ FinalizeMargin < DeadlineMargin
    /\ Forever \notin Int

\* Slot starts inside the daily operating window
inside_active_window(t, from, until) ==
    (t \div MinuteMs + OffsetMinutes) % DayMinutes \in from .. until - 1

\* Mutant: the day changes at midnight UTC
utc_iso_day(t) == ((t \div DayMs + 3) % 7) + 1

\* 1 = Monday to 7 = Sunday; the epoch was a Thursday
sgt_iso_day(t) ==
    (((t + OffsetMinutes * MinuteMs) \div DayMs + 3) % 7) + 1

\* The five times of an instance, in the order both validations require
TimesValid(m, now) ==
    /\ m.close_ms > now
    /\ m.observation_start_ms >= m.close_ms
    /\ m.observation_end_ms > m.observation_start_ms
    /\ m.finalize_after_ms >= m.observation_end_ms
    /\ m.evidence_deadline_ms > m.finalize_after_ms
    /\ m.evidence_deadline_ms <= now + MaxSpan

ScheduleValid(sch, now) ==
    IF sch.kind = "once" THEN TimesValid(sch.times, now)
    ELSE /\ sch.interval_ms \in MinuteMs .. DayMs
         /\ sch.max_concurrency \in 1 .. 50
         /\ sch.active_start_minute \in 0 .. DayMinutes - 2
         /\ sch.active_end_minute \in 1 .. DayMinutes - 1
         /\ sch.active_start_minute < sch.active_end_minute
         /\ sch.active_days # {} /\ sch.active_days \subseteq 1 .. 7
         /\ sch.end_ms # Forever => sch.end_ms > now + sch.interval_ms

\* The times of the bracket at a slot; a one-time schedule names its own
bracket_timing(sch, slot) ==
    IF sch.kind = "once" THEN sch.times
    ELSE [close_ms |-> slot,
          observation_start_ms |-> slot,
          observation_end_ms |-> slot + sch.interval_ms,
          finalize_after_ms |-> slot + sch.interval_ms + FinalizeMargin,
          evidence_deadline_ms |-> slot + sch.interval_ms + DeadlineMargin]

Spawnable(sch, slot) ==
    /\ sch.end_ms # Forever => slot < sch.end_ms
    /\ inside_active_window(slot, sch.active_start_minute, sch.active_end_minute)
    /\ sgt_iso_day(slot) \in sch.active_days

\* Mutant: the horizon is one grid point longer
GridInclusive(sch, anchor, now) ==
    LET k_min == (now - anchor) \div sch.interval_ms + 1
    IN  {anchor + k * sch.interval_ms : k \in k_min .. k_min + sch.max_concurrency}

\* The next max_concurrency grid points strictly after now
GridAhead(sch, anchor, now) ==
    LET k_min == (now - anchor) \div sch.interval_ms + 1
    IN  {anchor + k * sch.interval_ms : k \in k_min .. k_min + sch.max_concurrency - 1}

\* Those of them that spawn_series_brackets publishes
SlotsAhead(sch, anchor, now) ==
    {slot \in GridAhead(sch, anchor, now) : Spawnable(sch, slot)}
=============================================================================
