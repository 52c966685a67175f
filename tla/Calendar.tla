------------------------------ MODULE Calendar ------------------------------
(***************************************************************************)
(* The calendar arithmetic of the worker (scheduler/clock.py,              *)
(* scheduler/rule_jobs.py): a rule names a weekday and wall times of the   *)
(* operator's zone, the scheduler needs instants.                          *)
(*                                                                         *)
(* Instants and wall clock readings are integers in one unit of time; day  *)
(* number d covers the readings d * DayLen .. d * DayLen + DayLen - 1 and  *)
(* day 0 is a Monday.  A zone has one clock change: before the instant     *)
(* change its offset from UTC is before, from then on it is after.         *)
(***************************************************************************)
EXTENDS Integers

CONSTANT DayLen      \* units of time in a day of 24 hours

ASSUME DayLenAssumption == DayLen \in Nat \ {0}

Zone == [change : Int, before : Int, after : Int]

\* What a scheduler rule says of time: the weekday and wall time of the class,
\* how many days earlier its booking opens and at which wall time.
Timing == [day_of_week : 0..6, opens_days_before : Nat,
           opens_at : 0..DayLen - 1, class_time : 0..DayLen - 1]

Week == 7 * DayLen

(***************************************************************************)
(* astimezone in both directions.  A reading the clock skips is taken with *)
(* the offset before the change, a reading it shows twice is the first one *)
(* (fold = 0): the offset turns where the later of the two readings of the *)
(* change stands.                                                          *)
(***************************************************************************)
ToLocal(z, i)  == i + IF i < z.change THEN z.before ELSE z.after

Turn(z)        == z.change + IF z.before < z.after THEN z.after ELSE z.before

ToUTC(z, wall) == wall - IF wall < Turn(z) THEN z.before ELSE z.after

DayOf(wall)    == wall \div DayLen

\* local_date_for_slot: the operator's day an instant belongs to.
LocalDate(z, i) == DayOf(ToLocal(z, i))

\* local_wall_time: the instant of a day's wall time.
At(z, day, time) == ToUTC(z, day * DayLen + time)

\* _local_day_bounds: is an instant within the operator's day?
WithinDay(z, day, i) == At(z, day, 0) <= i /\ i < At(z, day + 1, 0)

\* midnight_utc_ticks: the day the gym's endpoints are asked for.
TicksDay(i) == i \div DayLen

-----------------------------------------------------------------------------
(* The next occurrence of a weekday and wall time, and what hangs on it. *)

TriggerDay(t) == (t.day_of_week - t.opens_days_before) % 7

NextOccurrence(z, now, day, time) ==
  LET today == LocalDate(z, now)
      next  == today + ((day - today) % 7)
  IN  IF At(z, next, time) > now THEN At(z, next, time) ELSE At(z, next + 7, time)

NextWindowOpen(z, t, now) == NextOccurrence(z, now, TriggerDay(t), t.opens_at)

TargetSlot(z, t, open) == At(z, LocalDate(z, open) + t.opens_days_before, t.class_time)

-----------------------------------------------------------------------------
(* What the arithmetic promises, stated without it. *)

\* The clock change of a zone keeps to one day: the readings it repeats, or
\* those it skips and those it shows instead of them.
ChangesWithinDay(z) ==
  LET first == z.change + IF z.before < z.after THEN z.before ELSE z.after
      last  == IF z.before < z.after THEN z.change + 2 * z.after - z.before
                                     ELSE z.change + z.before
  IN  \A wall \in first..last - 1 : DayOf(wall) = DayOf(first)

\* Every instant at which a rule's booking opens on the days given.
Openings(z, t, days) == {At(z, d, t.opens_at) : d \in {e \in days : e % 7 = TriggerDay(t)}}

\* The first opening after an instant, and the opening that precedes it.
IsNextOpening(z, t, now, open) ==
  /\ open \in Openings(z, t, LocalDate(z, now)..LocalDate(z, now) + 7)
  /\ now < open
  /\ \A o \in Openings(z, t, LocalDate(z, now)..LocalDate(z, now) + 7) : now < o => open <= o

\* The class booked at an opening falls on the rule's weekday, that many days
\* later, at its wall time unless the clock skips it.
IsTargetOf(z, t, open, slot) ==
  LET wall == ToLocal(z, slot)
  IN  /\ DayOf(wall) % 7 = t.day_of_week
      /\ DayOf(wall) = LocalDate(z, open) + t.opens_days_before
      /\ \/ wall % DayLen = t.class_time
         \/ \A i \in slot - DayLen..slot + DayLen :
              ToLocal(z, i) # DayOf(wall) * DayLen + t.class_time
=============================================================================
