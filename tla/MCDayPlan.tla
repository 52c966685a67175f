----------------------------- MODULE MCDayPlan -----------------------------
(* An instance of DayPlan: days of twelve units, one rule whose class is on
   Monday or, when it is edited, on Tuesday, with openings on Sunday at 6
   or at 9; the clock walks from Sunday, day 6, to Monday, day 7, and is
   set back by an hour in the night before Monday. *)
EXTENDS DayPlan, TLC

CONSTANTS r1, q1, q2

Monday  == [day_of_week |-> 0, opens_days_before |-> 1, opens_at |-> 6, class_time |-> 4]
Tuesday == [Monday EXCEPT !.day_of_week = 1, !.opens_days_before = 2]
Evening == [Monday EXCEPT !.opens_at = 9, !.class_time = 7]

MCTimings   == {Monday, Tuesday, Evening}
MCInstants  == {73, 75, 76, 77, 80, 90}
MCZone      == [change |-> 82, before |-> 1, after |-> 0]
MCSymmetry  == Permutations({q1, q2})
MCVacations == {<<7, 7>>, <<6, 8>>}

\* What the theorems suppose: a request is answered within the edit
\* margin, and the list shows the week ahead.
ASSUME AnswersInMargin == MaxAnswer <= Margin
ASSUME ListIsLong == ListReaches
====
