------------------------- MODULE MCAnomalyDetector -------------------------
(* An instance of AnomalyDetector: an hour is four units and, to keep the
   clock short, a day six hours.  Both rules open on Tuesday, at 8 and at 10;
   the clock is changed by an hour, forwards or back, early on Tuesday, across
   the first opening, or on Thursday, or it is not changed. *)
EXTENDS AnomalyDetector, TLC

CONSTANTS wod, yoga

MCTimingOf ==
  wod :> [day_of_week |-> 2, opens_days_before |-> 1, opens_at |-> 8, class_time |-> 18]
  @@ yoga :> [day_of_week |-> 0, opens_days_before |-> 6, opens_at |-> 10, class_time |-> 12]

Forward(i) == [change |-> i, before |-> 4, after |-> 8]
Back(i)    == [change |-> i, before |-> 8, after |-> 4]
MCZones    == {Back(22), Forward(26), Back(26), Forward(78), [Back(0) EXCEPT !.before = 4]}

\* From every instant of the clock, in every zone, the next opening is the first
\* of the rule's openings, and the class booked there falls on its weekday at its
\* wall time, on either side of a clock change and within the hour it skips or
\* repeats.  next_window_open_for_rule, target_slot_for_window.
ASSUME WindowsRight ==
  \A z \in MCZones, r \in Rules, i \in Times :
    LET open == NextWindowOpen(z, MCTimingOf[r], i)
    IN  /\ IsNextOpening(z, MCTimingOf[r], i, open)
        /\ IsTargetOf(z, MCTimingOf[r], open, TargetSlot(z, MCTimingOf[r], open))

\* What the theorems suppose: a clock put forward skips the lookback, and a
\* tick finds the worker up within it.
ASSUME LookbackFits ==
  /\ \A z \in MCZones : (z.after <= z.before) \/ (z.after >= z.before + Lookback)
  /\ Grace + MaxOutage + 1 < Lookback /\ Lookback <= Week
====
