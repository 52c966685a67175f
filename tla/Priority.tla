------------------------------- MODULE Priority -----------------------------
(***************************************************************************)
(* Admin booking priority: the classes the runs of an administrator        *)
(* contest on a date (booking/priority.py), and the time for which another *)
(* athlete's run holds back its requests for them (booking/executor.py).   *)
(* The tables are those of an administrator's account; the rival's run     *)
(* reads them when it starts (scheduler/rule_jobs.py).                     *)
(***************************************************************************)
EXTENDS Upcoming, Sequences

CONSTANT Delay     \* admin_priority_delay_s

ASSUME PriorityAssumption == Delay \in Nat

\* Mutant of ContestedBy: the class of the override stands for the rule's own.
ContestedByMoved(r, date) ==
  LET base == EffectiveSlot(date, rule[r].class_time)
      plan == LoadOverride(r, date)
      slot == PlannedSlot(plan, base)
  IN  IF Covered(slot) \/ (plan # None /\ plan.skip) THEN {} ELSE {slot}

\* _contested_by: the override's slot and the rule's own, unless the day is
\* skipped or a vacation covers where the class would be.
ContestedBy(r, date) ==
  LET base == EffectiveSlot(date, rule[r].class_time)
      plan == LoadOverride(r, date)
      slot == PlannedSlot(plan, base)
  IN  IF Covered(slot) \/ (plan # None /\ plan.skip) THEN {} ELSE {slot, base}

\* resolve_protected_classes, for a gym account that is not an administrator's.
Protected(date) ==
  UNION {ContestedBy(r, date) : r \in {q \in Rules : date % 7 = rule[q].day_of_week}}

-----------------------------------------------------------------------------
(* The hold, on the clock of the rival's run. *)

\* _hold_for_priority of a class sighted at an instant.
Hold(anchor, at) ==
  IF anchor + Delay <= at THEN 0
  ELSE IF anchor <= at THEN anchor + Delay - at
  ELSE Delay

\* The holds of a walk over protected classes, the first sighted at an instant
\* and each other one gaps[n] after the request before it; they share an
\* anchor, the estimate of the publication or the first sighting.
Holds(estimate, sighted, gaps) ==
  LET anchor == IF estimate = None THEN sighted ELSE estimate
      walk[n \in 0..Len(gaps)] ==
        LET at == IF n = 0 THEN sighted ELSE walk[n - 1].sent + gaps[n]
        IN  [held |-> Hold(anchor, at), sent |-> at + Hold(anchor, at)]
  IN  walk

\* For a schedule published at an instant and a first sighting after it: no
\* request leaves before the administrators had their time, unless the estimate
\* is early; a walk waits that time once, unless the estimate is ahead of what
\* the run sees; a stuck countdown costs each candidate that time and no more.
GivesWay(published, sighted) ==
  \A estimate \in {None} \cup published - 1..published + 3 * Delay,
     gaps \in [1..2 -> {0, 1}] :
    LET walk == Holds(estimate, sighted, gaps)
        held == walk[0].held + walk[1].held + walk[2].held
        early == estimate # None /\ estimate < published
        ahead == estimate # None /\ estimate > sighted
    IN  /\ ~early => walk[0].sent >= published + Delay
        /\ ~ahead => held <= Delay
        /\ held <= 3 * Delay
=============================================================================
