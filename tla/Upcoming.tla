------------------------------ MODULE Upcoming ------------------------------
(***************************************************************************)
(* The tables of a gym account that decide what happens on a day, and what *)
(* the program reads from them: the edit cutoff of an override             *)
(* (booking/overrides.py), the vacation covering a slot                    *)
(* (booking/vacation.py), the list of upcoming attendance                  *)
(* (booking/upcoming.py, booking/routes.py) and the countdown to the next  *)
(* booking (heartbeat/next_window.py).                                     *)
(***************************************************************************)
EXTENDS Calendar, FiniteSets

CONSTANTS
  Rules,          \* the account's scheduler rules, all of them active
  TheZone,        \* the operator's zone
  ListDays,       \* horizon_days of the list
  MaxPerRule,     \* max_per_rule of the list
  MaxRoll,        \* _MAX_VACATION_ROLL of the countdown
  PrewarmLead,    \* DEFAULT_PREWARM_LEAD_S
  Margin,         \* DEFAULT_EDIT_MARGIN_S
  None

\* The zones of the gyms change their clocks at night and within a day.
ASSUME UpcomingAssumption ==
  /\ TheZone \in Zone /\ ChangesWithinDay(TheZone)
  /\ {ListDays, PrewarmLead, Margin} \subseteq Nat
  /\ {MaxPerRule, MaxRoll} \subseteq Nat \ {0}

VARIABLES
  now,         \* the worker's clock
  rule,        \* scheduler_rule: what each rule says of time
  rows,        \* booking_outcome
  overrides,   \* booking_day_override: a plan for some of the days of rules
  windows      \* vacation_window

\* What an override says: skip the day, or move the class.
Plan == [skip : BOOLEAN, time : 0..DayLen - 1 \cup {None}]
Row  == [id : Nat, rule : Rules \cup {None}, slot : Int,
         status : {"granted", "cancelled", "skipped", "full"}]
Vacation == [id : Nat, from : Int, until : Int, created : Int, closed : BOOLEAN]

ASSUME NoneAssumption == None \notin Int /\ None \notin Plan /\ None \notin Rules

Day(slot) == LocalDate(TheZone, slot)

-----------------------------------------------------------------------------
(* Overrides and vacations. *)

WindowOpenFor(r, date) ==
  At(TheZone, date - rule[r].opens_days_before, rule[r].opens_at)

\* Mutant of EditCutoff: edits are accepted up to the moment the job fires.
EditCutoffAtFire(r, date) == WindowOpenFor(r, date) - PrewarmLead

EditCutoff(r, date) == WindowOpenFor(r, date) - (PrewarmLead + Margin)

IsEditable(r, date, at) == at < EditCutoff(r, date)

OutcomeExists(r, date) ==
  \E row \in rows : row.rule = r /\ WithinDay(TheZone, date, row.slot)

LoadOverride(r, date) ==
  IF <<r, date>> \in DOMAIN overrides THEN overrides[<<r, date>>] ELSE None

Moves(plan) == plan # None /\ plan.time # None

EffectiveSlot(date, time) == At(TheZone, date, time)

\* The slot a rule's opening leads to once the override of the day has spoken.
PlannedSlot(plan, slot) ==
  IF Moves(plan) THEN EffectiveSlot(Day(slot), plan.time) ELSE slot

OpenWindows(at) == {w \in windows : ~w.closed /\ at <= w.until}

Covers(w, slot) == w.from <= slot /\ slot <= w.until

Covered(slot) == \E w \in OpenWindows(now) : Covers(w, slot)

-----------------------------------------------------------------------------
(* The list of upcoming attendance. *)

ListEnd == now + ListDays * DayLen

Coming == {row \in rows : now <= row.slot /\ row.slot <= ListEnd}

GrantedEntries ==
  {[kind |-> "granted", rule |-> row.rule, date |-> Day(row.slot), slot |-> row.slot] :
     row \in {c \in Coming : c.status = "granted"}}

CoveredKeys == {<<row.rule, Day(row.slot)>> : row \in Coming}

\* The openings of a rule from here on, each found from the one before.
OpeningsOf(r) ==
  LET next[n \in 1..MaxPerRule] ==
        NextWindowOpen(TheZone, rule[r], IF n = 1 THEN now ELSE next[n - 1])
  IN  {next[n] : n \in 1..MaxPerRule}

\* Mutant of Kind: a skipped day is shown although a vacation covers it.
KindSkipFirst(plan, slot) ==
  IF plan # None /\ plan.skip THEN "skipped"
  ELSE IF Covered(slot) THEN "vacation"
  ELSE IF Moves(plan) THEN "modified"
  ELSE "pending"

Kind(plan, slot) ==
  IF Covered(slot) THEN "vacation"
  ELSE IF plan # None /\ plan.skip THEN "skipped"
  ELSE IF Moves(plan) THEN "modified"
  ELSE "pending"

Projected(r, open) ==
  LET slot == TargetSlot(TheZone, rule[r], open)
      plan == LoadOverride(r, Day(slot))
      set  == PlannedSlot(plan, slot)
  IN  [kind |-> Kind(plan, set), rule |-> r, date |-> Day(slot), slot |-> set]

InView(r, open) ==
  LET slot == TargetSlot(TheZone, rule[r], open)
  IN  slot <= ListEnd /\ <<r, Day(slot)>> \notin CoveredKeys

PendingEntries ==
  UNION {{Projected(r, open) : open \in {o \in OpeningsOf(r) : InView(r, o)}} : r \in Rules}

UpcomingSlots == GrantedEntries \cup PendingEntries

\* The edit and revert actions the list offers for an entry.
Offered(e) ==
  e.kind \in {"pending", "modified", "skipped"} /\ IsEditable(e.rule, e.date, now)

-----------------------------------------------------------------------------
(* The countdown: the first opening whose target no vacation covers. *)

NextBookable(r) ==
  LET next[n \in 1..MaxRoll] ==
        NextWindowOpen(TheZone, rule[r], IF n = 1 THEN now ELSE next[n - 1])
      free == {n \in 1..MaxRoll : ~Covered(TargetSlot(TheZone, rule[r], next[n]))}
  IN  {next[n] : n \in {m \in free : \A k \in free : m <= k}}

NextBooking ==
  LET best == UNION {NextBookable(r) : r \in Rules}
  IN  IF best = {} THEN None ELSE CHOOSE o \in best : \A p \in best : o <= p
=============================================================================
