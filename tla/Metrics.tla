------------------------------- MODULE Metrics ------------------------------
(***************************************************************************)
(* The figures of the statistics page, derived from the ledger of Capture  *)
(* at any instant a page is rendered (statistics/metrics.py, periods.py,   *)
(* points.py and the window part of routes.py).                            *)
(*                                                                         *)
(* The rows are taken as the visits left them: provisional, incomplete,    *)
(* with unread days.  What the page says of them is compared with the      *)
(* gym's own calendar and price list.                                      *)
(***************************************************************************)
EXTENDS Capture

CONSTANTS
  EverFull,       \* classes that filled up at some moment (AlgunMomentoLlena)
  Excluded,       \* days whose weekday the operator excluded from streaks
  Settle,         \* statistics_settle_window_hours
  FreeLead,       \* late_hours: leaving, or booking, this long ahead is early
  VeryLateLead,   \* very_late_hours
  BaseCost, LatePenalty, VeryLatePenalty, AbsencePenalty,
  PeriodDays      \* PeriodDays[k]: the length of the window of key k

ASSUME MetricsAssumption ==
  /\ {Settle, FreeLead, VeryLateLead, BaseCost} \subseteq Nat
  /\ {LatePenalty, VeryLatePenalty, AbsencePenalty} \subseteq Nat
  /\ VeryLateLead <= FreeLead

Highest(S)     == Max(S \cup {0})

-----------------------------------------------------------------------------
(* Settled and classified rows (counted_records).                          *)

Settled(c, m) == Start[c] + Settle <= m
Stored        == {c \in Classes : records[c] # Unread}

Counted(m) == {c \in Stored : Settled(c, m)}

\* The operator acted before class c began.
BeforeStart(r, c) == r.at # NoInstant /\ r.at < Start[c]
AfterStart(r, c)  == r.at # NoInstant /\ r.at >= Start[c]

SwappedDays(m) == {DayOf(c) : c \in {k \in Counted(m) : records[k].list = "attended"}}

FiledAsAbsent(c) == records[c].list = "no_show" /\ BeforeStart(records[c], c)

StateOf(c, swapped) ==
  LET r == records[c] IN
  CASE r.list = "attended" -> "attended"
    [] r.list = "no_show" /\ ~BeforeStart(r, c) -> "no_show"
    [] r.list = "cancelled" /\ AfterStart(r, c) -> "removed_after_start"
    [] OTHER -> IF DayOf(c) \in swapped THEN "swapped" ELSE "cancelled"

\* The rows every figure is derived from: the state of each class that counts.
CountedRecords(m) ==
  LET swapped == SwappedDays(m) IN [c \in Counted(m) |-> StateOf(c, swapped)]

In(R, state) == {c \in DOMAIN R : R[c] = state}

\* Removals by the notice they gave; a tie goes to the operator.
Removed(R)     == In(R, "cancelled") \cup In(R, "swapped")
Unknown(S)     == {c \in S : records[c].at = NoInstant}
Notice(c)      == Start[c] - records[c].at
Early(S)       == {c \in S \ Unknown(S) : Notice(c) >= FreeLead}
Late(S)        == {c \in S \ Unknown(S) : VeryLateLead <= Notice(c) /\ Notice(c) < FreeLead}
VeryLate(S)    == {c \in S \ Unknown(S) : Notice(c) < VeryLateLead}

-----------------------------------------------------------------------------
(* Windows (resolve_period, History.window and History.ledger).            *)

Captured == {d \in Days : ledger[d] # Unread}
Keys     == DOMAIN PeriodDays \cup {"all"}

Window(key, m) ==
  LET today == DayAt(m)
      floor == today - Horizon
      start == IF key # "all" THEN today - PeriodDays[key] + 1
               ELSE IF Captured = {} THEN floor ELSE Min(Captured)
  IN  {d \in Days : start <= d /\ floor <= d /\ d <= today}

InWindow(R, W) == Restrict(R, {c \in DOMAIN R : DayOf(c) \in W})

-----------------------------------------------------------------------------
(* Streaks.  A run is cut by the days that stop the walk: a day without a  *)
(* row in the window, and a day read on which the gym ran classes and the  *)
(* operator, free to train, did not.                                       *)

Trained(R, W) == {DayOf(c) : c \in In(InWindow(R, W), "attended")}

\* Mutant of Breaks: a day the gym was closed breaks a streak too.
BreaksClosed(d, m) == d \notin Excluded /\ d < DayAt(m)

Breaks(d, m) == ledger[d].count # 0 /\ d \notin Excluded /\ d < DayAt(m)

Stops(R, W, m) ==
  LET trained == Trained(R, W)
      read    == W \cap Captured
  IN  {d \in 0..LastDay + 1 : d \notin read \/ (d \notin trained /\ Breaks(d, m))}

\* _walk_back: from today to the first stop; an unread one makes a bound of it.
CurrentRun(R, W, m) ==
  LET stop == Max({d \in Stops(R, W, m) : d <= DayAt(m)})
      days == {d \in Trained(R, W) : stop < d}
  IN  [days |-> Cardinality(days),
       atLeast |-> days # {} /\ stop \notin W \cap Captured]

\* _best_run: the longest stretch between two stops.
BestRun(R, W, m) ==
  LET trained == Trained(R, W)
      stops   == Stops(R, W, m)
  IN  Highest({Cardinality({d \in trained : a < d /\ \A b \in stops : a < b => d < b}) :
                 a \in stops})

LongestRun(R, W, m) == Max({BestRun(R, W, m), CurrentRun(R, W, m).days})

-----------------------------------------------------------------------------
(* Points (points_estimate). *)

Tier(c) ==
  IF c \in VeryLate({c}) THEN VeryLatePenalty
  ELSE IF c \in Late({c}) THEN LatePenalty
  ELSE 0

\* Mutant of Estimate: the notice tier is taken as the floor of a removal filed
\* as an absence.
EstimateTierFirst(R) ==
  LET removed == Removed(R)
      absent  == In(R, "no_show") \cup In(R, "removed_after_start")
      least   == [c \in removed |-> Tier(c)]
      most    == [c \in removed |-> IF FiledAsAbsent(c) THEN Max({Tier(c), AbsencePenalty})
                                                       ELSE Tier(c)]
      base    == BaseCost * Cardinality((removed \cup absent) \cap EverFull)
      fixed   == AbsencePenalty * Cardinality(absent)
  IN  [low |-> fixed + SumFunction(least), high |-> fixed + SumFunction(most) + base]

Estimate(R) ==
  LET removed == Removed(R)
      absent  == In(R, "no_show") \cup In(R, "removed_after_start")
      least   == [c \in removed |-> IF FiledAsAbsent(c) THEN Min({Tier(c), AbsencePenalty})
                                                       ELSE Tier(c)]
      most    == [c \in removed |-> IF FiledAsAbsent(c) THEN Max({Tier(c), AbsencePenalty})
                                                       ELSE Tier(c)]
      base    == BaseCost * Cardinality((removed \cup absent) \cap EverFull)
      fixed   == AbsencePenalty * Cardinality(absent)
  IN  [low |-> fixed + SumFunction(least), high |-> fixed + SumFunction(most) + base]

-----------------------------------------------------------------------------
(* Calendar cells (_cell_for). *)

\* "missed" stands for cancelled, removed_after_start and no_show.
CellStatus(d, R, m) ==
  LET own == InWindow(R, {d}) IN
  IF In(own, "swapped") # {} THEN "swapped"
  ELSE IF In(own, "attended") # {} THEN "attended"
  ELSE IF DOMAIN own # {} THEN "missed"
  ELSE IF d > DayAt(m) THEN "future"
  ELSE IF ledger[d] = Unread THEN "uncaptured"
  ELSE IF ledger[d].count = 0 THEN "closed" ELSE "no_activity"

-----------------------------------------------------------------------------
(* What the gym itself would say. *)

GymCounted(m)  == {c \in Classes : gym[c].list \notin {"none", "off"} /\ Settled(c, m)}
GymTrained(m)  == {DayOf(c) : c \in {k \in GymCounted(m) : gym[k].list = "attended"}}

\* Days that end a run: over, open, not excluded and not trained.
GymMissed(m) ==
  LET trained == GymTrained(m) IN
  {d \in Days \ Excluded : /\ d < DayAt(m) /\ d \notin trained
                           /\ \E c \in ClassesOn(d) : gym[c].list # "off"}

\* The run of training days ending today, had every day been read.
GymCurrentRun(m) ==
  LET missed == GymMissed(m)
  IN  Cardinality({d \in GymTrained(m) : \A b \in missed : b < d})

\* The longest run of training days without a missed day between them.
GymLongestRun(m) ==
  LET trained == GymTrained(m)
      missed  == GymMissed(m)
  IN  Highest({Cardinality({d \in trained : a <= d /\ \A b \in missed : a <= b => d < b}) :
                 a \in trained})

\* Every day read still reads the same.
Fresh == \A d \in Captured : UpToDate(d)

-----------------------------------------------------------------------------
\* A streak the page states as a fact is the operator's streak, and one it states
\* as a bound is not above it, in every window and with any days unread, as long
\* as the days that were read would read the same now.
StreakNotInflated ==
  Fresh => LET actual == GymCurrentRun(now)
               rows   == CountedRecords(now) IN
    \A key \in Keys :
      LET W   == Window(key, now)
          run == CurrentRun(rows, W, now)
      IN  /\ run.days <= actual
          /\ run.days > 0 /\ ~run.atLeast => run.days = actual
          /\ LongestRun(rows, W, now) <= GymLongestRun(now)

\* The claim of streaks: a day that was not read leaves a bound, never a fact
\* (the page shows its figures once some day was read).
StreakSaysAtLeast ==
  Fresh /\ Captured # {} => \A key \in Keys :
    LET run == CurrentRun(CountedRecords(now), Window(key, now), now)
    IN  run.atLeast \/ run.days = GymCurrentRun(now)

\* What the gym's price list charges for leaving or missing class c, had it
\* charged a removal filed as an absence by the given reading.
GymPenalty(c, reading) ==
  LET r == records[c] IN
  IF ~BeforeStart(r, c) \/ (r.list = "no_show" /\ reading = "absence") THEN AbsencePenalty
  ELSE IF Start[c] - r.at < VeryLateLead THEN VeryLatePenalty
  ELSE IF Start[c] - r.at < FreeLead THEN LatePenalty
  ELSE 0

\* The estimate's two ends are the least and the most the gym can have charged
\* for the window, over every reading of the removals it filed as absences and
\* whichever bookings of classes that filled up had cost their points.
EstimateBracketsCharge ==
  LET rows == CountedRecords(now) IN \A key \in Keys :
    LET R       == InWindow(rows, Window(key, now))
        S       == DOMAIN R
        dropped == {c \in S : records[c].list # "attended"}
        ways    == [reading : [dropped -> {"notice", "absence"}],
                    paid    : SUBSET (dropped \cap EverFull)]
        charges == {SumFunction([c \in dropped |-> GymPenalty(c, w.reading[c])])
                      + BaseCost * Cardinality(w.paid) : w \in ways}
        unknown == {c \in dropped : records[c].list = "cancelled" /\ c \in Unknown(S)}
    IN  unknown = {} => /\ Estimate(R).low = Min(charges)
                        /\ Estimate(R).high = Max(charges)

\* A past day is shown as closed or idle only when it was read; once that reading
\* is final, only when the gym ran nothing, or ran classes and the operator was
\* in none.
CalendarHonest ==
  LET rows == CountedRecords(now) IN Captured # {} => \A d \in Days : d < DayAt(now) =>
    /\ CellStatus(d, rows, now) \in {"closed", "no_activity"} => ledger[d] # Unread
    /\ ledger[d] # Unread /\ ledger[d].final =>
         /\ CellStatus(d, rows, now) = "closed" =>
              \A c \in ClassesOn(d) : gym[c].list = "off"
         /\ CellStatus(d, rows, now) = "no_activity" =>
              ClassesOn(d) \cap GymCounted(now) = {}

\* A day that was not read is told apart from a day without training, in the
\* streaks and in the calendar.
UnreadIsNotAbsence == StreakNotInflated /\ CalendarHonest

=============================================================================
