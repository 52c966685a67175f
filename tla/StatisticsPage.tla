---------------------------- MODULE StatisticsPage --------------------------
(***************************************************************************)
(* The sections of the statistics page (statistics/routes.py) and the      *)
(* figures each counts for itself from the classified rows                 *)
(* (statistics/metrics.py): the dropouts and their notice, the pace, the   *)
(* training pattern, the drop rates, the trend, the lead of the bookings   *)
(* and the calendar.                                                       *)
(***************************************************************************)
EXTENDS Metrics

CONSTANT MinBookings     \* _MIN_BOOKINGS_PER_HOUR

ASSUME PageAssumption == MinBookings \in Nat \ {0}

Count(R, state) == Cardinality(In(R, state))

-----------------------------------------------------------------------------
(* The attendance section. *)

States == {"attended", "cancelled", "swapped", "removed_after_start", "no_show"}

Abandonment(R) == [state \in States |-> Count(R, state)]

\* Mutant of CancellationBands: a removal on the last boundary is in two bands.
CancellationBandsTied(R) ==
  LET C == In(R, "cancelled")
  IN  [early |-> Cardinality(Early(C)), late |-> Cardinality(Late(C)),
       very_late |-> Cardinality({c \in C \ Unknown(C) : Notice(c) <= VeryLateLead}),
       unknown_lead |-> Cardinality(Unknown(C))]

CancellationBands(R) ==
  LET C == In(R, "cancelled")
  IN  [early |-> Cardinality(Early(C)), late |-> Cardinality(Late(C)),
       very_late |-> Cardinality(VeryLate(C)), unknown_lead |-> Cardinality(Unknown(C))]

\* The sessions of the window and of the days before it, as many; the latter
\* are unknown if none of those days was read.
WeeklyAverage(R, W) ==
  LET before      == {d - Cardinality(W) : d \in W}
      Sessions(D) == Count(InWindow(R, D), "attended")
  IN  [sessions |-> Sessions(W),
       previous |-> IF before \cap Captured = {} THEN Unread ELSE Sessions(before)]

AttendanceSection(R, W) ==
  LET own == InWindow(R, W)
  IN  [abandonment |-> Abandonment(own),
       bands       |-> CancellationBands(own),
       pace        |-> WeeklyAverage(R, W),
       unread      |-> Cardinality(W \ Captured)]

-----------------------------------------------------------------------------
(* The patterns section. *)

Slot(c)    == Start[c] % Ticks
Weekday(d) == d % 7

WeekdayHourGrid(R) ==
  LET A       == In(R, "attended")
      Cell(c) == <<Weekday(DayOf(c)), Slot(c)>>
  IN  [cell \in {Cell(c) : c \in A} |-> Cardinality({c \in A : Cell(c) = cell})]

DropRateBySlot(R) ==
  LET At(s, state) == Cardinality({c \in In(R, state) : Slot(c) = s})
      slots == {s \in {Slot(c) : c \in DOMAIN R} :
                  At(s, "attended") + At(s, "cancelled") >= MinBookings}
  IN  [s \in slots |-> [attended |-> At(s, "attended"), cancelled |-> At(s, "cancelled")]]

\* The months in order, a month without activity between two others among them.
MonthOf(d) == Cardinality({month \in Months : month[2] < d})

MonthlyTrend(R) ==
  LET At(k, state) == Cardinality({c \in In(R, state) : MonthOf(DayOf(c)) = k})
      active == {MonthOf(DayOf(c)) : c \in In(R, "attended") \cup In(R, "cancelled")}
      months == IF active = {} THEN {} ELSE Min(active)..Max(active)
  IN  [k \in months |-> [attended |-> At(k, "attended"), cancelled |-> At(k, "cancelled")]]

\* How long before their start the classes attended were booked.
BookingLeadBands(R) ==
  LET A     == In(R, "attended")
      known == A \ Unknown(A)
  IN  [same_day   |-> Cardinality({c \in known : Notice(c) < FreeLead}),
       within_day |-> Cardinality({c \in known : FreeLead <= Notice(c) /\ Notice(c) < Ticks}),
       early      |-> Cardinality({c \in known : FreeLead <= Notice(c) /\ Ticks <= Notice(c)}),
       unknown    |-> Cardinality(Unknown(A))]

Occupancy(R) ==
  [sessions  |-> Count(R, "attended"),
   ever_full |-> Cardinality(In(R, "attended") \cap EverFull)]

PatternsSection(R, W) ==
  LET own == InWindow(R, W)
  IN  [grid |-> WeekdayHourGrid(own), drop |-> DropRateBySlot(own),
       trend |-> MonthlyTrend(own), lead |-> BookingLeadBands(own),
       occupancy |-> Occupancy(own)]

-----------------------------------------------------------------------------
(* The calendar of some days. *)

DayCalendar(R, D, m) ==
  [d \in D |-> [status |-> CellStatus(d, R, m), counts |-> Abandonment(InWindow(R, {d}))]]

-----------------------------------------------------------------------------
\* A visit has read what it will, and renders the page (_build_context).
Rendering(v) == visit[v].pc = "reading" /\ visit[v].todo = <<>>

\* The sections of a page tell one story of a window: every dropout is in one
\* band, every session in one cell, one lead band and one month of the trend, the
\* drop rates and the calendar add up to the dropouts, and a cell shows in its
\* colour what it counts.  CancellationBands and DayCell promise as much.
SectionsAgree ==
  (\E v \in Visits : Rendering(v)) =>
  LET rows == CountedRecords(now) IN
  \A W \in {Window(key, now) : key \in Keys} :
    LET attendance == AttendanceSection(rows, W)
        patterns   == PatternsSection(rows, W)
        total      == attendance.abandonment
        days       == DayCalendar(rows, W \cap Days, now)
    IN  /\ SumFunction(attendance.bands) = total["cancelled"]
        /\ total["attended"] \in
             {attendance.pace.sessions} \cap {SumFunction(patterns.grid)}
             \cap {SumFunction(patterns.lead)} \cap {patterns.occupancy.sessions}
        /\ \A state \in {"attended", "cancelled"} :
             SumFunction([k \in DOMAIN patterns.trend |-> patterns.trend[k][state]]) = total[state]
        /\ \A s \in DOMAIN patterns.drop :
             patterns.drop[s].attended =
               SumFunctionOnSet(patterns.grid, {cell \in DOMAIN patterns.grid : cell[2] = s})
        /\ \A state \in States :
             SumFunction([d \in DOMAIN days |-> days[d].counts[state]]) = total[state]
        /\ \A d \in DOMAIN days :
             days[d].status = "attended" => days[d].counts["attended"] > 0

=============================================================================
