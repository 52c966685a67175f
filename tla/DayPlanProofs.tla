---------------------------- MODULE DayPlanProofs ---------------------------
(***************************************************************************)
(* Proofs of the safety properties of DayPlan, for any rules and timings,  *)
(* any zone whose clock changes within a day, any length of the day and    *)
(* any bounds: the rows and the gym, vacations, cancelled classes,         *)
(* overrides, the administrator's protection, and what the pages foretell.  *)
(***************************************************************************)
EXTENDS DayPlan, FiniteSetTheorems, WellFoundedInduction, TLAPS

-----------------------------------------------------------------------------
(* The inductive invariant: the types of the state. *)

SaveRequest   == [kind : {"save"}, since : Int, rule : Rules, date : Dates, timing : Timings,
                  plan : Plan \cup {None}]
CancelRequest == [kind : {"cancel"}, since : Int, row : Row, accepted : BOOLEAN]
EnableRequest == [kind : {"enable"}, since : Int, window : Vacation, todo : SUBSET Row,
                  done : SUBSET Row]
Request       == SaveRequest \cup CancelRequest \cup EnableRequest \cup {Idle}

Started == [pc : {"planned", "checked", "done"}, rule : Timings, open : Int, base : Int,
            slot : Int, plan : Plan \cup {None},
            status : {None, "granted", "full", "skipped"}, early : BOOLEAN, until : Int,
            seen : SUBSET Vacation]

\* A plan says one thing: the day is skipped, or the class is moved.
WellPlanned(plan) == plan # None => plan \in Plan /\ plan.skip # Moves(plan)

RulesTyped == now \in Instants /\ rule \in [Rules -> Timings] /\ job \in [Rules -> Int \cup {None}]

RowsTyped ==
  /\ rows \subseteq Row /\ IsFiniteSet(rows)
  /\ {row.id : row \in rows} = 1..Cardinality(rows)
  /\ \A a, b \in rows : a.id = b.id => a = b
  /\ notices \in [1..Cardinality(rows) -> Nat]

OverridesTyped ==
  /\ overrides = [key \in DOMAIN overrides |-> overrides[key]]
  /\ DOMAIN overrides \subseteq Rules \X Dates
  /\ \A key \in DOMAIN overrides : overrides[key] \in Plan /\ WellPlanned(overrides[key])

WindowsTyped == windows \subseteq Vacation /\ IsFiniteSet(windows)

RunsTyped ==
  /\ run \in [Rules -> Started \cup {NoRun}]
  /\ \A r \in Rules : run[r].pc = "done" => run[r].status \in {"granted", "full", "skipped"}

RequestsTyped ==
  /\ req \in [Requests -> Request]
  /\ \A q \in Requests : req[q].kind = "save" => WellPlanned(req[q].plan)

Typed ==
  RulesTyped /\ RowsTyped /\ OverridesTyped /\ WindowsTyped /\ RunsTyped /\ RequestsTyped

-----------------------------------------------------------------------------
(* Vacations. *)

\* While a vacation is being enabled, a booking inside it is on its list, on
\* the list of those cancelled, or excused.
ListIsComplete ==
  \A q \in Requests : req[q].kind = "enable" =>
    \A row \in rows :
      /\ row.status = "granted" /\ Covers(req[q].window, row.slot)
      /\ req[q].window.created <= row.slot
      => row \in req[q].todo \cup req[q].done \/ row.id \in excused

\* A vacation is made of whole days.
Whole(w) ==
  \E a, b \in Int : w.from = At(TheZone, a, 0) /\ w.until = At(TheZone, b + 1, 0) - 1

WindowsWhole ==
  /\ \A w \in windows : Whole(w)
  /\ \A q \in Requests : req[q].kind = "enable" => Whole(req[q].window)
  /\ \A r \in Rules : run[r] # NoRun => \A w \in run[r].seen : Whole(w)

\* A run that went past its first exits is for a class outside every vacation
\* that it saw.
LookedClear ==
  \A r \in Rules :
    run[r].pc = "checked" \/ (run[r].pc = "done" /\ run[r].status = "granted") =>
      \A w \in run[r].seen : ~w.closed /\ now <= w.until => ~Covers(w, run[r].slot)

-----------------------------------------------------------------------------
(* Rows, notices and the gym. *)

\* The rows a request has cancelled at the gym and not yet in the table, and
\* all the rows it is about.
Taken(q) ==
  IF req[q].kind = "cancel" /\ req[q].accepted THEN {req[q].row}
  ELSE IF req[q].kind = "enable" THEN req[q].done ELSE {}

Subjects(q) ==
  IF req[q].kind = "cancel" THEN {req[q].row}
  ELSE IF req[q].kind = "enable" THEN req[q].todo \cup req[q].done ELSE {}

\* A request is about rows that are still there and were granted.
SubjectsExist ==
  \A q \in Requests : \A row \in Subjects(q) : \E o \in rows :
    o.id = row.id /\ o.slot = row.slot /\ o.status \in {"granted", "cancelled"}

CancelledRows == {row \in rows : row.status = "cancelled"} \cup UNION {Taken(q) : q \in Requests}

DoubtfulSlots == {row.slot : row \in {o \in rows : o.id \in adrift}}

\* A slot the athlete lost is one of a cancelled row.
Lost(slot) == slot \notin enrolled /\ slot \notin {row.slot : row \in CancelledRows} \cup DoubtfulSlots

GrantedIsKept ==
  /\ \A row \in rows : row.status = "granted" => ~Lost(row.slot)
  /\ \A r \in Rules : run[r].pc = "done" /\ run[r].status = "granted" => ~Lost(run[r].slot)

CancelledIsGone ==
  \A row \in CancelledRows : row.slot \in enrolled => row.slot \in rebooked \/ row.id \in adrift

Certain(row) == row.id \notin adrift /\ row.slot \notin rebooked

\* One request cancels a row, and it has not done so yet.
TakenOnce ==
  \A q \in Requests : \A row \in Taken(q) : Certain(row) =>
    /\ \E o \in rows : o.id = row.id /\ o.status = "granted"
    /\ \A p \in Requests \ {q} : \A other \in Taken(p) : other.id # row.id

-----------------------------------------------------------------------------
(* Overrides. *)

\* A save is for a day of the rule as the request read it, before its cutoff.
SaveOnItsDay ==
  \A q \in Requests : req[q].kind = "save" =>
    LET s == req[q] IN
    /\ s.date % 7 = s.timing.day_of_week
    /\ s.since < At(TheZone, s.date - s.timing.opens_days_before, s.timing.opens_at) - (PrewarmLead + Margin)
    /\ now <= s.since + MaxAnswer

\* An instant is an opening of a rule.
Opens(z, t, open) ==
  /\ open = At(z, LocalDate(z, open), t.opens_at)
  /\ LocalDate(z, open) % 7 = TriggerDay(t)

\* A run contests an opening of its rule, for a slot on the class's day.
RunOnItsDay ==
  \A r \in Rules : run[r] # NoRun =>
    /\ Opens(TheZone, run[r].rule, run[r].open)
    /\ run[r].base = TargetSlot(TheZone, run[r].rule, run[r].open)
    /\ Day(run[r].base) = Day(run[r].open) + run[r].rule.opens_days_before
    /\ Day(run[r].slot) = Day(run[r].base)
    /\ ~run[r].early => run[r].open - PrewarmLead <= now
    /\ run[r].pc = "done" /\ run[r].status = "granted" => run[r].open <= now
    /\ run[r].pc # "done" => run[r].slot = PlannedSlot(run[r].plan, run[r].base)
    /\ r \notin edited => run[r].rule = rule[r]

\* What a run read of the overrides stands.
PlanStands ==
  \A r \in Rules : run[r] # NoRun /\ r \notin edited /\ ~run[r].early
      /\ <<r, Day(run[r].base)>> \notin strayed =>
    LoadOverride(r, Day(run[r].base)) = run[r].plan

-----------------------------------------------------------------------------
(* A day is contested once. *)

Kept(r) == {row \in rows : row.rule = r /\ row.status \in {"granted", "cancelled"} /\ row.id \notin reopened}

KeptIsPast ==
  \A r \in Rules : \A row \in Kept(r) : \E open \in Int :
    Opens(TheZone, rule[r], open) /\ open <= now /\ Day(row.slot) = Day(open) + rule[r].opens_days_before

KeptBeforeJob ==
  \A r \in Rules : Kept(r) # {} /\ job[r] # None =>
    /\ Opens(TheZone, rule[r], job[r])
    /\ \A row \in Kept(r) : Day(row.slot) < Day(job[r]) + rule[r].opens_days_before

KeptBeforeRun ==
  \A r \in Rules : Kept(r) # {} /\ run[r] # NoRun =>
    /\ run[r].rule = rule[r]
    /\ \A row \in Kept(r) : Day(row.slot) < Day(run[r].base)

KeptApart ==
  \A r \in Rules : \A c \in Kept(r), g \in rows :
    g.rule = r /\ g.status \in {"granted", "cancelled"} /\ c.id < g.id => Day(c.slot) < Day(g.slot)

IInv ==
  /\ Typed /\ ListIsComplete /\ WindowsWhole /\ LookedClear /\ VacationClears
  /\ SubjectsExist /\ GrantedIsKept /\ CancelledIsGone /\ TakenOnce /\ NoticePerCancel
  /\ SaveOnItsDay /\ NoStrayOverride /\ RunOnItsDay
  /\ KeptIsPast /\ KeptBeforeJob /\ KeptBeforeRun /\ KeptApart


LEMMA TimingType ==
  ASSUME NEW t \in Timing
  PROVE  /\ t.day_of_week \in 0..6 /\ t.opens_days_before \in Nat
         /\ t.opens_at \in 0..DayLen - 1 /\ t.class_time \in 0..DayLen - 1
         /\ TriggerDay(t) \in 0..6
  BY DEF Timing, TriggerDay

LEMMA AtType ==
  ASSUME NEW z \in Zone, NEW day \in Int, NEW time \in Int
  PROVE  At(z, day, time) \in Int
<1>1. day * DayLen + time \in Int
  BY DayLenAssumption
<1> QED
  BY <1>1 DEF At, ToUTC, Zone

LEMMA LocalDateType ==
  ASSUME NEW z \in Zone, NEW i \in Int
  PROVE  LocalDate(z, i) \in Int
<1>1. ToLocal(z, i) \in Int
  BY DEF ToLocal, Zone
<1> QED
  BY <1>1, DayLenAssumption DEF LocalDate, DayOf

LEMMA TargetSlotType ==
  ASSUME NEW z \in Zone, NEW t \in Timing, NEW open \in Int
  PROVE  TargetSlot(z, t, open) \in Int
<1>1. t.opens_days_before \in Int /\ t.class_time \in Int
  BY TimingType, DayLenAssumption
<1>2. LocalDate(z, open) + t.opens_days_before \in Int
  BY <1>1, LocalDateType
<1> QED
  BY <1>1, <1>2, AtType DEF TargetSlot

\* A day holds the readings from its number times the length of a day.
LEMMA DayBounds ==
  ASSUME NEW wall \in Int
  PROVE  /\ DayOf(wall) \in Int
         /\ DayOf(wall) * DayLen \in Int
         /\ DayOf(wall) * DayLen <= wall /\ wall < DayOf(wall) * DayLen + DayLen
  BY DayLenAssumption DEF DayOf

LEMMA LaterDays ==
  ASSUME NEW d \in Int, NEW e \in Int, d < e
  PROVE  d * DayLen \in Int /\ e * DayLen \in Int /\ d * DayLen + DayLen <= e * DayLen
  BY DayLenAssumption

\* The day of a reading is the day whose readings are about it.
LEMMA DayOfReading ==
  ASSUME NEW wall \in Int, NEW d \in Int, d * DayLen <= wall, wall < d * DayLen + DayLen
  PROVE  DayOf(wall) = d
<1>1. d * DayLen \in Int
  BY DayLenAssumption
<1>2. DayLen \in Nat
  BY DayLenAssumption
<1> DEFINE e == DayOf(wall)
<1>3. /\ e \in Int /\ e * DayLen \in Int
      /\ e * DayLen <= wall /\ wall < e * DayLen + DayLen
  BY DayBounds
<1> HIDE DEF e
<1>4. e < d => e * DayLen + DayLen <= d * DayLen
  BY <1>3, LaterDays
<1>5. d < e => d * DayLen + DayLen <= e * DayLen
  BY <1>3, LaterDays
<1>6. e = d
  BY <1>1, <1>2, <1>3, <1>4, <1>5
<1> QED
  BY <1>6 DEF e

LEMMA DayOfMonotone ==
  ASSUME NEW v \in Int, NEW w \in Int, v <= w
  PROVE  DayOf(v) <= DayOf(w)
<1> DEFINE d == DayOf(v)
           e == DayOf(w)
<1>1. DayLen \in Nat
  BY DayLenAssumption
<1>2. /\ d \in Int /\ d * DayLen \in Int /\ d * DayLen <= v
      /\ e \in Int /\ e * DayLen \in Int /\ w < e * DayLen + DayLen
  BY DayBounds
<1> HIDE DEF d, e
<1>3. e < d => e * DayLen + DayLen <= d * DayLen
  BY <1>2, LaterDays
<1>4. d <= e
  BY <1>1, <1>2, <1>3
<1> QED
  BY <1>4 DEF d, e

\* The weekday of a day.
LEMMA Weekday ==
  ASSUME NEW d \in Int
  PROVE  /\ d % 7 \in 0..6 /\ d \div 7 \in Int
         /\ d = 7 * (d \div 7) + (d % 7)
  OBVIOUS

LEMMA WeekdayUnique ==
  ASSUME NEW d \in Int, NEW week \in Int, NEW n \in 0..6, d = 7 * week + n
  PROVE  d % 7 = n
  OBVIOUS

\* A clock that reads day and time reads that day.
LEMMA DateOfAt ==
  ASSUME NEW z \in Zone, ChangesWithinDay(z), NEW d \in Int, NEW time \in 0..DayLen - 1
  PROVE  LocalDate(z, At(z, d, time)) = d
<1> DEFINE wall == d * DayLen + time
           back == ToLocal(z, ToUTC(z, wall))
           first == z.change + IF z.before < z.after THEN z.before ELSE z.after
           last == IF z.before < z.after THEN z.change + 2 * z.after - z.before
                   ELSE z.change + z.before
<1>1. d * DayLen \in Int /\ DayLen \in Nat /\ time \in Int /\ 0 <= time /\ time < DayLen
  BY DayLenAssumption
<1>2. wall \in Int /\ d * DayLen <= wall /\ wall < d * DayLen + DayLen
  BY <1>1
<1>3. DayOf(wall) = d
  <2> HIDE DEF wall
  <2> QED
    BY <1>2, DayOfReading
<1> HIDE DEF wall
<1>4. z.change \in Int /\ z.before \in Int /\ z.after \in Int
  BY DEF Zone
<1>5. back = wall \/ (wall \in first..last - 1 /\ back \in first..last - 1)
  BY <1>2, <1>4 DEF ToLocal, ToUTC, Turn
<1>6. DayOf(back) = DayOf(wall)
  <2>1. \A w \in first..last - 1 : DayOf(w) = DayOf(first)
    BY Zenon DEF ChangesWithinDay
  <2> HIDE DEF back, first, last
  <2> QED
    BY <1>5, <2>1
<1>7. LocalDate(z, At(z, d, time)) = DayOf(back)
  BY Zenon DEF LocalDate, At, wall
<1> QED
  BY <1>3, <1>6, <1>7

\* Days do not go back with the clock.
LEMMA DateMonotone ==
  ASSUME NEW z \in Zone, ChangesWithinDay(z), NEW i \in Int, NEW j \in Int, i <= j
  PROVE  LocalDate(z, i) <= LocalDate(z, j)
<1> DEFINE first == z.change + IF z.before < z.after THEN z.before ELSE z.after
           last == IF z.before < z.after THEN z.change + 2 * z.after - z.before
                   ELSE z.change + z.before
<1>1. z.change \in Int /\ z.before \in Int /\ z.after \in Int
  BY DEF Zone
<1>2. ToLocal(z, i) \in Int /\ ToLocal(z, j) \in Int
  BY <1>1 DEF ToLocal
<1>3. \/ ToLocal(z, i) <= ToLocal(z, j)
      \/ ToLocal(z, i) \in first..last - 1 /\ ToLocal(z, j) \in first..last - 1
  BY <1>1 DEF ToLocal
<1>4. CASE ToLocal(z, i) <= ToLocal(z, j)
  BY <1>2, <1>4, DayOfMonotone DEF LocalDate
<1>5. CASE ToLocal(z, i) \in first..last - 1 /\ ToLocal(z, j) \in first..last - 1
  <2>1. \A w \in first..last - 1 : DayOf(w) = DayOf(first)
    BY Zenon DEF ChangesWithinDay
  <2> HIDE DEF first, last
  <2>2. DayOf(ToLocal(z, i)) = DayOf(ToLocal(z, j))
    BY <1>5, <2>1
  <2> QED
    BY <1>2, <2>2, DayBounds DEF LocalDate
<1> QED
  BY <1>3, <1>4, <1>5

\* No day is left out between an instant and the next.
LEMMA DateBefore ==
  ASSUME NEW z \in Zone, ChangesWithinDay(z), NEW i \in Int
  PROVE  LocalDate(z, i) - 1 <= LocalDate(z, i - 1)
<1> DEFINE first == z.change + IF z.before < z.after THEN z.before ELSE z.after
           last == IF z.before < z.after THEN z.change + 2 * z.after - z.before
                   ELSE z.change + z.before
           v == ToLocal(z, i - 1)
           w == ToLocal(z, i)
<1>1. z.change \in Int /\ z.before \in Int /\ z.after \in Int
  BY DEF Zone
<1>2. v \in Int /\ w \in Int /\ first \in Int
  BY <1>1 DEF ToLocal
<1>3. w - 1 <= v \/ (w \in first..last - 1 /\ first \in first..last - 1 /\ v = first - 1)
  BY <1>1 DEF ToLocal
<1>4. \A u \in first..last - 1 : DayOf(u) = DayOf(first)
  BY Zenon DEF ChangesWithinDay
<1>5. LocalDate(z, i) = DayOf(w) /\ LocalDate(z, i - 1) = DayOf(v)
  BY DEF LocalDate
<1> HIDE DEF first, last, v, w
<1>6. ASSUME NEW u \in Int PROVE DayOf(u) - 1 <= DayOf(u - 1)
  <2>1. u - 1 \in Int /\ DayLen \in Nat /\ 1 <= DayLen
    BY DayLenAssumption
  <2>2. DayOf(u - 1) \in Int /\ DayOf(u) \in Int
    BY <2>1, DayBounds
  <2>3. ASSUME DayOf(u - 1) + 1 < DayOf(u) PROVE FALSE
    <3>1. (DayOf(u - 1) + 1) * DayLen + DayLen <= DayOf(u) * DayLen
      BY <2>2, <2>3, LaterDays
    <3>2. DayOf(u - 1) * DayLen + DayLen <= (DayOf(u - 1) + 1) * DayLen
      BY <2>2, LaterDays
    <3>3. (DayOf(u - 1) + 1) * DayLen \in Int
      BY <2>1, <2>2
    <3> QED
      BY <2>1, <3>1, <3>2, <3>3, DayBounds
  <2> QED
    BY <2>2, <2>3
<1>7. CASE w - 1 <= v
  BY <1>2, <1>5, <1>6, <1>7, DayOfMonotone, DayBounds
<1>8. CASE w \in first..last - 1 /\ first \in first..last - 1 /\ v = first - 1
  BY <1>2, <1>4, <1>5, <1>6, <1>8
<1> QED
  BY <1>3, <1>7, <1>8

LEMMA NextOpens ==
  ASSUME NEW z \in Zone, ChangesWithinDay(z), NEW t \in Timing, NEW i \in Int
  PROVE  LET open == NextWindowOpen(z, t, i)
         IN  open \in Int /\ i < open /\ Opens(z, t, open)
<1> DEFINE today == LocalDate(z, i)
           next  == today + ((TriggerDay(t) - today) % 7)
<1>1. t.opens_at \in 0..DayLen - 1 /\ t.opens_at \in Int /\ TriggerDay(t) \in 0..6
  BY TimingType, DayLenAssumption
<1>2. today \in Int
  BY LocalDateType
<1> HIDE DEF today
<1>3. next \in Int /\ next + 7 \in Int /\ today <= next
  BY <1>1, <1>2
<1>4. next % 7 = TriggerDay(t) /\ (next + 7) % 7 = TriggerDay(t)
  BY <1>1, <1>2
<1> HIDE DEF next
<1>5. LocalDate(z, At(z, next, t.opens_at)) = next /\ LocalDate(z, At(z, next + 7, t.opens_at)) = next + 7
  BY <1>1, <1>3, DateOfAt
<1>6. At(z, next, t.opens_at) \in Int /\ At(z, next + 7, t.opens_at) \in Int
  BY <1>1, <1>3, AtType
<1>7. i < At(z, next + 7, t.opens_at)
  <2>1. At(z, next + 7, t.opens_at) <= i => next + 7 <= today
    BY <1>5, <1>6, DateMonotone DEF today
  <2> QED
    BY <1>2, <1>3, <1>6, <2>1
<1>8. NextWindowOpen(z, t, i) = IF At(z, next, t.opens_at) > i THEN At(z, next, t.opens_at)
                                ELSE At(z, next + 7, t.opens_at)
  BY Zenon DEF NextWindowOpen, NextOccurrence, next, today
<1>9. CASE At(z, next, t.opens_at) > i
  BY <1>4, <1>5, <1>6, <1>8, <1>9 DEF Opens
<1>10. CASE ~(At(z, next, t.opens_at) > i)
  BY <1>4, <1>5, <1>6, <1>7, <1>8, <1>10 DEF Opens
<1> QED
  BY <1>9, <1>10

\* From the instant before an opening, the next opening is that one.
LEMMA OpeningIsNext ==
  ASSUME NEW z \in Zone, ChangesWithinDay(z), NEW t \in Timing, NEW open \in Int, Opens(z, t, open)
  PROVE  NextWindowOpen(z, t, open - 1) = open
<1> DEFINE d     == LocalDate(z, open)
           today == LocalDate(z, open - 1)
           next  == today + ((TriggerDay(t) - today) % 7)
<1>1. TriggerDay(t) \in 0..6
  BY TimingType
<1>2. d \in Int /\ today \in Int /\ d - 1 <= today /\ today <= d
  BY LocalDateType, DateBefore, DateMonotone
<1>3. open = At(z, d, t.opens_at) /\ d % 7 = TriggerDay(t)
  BY DEF Opens
<1> HIDE DEF d, today
<1>4. next = d
  <2>1. today = d => (TriggerDay(t) - today) % 7 = 0
    <3>1. PICK week \in Int : d = 7 * week + TriggerDay(t)
      BY <1>2, <1>3, Weekday
    <3>2. TriggerDay(t) - d = 7 * (0 - week) + 0 /\ 0 - week \in Int
      BY <1>1, <1>2, <3>1
    <3> QED
      BY <1>1, <1>2, <3>2, WeekdayUnique
  <2>2. today = d - 1 => (TriggerDay(t) - today) % 7 = 1
    <3>1. PICK week \in Int : d = 7 * week + TriggerDay(t)
      BY <1>2, <1>3, Weekday
    <3>2. TriggerDay(t) - (d - 1) = 7 * (0 - week) + 1 /\ 0 - week \in Int
      BY <1>1, <1>2, <3>1
    <3> QED
      BY <1>1, <1>2, <3>2, WeekdayUnique
  <2> QED
    BY <1>2, <2>1, <2>2
<1> HIDE DEF next
<1>5. NextWindowOpen(z, t, open - 1) = IF At(z, next, t.opens_at) > open - 1
                                       THEN At(z, next, t.opens_at)
                                       ELSE At(z, next + 7, t.opens_at)
  BY Zenon DEF NextWindowOpen, NextOccurrence, next, today
<1> QED
  BY <1>3, <1>4, <1>5

\* Openings keep their order by days.
LEMMA LaterOpening ==
  ASSUME NEW z \in Zone, ChangesWithinDay(z), NEW t \in Timing,
         NEW i \in Int, NEW j \in Int, Opens(z, t, i), Opens(z, t, j), i < j
  PROVE  LocalDate(z, i) < LocalDate(z, j)
<1>1. LocalDate(z, i) <= LocalDate(z, j) /\ LocalDate(z, i) \in Int /\ LocalDate(z, j) \in Int
  BY DateMonotone, LocalDateType
<1>2. LocalDate(z, i) # LocalDate(z, j)
  BY DEF Opens
<1> QED
  BY <1>1, <1>2

\* The class of an opening is on the rule's weekday, that many days later.
LEMMA TargetDay ==
  ASSUME NEW z \in Zone, ChangesWithinDay(z), NEW t \in Timing, NEW open \in Int, Opens(z, t, open)
  PROVE  /\ LocalDate(z, TargetSlot(z, t, open)) = LocalDate(z, open) + t.opens_days_before
         /\ LocalDate(z, TargetSlot(z, t, open)) % 7 = t.day_of_week
         /\ TargetSlot(z, t, open) = At(z, LocalDate(z, TargetSlot(z, t, open)), t.class_time)
<1> DEFINE d == LocalDate(z, open)
<1>1. /\ t.day_of_week \in 0..6 /\ t.opens_days_before \in Nat
      /\ t.class_time \in 0..DayLen - 1
  BY TimingType
<1>2. d \in Int /\ d % 7 = (t.day_of_week - t.opens_days_before) % 7
  BY LocalDateType DEF Opens, TriggerDay
<1> HIDE DEF d
<1>3. d + t.opens_days_before \in Int
  BY <1>1, <1>2
<1>4. LocalDate(z, TargetSlot(z, t, open)) = d + t.opens_days_before
  BY <1>1, <1>3, DateOfAt DEF TargetSlot, d
<1>5. (d + t.opens_days_before) % 7 = t.day_of_week
  <2> DEFINE m == t.day_of_week - t.opens_days_before
             n == m % 7
  <2>1. m \in Int /\ m = t.day_of_week - t.opens_days_before /\ d % 7 = n
    BY <1>1, <1>2
  <2> HIDE DEF m
  <2>2. PICK a \in Int : d = 7 * a + n
    BY <1>2, <2>1, Weekday
  <2>3. PICK b \in Int : m = 7 * b + n /\ n \in Int
    BY <2>1, Weekday
  <2> HIDE DEF n
  <2>4. d + t.opens_days_before = 7 * (a - b) + t.day_of_week /\ a - b \in Int
    BY <1>1, <1>2, <2>1, <2>2, <2>3
  <2> QED
    BY <1>1, <1>3, <2>4, WeekdayUnique
<1> QED
  BY <1>4, <1>5 DEF TargetSlot, d
-----------------------------------------------------------------------------
(* Types. *)

LEMMA ConstantTypes ==
  /\ Instants \subseteq Int /\ Dates \subseteq Int /\ Timings \subseteq Timing
  /\ Vacations \subseteq Int \X Int
  /\ MaxAnswer \in Nat /\ PrewarmLead \in Nat /\ Margin \in Nat
  /\ TheZone \in Zone /\ ChangesWithinDay(TheZone)
  /\ None \notin Int /\ None \notin Plan /\ None \notin Rules
  BY DayPlanAssumption, UpcomingAssumption, NoneAssumption

LEMMA DayType ==
  ASSUME NEW i \in Int
  PROVE  Day(i) \in Int
  BY LocalDateType, ConstantTypes DEF Day

\* What is known of a request by its kind.
LEMMA RequestKinds ==
  ASSUME RequestsTyped, NEW q \in Requests
  PROVE  /\ req[q].kind = "save" => req[q] \in SaveRequest /\ WellPlanned(req[q].plan)
         /\ req[q].kind = "cancel" => req[q] \in CancelRequest
         /\ req[q].kind = "enable" => req[q] \in EnableRequest
         /\ req[q].kind \in {"save", "cancel", "enable", "idle"}
         /\ req[q] # Idle <=> req[q].kind # "idle"
  BY DEF RequestsTyped, Request, SaveRequest, CancelRequest, EnableRequest, Idle

\* What is known of a run by how far it is.
LEMMA RunKinds ==
  ASSUME RunsTyped, NEW r \in Rules
  PROVE  /\ run[r] # NoRun => run[r] \in Started
         /\ run[r].pc \in {"planned", "checked", "done"} <=> run[r] # NoRun
         /\ run[r].pc = "done" => run[r].status \in {"granted", "full", "skipped"}
  BY DEF RunsTyped, Started, NoRun

\* A row once those of ids are cancelled.
Marked(row, ids) == IF row.id \in ids THEN [row EXCEPT !.status = "cancelled"] ELSE row

LEMMA MarkedRow ==
  ASSUME NEW row \in Row, NEW ids
  PROVE  /\ Marked(row, ids) \in Row
         /\ Marked(row, ids).id = row.id /\ Marked(row, ids).rule = row.rule
         /\ Marked(row, ids).slot = row.slot
         /\ Marked(row, ids).status = IF row.id \in ids THEN "cancelled" ELSE row.status
  BY DEF Marked, Row

LEMMA MarkedRows ==
  ASSUME RowsTyped, NEW ids, MarkCancelled(ids)
  PROVE  RowsTyped' /\ rows' = {Marked(row, ids) : row \in rows}
<1>1. rows' = {Marked(row, ids) : row \in rows}
  BY DEF MarkCancelled, Marked
<1>2. rows \subseteq Row /\ IsFiniteSet(rows)
  BY DEF RowsTyped
<1> DEFINE f == [row \in rows |-> Marked(row, ids)]
<1>3. f \in Surjection(rows, rows')
  <2>1. f \in [rows -> rows']
    BY <1>1
  <2>2. \A o \in rows' : \E row \in rows : f[row] = o
    BY <1>1
  <2> QED
    BY <2>1, <2>2 DEF Surjection
<1>4. f \in Injection(rows, rows')
  <2>1. f \in [rows -> rows']
    BY <1>1
  <2>2. ASSUME NEW a \in rows, NEW b \in rows, f[a] = f[b] PROVE a = b
    <3>1. Marked(a, ids).id = a.id /\ Marked(b, ids).id = b.id
      BY <1>2, MarkedRow
    <3> QED
      BY <2>2, <3>1 DEF RowsTyped
  <2> QED
    BY <2>1, <2>2 DEF Injection, IsInjective
<1>5. IsFiniteSet(rows') /\ Cardinality(rows') = Cardinality(rows)
  BY <1>2, <1>3, <1>4, FS_Surjection
<1>6. rows' \subseteq Row
  BY <1>1, <1>2, MarkedRow
<1>7. {row.id : row \in rows'} = {row.id : row \in rows}
  BY <1>1, <1>2, MarkedRow
<1>8. \A a, b \in rows' : a.id = b.id => a = b
  BY <1>1, <1>2, MarkedRow DEF RowsTyped
<1>9. notices' \in [1..Cardinality(rows) -> Nat]
  BY DEF MarkCancelled, RowsTyped
<1> QED
  BY <1>1, <1>5, <1>6, <1>7, <1>8, <1>9 DEF RowsTyped

LEMMA AddedRow ==
  ASSUME RowsTyped, NEW row \in Row, row.id = NewId, rows' = rows \cup {row},
         notices' = [i \in 1..NewId |-> IF i = NewId THEN 0 ELSE notices[i]]
  PROVE  RowsTyped' /\ \A o \in rows : o.id \in Nat /\ o.id < NewId
<1>1. IsFiniteSet(rows) /\ Cardinality(rows) \in Nat
  BY FS_CardinalityType DEF RowsTyped
<1>2. NewId = Cardinality(rows) + 1
  BY DEF NewId
<1>3. \A o \in rows : o.id \in 1..Cardinality(rows)
  BY DEF RowsTyped
<1>4. row \notin rows
  BY <1>1, <1>2, <1>3
<1>5. IsFiniteSet(rows') /\ Cardinality(rows') = NewId
  BY <1>1, <1>2, <1>4, FS_AddElement
<1>6. {o.id : o \in rows'} = 1..NewId
  <2>1. {o.id : o \in rows'} = {o.id : o \in rows} \cup {NewId}
    OBVIOUS
  <2>2. 1..NewId = (1..Cardinality(rows)) \cup {NewId}
    BY <1>1, <1>2
  <2> QED
    BY <2>1, <2>2 DEF RowsTyped
<1>7. \A a, b \in rows' : a.id = b.id => a = b
  BY <1>1, <1>2, <1>3 DEF RowsTyped
<1>8. notices' \in [1..NewId -> Nat]
  BY <1>1, <1>2 DEF RowsTyped
<1>9. rows' \subseteq Row
  BY DEF RowsTyped
<1>10. RowsTyped'
  <2>1. {o.id : o \in rows'} = 1..Cardinality(rows') /\ notices' \in [1..Cardinality(rows') -> Nat]
    BY <1>5, <1>6, <1>8
  <2> QED
    BY <1>5, <1>7, <1>9, <2>1 DEF RowsTyped
<1> QED
  BY <1>1, <1>2, <1>3, <1>10

\* The parts of Typed stand when their variables do.
LEMMA TypedFrame ==
  /\ RulesTyped /\ UNCHANGED <<now, rule, job>> => RulesTyped'
  /\ RowsTyped /\ UNCHANGED <<rows, notices>> => RowsTyped'
  /\ OverridesTyped /\ UNCHANGED overrides => OverridesTyped'
  /\ WindowsTyped /\ UNCHANGED windows => WindowsTyped'
  /\ RunsTyped /\ UNCHANGED run => RunsTyped'
  /\ RequestsTyped /\ UNCHANGED req => RequestsTyped'
<1>1. RulesTyped /\ UNCHANGED <<now, rule, job>> => RulesTyped'
  BY DEF RulesTyped
<1>2. RowsTyped /\ UNCHANGED <<rows, notices>> => RowsTyped'
  BY DEF RowsTyped
<1>3. OverridesTyped /\ UNCHANGED overrides => OverridesTyped'
  BY DEF OverridesTyped
<1>4. WindowsTyped /\ UNCHANGED windows => WindowsTyped'
  BY DEF WindowsTyped
<1>5. RunsTyped /\ UNCHANGED run => RunsTyped'
  BY DEF RunsTyped
<1>6. RequestsTyped /\ UNCHANGED req => RequestsTyped'
  BY DEF RequestsTyped
<1> QED
  BY <1>1, <1>2, <1>3, <1>4, <1>5, <1>6

LEMMA Next1Type ==
  ASSUME RulesTyped, NEW r \in Rules, NEW at \in Int
  PROVE  /\ Next1(r, at) \in Int /\ at < Next1(r, at)
         /\ Opens(TheZone, rule[r], Next1(r, at))
<1>1. rule[r] \in Timing
  BY ConstantTypes DEF RulesTyped
<1> QED
  BY <1>1, NextOpens, ConstantTypes DEF Next1

LEMMA Ended ==
  ASSUME RequestsTyped, NEW q \in Requests, End(q)
  PROVE  RequestsTyped' /\ req'[q] = Idle /\ \A p \in Requests \ {q} : req'[p] = req[p]
  BY DEF RequestsTyped, End, Request, Idle

LEMMA Begun ==
  ASSUME RequestsTyped, NEW q \in Requests, NEW request \in Request, Begin(q, request),
         request.kind = "save" => WellPlanned(request.plan)
  PROVE  /\ RequestsTyped' /\ req[q] = Idle /\ req'[q] = request
         /\ \A p \in Requests \ {q} : req'[p] = req[p]
  BY DEF RequestsTyped, Begin

LEMMA TypedInit == Init => Typed
<1> SUFFICES ASSUME Init PROVE Typed
  OBVIOUS
<1>1. RulesTyped
  <2>1. now \in Instants /\ rule \in [Rules -> Timings] /\ now \in Int
    BY ConstantTypes DEF Init
  <2>2. ASSUME NEW r \in Rules PROVE Next1(r, now) \in Int
    <3>1. rule[r] \in Timing
      BY <2>1, ConstantTypes
    <3> QED
      BY <2>1, <3>1, NextOpens, ConstantTypes DEF Next1
  <2> QED
    BY <2>1, <2>2 DEF Init, RulesTyped
<1>2. RowsTyped
  <2>1. CASE rows = {}
    <3>1. IsFiniteSet(rows) /\ Cardinality(rows) = 0
      BY <2>1, FS_EmptySet
    <3>2. {row.id : row \in rows} = 1..Cardinality(rows)
      BY <2>1, <3>1
    <3>3. notices = [i \in {row.id : row \in rows} |-> 0]
      BY DEF Init
    <3> QED
      BY <2>1, <3>1, <3>2, <3>3 DEF RowsTyped
  <2>2. CASE \E r \in Rules, s \in Rules :
               rows = {[id |-> 1, rule |-> None, slot |-> TargetSlot(TheZone, rule[s], Next1(r, now)),
                        status |-> "granted"]}
    <3>1. PICK r \in Rules, s \in Rules :
               rows = {[id |-> 1, rule |-> None, slot |-> TargetSlot(TheZone, rule[s], Next1(r, now)),
                        status |-> "granted"]}
      BY <2>2
    <3> DEFINE slot == TargetSlot(TheZone, rule[s], Next1(r, now))
               row  == [id |-> 1, rule |-> None, slot |-> slot, status |-> "granted"]
    <3>2. slot \in Int
      <4>1. rule[s] \in Timing /\ now \in Int
        BY ConstantTypes DEF Init
      <4>2. Next1(r, now) \in Int
        BY <1>1, <4>1, Next1Type
      <4> QED
        BY <4>1, <4>2, ConstantTypes, TargetSlotType
    <3> HIDE DEF slot
    <3>3. rows = {row} /\ row.id = 1
      BY <3>1 DEF slot
    <3>4. row \in Row
      BY <3>2 DEF Row
    <3> HIDE DEF row
    <3>5. IsFiniteSet(rows) /\ Cardinality(rows) = 1
      BY <3>3, FS_Singleton
    <3>6. {o.id : o \in rows} = 1..Cardinality(rows)
      BY <3>3, <3>5
    <3>7. notices = [i \in {o.id : o \in rows} |-> 0]
      BY DEF Init
    <3> QED
      BY <3>3, <3>4, <3>5, <3>6, <3>7 DEF RowsTyped
  <2>3. rows = {} \/ \E r \in Rules, s \in Rules :
               rows = {[id |-> 1, rule |-> None, slot |-> TargetSlot(TheZone, rule[s], Next1(r, now)),
                        status |-> "granted"]}
    BY DEF Init
  <2> QED
    BY <2>1, <2>2, <2>3
<1>3. OverridesTyped
  BY DEF Init, OverridesTyped
<1>4. WindowsTyped
  BY FS_EmptySet DEF Init, WindowsTyped
<1>5. RunsTyped
  BY DEF Init, RunsTyped, NoRun
<1>6. RequestsTyped
  BY DEF Init, RequestsTyped, Request, Idle
<1> QED
  BY <1>1, <1>2, <1>3, <1>4, <1>5, <1>6 DEF Typed

LEMMA LoadedPlan ==
  ASSUME OverridesTyped, NEW r, NEW date
  PROVE  LoadOverride(r, date) \in Plan \cup {None} /\ WellPlanned(LoadOverride(r, date))
<1>1. CASE <<r, date>> \in DOMAIN overrides
  BY <1>1 DEF OverridesTyped, LoadOverride
<1>2. CASE <<r, date>> \notin DOMAIN overrides
  BY <1>2 DEF LoadOverride, WellPlanned
<1> QED
  BY <1>1, <1>2

\* Where an override puts a class, it stays on its day.
LEMMA PlannedDay ==
  ASSUME NEW plan \in Plan \cup {None}, NEW slot \in Int
  PROVE  PlannedSlot(plan, slot) \in Int /\ Day(PlannedSlot(plan, slot)) = Day(slot)
<1>1. Day(slot) \in Int
  BY DayType
<1>2. CASE Moves(plan)
  <2>1. plan.time \in 0..DayLen - 1 /\ plan.time \in Int
    BY <1>2, DayLenAssumption DEF Moves, Plan
  <2>2. At(TheZone, Day(slot), plan.time) \in Int
    BY <1>1, <2>1, AtType, ConstantTypes
  <2>3. LocalDate(TheZone, At(TheZone, Day(slot), plan.time)) = Day(slot)
    BY <1>1, <2>1, DateOfAt, ConstantTypes
  <2> QED
    BY <1>2, <2>2, <2>3 DEF PlannedSlot, EffectiveSlot, Day
<1>3. CASE ~Moves(plan)
  BY <1>3 DEF PlannedSlot
<1> QED
  BY <1>2, <1>3

\* A job that is an opening of its rule is the opening its run contests.
LEMMA ContestedOpens ==
  ASSUME RulesTyped, NEW r \in Rules, job[r] # None
  PROVE  /\ Contested(r) \in Int /\ Opens(TheZone, rule[r], Contested(r))
         /\ Opens(TheZone, rule[r], job[r]) => Contested(r) = job[r]
<1>1. job[r] \in Int /\ now \in Int /\ rule[r] \in Timing
  BY ConstantTypes DEF RulesTyped
<1>2. /\ Next1(r, job[r] - 1) \in Int /\ Opens(TheZone, rule[r], Next1(r, job[r] - 1))
      /\ Next1(r, now - 1) \in Int /\ Opens(TheZone, rule[r], Next1(r, now - 1))
  BY <1>1, Next1Type
<1>3. Opens(TheZone, rule[r], job[r]) => Next1(r, job[r] - 1) = job[r]
  BY <1>1, OpeningIsNext, ConstantTypes DEF Next1
<1> QED
  BY <1>2, <1>3 DEF Contested

LEMMA RunUpdate ==
  ASSUME RunsTyped, NEW r \in Rules, NEW own \in Started,
         own.pc = "done" => own.status \in {"granted", "full", "skipped"},
         run' = [run EXCEPT ![r] = own]
  PROVE  RunsTyped' /\ run'[r] = own /\ \A s \in Rules \ {r} : run'[s] = run[s]
  BY DEF RunsTyped

LEMMA StartedRun ==
  ASSUME RulesTyped, OverridesTyped, RunsTyped, NEW r \in Rules, StartRun(r)
  PROVE  LET own == run'[r] IN
         /\ RunsTyped' /\ own # NoRun /\ own \in Started /\ own.pc = "planned"
         /\ own.rule = rule[r] /\ own.open = Contested(r)
         /\ own.base = TargetSlot(TheZone, rule[r], own.open)
         /\ own.plan = LoadOverride(r, Day(own.base)) /\ own.slot = PlannedSlot(own.plan, own.base)
         /\ ~own.early => own.open - PrewarmLead <= now
         /\ own.seen = {}
         /\ \A s \in Rules \ {r} : run'[s] = run[s]
<1> DEFINE open == Contested(r)
           base == TargetSlot(TheZone, rule[r], open)
           plan == LoadOverride(r, Day(base))
           slot == PlannedSlot(plan, base)
           until == IF now < open THEN now + PrewarmLead + MaxRun ELSE open + MaxRun
           own  == [pc |-> "planned", rule |-> rule[r], open |-> open, base |-> base,
                    slot |-> slot, plan |-> plan, status |-> None,
                    seen |-> {}, early |-> now < open - PrewarmLead, until |-> until]
<1>1. run' = [run EXCEPT ![r] = own] /\ job[r] # None
  BY DEF StartRun
<1>2. open \in Int
  BY <1>1, ContestedOpens
<1>3. base \in Int
  <2>1. rule[r] \in Timing
    BY ConstantTypes DEF RulesTyped
  <2> QED
    BY <1>2, <2>1, TargetSlotType, ConstantTypes
<1>4. plan \in Plan \cup {None}
  BY LoadedPlan
<1> HIDE DEF plan
<1>5. slot \in Int
  BY <1>3, <1>4, PlannedDay
<1> HIDE DEF open, base, slot
<1>6. until \in Int
  BY <1>2, ConstantTypes, DayPlanAssumption DEF RulesTyped
<1>7. rule[r] \in Timings /\ (now < open - PrewarmLead) \in BOOLEAN
  BY DEF RulesTyped
<1> HIDE DEF until
<1>8. own \in Started
  BY <1>2, <1>3, <1>4, <1>5, <1>6, <1>7 DEF Started
<1>9. own.pc = "planned"
  OBVIOUS
<1>10. /\ own.rule = rule[r] /\ own.open = open /\ own.base = base /\ own.plan = plan
       /\ own.slot = slot /\ own.early = (now < open - PrewarmLead) /\ own.seen = {}
  OBVIOUS
<1>11. ~own.early => own.open - PrewarmLead <= now
  <2>1. now \in Int /\ open - PrewarmLead \in Int
    BY <1>2, ConstantTypes DEF RulesTyped
  <2>2. ~(now < open - PrewarmLead) => open - PrewarmLead <= now
    BY <2>1
  <2> QED
    BY <1>10, <2>2
<1> HIDE DEF own
<1>12. RunsTyped' /\ run'[r] = own /\ \A s \in Rules \ {r} : run'[s] = run[s]
  BY <1>1, <1>8, <1>9, RunUpdate
<1>13. own # NoRun
  BY <1>9 DEF NoRun
<1> QED
  BY <1>8, <1>9, <1>10, <1>11, <1>12, <1>13 DEF open, base, plan, slot

\* What a run keeps while it goes on.
Goes(r) ==
  /\ run[r] \in Started /\ run'[r] \in Started
  /\ run'[r].rule = run[r].rule /\ run'[r].open = run[r].open /\ run'[r].base = run[r].base
  /\ run'[r].plan = run[r].plan /\ run'[r].early = run[r].early
  /\ \A s \in Rules \ {r} : run'[s] = run[s]

LEMMA CheckedRun ==
  ASSUME RunsTyped, WindowsTyped, NEW r \in Rules, CheckDay(r)
  PROVE  /\ RunsTyped' /\ Goes(r) /\ run'[r].slot = run[r].slot
         /\ run[r].pc = "planned"
         /\ \/ run'[r].pc = "checked" /\ run'[r].seen = windows /\ Vacant(r)
            \/ run'[r].pc = "done" /\ run'[r].status = "skipped" /\ run'[r].seen = run[r].seen
<1>1. run[r] \in Started /\ run[r].pc = "planned"
  BY RunKinds DEF CheckDay
<1>2. ASSUME run' = [run EXCEPT ![r] = [run[r] EXCEPT !.pc = "checked", !.seen = windows]]
      PROVE  /\ RunsTyped' /\ Goes(r) /\ run'[r].slot = run[r].slot
             /\ run'[r].pc = "checked" /\ run'[r].seen = windows
  <2> DEFINE own == [run[r] EXCEPT !.pc = "checked", !.seen = windows]
  <2>1. /\ own \in Started /\ own.pc = "checked" /\ own.slot = run[r].slot
        /\ own.rule = run[r].rule /\ own.open = run[r].open /\ own.base = run[r].base
        /\ own.plan = run[r].plan /\ own.early = run[r].early /\ own.seen = windows
    BY <1>1 DEF Started, WindowsTyped
  <2> HIDE DEF own
  <2>2. RunsTyped' /\ run'[r] = own /\ \A s \in Rules \ {r} : run'[s] = run[s]
    BY <1>2, <2>1, RunUpdate DEF own
  <2> QED
    BY <1>1, <2>1, <2>2 DEF Goes
<1>3. ASSUME run' = [run EXCEPT ![r] = [run[r] EXCEPT !.pc = "done", !.status = "skipped"]]
      PROVE  /\ RunsTyped' /\ Goes(r) /\ run'[r].slot = run[r].slot
             /\ run'[r].pc = "done" /\ run'[r].status = "skipped" /\ run'[r].seen = run[r].seen
  <2> DEFINE own == [run[r] EXCEPT !.pc = "done", !.status = "skipped"]
  <2>1. /\ own \in Started /\ own.pc = "done" /\ own.status = "skipped" /\ own.slot = run[r].slot
        /\ own.rule = run[r].rule /\ own.open = run[r].open /\ own.base = run[r].base
        /\ own.plan = run[r].plan /\ own.early = run[r].early /\ own.seen = run[r].seen
    BY <1>1 DEF Started
  <2> HIDE DEF own
  <2>2. RunsTyped' /\ run'[r] = own /\ \A s \in Rules \ {r} : run'[s] = run[s]
    BY <1>3, <2>1, RunUpdate DEF own
  <2> QED
    BY <1>1, <2>1, <2>2 DEF Goes
<1>4. \/ /\ run' = [run EXCEPT ![r] = [run[r] EXCEPT !.pc = "checked", !.seen = windows]]
         /\ Vacant(r)
      \/ run' = [run EXCEPT ![r] = [run[r] EXCEPT !.pc = "done", !.status = "skipped"]]
  BY DEF CheckDay
<1> QED
  BY <1>1, <1>2, <1>3, <1>4

LEMMA BookedRun ==
  ASSUME RunsTyped, NEW r \in Rules, Book(r)
  PROVE  /\ RunsTyped' /\ Goes(r) /\ run[r].pc = "checked" /\ run'[r].pc = "done"
         /\ run'[r].seen = run[r].seen
         /\ \/ /\ run'[r].status \in {"granted", "full"}
               /\ run'[r].slot \in {run[r].slot, run[r].base}
               /\ run[r].open <= now
               /\ enrolled' = enrolled \cup {run'[r].slot}
               /\ rebooked' = rebooked \cup ({run'[r].slot} \cap CancelledSlots)
            \/ /\ run'[r].status = "full" /\ run'[r].slot = run[r].slot
               /\ UNCHANGED <<enrolled, rebooked>>
<1>1. run[r] \in Started /\ run[r].pc = "checked"
  BY RunKinds DEF Book
<1>2. ASSUME NEW slot \in {run[r].slot, run[r].base}, NEW status \in {"granted", "full"},
             run' = [run EXCEPT ![r].pc = "done", ![r].status = status, ![r].slot = slot]
      PROVE  /\ RunsTyped' /\ Goes(r) /\ run'[r].pc = "done" /\ run'[r].seen = run[r].seen
             /\ run'[r].status = status /\ run'[r].slot = slot
  <2> DEFINE own == [run[r] EXCEPT !.pc = "done", !.status = status, !.slot = slot]
  <2>1. run' = [run EXCEPT ![r] = own]
    BY <1>2
  <2>2. /\ own \in Started /\ own.pc = "done" /\ own.status = status /\ own.slot = slot
        /\ own.rule = run[r].rule /\ own.open = run[r].open /\ own.base = run[r].base
        /\ own.plan = run[r].plan /\ own.early = run[r].early /\ own.seen = run[r].seen
    BY <1>1 DEF Started
  <2>3. own.status \in {"granted", "full", "skipped"}
    BY <2>2
  <2> HIDE DEF own
  <2>4. RunsTyped' /\ run'[r] = own /\ \A s \in Rules \ {r} : run'[s] = run[s]
    BY <2>1, <2>2, <2>3, RunUpdate
  <2> QED
    BY <1>1, <2>2, <2>4 DEF Goes
<1>3. ASSUME run' = [run EXCEPT ![r].pc = "done", ![r].status = "full"]
      PROVE  /\ RunsTyped' /\ Goes(r) /\ run'[r].pc = "done" /\ run'[r].seen = run[r].seen
             /\ run'[r].status = "full" /\ run'[r].slot = run[r].slot
  <2>1. run' = [run EXCEPT ![r].pc = "done", ![r].status = "full", ![r].slot = run[r].slot]
    BY <1>1, <1>3 DEF RunsTyped, Started
  <2> QED
    BY <1>2, <2>1
<1>4. \/ \E slot \in {run[r].slot, run[r].base} :
          /\ now >= run[r].open
          /\ enrolled' = enrolled \cup {slot}
          /\ rebooked' = rebooked \cup ({slot} \cap CancelledSlots)
          /\ \E status \in {"granted", "full"} :
               run' = [run EXCEPT ![r].pc = "done", ![r].status = status, ![r].slot = slot]
      \/ /\ run' = [run EXCEPT ![r].pc = "done", ![r].status = "full"]
         /\ UNCHANGED <<enrolled, rebooked>>
  BY Zenon DEF Book
<1>5. now >= run[r].open => run[r].open <= now
  OBVIOUS
<1>6. CASE \E slot \in {run[r].slot, run[r].base} :
             /\ now >= run[r].open
             /\ enrolled' = enrolled \cup {slot}
             /\ rebooked' = rebooked \cup ({slot} \cap CancelledSlots)
             /\ \E status \in {"granted", "full"} :
                  run' = [run EXCEPT ![r].pc = "done", ![r].status = status, ![r].slot = slot]
  BY <1>1, <1>2, <1>5, <1>6
<1> QED
  BY <1>1, <1>3, <1>4, <1>6

LEMMA RecordedRun ==
  ASSUME RunsTyped, NEW r \in Rules, Record(r)
  PROVE  /\ RunsTyped' /\ run[r] \in Started /\ run[r].pc = "done" /\ run'[r] = NoRun
         /\ run[r].status \in {"granted", "full", "skipped"}
         /\ \A s \in Rules \ {r} : run'[s] = run[s]
<1>1. run[r] \in Started /\ run[r].pc = "done" /\ run[r].status \in {"granted", "full", "skipped"}
  BY RunKinds DEF Record
<1>2. run' = [run EXCEPT ![r] = NoRun]
  BY DEF Record
<1> QED
  BY <1>1, <1>2 DEF RunsTyped, NoRun

LEMMA TypedRuns ==
  ASSUME Typed, NEW r \in Rules,
         StartRun(r) \/ CheckDay(r) \/ Book(r) \/ Record(r) \/ UpdateRule(r)
  PROVE  Typed'
<1> USE DEF Typed
<1>1. CASE StartRun(r)
  <2>1. RunsTyped'
    BY <1>1, StartedRun
  <2>2. RulesTyped'
    BY <1>1 DEF StartRun, tables, RulesTyped
  <2> QED
    BY <1>1, <2>1, <2>2, TypedFrame DEF StartRun, tables
<1>2. CASE CheckDay(r)
  BY <1>2, CheckedRun, TypedFrame DEF CheckDay, tables
<1>3. CASE Book(r)
  BY <1>3, BookedRun, TypedFrame DEF Book, tables
<1>4. CASE Record(r)
  <2>1. /\ RunsTyped' /\ run[r] \in Started
        /\ run[r].status \in {"granted", "full", "skipped"}
    BY <1>4, RecordedRun
  <2>2. RulesTyped'
    <3>1. run[r].rule \in Timing /\ now \in Int
      BY <2>1, ConstantTypes DEF Started, RulesTyped
    <3>2. NextJob(r) \in Int
      BY <3>1, NextOpens, ConstantTypes DEF NextJob
    <3> QED
      BY <1>4, <3>2 DEF Record, RulesTyped
  <2>3. RowsTyped'
    <3> DEFINE row == [id |-> NewId, rule |-> r, slot |-> run[r].slot, status |-> run[r].status]
    <3>1. NewId \in Nat
      BY FS_CardinalityType DEF NewId, RowsTyped
    <3>2. row \in Row /\ row.id = NewId
      BY <2>1, <3>1 DEF Row, Started
    <3>3. /\ rows' = rows \cup {row}
          /\ notices' = [i \in 1..NewId |-> IF i = NewId THEN 0 ELSE notices[i]]
      BY <1>4 DEF Record
    <3> QED
      BY <3>2, <3>3, AddedRow
  <2> QED
    BY <1>4, <2>1, <2>2, <2>3, TypedFrame DEF Record
<1>5. CASE UpdateRule(r)
  <2>1. PICK timing \in Timings \ {rule[r]} :
          /\ rule' = [rule EXCEPT ![r] = timing]
          /\ overrides' = IF timing.day_of_week = rule[r].day_of_week THEN overrides
                          ELSE Without(Discarded(r))
          /\ job' = [job EXCEPT ![r] = NextWindowOpen(TheZone, timing, now)]
    BY <1>5 DEF UpdateRule
  <2>2. RulesTyped'
    <3>1. NextWindowOpen(TheZone, timing, now) \in Int
      BY ConstantTypes, NextOpens DEF RulesTyped
    <3> QED
      BY <1>5, <2>1, <3>1 DEF UpdateRule, RulesTyped
  <2>3. OverridesTyped'
    BY <2>1 DEF OverridesTyped, Without, WellPlanned, Moves
  <2> QED
    BY <1>5, <2>2, <2>3, TypedFrame DEF UpdateRule
<1> QED
  BY <1>1, <1>2, <1>3, <1>4, <1>5

LEMMA TypedSaves ==
  ASSUME Typed, NEW q \in Requests, SaveBegin(q) \/ SaveEnd(q)
  PROVE  Typed'
<1> USE DEF Typed
<1>1. CASE SaveBegin(q)
  <2>1. PICK r \in Rules, date \in Dates, skip \in BOOLEAN,
             time \in {t.class_time : t \in Timings} :
          Begin(q, [kind |-> "save", since |-> now, rule |-> r, date |-> date,
                    timing |-> rule[r], plan |-> PlanOf(r, skip, time)])
    BY <1>1 DEF SaveBegin
  <2> DEFINE plan == PlanOf(r, skip, time)
             request == [kind |-> "save", since |-> now, rule |-> r, date |-> date,
                         timing |-> rule[r], plan |-> plan]
  <2>2. plan \in Plan \cup {None} /\ WellPlanned(plan)
    <3>1. time \in 0..DayLen - 1 /\ time \in Int /\ time # None
      BY ConstantTypes, TimingType, DayLenAssumption
    <3>2. SkipPlan \in Plan /\ WellPlanned(SkipPlan)
      BY DEF SkipPlan, Plan, WellPlanned, Moves
    <3>3. [skip |-> FALSE, time |-> time] \in Plan /\ WellPlanned([skip |-> FALSE, time |-> time])
      BY <3>1, NoneAssumption DEF Plan, WellPlanned, Moves
    <3>4. plan \in {SkipPlan, None, [skip |-> FALSE, time |-> time]}
      BY DEF PlanOf
    <3> QED
      BY <3>2, <3>3, <3>4 DEF WellPlanned
  <2> HIDE DEF plan
  <2>3. request \in Request /\ request.plan = plan
    BY <2>2, ConstantTypes DEF Request, SaveRequest, RulesTyped
  <2>4. RequestsTyped'
    BY <2>1, <2>2, <2>3, Begun DEF plan
  <2> QED
    BY <1>1, <2>4, TypedFrame DEF SaveBegin, tables
<1>2. CASE SaveEnd(q)
  <2>1. req[q] \in SaveRequest /\ WellPlanned(req[q].plan)
    BY <1>2, RequestKinds DEF SaveEnd
  <2>2. OverridesTyped'
    <3>1. overrides' \in {overrides, Saved(<<req[q].rule, req[q].date>>, req[q].plan)}
      BY <1>2 DEF SaveEnd
    <3> DEFINE key == <<req[q].rule, req[q].date>>
               plan == req[q].plan
    <3>2. key \in Rules \X Dates /\ (plan # None => plan \in Plan /\ WellPlanned(plan))
      BY <2>1 DEF SaveRequest, WellPlanned
    <3>3. CASE overrides' = overrides
      BY <3>3, TypedFrame
    <3>4. CASE overrides' = Saved(key, plan)
      <4> HIDE DEF key, plan
      <4>1. CASE plan = None
        BY <3>4, <4>1 DEF Saved, Without, OverridesTyped, WellPlanned, Moves
      <4>2. CASE plan # None
        <5>1. overrides' = [k \in DOMAIN overrides \cup {key} |-> IF k = key THEN plan ELSE overrides[k]]
          BY <3>4, <4>2 DEF Saved
        <5> QED
          BY <3>2, <4>2, <5>1 DEF OverridesTyped, WellPlanned, Moves
      <4> QED
        BY <4>1, <4>2
    <3> QED
      BY <3>1, <3>3, <3>4
  <2>3. RequestsTyped'
    BY <1>2, Ended DEF SaveEnd
  <2> QED
    BY <1>2, <2>2, <2>3, TypedFrame DEF SaveEnd
<1> QED
  BY <1>1, <1>2

LEMMA BorrarAnswers ==
  ASSUME NEW slot, NEW b \in Borrar(slot)
  PROVE  /\ b.answer \in {"refused", "unclear", "accepted", "lost"}
         /\ b.enrolled \in {enrolled, enrolled \ {slot}}
         /\ b.answer = "accepted" => b.enrolled = enrolled \ {slot} /\ slot \in enrolled
         /\ b.answer = "refused" => b.enrolled = enrolled
  BY DEF Borrar

LEMMA CancelledAtGym ==
  ASSUME RequestsTyped, NEW q \in Requests, CancelAtGym(q)
  PROVE  LET row == req[q].row IN
         /\ RequestsTyped' /\ req[q] \in CancelRequest /\ ~req[q].accepted
         /\ \A p \in Requests \ {q} : req'[p] = req[p]
         /\ \E b \in Borrar(row.slot) :
              /\ enrolled' = b.enrolled
              /\ IF Cancelled(b.answer)
                 THEN /\ req'[q] \in CancelRequest /\ req'[q].row = row /\ req'[q].accepted
                      /\ req'[q].since = req[q].since
                 ELSE req'[q] = Idle
              /\ adrift' = IF Doubtful(b.answer) THEN adrift \cup {row.id} ELSE adrift
<1>1. req[q] \in CancelRequest /\ ~req[q].accepted
  BY RequestKinds DEF CancelAtGym
<1>2. PICK b \in Borrar(req[q].row.slot) :
        /\ enrolled' = b.enrolled
        /\ IF Cancelled(b.answer) THEN req' = [req EXCEPT ![q].accepted = TRUE] ELSE End(q)
        /\ adrift' = IF Doubtful(b.answer) THEN adrift \cup {req[q].row.id} ELSE adrift
  BY Zenon DEF CancelAtGym
<1>3. CASE Cancelled(b.answer)
  <2> DEFINE request == [req[q] EXCEPT !.accepted = TRUE]
  <2>1. /\ request \in CancelRequest /\ request.row = req[q].row /\ request.accepted
        /\ request.since = req[q].since /\ request.kind = "cancel"
    BY <1>1 DEF CancelRequest
  <2>2. req' = [req EXCEPT ![q] = request]
    BY <1>2, <1>3
  <2> HIDE DEF request
  <2>3. req'[q] = request /\ \A p \in Requests \ {q} : req'[p] = req[p]
    BY <2>2 DEF RequestsTyped
  <2>4. RequestsTyped'
    BY <2>1, <2>2 DEF RequestsTyped, Request
  <2> QED
    BY <1>1, <1>2, <1>3, <2>1, <2>3, <2>4
<1>4. CASE ~Cancelled(b.answer)
  BY <1>1, <1>2, <1>4, Ended
<1> QED
  BY <1>3, <1>4

LEMMA TypedCancels ==
  ASSUME Typed, NEW q \in Requests, CancelBegin(q) \/ CancelAtGym(q) \/ CancelCommit(q)
  PROVE  Typed'
<1> USE DEF Typed
<1>1. CASE CancelBegin(q)
  <2>1. PICK row \in rows :
          Begin(q, [kind |-> "cancel", since |-> now, row |-> row, accepted |-> FALSE])
    BY <1>1 DEF CancelBegin
  <2> DEFINE request == [kind |-> "cancel", since |-> now, row |-> row, accepted |-> FALSE]
  <2>2. request \in Request /\ request.kind # "save"
    BY ConstantTypes DEF Request, CancelRequest, RulesTyped, RowsTyped
  <2>3. RequestsTyped'
    BY <2>1, <2>2, Begun
  <2> QED
    BY <1>1, <2>3, TypedFrame DEF CancelBegin, tables
<1>2. CASE CancelAtGym(q)
  BY <1>2, CancelledAtGym, TypedFrame DEF CancelAtGym, tables
<1>3. CASE CancelCommit(q)
  <2>1. RowsTyped'
    BY <1>3, MarkedRows DEF CancelCommit
  <2>2. RequestsTyped'
    BY <1>3, Ended DEF CancelCommit
  <2> QED
    BY <1>3, <2>1, <2>2, TypedFrame DEF CancelCommit
<1> QED
  BY <1>1, <1>2, <1>3

\* What the loop over the rows of a vacation does to its request.
LEMMA NextCancelled ==
  ASSUME RequestsTyped, NEW q \in Requests, req[q] \in EnableRequest,
         NEW row \in req[q].todo, NEW answer,
         req' = [req EXCEPT ![q].todo = Remaining(q, row, answer),
                            ![q].done = IF Cancelled(answer) THEN @ \cup {row} ELSE @]
  PROVE  /\ RequestsTyped' /\ req'[q] \in EnableRequest /\ req'[q].kind = "enable"
         /\ req'[q].since = req[q].since /\ req'[q].window = req[q].window
         /\ req'[q].todo = req[q].todo \ {row}
         /\ req'[q].done = IF Cancelled(answer) THEN req[q].done \cup {row} ELSE req[q].done
         /\ \A p \in Requests \ {q} : req'[p] = req[p]
<1> DEFINE done == IF Cancelled(answer) THEN req[q].done \cup {row} ELSE req[q].done
<1>1. req' = [req EXCEPT ![q] = [req[q] EXCEPT !.todo = req[q].todo \ {row}, !.done = done]]
  BY DEF Remaining
<1>2. done \in SUBSET Row /\ req[q].todo \ {row} \in SUBSET Row
  BY DEF EnableRequest
<1> HIDE DEF done
<1>3. req'[q] = [req[q] EXCEPT !.todo = req[q].todo \ {row}, !.done = done]
  BY <1>1 DEF RequestsTyped
<1>4. /\ req'[q] \in EnableRequest /\ req'[q].kind = "enable"
      /\ req'[q].since = req[q].since /\ req'[q].window = req[q].window
      /\ req'[q].todo = req[q].todo \ {row} /\ req'[q].done = done
  BY <1>2, <1>3 DEF EnableRequest
<1>5. \A p \in Requests \ {q} : req'[p] = req[p]
  BY <1>1 DEF RequestsTyped
<1>6. RequestsTyped'
  BY <1>1, <1>4, <1>5 DEF RequestsTyped, Request
<1> QED
  BY <1>4, <1>5, <1>6 DEF done

LEMMA WindowOfType ==
  ASSUME RulesTyped, NEW dates \in Vacations
  PROVE  LET w == WindowOf(dates[1], dates[2])
         IN  w \in Vacation /\ w.created = now
<1>1. dates[1] \in Int /\ dates[2] \in Int /\ dates[2] + 1 \in Int /\ now \in Int
  BY ConstantTypes DEF RulesTyped
<1>2. At(TheZone, dates[1], 0) \in Int /\ At(TheZone, dates[2] + 1, 0) \in Int
  BY <1>1, AtType, ConstantTypes
<1> QED
  BY <1>1, <1>2 DEF WindowOf, Vacation

LEMMA TypedVacations ==
  ASSUME Typed, NEW q \in Requests,
         EnableBegin(q) \/ EnableNext(q) \/ EnableCommit(q)
  PROVE  Typed'
<1> USE DEF Typed
<1>1. CASE EnableBegin(q)
  <2>1. PICK dates \in Vacations :
          Begin(q, [kind |-> "enable", since |-> now, window |-> WindowOf(dates[1], dates[2]),
                    todo |-> GrantedIn(WindowOf(dates[1], dates[2])), done |-> {}])
    BY <1>1 DEF EnableBegin
  <2> DEFINE w == WindowOf(dates[1], dates[2])
             todo == GrantedIn(w)
             request == [kind |-> "enable", since |-> now, window |-> w, todo |-> todo,
                         done |-> {}]
  <2>2. w \in Vacation /\ todo \in SUBSET Row
    BY WindowOfType DEF GrantedIn, RowsTyped
  <2> HIDE DEF w, todo
  <2>3. request \in Request /\ request.kind # "save"
    BY <2>2, ConstantTypes DEF Request, EnableRequest, RulesTyped
  <2>4. RequestsTyped'
    BY <2>1, <2>3, Begun DEF w, todo
  <2> QED
    BY <1>1, <2>4, TypedFrame DEF EnableBegin, tables
<1>2. CASE EnableNext(q)
  <2>1. req[q] \in EnableRequest
    BY <1>2, RequestKinds DEF EnableNext
  <2>2. PICK row \in req[q].todo : \E b \in Borrar(row.slot) :
          req' = [req EXCEPT ![q].todo = Remaining(q, row, b.answer),
                             ![q].done = IF Cancelled(b.answer) THEN @ \cup {row} ELSE @]
    BY <1>2, Zenon DEF EnableNext
  <2>3. RequestsTyped'
    BY <2>1, <2>2, NextCancelled
  <2> QED
    BY <1>2, <2>3, TypedFrame DEF EnableNext, tables
<1>3. CASE EnableCommit(q)
  <2>1. RowsTyped' /\ RequestsTyped'
    BY <1>3, MarkedRows, Ended DEF EnableCommit
  <2>2. WindowsTyped'
    <3> DEFINE w == [req[q].window EXCEPT !.id = Cardinality(windows) + 1]
    <3>1. w \in Vacation
      BY <1>3, RequestKinds, FS_CardinalityType DEF EnableCommit, EnableRequest, Vacation, WindowsTyped
    <3>2. windows' = windows \cup {w}
      BY <1>3 DEF EnableCommit
    <3> QED
      BY <3>1, <3>2, FS_AddElement DEF WindowsTyped
  <2> QED
    BY <1>3, <2>1, <2>2, TypedFrame DEF EnableCommit
<1> QED
  BY <1>1, <1>2, <1>3

LEMMA TypedStep ==
  ASSUME Typed, [Next]_vars
  PROVE  Typed'
<1> USE DEF Typed
<1>1. CASE Restart
  <2>1. RulesTyped'
    BY <1>1, Next1Type, ConstantTypes DEF Restart, tables, RulesTyped
  <2>2. RunsTyped' /\ RequestsTyped'
    BY <1>1 DEF Restart, RunsTyped, RequestsTyped, Request, NoRun, Idle
  <2> QED
    BY <1>1, <2>1, <2>2, TypedFrame DEF Restart, tables
<1>2. CASE Clock
  <2>1. RulesTyped'
    BY <1>2 DEF Clock, tables, RulesTyped
  <2> QED
    BY <1>2, <2>1, TypedFrame DEF Clock, tables
<1>3. CASE UNCHANGED vars
  BY <1>3, TypedFrame DEF vars, tables
<1>4. CASE \E r \in Rules : StartRun(r) \/ CheckDay(r) \/ Book(r) \/ Record(r) \/ UpdateRule(r)
  BY <1>4, TypedRuns
<1>5. CASE \E q \in Requests : SaveBegin(q) \/ SaveEnd(q)
  BY <1>5, TypedSaves
<1>6. CASE Revert
  <2>1. OverridesTyped'
    BY <1>6 DEF Revert, OverridesTyped, Without, WellPlanned, Moves
  <2> QED
    BY <1>6, <2>1, TypedFrame DEF Revert
<1>7. CASE \E q \in Requests : CancelBegin(q) \/ CancelAtGym(q) \/ CancelCommit(q)
  BY <1>7, TypedCancels
<1>8. CASE \E q \in Requests : EnableBegin(q) \/ EnableNext(q) \/ EnableCommit(q)
  BY <1>8, TypedVacations
<1>9. CASE CloseEarly
  <2>1. PICK w \in windows : windows' = (windows \ {w}) \cup {[w EXCEPT !.closed = TRUE]}
    BY <1>9 DEF CloseEarly
  <2>2. [w EXCEPT !.closed = TRUE] \in Vacation
    BY DEF WindowsTyped, Vacation
  <2>3. WindowsTyped'
    BY <2>1, <2>2, FS_AddElement, FS_RemoveElement DEF WindowsTyped
  <2> QED
    BY <1>9, <2>3, TypedFrame DEF CloseEarly
<1> QED
  BY <1>1, <1>2, <1>3, <1>4, <1>5, <1>6, <1>7, <1>8, <1>9 DEF Next

-----------------------------------------------------------------------------
(* What a step may do to requests, rows and histories. *)

LEMMA RequestStep ==
  ASSUME RequestsTyped, [Next]_vars, NEW q \in Requests
  PROVE  \/ req'[q] = req[q]
         \/ req'[q] = Idle
         \/ SaveBegin(q) \/ CancelBegin(q) \/ CancelAtGym(q) \/ EnableBegin(q) \/ EnableNext(q)
<1> USE DEF RequestsTyped
<1>1. CASE \E r \in Rules : StartRun(r) \/ CheckDay(r) \/ Book(r) \/ Record(r) \/ UpdateRule(r)
  BY <1>1 DEF StartRun, CheckDay, Book, Record, UpdateRule
<1>2. CASE \E p \in Requests : SaveBegin(p) \/ SaveEnd(p)
  BY <1>2 DEF SaveBegin, SaveEnd, Begin, End
<1>3. CASE Revert \/ CloseEarly \/ Clock \/ UNCHANGED vars
  BY <1>3 DEF Revert, CloseEarly, Clock, vars
<1>4. CASE \E p \in Requests : CancelBegin(p) \/ CancelAtGym(p) \/ CancelCommit(p)
  BY <1>4 DEF CancelBegin, CancelAtGym, CancelCommit, Begin, End
<1>5. CASE \E p \in Requests : EnableBegin(p) \/ EnableNext(p) \/ EnableCommit(p)
  <2>1. PICK p \in Requests : EnableBegin(p) \/ EnableNext(p) \/ EnableCommit(p)
    BY <1>5
  <2>2. EnableBegin(p) /\ p # q => req'[q] = req[q]
    BY DEF EnableBegin, Begin
  <2>3. EnableNext(p) /\ p # q => req'[q] = req[q]
    BY DEF EnableNext
  <2>4. EnableCommit(p) => req'[q] = req[q] \/ req'[q] = Idle
    BY DEF EnableCommit, End
  <2> QED
    BY <2>1, <2>2, <2>3, <2>4
<1>6. CASE Restart
  BY <1>6 DEF Restart
<1> QED
  BY <1>1, <1>2, <1>3, <1>4, <1>5, <1>6 DEF Next

LEMMA RowsStep ==
  ASSUME [Next]_vars
  PROVE  \/ UNCHANGED <<rows, notices>>
         \/ \E r \in Rules : Record(r)
         \/ \E q \in Requests : CancelCommit(q) \/ EnableCommit(q)
  BY DEF Next, vars, tables, StartRun, CheckDay, Book, UpdateRule, SaveBegin, SaveEnd, Revert,
         CancelBegin, CancelAtGym, EnableBegin, EnableNext, CloseEarly, Restart, Clock

LEMMA HistoriesGrow ==
  ASSUME [Next]_vars
  PROVE  /\ adrift \subseteq adrift' /\ rebooked \subseteq rebooked'
         /\ excused \subseteq excused' /\ reopened \subseteq reopened'
         /\ strayed \subseteq strayed'
<1>1. CASE \E r \in Rules : StartRun(r) \/ CheckDay(r) \/ Book(r) \/ Record(r) \/ UpdateRule(r)
  BY <1>1 DEF StartRun, CheckDay, Book, Record, UpdateRule, ghosts
<1>2. CASE \E p \in Requests : SaveBegin(p) \/ SaveEnd(p)
  BY <1>2 DEF SaveBegin, SaveEnd, ghosts
<1>3. CASE Revert \/ CloseEarly \/ Clock \/ UNCHANGED vars
  BY <1>3 DEF Revert, CloseEarly, Clock, vars, ghosts
<1>4. CASE \E p \in Requests : CancelBegin(p) \/ CancelAtGym(p) \/ CancelCommit(p)
  BY <1>4 DEF CancelBegin, CancelAtGym, CancelCommit, ghosts
<1>5. CASE \E p \in Requests : EnableBegin(p) \/ EnableNext(p) \/ EnableCommit(p)
  BY <1>5 DEF EnableBegin, EnableNext, EnableCommit, ghosts
<1>6. CASE Restart
  BY <1>6 DEF Restart, ghosts
<1> QED
  BY <1>1, <1>2, <1>3, <1>4, <1>5, <1>6 DEF Next

LEMMA ClockStep ==
  ASSUME RulesTyped, [Next]_vars
  PROVE  now \in Int /\ now' \in Int /\ now <= now' /\ (now' = now \/ Clock)
<1>1. now \in Int
  BY ConstantTypes DEF RulesTyped
<1>2. now' = now \/ Clock
  BY DEF Next, vars, StartRun, CheckDay, Book, Record, UpdateRule, SaveBegin, SaveEnd, Revert,
     CancelBegin, CancelAtGym, CancelCommit, EnableBegin, EnableNext, EnableCommit, CloseEarly,
     Restart
<1>3. Clock => now' \in Int /\ now < now'
  BY <1>1, ConstantTypes DEF Clock
<1> QED
  BY <1>1, <1>2, <1>3

\* The row a run adds.
Added(r) == [id |-> NewId, rule |-> r, slot |-> run[r].slot, status |-> run[r].status]

LEMMA RecordedRows ==
  ASSUME RowsTyped, RunsTyped, NEW r \in Rules, Record(r)
  PROVE  /\ RowsTyped' /\ rows' = rows \cup {Added(r)} /\ Added(r) \in Row
         /\ Added(r).id = NewId /\ Added(r).rule = r /\ Added(r).slot = run[r].slot
         /\ Added(r).status = run[r].status
         /\ NewId \in Nat /\ \A o \in rows : o.id \in Nat /\ o.id < NewId
         /\ notices' = [i \in 1..NewId |-> IF i = NewId THEN 0 ELSE notices[i]]
<1>1. run[r] \in Started /\ run[r].status \in {"granted", "full", "skipped"}
  BY RecordedRun
<1>2. NewId \in Nat
  BY FS_CardinalityType DEF NewId, RowsTyped
<1>3. /\ Added(r) \in Row /\ Added(r).id = NewId /\ Added(r).rule = r
      /\ Added(r).slot = run[r].slot /\ Added(r).status = run[r].status
  BY <1>1, <1>2 DEF Added, Row, Started
<1>4. rows' = rows \cup {Added(r)} /\ notices' = [i \in 1..NewId |-> IF i = NewId THEN 0 ELSE notices[i]]
  BY DEF Record, Added
<1> QED
  BY <1>2, <1>3, <1>4, AddedRow

\* The identifiers whose rows a request cancels.
Ids(q) == IF req[q].kind = "cancel" THEN {req[q].row.id} ELSE {row.id : row \in req[q].done}

LEMMA CommittedRows ==
  ASSUME RowsTyped, NEW q \in Requests, CancelCommit(q) \/ EnableCommit(q)
  PROVE  /\ RowsTyped' /\ rows' = {Marked(row, Ids(q)) : row \in rows}
         /\ notices' = [i \in DOMAIN notices |-> IF i \in Ids(q) THEN notices[i] + 1 ELSE notices[i]]
         /\ Ids(q) = {row.id : row \in Taken(q)}
<1>1. MarkCancelled(Ids(q))
  BY DEF CancelCommit, EnableCommit, Ids
<1>2. Ids(q) = {row.id : row \in Taken(q)}
  BY DEF CancelCommit, EnableCommit, Ids, Taken
<1> QED
  BY <1>1, <1>2, MarkedRows DEF MarkCancelled

\* A granted row was there, unless a run adds it now.
LEMMA GrantedBefore ==
  ASSUME RowsTyped, RunsTyped, [Next]_vars, NEW row \in rows', row.status = "granted"
  PROVE  row \in rows \/ \E r \in Rules : Record(r) /\ row = Added(r)
<1>1. CASE UNCHANGED <<rows, notices>>
  BY <1>1
<1>2. ASSUME NEW r \in Rules, Record(r) PROVE row \in rows \/ row = Added(r)
  BY <1>2, RecordedRows
<1>3. ASSUME NEW q \in Requests, CancelCommit(q) \/ EnableCommit(q) PROVE row \in rows
  <2>1. PICK o \in rows : row = Marked(o, Ids(q))
    BY <1>3, CommittedRows
  <2>2. o \in Row
    BY DEF RowsTyped
  <2>3. o.id \notin Ids(q)
    BY <2>1, <2>2, MarkedRow
  <2> QED
    BY <2>1, <2>3 DEF Marked
<1> QED
  BY <1>1, <1>2, <1>3, RowsStep

-----------------------------------------------------------------------------
(* Vacations. *)

\* A day starts at its midnight.
LEMMA FirstInstant ==
  ASSUME NEW z \in Zone, ChangesWithinDay(z), NEW d \in Int, NEW i \in Int, i < At(z, d, 0)
  PROVE  LocalDate(z, i) < d
<1> DEFINE wall == d * DayLen
           v == ToLocal(z, i)
           first == z.change + IF z.before < z.after THEN z.before ELSE z.after
           last == IF z.before < z.after THEN z.change + 2 * z.after - z.before
                   ELSE z.change + z.before
<1>1. z.change \in Int /\ z.before \in Int /\ z.after \in Int /\ DayLen \in Nat /\ 1 <= DayLen
  BY DayLenAssumption DEF Zone
<1>2. wall \in Int
  BY <1>1
<1>3. At(z, d, 0) = wall - (IF wall < Turn(z) THEN z.before ELSE z.after)
  <2>1. d * DayLen + 0 = d * DayLen
    BY <1>1
  <2> QED
    BY <2>1, Zenon DEF At, ToUTC, wall
<1>4. v \in Int /\ first \in Int /\ last \in Int
  BY <1>1 DEF ToLocal
<1>5. \A u \in first..last - 1 : DayOf(u) = DayOf(first)
  BY Zenon DEF ChangesWithinDay
<1>6. v < wall \/ (first < wall /\ wall <= last - 1 /\ v \in first..last - 1)
  BY <1>1, <1>2, <1>3 DEF ToLocal, Turn
<1>7. LocalDate(z, i) = DayOf(v)
  BY DEF LocalDate
<1>8. wall = d * DayLen
  OBVIOUS
<1> HIDE DEF first, last, v, wall
<1>9. ASSUME NEW u \in Int, u < wall PROVE DayOf(u) < d
  <2>1. DayOf(u) \in Int /\ DayOf(u) * DayLen \in Int /\ DayOf(u) * DayLen <= u
    BY DayBounds
  <2>2. d < DayOf(u) => d * DayLen + DayLen <= DayOf(u) * DayLen
    BY <2>1, LaterDays
  <2>3. d # DayOf(u)
    BY <1>2, <1>8, <1>9, <2>1
  <2> QED
    BY <1>1, <1>2, <1>8, <1>9, <2>1, <2>2, <2>3
<1>10. CASE v < wall
  BY <1>4, <1>7, <1>9, <1>10
<1>11. CASE first < wall /\ wall <= last - 1 /\ v \in first..last - 1
  <2>1. DayOf(v) = DayOf(first)
    BY <1>4, <1>5, <1>11
  <2> QED
    BY <1>4, <1>7, <1>9, <1>11, <2>1
<1> QED
  BY <1>6, <1>10, <1>11

LEMMA ListIsCompleteStep ==
  ASSUME Typed, ListIsComplete, [Next]_vars
  PROVE  ListIsComplete'
<1> SUFFICES ASSUME NEW q \in Requests, req'[q].kind = "enable", NEW row \in rows',
                    row.status = "granted", Covers(req'[q].window, row.slot),
                    req'[q].window.created <= row.slot
             PROVE  row \in req'[q].todo \cup req'[q].done \/ row.id \in excused'
  BY DEF ListIsComplete, Covers
<1> USE DEF Typed
<1>1. CASE row \notin rows
  <2>1. PICK r \in Rules : Record(r) /\ row = Added(r)
    BY <1>1, GrantedBefore
  <2>2. run[r].status = "granted" /\ row.slot = run[r].slot /\ row.id = NewId
    BY <2>1, RecordedRows
  <2>3. req' = req
    BY <2>1 DEF Record
  <2>4. Overtaken(r)
    BY <2>2, <2>3 DEF Overtaken
  <2> QED
    BY <2>1, <2>2, <2>4 DEF Record
<1>2. CASE row \in rows
  <2>1. CASE req'[q] = req[q]
    BY <1>2, <2>1, HistoriesGrow DEF ListIsComplete
  <2>2. CASE EnableBegin(q)
    <3>1. PICK dates \in Vacations :
            Begin(q, [kind |-> "enable", since |-> now, window |-> WindowOf(dates[1], dates[2]),
                      todo |-> GrantedIn(WindowOf(dates[1], dates[2])), done |-> {}])
      BY <2>2 DEF EnableBegin
    <3> DEFINE w == WindowOf(dates[1], dates[2])
    <3>2. req'[q].window = w /\ req'[q].todo = GrantedIn(w)
      BY <3>1 DEF Begin, RequestsTyped
    <3>3. w.created = now
      BY WindowOfType
    <3> HIDE DEF w
    <3>4. row.slot >= now
      BY <1>2, <3>2, <3>3 DEF RowsTyped, RulesTyped
    <3> QED
      BY <1>2, <3>2, <3>4 DEF GrantedIn
  <2>3. CASE EnableNext(q)
    <3>1. req[q] \in EnableRequest /\ req[q].kind = "enable"
      BY <2>3, RequestKinds DEF EnableNext
    <3>2. PICK done \in req[q].todo : \E b \in Borrar(done.slot) :
            /\ req' = [req EXCEPT ![q].todo = Remaining(q, done, b.answer),
                                  ![q].done = IF Cancelled(b.answer) THEN @ \cup {done} ELSE @]
            /\ excused' = IF Cancelled(b.answer) THEN excused ELSE excused \cup {done.id}
      BY <2>3, Zenon DEF EnableNext
    <3>3. PICK b \in Borrar(done.slot) :
            /\ req' = [req EXCEPT ![q].todo = Remaining(q, done, b.answer),
                                  ![q].done = IF Cancelled(b.answer) THEN @ \cup {done} ELSE @]
            /\ excused' = IF Cancelled(b.answer) THEN excused ELSE excused \cup {done.id}
      BY <3>2
    <3>4. /\ req'[q].window = req[q].window /\ req'[q].todo = req[q].todo \ {done}
          /\ req'[q].done = IF Cancelled(b.answer) THEN req[q].done \cup {done} ELSE req[q].done
      BY <3>1, <3>3, NextCancelled
    <3>5. row \in req[q].todo \cup req[q].done \/ row.id \in excused
      BY <1>2, <3>1, <3>4 DEF ListIsComplete
    <3>6. CASE Cancelled(b.answer)
      BY <3>4, <3>5, <3>6, HistoriesGrow
    <3>7. CASE ~Cancelled(b.answer)
      BY <3>3, <3>4, <3>5, <3>7
    <3> QED
      BY <3>6, <3>7
  <2>4. CASE SaveBegin(q) \/ CancelBegin(q) \/ CancelAtGym(q) \/ req'[q] = Idle
    <3>1. CASE CancelAtGym(q)
      <4>1. req'[q] = Idle \/ req'[q] \in CancelRequest
        BY <3>1, CancelledAtGym
      <4> QED
        BY <4>1 DEF Idle, CancelRequest
    <3> QED
      BY <2>4, <3>1 DEF SaveBegin, CancelBegin, Begin, Idle, RequestsTyped
  <2> QED
    BY <2>1, <2>2, <2>3, <2>4, RequestStep
<1> QED
  BY <1>1, <1>2

\* A vacation covers the instants of a day together.
LEMMA WholeCovers ==
  ASSUME NEW w, Whole(w), NEW i \in Int, NEW j \in Int, Day(i) = Day(j), Covers(w, i)
  PROVE  Covers(w, j)
<1>1. PICK a, b \in Int : w.from = At(TheZone, a, 0) /\ w.until = At(TheZone, b + 1, 0) - 1
  BY DEF Whole
<1>2. /\ TheZone \in Zone /\ ChangesWithinDay(TheZone) /\ b + 1 \in Int
      /\ 0 \in 0..DayLen - 1
  BY <1>1, UpcomingAssumption, DayLenAssumption
<1>3. /\ At(TheZone, a, 0) \in Int /\ At(TheZone, b + 1, 0) \in Int
      /\ LocalDate(TheZone, At(TheZone, a, 0)) = a
      /\ LocalDate(TheZone, At(TheZone, b + 1, 0)) = b + 1
      /\ Day(i) \in Int
  BY <1>1, <1>2, AtType, DateOfAt, DayType
<1>4. At(TheZone, a, 0) <= i /\ i < At(TheZone, b + 1, 0)
  BY <1>1, <1>3 DEF Covers
<1>5. a <= Day(i)
  BY <1>2, <1>3, <1>4, DateMonotone DEF Day
<1>6. Day(i) < b + 1
  BY <1>2, <1>4, FirstInstant DEF Day
<1>7. At(TheZone, a, 0) <= j
  <2> SUFFICES ASSUME j < At(TheZone, a, 0) PROVE FALSE
    BY <1>3
  <2>1. Day(j) < a
    BY <1>1, <1>2, FirstInstant DEF Day
  <2> QED
    BY <1>1, <1>3, <1>5, <2>1
<1>8. j < At(TheZone, b + 1, 0)
  <2> SUFFICES ASSUME At(TheZone, b + 1, 0) <= j PROVE FALSE
    BY <1>3
  <2>1. b + 1 <= Day(j)
    BY <1>2, <1>3, DateMonotone DEF Day
  <2> QED
    BY <1>2, <1>3, <1>6, <2>1
<1> QED
  BY <1>1, <1>3, <1>7, <1>8 DEF Covers

LEMMA RunStep ==
  ASSUME RunsTyped, [Next]_vars, NEW r \in Rules
  PROVE  \/ run'[r] = run[r] \/ run'[r] = NoRun
         \/ StartRun(r) \/ CheckDay(r) \/ Book(r)
<1>1. ASSUME NEW s \in Rules,
             StartRun(s) \/ CheckDay(s) \/ Book(s) \/ Record(s) \/ UpdateRule(s)
      PROVE  \/ run'[r] = run[r] \/ run'[r] = NoRun
             \/ StartRun(r) \/ CheckDay(r) \/ Book(r)
  BY <1>1 DEF RunsTyped, StartRun, CheckDay, Book, Record, UpdateRule
<1>2. CASE Restart
  BY <1>2 DEF Restart
<1>3. CASE UNCHANGED run
  BY <1>3
<1>4. \/ \E s \in Rules : StartRun(s) \/ CheckDay(s) \/ Book(s) \/ Record(s) \/ UpdateRule(s)
      \/ Restart \/ UNCHANGED run
  BY DEF Next, vars, SaveBegin, SaveEnd, Revert, CancelBegin, CancelAtGym, CancelCommit,
     EnableBegin, EnableNext, EnableCommit, CloseEarly, Clock
<1> QED
  BY <1>1, <1>2, <1>3, <1>4

\* A window that is new was closed early, or is that of a request.
LEMMA WindowsStep ==
  ASSUME WindowsTyped, RequestsTyped, [Next]_vars, NEW w \in windows', w \notin windows
  PROVE  \/ w.closed /\ \E v \in windows : w.from = v.from /\ w.until = v.until
         \/ \E q \in Requests : /\ EnableCommit(q) /\ req[q].kind = "enable"
                                /\ w.from = req[q].window.from /\ w.until = req[q].window.until
                                /\ w.created = req[q].window.created
<1>1. CloseEarly \/ \E q \in Requests : EnableCommit(q)
  BY DEF Next, vars, tables, StartRun, CheckDay, Book, Record, UpdateRule,
     SaveBegin, SaveEnd, Revert, CancelBegin, CancelAtGym, CancelCommit, EnableBegin, EnableNext,
     Restart, Clock
<1>2. CASE CloseEarly
  <2>1. PICK v \in windows : windows' = (windows \ {v}) \cup {[v EXCEPT !.closed = TRUE]}
    BY <1>2 DEF CloseEarly
  <2>2. w = [v EXCEPT !.closed = TRUE] /\ v \in Vacation
    BY <2>1 DEF WindowsTyped
  <2> QED
    BY <2>2 DEF Vacation
<1>3. ASSUME NEW q \in Requests, EnableCommit(q)
      PROVE  /\ req[q].kind = "enable"
             /\ w.from = req[q].window.from /\ w.until = req[q].window.until
             /\ w.created = req[q].window.created
  <2>1. w = [req[q].window EXCEPT !.id = Cardinality(windows) + 1]
    BY <1>3 DEF EnableCommit
  <2>2. req[q] \in EnableRequest /\ req[q].kind = "enable"
    BY <1>3, RequestKinds DEF EnableCommit
  <2> QED
    BY <2>1, <2>2 DEF EnableRequest, Vacation
<1> QED
  BY <1>1, <1>2, <1>3

LEMMA WindowsWholeStep ==
  ASSUME Typed, WindowsWhole, [Next]_vars
  PROVE  WindowsWhole'
<1> USE DEF Typed
<1>1. ASSUME NEW w \in windows' PROVE Whole(w)
  <2>1. CASE w \in windows
    BY <2>1 DEF WindowsWhole
  <2>2. CASE w \notin windows
    BY <2>2, WindowsStep DEF WindowsWhole, Whole
  <2> QED
    BY <2>1, <2>2
<1>2. ASSUME NEW q \in Requests, req'[q].kind = "enable" PROVE Whole(req'[q].window)
  <2>1. CASE req'[q] = req[q]
    BY <1>2, <2>1 DEF WindowsWhole
  <2>2. CASE EnableBegin(q)
    <3>1. PICK dates \in Vacations :
            Begin(q, [kind |-> "enable", since |-> now, window |-> WindowOf(dates[1], dates[2]),
                      todo |-> GrantedIn(WindowOf(dates[1], dates[2])), done |-> {}])
      BY <2>2 DEF EnableBegin
    <3>2. req'[q].window = WindowOf(dates[1], dates[2])
      BY <3>1 DEF Begin, RequestsTyped
    <3>3. dates[1] \in Int /\ dates[2] \in Int
      BY ConstantTypes
    <3> QED
      BY <3>2, <3>3 DEF WindowOf, Whole
  <2>3. CASE EnableNext(q)
    <3>1. req[q] \in EnableRequest /\ req[q].kind = "enable"
      BY <2>3, RequestKinds DEF EnableNext
    <3>2. PICK done \in req[q].todo : \E b \in Borrar(done.slot) :
            req' = [req EXCEPT ![q].todo = Remaining(q, done, b.answer),
                               ![q].done = IF Cancelled(b.answer) THEN @ \cup {done} ELSE @]
      BY <2>3, Zenon DEF EnableNext
    <3>3. PICK b \in Borrar(done.slot) :
            req' = [req EXCEPT ![q].todo = Remaining(q, done, b.answer),
                               ![q].done = IF Cancelled(b.answer) THEN @ \cup {done} ELSE @]
      BY <3>2
    <3>4. req'[q].window = req[q].window
      BY <3>1, <3>3, NextCancelled
    <3> QED
      BY <3>1, <3>4 DEF WindowsWhole
  <2>4. CASE SaveBegin(q) \/ CancelBegin(q) \/ CancelAtGym(q) \/ req'[q] = Idle
    <3>1. CASE CancelAtGym(q)
      <4>1. req'[q] = Idle \/ req'[q] \in CancelRequest
        BY <3>1, CancelledAtGym
      <4> QED
        BY <1>2, <4>1 DEF Idle, CancelRequest
    <3> QED
      BY <1>2, <2>4, <3>1 DEF SaveBegin, CancelBegin, Begin, Idle, RequestsTyped
  <2> QED
    BY <2>1, <2>2, <2>3, <2>4, RequestStep
<1>3. ASSUME NEW r \in Rules, run'[r] # NoRun, NEW w \in run'[r].seen PROVE Whole(w)
  <2>1. CASE run'[r] = run[r]
    BY <1>3, <2>1 DEF WindowsWhole
  <2>2. CASE StartRun(r)
    BY <1>3, <2>2, StartedRun
  <2>3. CASE CheckDay(r)
    BY <1>3, <2>3, CheckedRun, RunKinds DEF Goes, WindowsWhole
  <2>4. CASE Book(r)
    BY <1>3, <2>4, BookedRun, RunKinds DEF Goes, WindowsWhole
  <2> QED
    BY <1>3, <2>1, <2>2, <2>3, <2>4, RunStep
<1> QED
  BY <1>1, <1>2, <1>3 DEF WindowsWhole, Whole

\* A run looks once; what it books lies on the day it looked for.
LEMMA LookedClearStep ==
  ASSUME Typed, WindowsWhole, RunOnItsDay, LookedClear, [Next]_vars
  PROVE  LookedClear'
<1> SUFFICES ASSUME NEW r \in Rules,
                    run'[r].pc = "checked" \/ (run'[r].pc = "done" /\ run'[r].status = "granted"),
                    NEW w \in run'[r].seen, ~w.closed, now' <= w.until, Covers(w, run'[r].slot)
             PROVE  FALSE
  BY DEF LookedClear, Covers
<1> USE DEF Typed
<1>1. now \in Int /\ now' \in Int /\ now <= now'
  BY ClockStep
<1>2. run'[r] # NoRun
  BY DEF NoRun
<1>3. ASSUME run[r] \in Started, w \in run[r].seen PROVE now <= w.until
  <2>1. w.until \in Int
    BY <1>3 DEF Started, Vacation
  <2> QED
    BY <1>1, <2>1
<1>4. CASE run'[r] = run[r]
  <2>1. run[r] \in Started
    BY <1>2, <1>4 DEF RunsTyped
  <2> QED
    BY <1>3, <1>4, <2>1 DEF LookedClear
<1>5. CASE StartRun(r)
  BY <1>5, StartedRun
<1>6. CASE CheckDay(r)
  <2>1. run'[r].seen = windows /\ Vacant(r) /\ run'[r].slot = run[r].slot
    BY <1>6, CheckedRun
  <2>2. now' = now
    BY <1>6 DEF CheckDay
  <2> QED
    BY <2>1, <2>2 DEF Vacant, Covered, OpenWindows
<1>7. CASE Book(r)
  <2>1. /\ run[r].pc = "checked" /\ run[r] \in Started /\ run'[r].seen = run[r].seen
        /\ run'[r].slot \in {run[r].slot, run[r].base}
    BY <1>7, BookedRun DEF Goes
  <2>2. ~Covers(w, run[r].slot)
    BY <1>3, <2>1 DEF LookedClear
  <2>3. /\ run[r] # NoRun /\ run[r].slot \in Int /\ run[r].base \in Int
    BY <2>1 DEF Started, NoRun
  <2>4. Day(run[r].slot) = Day(run[r].base) /\ Whole(w)
    BY <2>1, <2>3 DEF RunOnItsDay, WindowsWhole
  <2> QED
    BY <2>1, <2>2, <2>3, <2>4, WholeCovers
<1> QED
  BY <1>2, <1>4, <1>5, <1>6, <1>7, RunStep

LEMMA VacationClearsStep ==
  ASSUME Typed, ListIsComplete, LookedClear, VacationClears, [Next]_vars
  PROVE  VacationClears'
<1> SUFFICES ASSUME NEW w \in windows', ~w.closed, now' <= w.until, NEW row \in rows',
                    row.status = "granted", Covers(w, row.slot), w.created <= row.slot
             PROVE  row.id \in excused'
  BY DEF VacationClears, OpenWindows
<1> USE DEF Typed
<1>1. now \in Int /\ now' \in Int /\ now <= now'
  BY ClockStep
<1>2. CASE row \notin rows
  <2>1. PICK r \in Rules : Record(r) /\ row = Added(r)
    BY <1>2, GrantedBefore
  <2>2. run[r].status = "granted" /\ row.slot = run[r].slot /\ row.id = NewId
    BY <2>1, RecordedRows
  <2>3. windows' = windows /\ now' = now
    BY <2>1 DEF Record
  <2>4. w \notin run[r].seen
    BY <2>1, <2>2, <2>3, RecordedRun DEF LookedClear
  <2>5. Overtaken(r)
    BY <2>2, <2>3, <2>4 DEF Overtaken, OpenWindows
  <2> QED
    BY <2>1, <2>2, <2>5 DEF Record
<1>3. CASE row \in rows /\ w \in windows
  <2>1. w \in OpenWindows(now)
    BY <1>1, <1>3 DEF OpenWindows, WindowsTyped, Vacation
  <2> QED
    BY <1>3, <2>1, HistoriesGrow DEF VacationClears
<1>4. CASE row \in rows /\ w \notin windows
  <2>1. PICK q \in Requests : /\ EnableCommit(q) /\ req[q].kind = "enable" /\ w.from = req[q].window.from
                             /\ w.until = req[q].window.until /\ w.created = req[q].window.created
    BY <1>4, WindowsStep
  <2>2. req[q].todo = {}
    BY <2>1 DEF EnableCommit
  <2>3. row \in req[q].done \/ row.id \in excused
    BY <1>4, <2>1, <2>2 DEF ListIsComplete, Covers
  <2>4. row.id \notin Ids(q)
    <3>1. PICK o \in rows : row = Marked(o, Ids(q))
      BY <2>1, CommittedRows
    <3> QED
      BY <3>1, MarkedRow DEF RowsTyped
  <2> QED
    BY <2>1, <2>3, <2>4, HistoriesGrow DEF Ids
<1> QED
  BY <1>2, <1>3, <1>4

-----------------------------------------------------------------------------
(* Rows, notices and the gym. *)

LEMMA SubjectsTyped ==
  ASSUME RequestsTyped, NEW q \in Requests
  PROVE  Subjects(q) \subseteq Row /\ Taken(q) \subseteq Subjects(q)
  BY RequestKinds DEF Subjects, Taken, CancelRequest, EnableRequest

\* Rows stay in the table, with their identifier, rule and slot.
LEMMA RowStays ==
  ASSUME RowsTyped, RunsTyped, [Next]_vars, NEW o \in rows
  PROVE  \E p \in rows' : /\ p.id = o.id /\ p.rule = o.rule /\ p.slot = o.slot
                          /\ p.status \in {o.status, "cancelled"}
<1>1. CASE UNCHANGED <<rows, notices>>
  BY <1>1
<1>2. CASE \E r \in Rules : Record(r)
  BY <1>2, RecordedRows
<1>3. ASSUME NEW q \in Requests, CancelCommit(q) \/ EnableCommit(q)
      PROVE  \E p \in rows' : /\ p.id = o.id /\ p.rule = o.rule /\ p.slot = o.slot
                              /\ p.status \in {o.status, "cancelled"}
  <2>1. Marked(o, Ids(q)) \in rows'
    BY <1>3, CommittedRows
  <2> QED
    BY <2>1, MarkedRow DEF RowsTyped
<1> QED
  BY <1>1, <1>2, <1>3, RowsStep

\* A call to the gym for a row: what it leaves to do, and what came of it.
AtGym(q, row, b) ==
  /\ row \in Subjects(q) /\ b \in Borrar(row.slot)
  /\ enrolled' = b.enrolled
  /\ adrift' = IF Doubtful(b.answer) THEN adrift \cup {row.id} ELSE adrift
  /\ Subjects(q)' \subseteq Subjects(q)
  /\ Taken(q)' = IF Cancelled(b.answer) THEN Taken(q) \cup {row} ELSE Taken(q)
  /\ \A p \in Requests \ {q} : req'[p] = req[p]
  /\ UNCHANGED <<rows, notices, run, rebooked>>

LEMMA CalledGym ==
  ASSUME RequestsTyped, NEW q \in Requests, CancelAtGym(q) \/ EnableNext(q)
  PROVE  \E row \in Subjects(q) : \E b \in Borrar(row.slot) : AtGym(q, row, b)
<1>1. CASE CancelAtGym(q)
  <2> DEFINE row == req[q].row
  <2>1. /\ req[q] \in CancelRequest /\ ~req[q].accepted /\ req[q].kind = "cancel"
        /\ \A p \in Requests \ {q} : req'[p] = req[p]
    BY <1>1, CancelledAtGym DEF CancelAtGym
  <2>2. PICK b \in Borrar(row.slot) :
          /\ enrolled' = b.enrolled
          /\ IF Cancelled(b.answer)
             THEN req'[q] \in CancelRequest /\ req'[q].row = row /\ req'[q].accepted
             ELSE req'[q] = Idle
          /\ adrift' = IF Doubtful(b.answer) THEN adrift \cup {row.id} ELSE adrift
    BY <1>1, CancelledAtGym
  <2>3. Subjects(q) = {row} /\ Taken(q) = {}
    BY <2>1 DEF Subjects, Taken
  <2>4. CASE Cancelled(b.answer)
    <3>1. Subjects(q)' = {row} /\ Taken(q)' = {row}
      BY <2>2, <2>4 DEF Subjects, Taken, CancelRequest
    <3> QED
      BY <1>1, <2>1, <2>2, <2>3, <2>4, <3>1 DEF AtGym, CancelAtGym, tables
  <2>5. CASE ~Cancelled(b.answer)
    <3>1. Subjects(q)' = {} /\ Taken(q)' = {}
      BY <2>2, <2>5 DEF Subjects, Taken, Idle
    <3> QED
      BY <1>1, <2>1, <2>2, <2>3, <2>5, <3>1 DEF AtGym, CancelAtGym, tables
  <2> QED
    BY <2>4, <2>5
<1>2. CASE EnableNext(q)
  <2>1. req[q] \in EnableRequest /\ req[q].kind = "enable"
    BY <1>2, RequestKinds DEF EnableNext
  <2>2. PICK row \in req[q].todo : \E b \in Borrar(row.slot) :
          /\ enrolled' = b.enrolled
          /\ req' = [req EXCEPT ![q].todo = Remaining(q, row, b.answer),
                                ![q].done = IF Cancelled(b.answer) THEN @ \cup {row} ELSE @]
          /\ adrift' = IF Doubtful(b.answer) THEN adrift \cup {row.id} ELSE adrift
    BY <1>2, Zenon DEF EnableNext
  <2>3. PICK b \in Borrar(row.slot) :
          /\ enrolled' = b.enrolled
          /\ req' = [req EXCEPT ![q].todo = Remaining(q, row, b.answer),
                                ![q].done = IF Cancelled(b.answer) THEN @ \cup {row} ELSE @]
          /\ adrift' = IF Doubtful(b.answer) THEN adrift \cup {row.id} ELSE adrift
    BY <2>2
  <2>4. /\ req'[q].kind = "enable" /\ req'[q].todo = req[q].todo \ {row}
        /\ req'[q].done = IF Cancelled(b.answer) THEN req[q].done \cup {row} ELSE req[q].done
        /\ \A p \in Requests \ {q} : req'[p] = req[p]
    BY <2>1, <2>3, NextCancelled
  <2>5. /\ Subjects(q) = req[q].todo \cup req[q].done /\ Taken(q) = req[q].done
        /\ Subjects(q)' = req'[q].todo \cup req'[q].done /\ Taken(q)' = req'[q].done
    BY <2>1, <2>4 DEF Subjects, Taken
  <2>6. /\ row \in Subjects(q) /\ Subjects(q)' \subseteq Subjects(q)
        /\ Taken(q)' = IF Cancelled(b.answer) THEN Taken(q) \cup {row} ELSE Taken(q)
    <3>1. CASE Cancelled(b.answer)
      BY <2>4, <2>5, <3>1
    <3>2. CASE ~Cancelled(b.answer)
      BY <2>4, <2>5, <3>2
    <3> QED
      BY <3>1, <3>2
  <2>7. UNCHANGED <<rows, notices, run, rebooked>>
    BY <1>2 DEF EnableNext, tables
  <2> QED
    BY <2>3, <2>4, <2>6, <2>7 DEF AtGym
<1> QED
  BY <1>1, <1>2

\* A step that leaves the gym and what was cancelled there alone.
Aside ==
  /\ UNCHANGED <<rows, notices, enrolled, adrift, rebooked>>
  /\ \A q \in Requests : Taken(q)' = Taken(q)
  /\ \A r \in Rules : run'[r] = run[r] \/ run'[r].pc # "done" \/ run'[r].status # "granted"

LEMMA NothingTaken ==
  ASSUME RequestsTyped, NEW q \in Requests, req[q].kind \notin {"cancel", "enable"}
  PROVE  Taken(q) = {}
  BY DEF Taken

LEMMA GymSteps ==
  ASSUME Typed, [Next]_vars
  PROVE  \/ \E q \in Requests : \E row \in Subjects(q) : \E b \in Borrar(row.slot) : AtGym(q, row, b)
         \/ \E q \in Requests : CancelCommit(q) \/ EnableCommit(q)
         \/ Restart
         \/ \E r \in Rules : Book(r) \/ Record(r)
         \/ Aside
<1> USE DEF Typed
<1>1. ASSUME NEW r \in Rules, StartRun(r) \/ CheckDay(r) \/ UpdateRule(r) PROVE Aside
  <2>1. CASE StartRun(r)
    <3>1. run'[r].pc = "planned" /\ \A s \in Rules \ {r} : run'[s] = run[s]
      BY <2>1, StartedRun
    <3> QED
      BY <2>1, <3>1 DEF StartRun, tables, ghosts, Aside, Taken
  <2>2. CASE CheckDay(r)
    <3>1. /\ run'[r].pc = "checked" \/ run'[r].status = "skipped"
          /\ \A s \in Rules \ {r} : run'[s] = run[s]
      BY <2>2, CheckedRun DEF Goes
    <3> QED
      BY <2>2, <3>1 DEF CheckDay, tables, ghosts, Aside, Taken
  <2>3. CASE UpdateRule(r)
    BY <2>3 DEF UpdateRule, Aside, Taken
  <2> QED
    BY <1>1, <2>1, <2>2, <2>3
<1>2. ASSUME NEW q \in Requests, SaveBegin(q) \/ CancelBegin(q) \/ EnableBegin(q) PROVE Aside
  <2>1. req[q].kind = "idle" /\ \A p \in Requests \ {q} : req'[p] = req[p]
    BY <1>2 DEF SaveBegin, CancelBegin, EnableBegin, Begin, Idle, RequestsTyped
  <2>2. Taken(q)' = {}
    BY <1>2 DEF SaveBegin, CancelBegin, EnableBegin, Begin, RequestsTyped, Taken
  <2>3. Taken(q) = {}
    BY <2>1, NothingTaken
  <2>4. \A p \in Requests \ {q} : Taken(p)' = Taken(p)
    BY <2>1 DEF Taken
  <2> QED
    BY <1>2, <2>2, <2>3, <2>4 DEF SaveBegin, CancelBegin, EnableBegin, tables, ghosts, Aside
<1>3. ASSUME NEW q \in Requests, SaveEnd(q) PROVE Aside
  <2>1. req[q].kind = "save" /\ req'[q] = Idle /\ \A p \in Requests \ {q} : req'[p] = req[p]
    BY <1>3, Ended DEF SaveEnd
  <2>2. Taken(q)' = {} /\ Taken(q) = {}
    BY <2>1, NothingTaken DEF Taken, Idle
  <2>3. \A p \in Requests \ {q} : Taken(p)' = Taken(p)
    BY <2>1 DEF Taken
  <2> QED
    BY <1>3, <2>2, <2>3 DEF SaveEnd, Aside
<1>4. CASE Revert \/ CloseEarly \/ Clock \/ UNCHANGED vars
  BY <1>4 DEF Revert, CloseEarly, Clock, vars, tables, ghosts, Aside, Taken
<1> QED
  BY <1>1, <1>2, <1>3, <1>4, CalledGym DEF Next

LEMMA SubjectsExistStep ==
  ASSUME Typed, SubjectsExist, [Next]_vars
  PROVE  SubjectsExist'
<1> SUFFICES ASSUME NEW q \in Requests, NEW row \in Subjects(q)'
             PROVE  \E o \in rows' : /\ o.id = row.id /\ o.slot = row.slot
                                     /\ o.status \in {"granted", "cancelled"}
  BY DEF SubjectsExist
<1> USE DEF Typed
<1>1. CASE row \in Subjects(q)
  <2>1. PICK o \in rows : /\ o.id = row.id /\ o.slot = row.slot
                          /\ o.status \in {"granted", "cancelled"}
    BY <1>1 DEF SubjectsExist
  <2> QED
    BY <2>1, RowStays
<1>2. CASE req'[q] = req[q]
  BY <1>1, <1>2 DEF Subjects
<1>3. CASE req'[q] = Idle \/ SaveBegin(q)
  BY <1>3 DEF SaveBegin, Begin, RequestsTyped, Subjects, Idle
<1>4. CASE CancelBegin(q)
  BY <1>4 DEF CancelBegin, Begin, RequestsTyped, Subjects, tables
<1>5. CASE EnableBegin(q)
  <2>1. rows' = rows /\ row \in rows /\ row.status = "granted"
    BY <1>5 DEF EnableBegin, Begin, RequestsTyped, Subjects, tables, GrantedIn
  <2> QED
    BY <2>1
<1>6. CASE CancelAtGym(q) \/ EnableNext(q)
  BY <1>1, <1>6, CalledGym DEF AtGym
<1> QED
  BY <1>2, <1>3, <1>4, <1>5, <1>6, RequestStep

\* A subject of a request is a row of the table, and the only one of its name.
LEMMA SubjectRow ==
  ASSUME RowsTyped, SubjectsExist, NEW q \in Requests, NEW row \in Subjects(q)
  PROVE  \E o \in rows : /\ o.id = row.id /\ o.slot = row.slot
                         /\ o.status \in {"granted", "cancelled"}
                         /\ \A p \in rows : p.id = row.id => p = o
  BY DEF RowsTyped, SubjectsExist

\* What a commit does to a row, and whose the cancelled rows are.
LEMMA CommittedRow ==
  ASSUME Typed, SubjectsExist, NEW q \in Requests, CancelCommit(q) \/ EnableCommit(q)
  PROVE  /\ Taken(q)' = {} /\ \A p \in Requests \ {q} : Taken(p)' = Taken(p)
         /\ UNCHANGED <<enrolled, adrift, rebooked, run>>
         /\ \A o \in rows : Marked(o, Ids(q)) \in rows'
         /\ \A row \in rows' : \E o \in rows :
              /\ row = Marked(o, Ids(q)) /\ row.id = o.id /\ row.slot = o.slot
              /\ row.status = IF o.id \in Ids(q) THEN "cancelled" ELSE o.status
         /\ \A o \in rows : o.id \in Ids(q) =>
              \E row \in Taken(q) : row.id = o.id /\ row.slot = o.slot
<1> USE DEF Typed
<1>1. req'[q] = Idle /\ \A p \in Requests \ {q} : req'[p] = req[p]
  BY Ended DEF CancelCommit, EnableCommit
<1>2. Taken(q)' = {} /\ \A p \in Requests \ {q} : Taken(p)' = Taken(p)
  BY <1>1 DEF Taken, Idle
<1>3. UNCHANGED <<enrolled, adrift, rebooked, run>>
  BY DEF CancelCommit, EnableCommit, ghosts
<1>4. rows' = {Marked(row, Ids(q)) : row \in rows} /\ Ids(q) = {row.id : row \in Taken(q)}
  BY CommittedRows
<1>5. ASSUME NEW row \in rows'
      PROVE  \E o \in rows : /\ row = Marked(o, Ids(q)) /\ row.id = o.id /\ row.slot = o.slot
                             /\ row.status = IF o.id \in Ids(q) THEN "cancelled" ELSE o.status
  <2>1. PICK o \in rows : row = Marked(o, Ids(q))
    BY <1>4
  <2> QED
    BY <2>1, MarkedRow DEF RowsTyped
<1>6. ASSUME NEW o \in rows, o.id \in Ids(q)
      PROVE  \E row \in Taken(q) : row.id = o.id /\ row.slot = o.slot
  <2>1. PICK row \in Taken(q) : row.id = o.id
    BY <1>4, <1>6
  <2>2. row \in Subjects(q)
    BY <2>1, SubjectsTyped
  <2> QED
    BY <2>1, <2>2, SubjectRow
<1> QED
  BY <1>2, <1>3, <1>4, <1>5, <1>6

LEMMA RecordFrame ==
  ASSUME RowsTyped, RunsTyped, NEW r \in Rules, Record(r)
  PROVE  /\ \A q \in Requests : Taken(q)' = Taken(q)
         /\ UNCHANGED <<enrolled, adrift, rebooked>>
         /\ rows' = rows \cup {Added(r)} /\ Added(r).status \in {"granted", "full", "skipped"}
         /\ \A row \in rows' : row.status = "cancelled" => row \in rows
<1>1. \A q \in Requests : Taken(q)' = Taken(q)
  BY DEF Record, Taken
<1>2. UNCHANGED <<enrolled, adrift, rebooked>>
  BY DEF Record
<1>3. /\ rows' = rows \cup {Added(r)}
      /\ Added(r).status \in {"granted", "full", "skipped"}
  BY RecordedRows, RecordedRun
<1> QED
  BY <1>1, <1>2, <1>3

LEMMA BookFrame ==
  ASSUME RunsTyped, NEW r \in Rules, Book(r)
  PROVE  /\ \A q \in Requests : Taken(q)' = Taken(q)
         /\ UNCHANGED <<rows, notices, adrift>> /\ enrolled \subseteq enrolled'
  BY BookedRun DEF Book, Taken, tables

LEMMA RestartFrame ==
  ASSUME RequestsTyped, Restart, NEW q \in Requests
  PROVE  /\ Taken(q)' = {} /\ \A row \in Taken(q) : row.id \in adrift'
         /\ UNCHANGED <<rows, notices, enrolled, rebooked>>
  BY DEF Restart, Taken, Idle, tables

\* No step loses a slot: it stays the athlete's, or is one of a row cancelled
\* or in doubt.
LEMMA NoSlotLost ==
  ASSUME Typed, SubjectsExist, [Next]_vars, NEW slot, Lost(slot)'
  PROVE  Lost(slot)
<1> USE DEF Typed
<1> SUFFICES ASSUME ~Lost(slot) PROVE FALSE
  OBVIOUS
<1>1. /\ slot \notin enrolled'
      /\ \A row \in rows' : row.slot = slot => row.status # "cancelled" /\ row.id \notin adrift'
      /\ \A q \in Requests : \A row \in Taken(q)' : row.slot # slot
  BY DEF Lost, CancelledRows, DoubtfulSlots
<1>2. \/ slot \in enrolled
      \/ \E row \in rows : row.slot = slot /\ (row.status = "cancelled" \/ row.id \in adrift)
      \/ \E q \in Requests : \E row \in Taken(q) : row.slot = slot
  BY DEF Lost, CancelledRows, DoubtfulSlots
<1>3. ~\E row \in rows : row.slot = slot /\ (row.status = "cancelled" \/ row.id \in adrift)
  BY <1>1, RowStays, HistoriesGrow
<1>4. ASSUME NEW q \in Requests, NEW row \in Subjects(q), row.slot = slot, row.id \in adrift'
      PROVE  FALSE
  BY <1>1, <1>4, SubjectRow, RowStays
<1>5. ASSUME NEW q \in Requests, NEW row \in Subjects(q), NEW b \in Borrar(row.slot), AtGym(q, row, b)
      PROVE  FALSE
  <2>1. \A p \in Requests : Taken(p) \subseteq Taken(p)'
    BY <1>5 DEF AtGym, Taken
  <2>2. slot \in enrolled
    BY <1>1, <1>2, <1>3, <2>1
  <2>3. row.slot = slot /\ b.answer \in {"unclear", "accepted", "lost"}
    BY <1>1, <1>5, <2>2, BorrarAnswers DEF AtGym
  <2>4. CASE Cancelled(b.answer)
    BY <1>1, <1>5, <2>3, <2>4 DEF AtGym
  <2>5. CASE b.answer = "lost"
    BY <1>4, <1>5, <2>3, <2>5 DEF AtGym, Doubtful
  <2> QED
    BY <2>3, <2>4, <2>5 DEF Cancelled
<1>6. ASSUME NEW q \in Requests, CancelCommit(q) \/ EnableCommit(q) PROVE FALSE
  <2>1. PICK row \in Taken(q) : row.slot = slot
    BY <1>1, <1>2, <1>3, <1>6, CommittedRow
  <2>2. PICK o \in rows : o.id = row.id /\ o.slot = slot
    BY <2>1, SubjectsTyped, SubjectRow
  <2>3. o.id \in Ids(q)
    BY <1>6, <2>1, <2>2, CommittedRows
  <2>4. Marked(o, Ids(q)) \in rows'
    BY <1>6, CommittedRow
  <2> QED
    BY <1>1, <2>2, <2>3, <2>4, MarkedRow DEF RowsTyped
<1>7. CASE Restart
  <2>1. PICK q \in Requests : \E row \in Taken(q) : row.slot = slot
    BY <1>1, <1>2, <1>3, <1>7 DEF Restart
  <2> QED
    BY <1>4, <1>7, <2>1, RestartFrame, SubjectsTyped
<1>8. CASE \E r \in Rules : Book(r) \/ Record(r)
  BY <1>1, <1>2, <1>3, <1>8, BookFrame, RecordFrame
<1>9. CASE Aside
  BY <1>1, <1>2, <1>3, <1>9 DEF Aside
<1> QED
  BY <1>5, <1>6, <1>7, <1>8, <1>9, GymSteps

LEMMA GrantedIsKeptStep ==
  ASSUME Typed, SubjectsExist, GrantedIsKept, [Next]_vars
  PROVE  GrantedIsKept'
<1> USE DEF Typed
<1>1. ASSUME NEW row \in rows', row.status = "granted", Lost(row.slot)' PROVE FALSE
  <2>1. Lost(row.slot)
    BY <1>1, NoSlotLost
  <2>2. PICK r \in Rules : Record(r) /\ row = Added(r)
    BY <1>1, <2>1, GrantedBefore DEF GrantedIsKept
  <2>3. run[r].pc = "done" /\ run[r].status = "granted" /\ row.slot = run[r].slot
    BY <1>1, <2>2, RecordedRows, RecordedRun
  <2> QED
    BY <2>1, <2>3 DEF GrantedIsKept
<1>2. ASSUME NEW r \in Rules, run'[r].pc = "done", run'[r].status = "granted",
             NEW slot, slot = run'[r].slot, Lost(slot)'
      PROVE  FALSE
  <2>1. Lost(slot)
    BY <1>2, NoSlotLost
  <2>2. run'[r] # run[r]
    BY <1>2, <2>1 DEF GrantedIsKept
  <2>3. CASE \E s \in Rules : Book(s) \/ Record(s)
    <3>1. PICK s \in Rules : Book(s) \/ Record(s)
      BY <2>3
    <3>2. s = r
      BY <2>2, <3>1, BookedRun, RecordedRun DEF Goes
    <3>3. CASE Book(r)
      <4>1. slot \in enrolled'
        BY <1>2, <3>3, BookedRun
      <4> QED
        BY <1>2, <4>1 DEF Lost
    <3>4. CASE Record(r)
      BY <1>2, <3>4, RecordedRun DEF NoRun
    <3> QED
      BY <3>1, <3>2, <3>3, <3>4
  <2>4. CASE Aside
    BY <1>2, <2>2, <2>4 DEF Aside
  <2>5. CASE Restart
    BY <1>2, <2>5 DEF Restart, NoRun
  <2>6. CASE \E q \in Requests : \E row \in Subjects(q) : \E b \in Borrar(row.slot) : AtGym(q, row, b)
    BY <2>2, <2>6 DEF AtGym
  <2>7. CASE \E q \in Requests : CancelCommit(q) \/ EnableCommit(q)
    BY <2>2, <2>7, CommittedRow
  <2> QED
    BY <2>3, <2>4, <2>5, <2>6, <2>7, GymSteps
<1> QED
  BY <1>1, <1>2 DEF GrantedIsKept, Lost, CancelledRows, DoubtfulSlots

\* What a request cancelled at the gym is cancelled.
LEMMA GoneOfSubject ==
  ASSUME Typed, SubjectsExist, CancelledIsGone,
         NEW q \in Requests, NEW row \in Subjects(q), row.slot \in enrolled, Certain(row)
  PROVE  /\ \A o \in rows : o.id = row.id => o.status = "granted"
         /\ \A p \in Requests : \A other \in Taken(p) : other.id # row.id
<1> USE DEF Typed
<1>1. PICK o \in rows : /\ o.id = row.id /\ o.slot = row.slot
                        /\ o.status \in {"granted", "cancelled"}
                        /\ \A p \in rows : p.id = row.id => p = o
  BY SubjectRow
<1>2. o.status # "cancelled"
  BY <1>1 DEF CancelledIsGone, CancelledRows, Certain
<1>3. ASSUME NEW p \in Requests, NEW other \in Taken(p), other.id = row.id PROVE FALSE
  <2>1. other.slot = row.slot
    BY <1>1, <1>3, SubjectsTyped, SubjectRow
  <2> QED
    BY <1>3, <2>1 DEF CancelledIsGone, CancelledRows, Certain
<1> QED
  BY <1>1, <1>2, <1>3

LEMMA CancelledIsGoneStep ==
  ASSUME Typed, SubjectsExist, CancelledIsGone, [Next]_vars
  PROVE  CancelledIsGone'
<1> USE DEF Typed
<1> SUFFICES ASSUME NEW row \in CancelledRows', row.slot \in enrolled',
                    row.slot \notin rebooked', row.id \notin adrift'
             PROVE  FALSE
  BY DEF CancelledIsGone
<1>1. row.slot \notin rebooked /\ row.id \notin adrift
  BY HistoriesGrow
<1>2. row \in CancelledRows => row.slot \notin enrolled
  BY <1>1 DEF CancelledIsGone
<1>3. ASSUME NEW q \in Requests, NEW subject \in Subjects(q), NEW b \in Borrar(subject.slot),
             AtGym(q, subject, b)
      PROVE  FALSE
  <2>1. row \in CancelledRows \/ (row = subject /\ Cancelled(b.answer))
    BY <1>3 DEF AtGym, CancelledRows, Taken
  <2>2. CASE row \in CancelledRows
    BY <1>2, <1>3, <2>2, BorrarAnswers DEF AtGym
  <2>3. CASE row = subject /\ Cancelled(b.answer)
    BY <1>3, <2>3, BorrarAnswers DEF AtGym, Cancelled, Doubtful
  <2> QED
    BY <2>1, <2>2, <2>3
<1>4. ASSUME NEW q \in Requests, CancelCommit(q) \/ EnableCommit(q) PROVE FALSE
  <2>1. row.slot \in enrolled
    BY <1>4, CommittedRow
  <2>2. \A p \in Requests : row \notin Taken(p)'
    BY <1>2, <1>4, <2>1, CommittedRow DEF CancelledRows
  <2>3. row \in rows' /\ row.status = "cancelled"
    BY <2>2 DEF CancelledRows
  <2>4. PICK o \in rows : /\ row.id = o.id /\ row.slot = o.slot
                          /\ row.status = IF o.id \in Ids(q) THEN "cancelled" ELSE o.status
    BY <1>4, <2>3, CommittedRow
  <2>5. CASE o.id \in Ids(q)
    <3>1. PICK taken \in Taken(q) : taken.id = o.id /\ taken.slot = o.slot
      BY <1>4, <2>5, CommittedRow
    <3> QED
      BY <1>1, <2>1, <2>4, <3>1 DEF CancelledIsGone, CancelledRows
  <2>6. CASE o.id \notin Ids(q)
    BY <1>1, <2>1, <2>3, <2>4, <2>6 DEF CancelledIsGone, CancelledRows
  <2> QED
    BY <2>5, <2>6
<1>5. CASE Restart
  BY <1>2, <1>5, RestartFrame DEF CancelledRows, Restart, tables
<1>6. ASSUME NEW r \in Rules, Book(r) PROVE FALSE
  <2>1. row \in CancelledRows
    BY <1>6, BookFrame DEF CancelledRows
  <2>2. row.slot \in CancelledSlots
    BY <2>1 DEF CancelledRows, CancelledSlots, Taken
  <2> QED
    BY <1>2, <1>6, <2>1, <2>2, BookedRun
<1>7. ASSUME NEW r \in Rules, Record(r) PROVE FALSE
  BY <1>2, <1>7, RecordFrame DEF CancelledRows
<1>8. CASE Aside
  BY <1>2, <1>8 DEF Aside, CancelledRows
<1> QED
  BY <1>3, <1>4, <1>5, <1>6, <1>7, <1>8, GymSteps

LEMMA TakenOnceStep ==
  ASSUME Typed, SubjectsExist, CancelledIsGone, TakenOnce, [Next]_vars
  PROVE  TakenOnce'
<1> USE DEF Typed
<1> SUFFICES ASSUME NEW q \in Requests, NEW row \in Taken(q)', Certain(row)'
             PROVE  /\ \E o \in rows' : o.id = row.id /\ o.status = "granted"
                    /\ \A p \in Requests \ {q} : \A other \in Taken(p)' : other.id # row.id
  BY DEF TakenOnce
<1>1. Certain(row)
  BY HistoriesGrow DEF Certain
<1>2. row \in Taken(q) => /\ \E o \in rows : o.id = row.id /\ o.status = "granted"
                          /\ \A p \in Requests \ {q} : \A other \in Taken(p) : other.id # row.id
  BY <1>1 DEF TakenOnce
<1>3. ASSUME NEW p \in Requests, NEW subject \in Subjects(p), NEW b \in Borrar(subject.slot),
             AtGym(p, subject, b)
      PROVE  /\ \E o \in rows' : o.id = row.id /\ o.status = "granted"
             /\ \A s \in Requests \ {q} : \A other \in Taken(s)' : other.id # row.id
  <2>1. rows' = rows /\ \A s \in Requests \ {p} : Taken(s)' = Taken(s)
    BY <1>3 DEF AtGym, Taken
  <2>2. Taken(p)' = IF Cancelled(b.answer) THEN Taken(p) \cup {subject} ELSE Taken(p)
    BY <1>3 DEF AtGym
  <2>3. subject.id = row.id /\ subject \in Taken(p)' /\ subject \notin Taken(p)
          => subject.slot \in enrolled /\ Certain(subject)
    <3>1. SUFFICES ASSUME subject.id = row.id, Cancelled(b.answer)
                   PROVE  subject.slot \in enrolled /\ Certain(subject)
      BY <2>2
    <3>2. b.answer = "accepted"
      BY <1>3, <3>1 DEF AtGym, Cancelled, Doubtful, Certain
    <3>3. subject.slot \in enrolled
      BY <3>2, BorrarAnswers
    <3>4. row \in Subjects(q)
      BY <1>3, <2>1, <2>2, SubjectsTyped DEF AtGym
    <3>5. row.slot = subject.slot
      BY <3>1, <3>4, SubjectRow
    <3> QED
      BY <1>1, <3>1, <3>3, <3>5 DEF Certain
  <2>4. CASE subject.id = row.id /\ subject \in Taken(p)' /\ subject \notin Taken(p)
    <3>1. /\ \A o \in rows : o.id = row.id => o.status = "granted"
          /\ \A s \in Requests : \A other \in Taken(s) : other.id # row.id
      BY <2>3, <2>4, GoneOfSubject
    <3>2. \E o \in rows : o.id = row.id
      BY <2>4, SubjectRow
    <3>3. q = p
      BY <2>1, <3>1
    <3> QED
      BY <2>1, <3>1, <3>2, <3>3
  <2>5. CASE ~(subject.id = row.id /\ subject \in Taken(p)' /\ subject \notin Taken(p))
    <3>1. row \in Taken(q)
      BY <2>1, <2>2, <2>5
    <3>2. \A s \in Requests \ {q} : \A other \in Taken(s)' :
            other \in Taken(s) \/ other.id # row.id
      BY <2>1, <2>2, <2>5
    <3> QED
      BY <1>2, <2>1, <3>1, <3>2
  <2> QED
    BY <2>4, <2>5
<1>4. ASSUME NEW p \in Requests, CancelCommit(p) \/ EnableCommit(p)
      PROVE  /\ \E o \in rows' : o.id = row.id /\ o.status = "granted"
             /\ \A s \in Requests \ {q} : \A other \in Taken(s)' : other.id # row.id
  <2>1. Taken(p)' = {} /\ \A s \in Requests \ {p} : Taken(s)' = Taken(s)
    BY <1>4, CommittedRow
  <2>2. q # p /\ row \in Taken(q)
    BY <2>1
  <2>3. PICK o \in rows : o.id = row.id /\ o.status = "granted"
    BY <1>2, <2>2
  <2>4. o.id \notin Ids(p)
    BY <1>2, <1>4, <2>2, <2>3, CommittedRows
  <2>5. o \in rows'
    BY <1>4, <2>4, CommittedRow DEF Marked
  <2> QED
    BY <1>2, <2>1, <2>2, <2>3, <2>5
<1>5. CASE Restart
  BY <1>5, RestartFrame
<1>6. CASE \E r \in Rules : Book(r) \/ Record(r)
  BY <1>2, <1>6, BookFrame, RecordFrame
<1>7. CASE Aside
  BY <1>2, <1>7 DEF Aside
<1> QED
  BY <1>3, <1>4, <1>5, <1>6, <1>7, GymSteps

LEMMA NoticePerCancelStep ==
  ASSUME Typed, SubjectsExist, TakenOnce, NoticePerCancel, [Next]_vars
  PROVE  NoticePerCancel'
<1> USE DEF Typed
<1> SUFFICES ASSUME NEW row \in rows', row.id \notin adrift', row.slot \notin rebooked'
             PROVE  notices'[row.id] = IF row.status = "cancelled" THEN 1 ELSE 0
  BY DEF NoticePerCancel
<1>1. row.id \notin adrift /\ row.slot \notin rebooked
  BY HistoriesGrow
<1>2. CASE UNCHANGED <<rows, notices>>
  BY <1>1, <1>2 DEF NoticePerCancel
<1>3. ASSUME NEW r \in Rules, Record(r)
      PROVE  notices'[row.id] = IF row.status = "cancelled" THEN 1 ELSE 0
  <2>1. /\ row \in rows \/ row = Added(r)
        /\ Added(r).id = NewId /\ Added(r).status # "cancelled"
        /\ NewId \in Nat /\ \A o \in rows : o.id \in Nat /\ o.id < NewId
        /\ notices' = [i \in 1..NewId |-> IF i = NewId THEN 0 ELSE notices[i]]
    BY <1>3, RecordedRows, RecordFrame
  <2>2. CASE row = Added(r)
    <3>1. notices'[NewId] = 0
      BY <2>1, FS_CardinalityType DEF NewId, RowsTyped
    <3> QED
      BY <2>1, <2>2, <3>1
  <2>3. CASE row \in rows
    <3>1. row.id \in 1..NewId /\ row.id # NewId
      BY <2>1, <2>3 DEF RowsTyped
    <3>2. notices'[row.id] = notices[row.id]
      BY <2>1, <3>1
    <3> QED
      BY <1>1, <2>3, <3>2 DEF NoticePerCancel
  <2> QED
    BY <2>1, <2>2, <2>3
<1>4. ASSUME NEW q \in Requests, CancelCommit(q) \/ EnableCommit(q)
      PROVE  notices'[row.id] = IF row.status = "cancelled" THEN 1 ELSE 0
  <2>1. notices' = [i \in DOMAIN notices |-> IF i \in Ids(q) THEN notices[i] + 1 ELSE notices[i]]
    BY <1>4, CommittedRows
  <2>2. PICK o \in rows : /\ row.id = o.id /\ row.slot = o.slot
                          /\ row.status = IF o.id \in Ids(q) THEN "cancelled" ELSE o.status
    BY <1>4, CommittedRow
  <2>3. o.id \in DOMAIN notices
    BY DEF RowsTyped
  <2>4. notices[o.id] = IF o.status = "cancelled" THEN 1 ELSE 0
    BY <1>1, <2>2 DEF NoticePerCancel
  <2>5. CASE o.id \in Ids(q)
    <3>1. PICK taken \in Taken(q) : taken.id = o.id /\ taken.slot = o.slot
      BY <1>4, <2>5, CommittedRow
    <3>2. Certain(taken)
      BY <1>1, <2>2, <3>1 DEF Certain
    <3>3. o.status = "granted"
      BY <3>1, <3>2 DEF TakenOnce, RowsTyped
    <3> QED
      BY <2>1, <2>2, <2>3, <2>4, <2>5, <3>3
  <2>6. CASE o.id \notin Ids(q)
    BY <2>1, <2>2, <2>3, <2>4, <2>6
  <2> QED
    BY <2>5, <2>6
<1> QED
  BY <1>2, <1>3, <1>4, RowsStep

-----------------------------------------------------------------------------
(* Overrides and the runs that read them. *)

LEMMA OverridesStep ==
  ASSUME [Next]_vars
  PROVE  \/ UNCHANGED <<overrides, rule>>
         \/ \E q \in Requests : SaveEnd(q)
         \/ Revert
         \/ \E r \in Rules : UpdateRule(r)
  BY DEF Next, vars, tables, StartRun, CheckDay, Book, Record, SaveBegin, CancelBegin, CancelAtGym,
     CancelCommit, EnableBegin, EnableNext, EnableCommit, CloseEarly, Restart, Clock

\* What a save knows when it starts.
LEMMA SaveBegun ==
  ASSUME Typed, NEW q \in Requests, SaveBegin(q)
  PROVE  LET s == req'[q] IN
         /\ s.since = now /\ s.rule \in Rules /\ s.date \in Dates /\ s.timing = rule[s.rule]
         /\ s.date % 7 = s.timing.day_of_week
         /\ s.since < At(TheZone, s.date - s.timing.opens_days_before, s.timing.opens_at)
                      - (PrewarmLead + Margin)
<1> USE DEF Typed
<1>1. PICK r \in Rules, date \in Dates, skip \in BOOLEAN, time \in {t.class_time : t \in Timings} :
        /\ date % 7 = rule[r].day_of_week
        /\ IsEditable(r, date, now)
        /\ Begin(q, [kind |-> "save", since |-> now, rule |-> r, date |-> date,
                     timing |-> rule[r], plan |-> PlanOf(r, skip, time)])
  BY DEF SaveBegin
<1>2. req'[q] = [kind |-> "save", since |-> now, rule |-> r, date |-> date,
                 timing |-> rule[r], plan |-> PlanOf(r, skip, time)]
  BY <1>1 DEF Begin, RequestsTyped
<1>3. /\ req'[q].since = now /\ req'[q].rule = r /\ req'[q].date = date
      /\ req'[q].timing = rule[r]
  BY <1>2
<1> QED
  BY <1>1, <1>3 DEF IsEditable, EditCutoff, WindowOpenFor

LEMMA SaveOnItsDayStep ==
  ASSUME Typed, SaveOnItsDay, [Next]_vars
  PROVE  SaveOnItsDay'
<1> USE DEF Typed
<1> SUFFICES ASSUME NEW q \in Requests, req'[q].kind = "save"
             PROVE  LET s == req'[q] IN
                    /\ s.date % 7 = s.timing.day_of_week
                    /\ s.since < At(TheZone, s.date - s.timing.opens_days_before, s.timing.opens_at)
                                 - (PrewarmLead + Margin)
                    /\ now' <= s.since + MaxAnswer
  BY DEF SaveOnItsDay
<1>1. CASE SaveBegin(q)
  <2>1. now' = now /\ req'[q].since = now
    BY <1>1, SaveBegun DEF SaveBegin
  <2>2. now' <= req'[q].since + MaxAnswer
    BY <2>1, ConstantTypes, ClockStep
  <2> QED
    BY <1>1, <2>2, SaveBegun
<1>2. CASE req'[q] = req[q]
  <2>1. now' <= req[q].since + MaxAnswer
    <3>1. CASE now' = now
      BY <1>2, <3>1 DEF SaveOnItsDay
    <3>2. CASE Clock
      BY <1>2, <3>2 DEF Clock, Idle
    <3> QED
      BY <3>1, <3>2, ClockStep
  <2> QED
    BY <1>2, <2>1 DEF SaveOnItsDay
<1>3. CASE req'[q] = Idle \/ CancelBegin(q) \/ EnableBegin(q)
  BY <1>3 DEF CancelBegin, EnableBegin, Begin, Idle, RequestsTyped
<1>4. CASE CancelAtGym(q)
  <2>1. req'[q] = Idle \/ req'[q] \in CancelRequest
    BY <1>4, CancelledAtGym
  <2> QED
    BY <2>1 DEF Idle, CancelRequest
<1>5. CASE EnableNext(q)
  <2>1. req[q] \in EnableRequest
    BY <1>5, RequestKinds DEF EnableNext
  <2>2. PICK row \in req[q].todo : \E b \in Borrar(row.slot) :
          req' = [req EXCEPT ![q].todo = Remaining(q, row, b.answer),
                             ![q].done = IF Cancelled(b.answer) THEN @ \cup {row} ELSE @]
    BY <1>5, Zenon DEF EnableNext
  <2>3. PICK b \in Borrar(row.slot) :
          req' = [req EXCEPT ![q].todo = Remaining(q, row, b.answer),
                             ![q].done = IF Cancelled(b.answer) THEN @ \cup {row} ELSE @]
    BY <2>2
  <2>4. req'[q].kind = "enable"
    BY <2>1, <2>3, NextCancelled
  <2> QED
    BY <2>4
<1> QED
  BY <1>1, <1>2, <1>3, <1>4, <1>5, RequestStep

\* What a save writes, and where.
LEMMA SavedOverrides ==
  ASSUME Typed, NEW q \in Requests, SaveEnd(q)
  PROVE  LET s == req[q]
             key == <<s.rule, s.date>>
         IN  /\ s \in SaveRequest /\ s.kind = "save" /\ UNCHANGED <<rule, now, run, edited>>
             /\ \/ overrides' = overrides
                \/ /\ overrides' = Saved(key, s.plan)
                   /\ s.timing # rule[s.rule] => key \in strayed'
  BY RequestKinds DEF Typed, SaveEnd

LEMMA SavedKey ==
  ASSUME OverridesTyped, NEW key, NEW plan, overrides' = Saved(key, plan)
  PROVE  /\ DOMAIN overrides' \subseteq DOMAIN overrides \cup {key}
         /\ \A k \in DOMAIN overrides : k # key => k \in DOMAIN overrides' /\ overrides'[k] = overrides[k]
         /\ \A k \in DOMAIN overrides' : k # key => k \in DOMAIN overrides
<1>1. CASE plan = None
  BY <1>1 DEF Saved, Without
<1>2. CASE plan # None
  BY <1>2 DEF Saved
<1> QED
  BY <1>1, <1>2

LEMMA NoStrayOverrideStep ==
  ASSUME Typed, SaveOnItsDay, NoStrayOverride, [Next]_vars
  PROVE  NoStrayOverride'
<1> USE DEF Typed
<1> SUFFICES ASSUME NEW key \in DOMAIN overrides', Day(now') <= key[2],
                    key[2] % 7 # rule'[key[1]].day_of_week
             PROVE  key \in strayed'
  BY DEF NoStrayOverride, Day
<1>1. now \in Int /\ now' \in Int /\ Day(now) \in Int /\ Day(now') \in Int
  BY ClockStep, DayType
<1>2. key \in Rules \X Dates /\ key[1] \in Rules /\ key[2] \in Int
  BY TypedStep, ConstantTypes DEF OverridesTyped
<1>3. Day(now) <= key[2]
  <2>1. Day(now) <= Day(now')
    BY <1>1, ClockStep, DateMonotone, ConstantTypes DEF Day
  <2> QED
    BY <1>1, <1>2, <2>1
<1>4. key \in DOMAIN overrides /\ rule'[key[1]] = rule[key[1]] => key \in strayed
  BY <1>3 DEF NoStrayOverride
<1>5. CASE UNCHANGED <<overrides, rule>>
  BY <1>4, <1>5, HistoriesGrow
<1>6. ASSUME NEW q \in Requests, SaveEnd(q) PROVE key \in strayed'
  <2>1. CASE key \in DOMAIN overrides
    BY <1>4, <1>6, <2>1, SavedOverrides, HistoriesGrow
  <2>2. CASE key \notin DOMAIN overrides
    <3>1. key = <<req[q].rule, req[q].date>>
      BY <1>6, <2>2, SavedOverrides, SavedKey
    <3>2. /\ req[q].kind = "save" /\ rule' = rule
          /\ req[q].timing # rule[req[q].rule] => key \in strayed'
      BY <1>6, <2>2, <3>1, SavedOverrides
    <3>3. req[q].date % 7 = req[q].timing.day_of_week
      BY <3>2 DEF SaveOnItsDay
    <3> QED
      BY <3>1, <3>2, <3>3
  <2> QED
    BY <2>1, <2>2
<1>7. CASE Revert
  BY <1>4, <1>7, HistoriesGrow DEF Revert, Without
<1>8. ASSUME NEW r \in Rules, UpdateRule(r) PROVE key \in strayed'
  <2>1. PICK timing \in Timings \ {rule[r]} :
          /\ rule' = [rule EXCEPT ![r] = timing]
          /\ overrides' = IF timing.day_of_week = rule[r].day_of_week THEN overrides
                          ELSE Without(Discarded(r))
    BY <1>8 DEF UpdateRule
  <2>2. key \in DOMAIN overrides
    BY <2>1 DEF Without
  <2>3. CASE key[1] # r
    BY <1>2, <1>4, <2>1, <2>2, <2>3, HistoriesGrow DEF RulesTyped
  <2>4. CASE key[1] = r
    <3>1. rule'[r] = timing
      BY <2>1 DEF RulesTyped
    <3>2. CASE timing.day_of_week = rule[r].day_of_week
      BY <1>3, <2>2, <2>4, <3>1, <3>2, HistoriesGrow DEF NoStrayOverride
    <3>3. CASE timing.day_of_week # rule[r].day_of_week
      <4>1. key \notin Discarded(r)
        BY <2>1, <3>3 DEF Without
      <4>2. key[2] >= Day(now)
        BY <1>1, <1>2, <1>3
      <4> QED
        BY <2>2, <2>4, <4>1, <4>2 DEF Discarded
    <3> QED
      BY <3>2, <3>3
  <2> QED
    BY <2>3, <2>4
<1> QED
  BY <1>5, <1>6, <1>7, <1>8, OverridesStep

\* A run that goes on unedited was not edited before, nor is its rule now.
LEMMA StillUnedited ==
  ASSUME Typed, [Next]_vars, NEW r \in Rules, run[r] # NoRun, run'[r] # NoRun, r \notin edited'
  PROVE  r \notin edited /\ rule'[r] = rule[r] /\ ~UpdateRule(r)
<1> USE DEF Typed
<1>1. ASSUME NEW s \in Rules, UpdateRule(s) PROVE r \notin edited /\ s # r /\ rule'[r] = rule[r]
  BY <1>1 DEF UpdateRule, RulesTyped
<1>2. ASSUME NEW s \in Rules, Record(s) PROVE r \notin edited /\ rule' = rule
  BY <1>2, RecordedRun DEF Record
<1>3. ~Restart
  BY DEF Restart
<1>4. \/ UNCHANGED <<rule, edited>> \/ Restart
      \/ \E s \in Rules : Record(s) \/ UpdateRule(s)
  BY DEF Next, vars, tables, ghosts, StartRun, CheckDay, Book, SaveBegin, SaveEnd, Revert,
     CancelBegin, CancelAtGym, CancelCommit, EnableBegin, EnableNext, EnableCommit, CloseEarly,
     Clock
<1>5. ~UpdateRule(r)
  BY <1>1
<1> QED
  BY <1>1, <1>2, <1>3, <1>4, <1>5

LEMMA RunOnItsDayStep ==
  ASSUME Typed, RunOnItsDay, [Next]_vars
  PROVE  RunOnItsDay'
<1> USE DEF Typed
<1> SUFFICES ASSUME NEW r \in Rules, run'[r] # NoRun
             PROVE  LET own == run'[r] IN
                    /\ Opens(TheZone, own.rule, own.open)
                    /\ own.base = TargetSlot(TheZone, own.rule, own.open)
                    /\ Day(own.base) = Day(own.open) + own.rule.opens_days_before
                    /\ Day(own.slot) = Day(own.base)
                    /\ ~own.early => own.open - PrewarmLead <= now'
                    /\ own.pc = "done" /\ own.status = "granted" => own.open <= now'
                    /\ own.pc # "done" => own.slot = PlannedSlot(own.plan, own.base)
                    /\ r \notin edited' => own.rule = rule'[r]
  BY DEF RunOnItsDay, Opens, TargetSlot, Day, PlannedSlot
<1>1. now \in Int /\ now' \in Int /\ now <= now'
  BY ClockStep
<1>2. CASE StartRun(r)
  <2>1. /\ run'[r] \in Started /\ run'[r].pc = "planned" /\ run'[r].rule = rule[r]
        /\ run'[r].open = Contested(r)
        /\ run'[r].base = TargetSlot(TheZone, rule[r], run'[r].open)
        /\ run'[r].slot = PlannedSlot(run'[r].plan, run'[r].base)
        /\ ~run'[r].early => run'[r].open - PrewarmLead <= now
    BY <1>2, StartedRun
  <2>2. job[r] # None /\ rule[r] \in Timing /\ now' = now /\ rule' = rule
    BY <1>2, ConstantTypes DEF StartRun, tables, RulesTyped
  <2>3. Opens(TheZone, rule[r], run'[r].open) /\ run'[r].open \in Int
    BY <2>1, <2>2, ContestedOpens
  <2>4. Day(run'[r].base) = Day(run'[r].open) + rule[r].opens_days_before
    BY <2>1, <2>2, <2>3, TargetDay, ConstantTypes DEF Day
  <2>5. Day(run'[r].slot) = Day(run'[r].base)
    BY <2>1, PlannedDay DEF Started
  <2> QED
    BY <2>1, <2>2, <2>3, <2>4, <2>5
<1>3. ASSUME run[r] # NoRun, run'[r].rule = run[r].rule, run'[r].open = run[r].open,
             run'[r].base = run[r].base, run'[r].plan = run[r].plan, run'[r].early = run[r].early
      PROVE  /\ Opens(TheZone, run'[r].rule, run'[r].open)
             /\ run'[r].base = TargetSlot(TheZone, run'[r].rule, run'[r].open)
             /\ Day(run'[r].base) = Day(run'[r].open) + run'[r].rule.opens_days_before
             /\ ~run'[r].early => run'[r].open - PrewarmLead <= now'
             /\ Day(run[r].slot) = Day(run'[r].base)
             /\ run[r].pc # "done" => run[r].slot = PlannedSlot(run'[r].plan, run'[r].base)
             /\ run[r].pc = "done" /\ run[r].status = "granted" => run[r].open <= now'
  <2>1. run[r].open \in Int /\ run[r].open - PrewarmLead \in Int
    BY <1>3, RunKinds, ConstantTypes DEF Started
  <2> QED
    BY <1>1, <1>3, <2>1 DEF RunOnItsDay
<1>4. ASSUME run[r] # NoRun, run'[r].rule = run[r].rule, r \notin edited'
      PROVE  run'[r].rule = rule'[r]
  BY <1>4, StillUnedited DEF RunOnItsDay
<1>5. CASE run'[r] = run[r]
  BY <1>3, <1>4, <1>5
<1>6. CASE CheckDay(r)
  BY <1>3, <1>4, <1>6, CheckedRun, RunKinds DEF Goes
<1>7. CASE Book(r)
  <2>1. /\ run[r] # NoRun /\ run[r].pc = "checked" /\ run'[r].rule = run[r].rule
        /\ run'[r].open = run[r].open /\ run'[r].base = run[r].base /\ run'[r].plan = run[r].plan
        /\ run'[r].early = run[r].early /\ run'[r].pc = "done" /\ now' = now
    BY <1>7, BookedRun, RunKinds DEF Goes, Book
  <2>2. run'[r].slot \in {run[r].slot, run[r].base}
    BY <1>7, BookedRun
  <2>3. run'[r].status = "granted" => run[r].open <= now
    BY <1>7, BookedRun
  <2> QED
    BY <1>3, <1>4, <2>1, <2>2, <2>3
<1> QED
  BY <1>2, <1>5, <1>6, <1>7, RunStep

\* An edit accepted for the day of a run under way comes from before the run's
\* time.
LEMMA EditableBefore ==
  ASSUME Typed, RunOnItsDay, NEW r \in Rules, run[r] # NoRun, ~run[r].early,
         NEW at \in Int,
         at < At(TheZone, Day(run[r].base) - run[r].rule.opens_days_before, run[r].rule.opens_at)
              - (PrewarmLead + Margin)
  PROVE  at + Margin < now
<1>1. /\ Opens(TheZone, run[r].rule, run[r].open)
      /\ Day(run[r].base) = Day(run[r].open) + run[r].rule.opens_days_before
      /\ run[r].open - PrewarmLead <= now
  BY DEF RunOnItsDay
<1>2. run[r].rule \in Timing /\ run[r].open \in Int /\ Day(run[r].open) \in Int
  BY RunKinds, ConstantTypes, DayType DEF Typed, Started
<1>3. run[r].rule.opens_days_before \in Nat
  BY <1>2, TimingType
<1>4. Day(run[r].base) - run[r].rule.opens_days_before = Day(run[r].open)
  BY <1>1, <1>2, <1>3
<1>5. at < run[r].open - (PrewarmLead + Margin)
  BY <1>1, <1>4 DEF Opens, Day
<1> QED
  BY <1>1, <1>2, <1>5, ConstantTypes DEF Typed, RulesTyped

\* What a run read of its day stands: no edit accepted before the margin is
\* written after the run started.
LEMMA OverrideStands ==
  ASSUME Typed, SaveOnItsDay, RunOnItsDay, MaxAnswer <= Margin, [Next]_vars,
         NEW r \in Rules, run[r] # NoRun, run'[r] # NoRun, ~run[r].early, run[r].rule = rule[r],
         rule'[r] = rule[r], NEW day, day = Day(run[r].base),
         \/ <<r, day>> \notin strayed'
         \/ \A q \in Requests : req[q].kind = "save" => req[q].timing = rule[req[q].rule]
  PROVE  LoadOverride(r, day)' = LoadOverride(r, day)
<1> USE DEF Typed
<1>1. CASE UNCHANGED overrides
  BY <1>1 DEF LoadOverride
<1>2. ASSUME NEW q \in Requests, SaveEnd(q)
      PROVE  LoadOverride(r, day)' = LoadOverride(r, day)
  <2> DEFINE s == req[q]
             key == <<s.rule, s.date>>
  <2>1. /\ s \in SaveRequest /\ s.kind = "save"
        /\ \/ overrides' = overrides
           \/ overrides' = Saved(key, s.plan) /\ (s.timing # rule[s.rule] => key \in strayed')
    BY <1>2, SavedOverrides
  <2>2. CASE overrides' = Saved(key, s.plan) /\ (s.timing # rule[s.rule] => key \in strayed')
    <3>1. key # <<r, day>>
      <4>1. SUFFICES ASSUME s.rule = r, s.date = day, s.timing = run[r].rule PROVE FALSE
        BY <2>1, <2>2
      <4>2. /\ s.since < At(TheZone, s.date - s.timing.opens_days_before, s.timing.opens_at)
                         - (PrewarmLead + Margin)
            /\ now <= s.since + MaxAnswer
        BY <2>1 DEF SaveOnItsDay
      <4>3. s.since \in Int /\ now \in Int /\ s.since + Margin < now
        BY <2>1, <4>1, <4>2, EditableBefore, ClockStep DEF SaveRequest
      <4> QED
        BY <4>2, <4>3, ConstantTypes
    <3> QED
      BY <2>2, <3>1, SavedKey DEF LoadOverride
  <2> QED
    BY <1>1, <2>1, <2>2
<1>3. CASE Revert
  <2>1. PICK key \in DOMAIN overrides :
          IsEditable(key[1], key[2], now) /\ overrides' = Without({key})
    BY <1>3 DEF Revert
  <2>2. key # <<r, day>>
    <3>1. SUFFICES ASSUME IsEditable(r, day, now) PROVE FALSE
      BY <2>1
    <3>2. now + Margin < now
      BY <3>1, EditableBefore, ClockStep DEF IsEditable, EditCutoff, WindowOpenFor
    <3> QED
      BY <3>2, ClockStep, ConstantTypes
  <2> QED
    BY <2>1, <2>2 DEF LoadOverride, Without
<1>4. ASSUME NEW s \in Rules, UpdateRule(s)
      PROVE  LoadOverride(r, day)' = LoadOverride(r, day)
  <2>1. PICK timing \in Timings \ {rule[s]} :
          /\ rule' = [rule EXCEPT ![s] = timing]
          /\ overrides' = IF timing.day_of_week = rule[s].day_of_week THEN overrides
                          ELSE Without(Discarded(s))
    BY <1>4 DEF UpdateRule
  <2>2. s # r
    BY <2>1 DEF RulesTyped
  <2> QED
    BY <1>1, <2>1, <2>2 DEF LoadOverride, Without, Discarded
<1> QED
  BY <1>1, <1>2, <1>3, <1>4, OverridesStep

LEMMA PlanStandsStep ==
  ASSUME Typed, SaveOnItsDay, RunOnItsDay, PlanStands, MaxAnswer <= Margin, [Next]_vars
  PROVE  PlanStands'
<1> USE DEF Typed
<1> SUFFICES ASSUME NEW r \in Rules, run'[r] # NoRun, r \notin edited', ~run'[r].early,
                    NEW day, day = Day(run'[r].base), <<r, day>> \notin strayed'
             PROVE  LoadOverride(r, day)' = run'[r].plan
  BY DEF PlanStands, LoadOverride, Day
<1>1. CASE StartRun(r)
  <2>1. run'[r].plan = LoadOverride(r, day)
    BY <1>1, StartedRun
  <2> QED
    BY <1>1, <2>1 DEF StartRun, tables, LoadOverride
<1>2. CASE run'[r] = run[r] \/ CheckDay(r) \/ Book(r)
  <2>1. /\ run[r] # NoRun /\ run'[r].base = run[r].base /\ run'[r].plan = run[r].plan
        /\ run'[r].early = run[r].early
    BY <1>2, CheckedRun, BookedRun, RunKinds DEF Goes
  <2>2. r \notin edited /\ rule'[r] = rule[r]
    BY <2>1, StillUnedited
  <2>3. LoadOverride(r, day) = run[r].plan /\ run[r].rule = rule[r]
    BY <2>1, <2>2, HistoriesGrow DEF PlanStands, RunOnItsDay
  <2>4. LoadOverride(r, day)' = LoadOverride(r, day)
    BY <2>1, <2>2, <2>3, OverrideStands
  <2> QED
    BY <2>1, <2>3, <2>4
<1> QED
  BY <1>1, <1>2, RunStep

-----------------------------------------------------------------------------
(* A day is contested once. *)

\* A booked row, cancelled since or not, was there unless a run adds it now.
LEMMA BookedBefore ==
  ASSUME Typed, SubjectsExist, [Next]_vars,
         NEW row \in rows', row.status \in {"granted", "cancelled"}
  PROVE  \/ \E o \in rows : /\ o.id = row.id /\ o.rule = row.rule /\ o.slot = row.slot
                            /\ o.status \in {"granted", "cancelled"}
         \/ \E s \in Rules : Record(s) /\ row = Added(s) /\ row.status = "granted"
<1> USE DEF Typed
<1>1. CASE UNCHANGED <<rows, notices>>
  BY <1>1
<1>2. ASSUME NEW s \in Rules, Record(s)
      PROVE  row \in rows \/ (row = Added(s) /\ row.status = "granted")
  BY <1>2, RecordFrame
<1>3. ASSUME NEW q \in Requests, CancelCommit(q) \/ EnableCommit(q)
      PROVE  \E o \in rows : /\ o.id = row.id /\ o.rule = row.rule /\ o.slot = row.slot
                             /\ o.status \in {"granted", "cancelled"}
  <2>1. PICK o \in rows : row = Marked(o, Ids(q))
    BY <1>3, CommittedRow
  <2>2. /\ o.id = row.id /\ o.rule = row.rule /\ o.slot = row.slot
        /\ row.status = IF o.id \in Ids(q) THEN "cancelled" ELSE o.status
    BY <2>1, MarkedRow DEF RowsTyped
  <2>3. o.id \in Ids(q) => o.status \in {"granted", "cancelled"}
    <3>1. SUFFICES ASSUME o.id \in Ids(q) PROVE o.status \in {"granted", "cancelled"}
      OBVIOUS
    <3>2. PICK taken \in Taken(q) : taken.id = o.id
      BY <1>3, <3>1, CommittedRow
    <3> QED
      BY <3>2, SubjectsTyped, SubjectRow
  <2> QED
    BY <2>2, <2>3
<1> QED
  BY <1>1, <1>2, <1>3, RowsStep

\* What is kept of a rule was kept, or its run adds it; an edit keeps nothing.
LEMMA KeptBefore ==
  ASSUME Typed, SubjectsExist, [Next]_vars, NEW r \in Rules, NEW row \in Kept(r)'
  PROVE  /\ \/ \E o \in Kept(r) : o.id = row.id /\ o.slot = row.slot
            \/ /\ Record(r) /\ row = Added(r) /\ row.id = NewId /\ row.slot = run[r].slot
               /\ run[r].pc = "done" /\ run[r].status = "granted" /\ run[r].rule = rule[r]
         /\ rule'[r] = rule[r] /\ ~UpdateRule(r)
<1> USE DEF Typed
<1>1. /\ row \in rows' /\ row.rule = r /\ row.status \in {"granted", "cancelled"}
      /\ row.id \notin reopened'
  BY DEF Kept
<1>2. ~UpdateRule(r)
  <2>1. UpdateRule(r) => rows' = rows /\ reopened' = reopened \cup {o.id : o \in {p \in rows : p.rule = r}}
    BY DEF UpdateRule
  <2> QED
    BY <1>1, <2>1
<1>3. rule'[r] = rule[r]
  <2>1. ASSUME NEW s \in Rules, UpdateRule(s) PROVE rule'[r] = rule[r]
    BY <1>2, <2>1 DEF UpdateRule, RulesTyped
  <2> QED
    BY <2>1, OverridesStep DEF SaveEnd, Revert
<1>4. ASSUME NEW s \in Rules, Record(s), row = Added(s), row.status = "granted"
      PROVE  /\ Record(r) /\ row = Added(r) /\ row.id = NewId /\ row.slot = run[r].slot
             /\ run[r].pc = "done" /\ run[r].status = "granted" /\ run[r].rule = rule[r]
  <2>1. s = r /\ row.id = NewId /\ row.slot = run[r].slot /\ run[r].status = "granted"
    BY <1>1, <1>4, RecordedRows
  <2>2. run[r].pc = "done"
    BY <1>4, <2>1, RecordedRun
  <2>3. run[r].rule = rule[r]
    BY <1>1, <1>4, <2>1 DEF Record
  <2> QED
    BY <1>4, <2>1, <2>2, <2>3
<1>5. ASSUME NEW o \in rows, o.id = row.id, o.rule = row.rule, o.slot = row.slot,
             o.status \in {"granted", "cancelled"}
      PROVE  o \in Kept(r)
  BY <1>1, <1>5, HistoriesGrow DEF Kept
<1> QED
  BY <1>1, <1>2, <1>3, <1>4, <1>5, BookedBefore

LEMMA KeptIsPastStep ==
  ASSUME Typed, SubjectsExist, RunOnItsDay, KeptIsPast, [Next]_vars
  PROVE  KeptIsPast'
<1> USE DEF Typed
<1> SUFFICES ASSUME NEW r \in Rules, NEW row \in Kept(r)'
             PROVE  \E open \in Int :
                      /\ Opens(TheZone, rule[r], open) /\ open <= now
                      /\ Day(row.slot) = Day(open) + rule[r].opens_days_before
  <2>1. now \in Int /\ now' \in Int /\ now <= now'
    BY ClockStep
  <2>2. \A open \in Int : open <= now => open <= now'
    BY <2>1
  <2> QED
    BY <2>2, KeptBefore DEF KeptIsPast, Opens, Day
<1>1. CASE \E o \in Kept(r) : o.id = row.id /\ o.slot = row.slot
  BY <1>1 DEF KeptIsPast
<1>2. CASE /\ Record(r) /\ row = Added(r) /\ row.slot = run[r].slot
           /\ run[r].pc = "done" /\ run[r].status = "granted" /\ run[r].rule = rule[r]
  <2>1. run[r] # NoRun /\ run[r].open \in Int
    BY <1>2, RunKinds DEF Started
  <2>2. /\ Opens(TheZone, rule[r], run[r].open) /\ run[r].open <= now
        /\ Day(run[r].slot) = Day(run[r].open) + rule[r].opens_days_before
    BY <1>2, <2>1 DEF RunOnItsDay
  <2> QED
    BY <1>2, <2>1, <2>2
<1> QED
  BY <1>1, <1>2, KeptBefore

LEMMA JobStep ==
  ASSUME RulesTyped, [Next]_vars, NEW r \in Rules
  PROVE  \/ job'[r] = job[r] \/ job'[r] = None
         \/ Record(r) /\ job'[r] = NextJob(r)
         \/ Restart /\ job'[r] = Next1(r, now)
         \/ UpdateRule(r)
<1>1. ASSUME NEW s \in Rules, StartRun(s) \/ Record(s) \/ UpdateRule(s)
      PROVE  \/ job'[r] = job[r] \/ job'[r] = None
             \/ Record(r) /\ job'[r] = NextJob(r)
             \/ UpdateRule(r)
  BY <1>1 DEF RulesTyped, StartRun, Record, UpdateRule
<1>2. CASE Restart
  BY <1>2 DEF Restart
<1>3. CASE UNCHANGED job
  BY <1>3
<1>4. \/ \E s \in Rules : StartRun(s) \/ Record(s) \/ UpdateRule(s)
      \/ Restart \/ UNCHANGED job
  BY DEF Next, vars, CheckDay, Book, SaveBegin, SaveEnd, Revert, CancelBegin, CancelAtGym,
     CancelCommit, EnableBegin, EnableNext, EnableCommit, CloseEarly, Clock
<1> QED
  BY <1>1, <1>2, <1>3, <1>4

LEMMA KeptBeforeJobStep ==
  ASSUME Typed, SubjectsExist, RunOnItsDay, KeptIsPast, KeptBeforeJob, KeptBeforeRun, [Next]_vars
  PROVE  KeptBeforeJob'
<1> USE DEF Typed
<1> SUFFICES ASSUME NEW r \in Rules, Kept(r)' # {}, job'[r] # None
             PROVE  /\ Opens(TheZone, rule[r], job'[r])
                    /\ \A row \in Kept(r)' :
                         Day(row.slot) < Day(job'[r]) + rule[r].opens_days_before
  BY KeptBefore DEF KeptBeforeJob, Opens, Day
<1>1. \A row \in Kept(r)' : \E open \in Int :
        /\ Opens(TheZone, rule[r], open) /\ open <= now
        /\ Day(row.slot) = Day(open) + rule[r].opens_days_before
  <2>1. ASSUME NEW row \in Kept(r)', NEW o \in Kept(r), o.slot = row.slot
        PROVE  \E open \in Int :
                 /\ Opens(TheZone, rule[r], open) /\ open <= now
                 /\ Day(row.slot) = Day(open) + rule[r].opens_days_before
    BY <2>1 DEF KeptIsPast
  <2>2. ASSUME run[r].pc = "done", run[r].status = "granted", run[r].rule = rule[r]
        PROVE  /\ Opens(TheZone, rule[r], run[r].open) /\ run[r].open <= now /\ run[r].open \in Int
               /\ Day(run[r].slot) = Day(run[r].open) + rule[r].opens_days_before
    BY <2>2, RunKinds DEF RunOnItsDay, Started
  <2> QED
    BY <2>1, <2>2, KeptBefore
<1>2. rule[r] \in Timing /\ now \in Int /\ rule[r].opens_days_before \in Int
  BY ConstantTypes, TimingType DEF RulesTyped
<1>3. ASSUME NEW next \in Int, job'[r] = next, now < next, Opens(TheZone, rule[r], next)
      PROVE  /\ Opens(TheZone, rule[r], job'[r])
             /\ \A row \in Kept(r)' : Day(row.slot) < Day(job'[r]) + rule[r].opens_days_before
  <2>1. ASSUME NEW open \in Int, Opens(TheZone, rule[r], open), open <= now
        PROVE  /\ Day(open) + rule[r].opens_days_before < Day(next) + rule[r].opens_days_before
    <3>1. open < next
      BY <1>2, <1>3, <2>1
    <3>2. Day(open) < Day(next) /\ Day(open) \in Int /\ Day(next) \in Int
      BY <1>2, <1>3, <2>1, <3>1, LaterOpening, ConstantTypes, DayType DEF Day
    <3> QED
      BY <1>2, <3>2
  <2> QED
    BY <1>1, <1>3, <2>1
<1>4. CASE job'[r] = job[r] /\ ~Record(r)
  <2>1. \A row \in Kept(r)' : \E o \in Kept(r) : o.slot = row.slot
    BY <1>4, KeptBefore
  <2> QED
    BY <1>4, <2>1 DEF KeptBeforeJob
<1>5. CASE Record(r) /\ job'[r] = NextJob(r)
  <2>1. run[r].rule = rule[r]
    <3>1. PICK row \in Kept(r)' : TRUE
      OBVIOUS
    <3>2. run[r] # NoRun
      BY <1>5, RecordedRun DEF NoRun
    <3> QED
      BY <3>2, KeptBefore DEF KeptBeforeRun
  <2>2. NextJob(r) = Next1(r, now)
    BY <2>1 DEF NextJob, Next1
  <2> QED
    BY <1>2, <1>3, <1>5, <2>2, Next1Type
<1>6. CASE Restart /\ job'[r] = Next1(r, now)
  BY <1>2, <1>3, <1>6, Next1Type
<1>7. Record(r) => job'[r] = NextJob(r)
  BY DEF Record, RulesTyped
<1> QED
  BY <1>4, <1>5, <1>6, <1>7, JobStep, KeptBefore

LEMMA KeptBeforeRunStep ==
  ASSUME Typed, SubjectsExist, RunOnItsDay, KeptBeforeJob, KeptBeforeRun, [Next]_vars
  PROVE  KeptBeforeRun'
<1> USE DEF Typed
<1> SUFFICES ASSUME NEW r \in Rules, Kept(r)' # {}, run'[r] # NoRun
             PROVE  /\ run'[r].rule = rule[r]
                    /\ \A row \in Kept(r)' : Day(row.slot) < Day(run'[r].base)
  BY KeptBefore DEF KeptBeforeRun, Day
<1>1. ~Record(r)
  BY RecordedRun
<1>2. \A row \in Kept(r)' : \E o \in Kept(r) : o.slot = row.slot
  BY <1>1, KeptBefore
<1>3. CASE StartRun(r)
  <2>1. job[r] # None /\ job[r] \in Int /\ rule[r] \in Timing
    BY <1>3, ConstantTypes DEF StartRun, RulesTyped
  <2>2. /\ Opens(TheZone, rule[r], job[r])
        /\ \A row \in Kept(r) : Day(row.slot) < Day(job[r]) + rule[r].opens_days_before
    BY <1>2, <2>1 DEF KeptBeforeJob
  <2>3. run'[r].rule = rule[r] /\ run'[r].base = TargetSlot(TheZone, rule[r], job[r])
    BY <1>3, <2>1, <2>2, StartedRun, ContestedOpens
  <2>4. Day(run'[r].base) = Day(job[r]) + rule[r].opens_days_before
    BY <2>1, <2>2, <2>3, TargetDay, ConstantTypes DEF Day
  <2> QED
    BY <1>2, <2>2, <2>3, <2>4
<1>4. CASE run'[r] = run[r] \/ CheckDay(r) \/ Book(r)
  <2>1. run[r] # NoRun /\ run'[r].base = run[r].base /\ run'[r].rule = run[r].rule
    BY <1>4, CheckedRun, BookedRun, RunKinds DEF Goes
  <2> QED
    BY <1>2, <2>1 DEF KeptBeforeRun
<1> QED
  BY <1>3, <1>4, RunStep

LEMMA KeptApartStep ==
  ASSUME Typed, SubjectsExist, RunOnItsDay, KeptBeforeRun, KeptApart, [Next]_vars
  PROVE  KeptApart'
<1> USE DEF Typed
<1> SUFFICES ASSUME NEW r \in Rules, NEW c \in Kept(r)', NEW g \in rows', g.rule = r,
                    g.status \in {"granted", "cancelled"}, c.id < g.id
             PROVE  Day(c.slot) < Day(g.slot)
  BY DEF KeptApart, Day
<1>1. CASE \E o \in Kept(r) : o.id = c.id /\ o.slot = c.slot
  <2>1. PICK o \in Kept(r) : o.id = c.id /\ o.slot = c.slot
    BY <1>1
  <2>2. CASE \E p \in rows : /\ p.id = g.id /\ p.rule = g.rule /\ p.slot = g.slot
                             /\ p.status \in {"granted", "cancelled"}
    BY <2>1, <2>2 DEF KeptApart
  <2>3. ASSUME NEW s \in Rules, Record(s), g = Added(s), g.status = "granted"
        PROVE  Day(c.slot) < Day(g.slot)
    <3>1. s = r /\ g.slot = run[r].slot /\ run[r] # NoRun
      BY <2>3, RecordedRows, RecordedRun, RunKinds
    <3>2. Day(run[r].slot) = Day(run[r].base)
      BY <3>1 DEF RunOnItsDay
    <3> QED
      BY <2>1, <3>1, <3>2 DEF KeptBeforeRun
  <2> QED
    BY <2>2, <2>3, BookedBefore
<1>2. CASE Record(r) /\ c = Added(r)
  <2>1. c.id = NewId /\ NewId \in Nat /\ (g = Added(r) \/ (g.id \in Nat /\ g.id < NewId))
    BY <1>2, RecordedRows
  <2> QED
    BY <1>2, <2>1
<1> QED
  BY <1>1, <1>2, KeptBefore

-----------------------------------------------------------------------------
(* Admin priority. *)

\* The class an override and its rule contest on the day of a run is the run's.
LEMMA ProtectionHolds ==
  ASSUME IInv, PlanStands
  PROVE  ProtectionMatchesRun
<1> USE DEF IInv
<1> SUFFICES ASSUME NEW r \in Rules, run[r].pc \in {"planned", "checked"}, ~run[r].early,
                    r \notin edited, <<r, Day(run[r].base)>> \notin strayed
             PROVE  IF Covered(run[r].slot) \/ (run[r].plan # None /\ run[r].plan.skip)
                    THEN ContestedBy(r, Day(run[r].base)) = {}
                    ELSE {run[r].slot, run[r].base} \subseteq Protected(Day(run[r].base))
  BY DEF ProtectionMatchesRun
<1> DEFINE day == Day(run[r].base)
<1>1. run[r] # NoRun /\ run[r] \in Started /\ run[r].pc # "done"
  BY RunKinds DEF Typed
<1>2. LoadOverride(r, day) = run[r].plan
  BY <1>1 DEF PlanStands
<1>3. /\ rule[r] \in Timing /\ run[r].rule = rule[r] /\ Opens(TheZone, rule[r], run[r].open)
      /\ run[r].base = TargetSlot(TheZone, rule[r], run[r].open)
      /\ run[r].slot = PlannedSlot(run[r].plan, run[r].base)
  BY <1>1, ConstantTypes DEF RunOnItsDay, Typed, RulesTyped
<1>4. day % 7 = rule[r].day_of_week /\ run[r].base = EffectiveSlot(day, rule[r].class_time)
  BY <1>1, <1>3, TargetDay, ConstantTypes DEF Started, Day, EffectiveSlot
<1>5. ContestedBy(r, day) =
        IF Covered(run[r].slot) \/ (run[r].plan # None /\ run[r].plan.skip) THEN {}
        ELSE {run[r].slot, run[r].base}
  BY <1>2, <1>3, <1>4 DEF ContestedBy
<1>6. ContestedBy(r, day) \subseteq Protected(day)
  BY <1>4 DEF Protected
<1> QED
  BY <1>5, <1>6

\* The time held back by a request at an instant.
LEMMA HoldBounds ==
  ASSUME NEW anchor \in Int, NEW at \in Int
  PROVE  /\ Hold(anchor, at) \in 0..Delay
         /\ anchor <= at => at + Hold(anchor, at) >= anchor + Delay
         /\ anchor + Delay <= at => Hold(anchor, at) = 0
         /\ at < anchor => Hold(anchor, at) = Delay
         /\ anchor <= at => at + Hold(anchor, at) = at \/ at + Hold(anchor, at) = anchor + Delay
  BY PriorityAssumption DEF Hold

\* The instants and holds of the three requests of a walk, one after the other.
LEMMA WalkOf ==
  ASSUME NEW estimate \in Int \cup {None}, NEW sighted \in Int, NEW gaps \in [1..2 -> {0, 1}]
  PROVE  \E anchor \in Int, a1, a2 \in Int :
           LET walk == Holds(estimate, sighted, gaps) IN
           /\ anchor = IF estimate = None THEN sighted ELSE estimate
           /\ walk[0] = [held |-> Hold(anchor, sighted), sent |-> sighted + Hold(anchor, sighted)]
           /\ a1 = walk[0].sent + gaps[1]
           /\ walk[1] = [held |-> Hold(anchor, a1), sent |-> a1 + Hold(anchor, a1)]
           /\ a2 = walk[1].sent + gaps[2]
           /\ walk[2] = [held |-> Hold(anchor, a2), sent |-> a2 + Hold(anchor, a2)]
<1> DEFINE anchor == IF estimate = None THEN sighted ELSE estimate
           first  == [held |-> Hold(anchor, sighted), sent |-> sighted + Hold(anchor, sighted)]
           a1     == first.sent + gaps[1]
           second == [held |-> Hold(anchor, a1), sent |-> a1 + Hold(anchor, a1)]
           a2     == second.sent + gaps[2]
           third  == [held |-> Hold(anchor, a2), sent |-> a2 + Hold(anchor, a2)]
           Walks(walk) == walk = [n \in 0..Len(gaps) |->
             LET at == IF n = 0 THEN sighted ELSE walk[n - 1].sent + gaps[n]
             IN  [held |-> Hold(anchor, at), sent |-> at + Hold(anchor, at)]]
           g == [n \in 0..2 |-> IF n = 0 THEN first ELSE IF n = 1 THEN second ELSE third]
<1>1. anchor \in Int /\ gaps[1] \in Int /\ gaps[2] \in Int /\ Len(gaps) = 2
  OBVIOUS
<1>2. anchor = IF estimate = None THEN sighted ELSE estimate
  OBVIOUS
<1> HIDE DEF anchor, first, second, third, a1, a2
<1>3. ASSUME NEW at \in Int PROVE at + Hold(anchor, at) \in Int
  <2>1. Hold(anchor, at) \in Int
    BY <1>1, HoldBounds, PriorityAssumption
  <2> QED
    BY <2>1
<1>4. first.sent \in Int /\ a1 \in Int
  <2>1. first.sent \in Int
    BY <1>3 DEF first
  <2> QED
    BY <1>1, <2>1 DEF a1
<1>5. second.sent \in Int /\ a2 \in Int
  <2>1. second.sent \in Int
    BY <1>4, <1>3 DEF second
  <2> QED
    BY <1>1, <2>1 DEF a2
<1>6. Walks(g)
  <2> DEFINE at(n) == IF n = 0 THEN sighted ELSE g[n - 1].sent + gaps[n]
  <2>1. at(0) = sighted /\ at(1) = a1 /\ at(2) = a2
    BY DEF a1, a2
  <2>2. \A n \in 0..2 : g[n] = [held |-> Hold(anchor, at(n)), sent |-> at(n) + Hold(anchor, at(n))]
    <3>1. \A n \in 0..2 : n = 0 \/ n = 1 \/ n = 2
      OBVIOUS
    <3>2. g[0] = first /\ g[1] = second /\ g[2] = third
      OBVIOUS
    <3> HIDE DEF at, g
    <3> QED
      BY <2>1, <3>1, <3>2 DEF first, second, third
  <2> QED
    BY <1>1, <2>2
<1>7. Holds(estimate, sighted, gaps) = CHOOSE walk : Walks(walk)
  BY DEF Holds
<1>8. PICK walk : walk = Holds(estimate, sighted, gaps) /\ Walks(walk)
  BY <1>6, <1>7
<1>9. walk[0] = first
  BY <1>1, <1>8 DEF first
<1>10. walk[1] = second
  BY <1>1, <1>8, <1>9 DEF second, a1
<1>11. walk[2] = third
  BY <1>1, <1>8, <1>10 DEF third, a2
<1>12. /\ walk[0] = [held |-> Hold(anchor, sighted), sent |-> sighted + Hold(anchor, sighted)]
       /\ a1 = walk[0].sent + gaps[1]
       /\ walk[1] = [held |-> Hold(anchor, a1), sent |-> a1 + Hold(anchor, a1)]
       /\ a2 = walk[1].sent + gaps[2]
       /\ walk[2] = [held |-> Hold(anchor, a2), sent |-> a2 + Hold(anchor, a2)]
  <2>1. a1 = walk[0].sent + gaps[1]
    BY <1>9 DEF a1
  <2>2. a2 = walk[1].sent + gaps[2]
    BY <1>10 DEF a2
  <2> QED
    BY <1>9, <1>10, <1>11, <2>1, <2>2 DEF first, second, third
<1> QED
  BY <1>1, <1>2, <1>4, <1>5, <1>8, <1>12

\* A walk waits for the administrators' time once.
LEMMA WaitsOnce ==
  ASSUME NEW published \in Int, NEW sighted \in Int, published <= sighted
  PROVE  GivesWay(published, sighted)
<1> SUFFICES ASSUME NEW estimate \in {None} \cup published - 1..published + 3 * Delay,
                    NEW gaps \in [1..2 -> {0, 1}]
             PROVE  LET walk == Holds(estimate, sighted, gaps)
                        held == walk[0].held + walk[1].held + walk[2].held
                        early == estimate # None /\ estimate < published
                        ahead == estimate # None /\ estimate > sighted
                    IN  /\ ~early => walk[0].sent >= published + Delay
                        /\ ~ahead => held <= Delay
                        /\ held <= 3 * Delay
  BY DEF GivesWay
<1> DEFINE walk == Holds(estimate, sighted, gaps)
<1>1. estimate \in Int \cup {None}
  BY PriorityAssumption
<1>2. PICK anchor \in Int, a1 \in Int, a2 \in Int :
           /\ anchor = IF estimate = None THEN sighted ELSE estimate
           /\ walk[0] = [held |-> Hold(anchor, sighted), sent |-> sighted + Hold(anchor, sighted)]
           /\ a1 = walk[0].sent + gaps[1]
           /\ walk[1] = [held |-> Hold(anchor, a1), sent |-> a1 + Hold(anchor, a1)]
           /\ a2 = walk[1].sent + gaps[2]
           /\ walk[2] = [held |-> Hold(anchor, a2), sent |-> a2 + Hold(anchor, a2)]
  BY <1>1, WalkOf
<1> HIDE DEF walk
<1> DEFINE h0 == Hold(anchor, sighted)
           h1 == Hold(anchor, a1)
           h2 == Hold(anchor, a2)
<1>3. /\ walk[0].held = h0 /\ walk[1].held = h1 /\ walk[2].held = h2
      /\ walk[0].sent = sighted + h0 /\ a1 = sighted + h0 + gaps[1] /\ a2 = a1 + h1 + gaps[2]
  BY <1>2
<1>4. gaps[1] \in {0, 1} /\ gaps[2] \in {0, 1} /\ Delay \in Nat
  BY PriorityAssumption
<1>5. /\ h0 \in 0..Delay /\ h1 \in 0..Delay /\ h2 \in 0..Delay
  BY HoldBounds
<1>6. anchor <= sighted => sighted + h0 >= anchor + Delay /\ (h0 = 0 \/ sighted + h0 = anchor + Delay)
  BY <1>4, <1>5, HoldBounds
<1>7. anchor <= sighted => h1 = 0 /\ h2 = 0
  <2>1. anchor + Delay <= a1 => h1 = 0
    BY HoldBounds
  <2>2. anchor + Delay <= a2 => h2 = 0
    BY HoldBounds
  <2> HIDE DEF h0, h1, h2
  <2> QED
    BY <1>3, <1>4, <1>5, <1>6, <2>1, <2>2
<1>8. sighted < anchor => h0 = Delay
  BY HoldBounds
<1> HIDE DEF h0, h1, h2
<1>9. CASE estimate = None
  <2>1. anchor = sighted
    BY <1>2, <1>9
  <2> QED
    BY <1>3, <1>4, <1>5, <1>6, <1>7, <1>9, <2>1 DEF walk
<1>10. CASE estimate # None
  <2>1. anchor = estimate
    BY <1>2, <1>10
  <2> QED
    BY <1>3, <1>4, <1>5, <1>6, <1>7, <1>8, <1>10, <2>1 DEF walk
<1> QED
  BY <1>9, <1>10

LEMMA HoldsGiveWayHolds == Typed => HoldsGiveWay
<1> SUFFICES ASSUME Typed, NEW r \in Rules, run[r] # NoRun, now >= run[r].open
             PROVE  GivesWay(run[r].open, now)
  BY DEF HoldsGiveWay
<1>1. run[r].open \in Int /\ now \in Int
  BY RunKinds, ConstantTypes DEF Typed, RulesTyped, Started
<1> QED
  BY <1>1, WaitsOnce

-----------------------------------------------------------------------------
(* The theorems. *)

LEMMA InitIInv == Init => IInv
<1> SUFFICES ASSUME Init PROVE IInv
  OBVIOUS
<1>1. Typed
  BY TypedInit
<1>2. /\ \A q \in Requests : req[q] = Idle /\ req[q].kind = "idle"
      /\ \A r \in Rules : run[r] = NoRun
      /\ windows = {} /\ DOMAIN overrides = {} /\ enrolled = {row.slot : row \in rows}
      /\ notices = [i \in {row.id : row \in rows} |-> 0]
  BY DEF Init, Idle
<1>3. \A row \in rows : row.status = "granted" /\ row.rule = None
  BY DEF Init
<1>4. \A q \in Requests : Taken(q) = {} /\ Subjects(q) = {}
  BY <1>2 DEF Taken, Subjects
<1>5. CancelledRows = {}
  BY <1>3, <1>4 DEF CancelledRows
<1>6. \A r \in Rules : Kept(r) = {}
  BY <1>3, ConstantTypes DEF Kept
<1>7. ListIsComplete /\ SaveOnItsDay
  BY <1>2 DEF ListIsComplete, SaveOnItsDay
<1>8. VacationClears /\ WindowsWhole /\ LookedClear
  BY <1>2 DEF VacationClears, OpenWindows, WindowsWhole, LookedClear, NoRun
<1>9. SubjectsExist /\ TakenOnce /\ CancelledIsGone
  BY <1>4, <1>5 DEF SubjectsExist, TakenOnce, CancelledIsGone
<1>10. GrantedIsKept
  BY <1>2 DEF GrantedIsKept, Lost, NoRun
<1>11. NoticePerCancel
  BY <1>2, <1>3 DEF NoticePerCancel
<1>12. NoStrayOverride /\ RunOnItsDay
  BY <1>2 DEF NoStrayOverride, RunOnItsDay
<1>13. KeptIsPast /\ KeptBeforeJob /\ KeptBeforeRun /\ KeptApart
  BY <1>6 DEF KeptIsPast, KeptBeforeJob, KeptBeforeRun, KeptApart
<1> QED
  BY <1>1, <1>7, <1>8, <1>9, <1>10, <1>11, <1>12, <1>13 DEF IInv

LEMMA StepIInv == IInv /\ [Next]_vars => IInv'
<1> SUFFICES ASSUME IInv, [Next]_vars PROVE IInv'
  OBVIOUS
<1> USE DEF IInv
<1>1. Typed'
  BY TypedStep
<1>2. ListIsComplete' /\ WindowsWhole' /\ LookedClear' /\ VacationClears'
  BY ListIsCompleteStep, WindowsWholeStep, LookedClearStep, VacationClearsStep
<1>3. SubjectsExist' /\ GrantedIsKept' /\ CancelledIsGone'
  BY SubjectsExistStep, GrantedIsKeptStep, CancelledIsGoneStep
<1>4. TakenOnce' /\ NoticePerCancel'
  BY TakenOnceStep, NoticePerCancelStep
<1>5. SaveOnItsDay' /\ NoStrayOverride' /\ RunOnItsDay'
  BY SaveOnItsDayStep, NoStrayOverrideStep, RunOnItsDayStep
<1>6. KeptIsPast' /\ KeptBeforeJob' /\ KeptBeforeRun' /\ KeptApart'
  BY KeptIsPastStep, KeptBeforeJobStep, KeptBeforeRunStep, KeptApartStep
<1> QED
  BY <1>1, <1>2, <1>3, <1>4, <1>5, <1>6

\* The invariant the properties below rest on.
THEOREM SpecIInv == Spec => []IInv
<1> QED
  BY InitIInv, StepIInv, PTL DEF Spec

LEMMA TypeOKHolds == Typed => TypeOK
<1> SUFFICES ASSUME Typed PROVE TypeOK
  OBVIOUS
<1> USE DEF Typed
<1>1. Cardinality({row.id : row \in rows}) = Cardinality(rows)
  <2>1. Cardinality(rows) \in Nat
    BY FS_CardinalityType DEF RowsTyped
  <2>2. Cardinality(1..Cardinality(rows)) = Cardinality(rows)
    BY <2>1, FS_Interval
  <2> QED
    BY <2>2 DEF RowsTyped
<1>2. \A r \in Rules : run[r].pc \in {"idle", "planned", "checked", "done"}
  BY DEF RunsTyped, Started, NoRun
<1>3. \A q \in Requests : req[q].kind \in {"idle", "save", "cancel", "enable"}
  BY RequestKinds
<1>4. DOMAIN notices = {row.id : row \in rows}
  BY DEF RowsTyped
<1>5. \A key \in DOMAIN overrides :
        overrides[key] \in Plan /\ overrides[key].skip # Moves(overrides[key])
  BY NoneAssumption DEF OverridesTyped, WellPlanned
<1> QED
  BY <1>1, <1>2, <1>3, <1>4, <1>5 DEF TypeOK, RulesTyped, RowsTyped, OverridesTyped, WindowsTyped

LEMMA RowsMatchGymHolds == GrantedIsKept /\ CancelledIsGone => RowsMatchGym
<1> SUFFICES ASSUME GrantedIsKept, CancelledIsGone PROVE RowsMatchGym
  OBVIOUS
<1>1. \A row \in rows : row.status = "cancelled" /\ row.slot \in enrolled
        => row.slot \in rebooked \cup DoubtfulSlots
  BY DEF CancelledIsGone, CancelledRows, DoubtfulSlots
<1>2. {row.slot : row \in CancelledRows} \subseteq CancelledSlots
  BY DEF CancelledRows, CancelledSlots, Taken
<1>3. \A row \in rows : row.status = "granted" /\ row.slot \notin enrolled
        => row.slot \in CancelledSlots \cup DoubtfulSlots
  BY <1>2 DEF GrantedIsKept, Lost
<1> QED
  BY <1>1, <1>3 DEF RowsMatchGym, DoubtfulSlots

LEMMA CancelStaysHolds == Typed /\ KeptApart => CancelStays
<1> SUFFICES ASSUME Typed, KeptApart, NEW c \in rows, NEW g \in rows,
                    c.status = "cancelled", g.status = "granted", c.id < g.id,
                    c.rule = g.rule, c.rule # None, Day(c.slot) = Day(g.slot),
                    c.id \notin reopened
             PROVE  FALSE
  BY DEF CancelStays
<1>1. c \in Row /\ g \in Row
  BY DEF Typed, RowsTyped
<1>2. c.rule \in Rules /\ c \in Kept(c.rule)
  BY <1>1 DEF Kept, Row
<1>3. Day(c.slot) < Day(g.slot)
  BY <1>2 DEF KeptApart
<1> QED
  BY <1>1, <1>3, DayType DEF Row

\* The tables tell what happened, whatever cancellations, vacations, edits,
\* runs and restarts overlap: rows and gym agree, a cancellation is announced
\* once, an override has a day.  cancel_booking, enable, override_save.
THEOREM SpecRecordsTrue == Spec => []RecordsTrue
<1>1. IInv => RecordsTrue
  BY TypeOKHolds, RowsMatchGymHolds DEF IInv, RecordsTrue
<1> QED
  BY <1>1, SpecIInv, PTL

\* No booking still to come stands inside an open vacation, unless the gym
\* refused to cancel it or its run had looked before the vacation was enabled.
\* vacation.enable, find_covering_window, _book_inner.
THEOREM SpecVacationClears == Spec => []VacationClears
<1>1. IInv => VacationClears
  BY DEF IInv
<1> QED
  BY <1>1, SpecIInv, PTL

\* A rule does not book a class anew that was cancelled.  _schedule_next.
THEOREM SpecCancelStays == Spec => []CancelStays
<1>1. IInv => CancelStays
  BY CancelStaysHolds DEF IInv
<1> QED
  BY <1>1, SpecIInv, PTL

\* If requests are answered within the margin of the edit cutoff, what a run
\* read of its day stands until it ends.  _assert_writable, book_rule.
THEOREM SpecPlanStands ==
  ASSUME MaxAnswer <= Margin
  PROVE  Spec => []PlanStands
<1>1. Init => PlanStands
  BY DEF Init, PlanStands
<1>2. IInv /\ PlanStands /\ [Next]_vars => PlanStands'
  BY PlanStandsStep DEF IInv
<1> QED
  BY <1>1, <1>2, SpecIInv, PTL DEF Spec

\* If requests are answered within that margin, no save accepted touches a day
\* whose run has read its plan.  override_save, book_rule.
THEOREM SpecAcceptedIsHonoured ==
  ASSUME MaxAnswer <= Margin
  PROVE  Spec => AcceptedIsHonoured
<1>1. ASSUME IInv, [Next]_vars, NEW r \in Rules, run[r] # NoRun, run'[r] # NoRun, rule' = rule,
             run[r].rule = rule[r], ~run[r].early,
             \A q \in Requests : req[q].kind = "save" => req[q].timing = rule[req[q].rule]
      PROVE  LoadOverride(r, Day(run[r].base)) = LoadOverride(r, Day(run[r].base))'
  <2> DEFINE day == Day(run[r].base)
  <2>1. run'[r].base = run[r].base
    BY <1>1, RunStep, CheckedRun, BookedRun DEF IInv, Typed, Goes, StartRun
  <2>2. PICK d : d = Day(run[r].base) /\ d = Day(run'[r].base)
    BY <2>1
  <2>3. LoadOverride(r, d)' = LoadOverride(r, d)
    BY <1>1, <2>2, OverrideStands DEF IInv
  <2> QED
    BY <2>2, <2>3 DEF LoadOverride, Day
<1>2. IInv /\ [Next]_vars =>
        \A r \in Rules :
          (/\ run[r] # NoRun /\ run'[r] # NoRun /\ rule' = rule /\ run[r].rule = rule[r]
           /\ ~run[r].early
           /\ \A q \in Requests : req[q].kind = "save" => req[q].timing = rule[req[q].rule]) =>
            LoadOverride(r, Day(run[r].base)) = LoadOverride(r, Day(run[r].base))'
  BY <1>1
<1> QED
  BY <1>2, SpecIInv, PTL DEF Spec, AcceptedIsHonoured

\* If requests are answered within the margin of the edit cutoff, a rival's run
\* holds back for what the administrator's run contests, long enough and no
\* longer than promised.  priority._contested_by, _hold_for_priority.
THEOREM SpecPriorityWorks ==
  ASSUME MaxAnswer <= Margin
  PROVE  Spec => []PriorityWorks
<1>1. IInv /\ PlanStands => PriorityWorks
  BY ProtectionHolds, HoldsGiveWayHolds DEF IInv, PriorityWorks
<1> QED
  BY <1>1, SpecIInv, SpecPlanStands, PTL

-----------------------------------------------------------------------------
(* The openings from here on. *)

\* A set of naturals has a least member.
LEMMA LeastNatural ==
  ASSUME NEW S \in SUBSET Nat, S # {}
  PROVE  \E i \in S : \A j \in S : i <= j
<1>1. IsWellFoundedOn(OpToRel(<, Nat), Nat)
  BY NatLessThanWellFounded
<1>2. PICK i \in S : \A j \in S : ~(<<j, i>> \in OpToRel(<, Nat))
  BY <1>1, WFMin
<1>3. ASSUME NEW j \in S PROVE i <= j
  <2>1. <<j, i>> \in Nat \X Nat /\ <<j, i>>[1] = j /\ <<j, i>>[2] = i
    OBVIOUS
  <2>2. ~(j < i)
    BY <1>2, <2>1 DEF OpToRel
  <2> QED
    BY <2>2
<1> QED
  BY <1>3

\* A set of integers that begins somewhere has a least member.
LEMMA LeastInstant ==
  ASSUME NEW S \in SUBSET Int, S # {}, NEW low \in Int, \A i \in S : low <= i
  PROVE  \E i \in S : \A j \in S : i <= j
<1> DEFINE T == {k \in Nat : low + k \in S}
<1>1. \A i \in S : i - low \in T
  OBVIOUS
<1>2. T # {}
  BY <1>1
<1>3. PICK k \in T : \A m \in T : k <= m
  <2> HIDE DEF T
  <2>1. T \in SUBSET Nat
    BY DEF T
  <2> QED
    BY <1>2, <2>1, LeastNatural
<1>4. low + k \in S /\ k \in Nat
  OBVIOUS
<1>5. ASSUME NEW j \in S PROVE low + k <= j
  <2>1. j - low \in T /\ j - low \in Int
    BY <1>1
  <2>2. k <= j - low
    BY <1>3, <2>1
  <2> QED
    BY <1>4, <2>1, <2>2
<1> QED
  BY <1>4, <1>5

\* Two days of the same weekday are whole weeks apart.
LEMMA WeeksApart ==
  ASSUME NEW d \in Int, NEW e \in Int, d % 7 = e % 7
  PROVE  \E week \in Int : e = d + 7 * week
<1>1. d = 7 * (d \div 7) + (d % 7) /\ d \div 7 \in Int /\ d % 7 \in 0..6
  BY Weekday
<1>2. e = 7 * (e \div 7) + (e % 7) /\ e \div 7 \in Int
  BY Weekday
<1>3. e = d + 7 * (e \div 7 - d \div 7) /\ e \div 7 - d \div 7 \in Int
  BY <1>1, <1>2
<1> QED
  BY <1>3

\* The first opening after an instant is within a week.
LEMMA NextWithinWeek ==
  ASSUME NEW z \in Zone, ChangesWithinDay(z), NEW t \in Timing, NEW i \in Int
  PROVE  LocalDate(z, NextWindowOpen(z, t, i)) <= LocalDate(z, i) + 7
<1> DEFINE today == LocalDate(z, i)
           next  == today + ((TriggerDay(t) - today) % 7)
<1>1. t.opens_at \in 0..DayLen - 1 /\ t.opens_at \in Int /\ TriggerDay(t) \in 0..6
  BY TimingType, DayLenAssumption
<1>2. today \in Int
  BY LocalDateType
<1> HIDE DEF today
<1>3. next \in Int /\ next + 7 \in Int /\ today <= next /\ next <= today + 6
  BY <1>1, <1>2
<1> HIDE DEF next
<1>4. LocalDate(z, At(z, next, t.opens_at)) = next /\ LocalDate(z, At(z, next + 7, t.opens_at)) = next + 7
  BY <1>1, <1>3, DateOfAt
<1>5. At(z, next, t.opens_at) \in Int
  BY <1>1, <1>3, AtType
<1>6. At(z, next, t.opens_at) <= i => next <= today
  BY <1>4, <1>5, DateMonotone DEF today
<1>7. NextWindowOpen(z, t, i) = IF At(z, next, t.opens_at) > i THEN At(z, next, t.opens_at)
                                ELSE At(z, next + 7, t.opens_at)
  BY Zenon DEF NextWindowOpen, NextOccurrence, next, today
<1>8. CASE At(z, next, t.opens_at) > i
  BY <1>2, <1>3, <1>4, <1>7, <1>8 DEF today
<1>9. CASE ~(At(z, next, t.opens_at) > i)
  <2>1. next <= today
    BY <1>5, <1>6, <1>9
  <2>2. NextWindowOpen(z, t, i) = At(z, next + 7, t.opens_at)
    BY <1>7, <1>9
  <2> QED
    BY <1>2, <1>3, <1>4, <2>1, <2>2 DEF today
<1> QED
  BY <1>8, <1>9

\* Between an instant and the first opening after it there is none.
LEMMA FirstOpening ==
  ASSUME NEW z \in Zone, ChangesWithinDay(z), NEW t \in Timing, NEW i \in Int,
         NEW open \in Int, Opens(z, t, open), i < open
  PROVE  NextWindowOpen(z, t, i) <= open
<1> DEFINE today == LocalDate(z, i)
           next  == today + ((TriggerDay(t) - today) % 7)
           e     == LocalDate(z, open)
           first == NextWindowOpen(z, t, i)
           f     == LocalDate(z, first)
<1>1. first \in Int /\ i < first /\ Opens(z, t, first) /\ f <= today + 7
  BY NextOpens, NextWithinWeek
<1>2. today \in Int /\ e \in Int /\ f \in Int /\ today <= e /\ e % 7 = f % 7
  BY <1>1, LocalDateType, DateMonotone DEF Opens
<1>3. SUFFICES ASSUME open < first PROVE FALSE
  BY <1>1
<1>4. e < f
  BY <1>1, <1>3, LaterOpening
<1> HIDE DEF today, e, f
<1>5. e = today /\ f = today + 7
  <2>1. PICK week \in Int : f = e + 7 * week
    BY <1>2, WeeksApart
  <2> QED
    BY <1>1, <1>2, <1>4, <2>1
<1>6. TriggerDay(t) \in 0..6 /\ e % 7 = TriggerDay(t) /\ open = At(z, e, t.opens_at)
  BY TimingType DEF Opens, e
<1>7. next = today
  <2>1. PICK week \in Int : today = 7 * week + TriggerDay(t)
    BY <1>2, <1>5, <1>6, Weekday
  <2>2. TriggerDay(t) - today = 7 * (0 - week) + 0 /\ 0 - week \in Int
    BY <1>2, <1>6, <2>1
  <2>3. (TriggerDay(t) - today) % 7 = 0
    BY <1>2, <1>6, <2>2, WeekdayUnique
  <2> QED
    BY <1>2, <2>3
<1> HIDE DEF next
<1>8. NextWindowOpen(z, t, i) = IF At(z, next, t.opens_at) > i THEN At(z, next, t.opens_at)
                                ELSE At(z, next + 7, t.opens_at)
  BY Zenon DEF NextWindowOpen, NextOccurrence, next, today
<1> QED
  BY <1>3, <1>5, <1>6, <1>7, <1>8

\* After an opening, the next is that of the same weekday a week later.
LEMMA OpeningAfter ==
  ASSUME NEW z \in Zone, NEW t \in Timing, NEW open \in Int, Opens(z, t, open)
  PROVE  NextWindowOpen(z, t, open) = At(z, LocalDate(z, open) + 7, t.opens_at)
<1> DEFINE today == LocalDate(z, open)
           next  == today + ((TriggerDay(t) - today) % 7)
<1>1. today \in Int /\ TriggerDay(t) \in 0..6
  BY LocalDateType, TimingType
<1>2. today % 7 = TriggerDay(t) /\ open = At(z, today, t.opens_at)
  BY DEF Opens
<1> HIDE DEF today
<1>3. next = today
  <2>1. PICK week \in Int : today = 7 * week + TriggerDay(t)
    BY <1>1, <1>2, Weekday
  <2>2. TriggerDay(t) - today = 7 * (0 - week) + 0 /\ 0 - week \in Int
    BY <1>1, <2>1
  <2>3. (TriggerDay(t) - today) % 7 = 0
    BY <1>1, <2>2, WeekdayUnique
  <2> QED
    BY <1>1, <2>3
<1> HIDE DEF next
<1>4. NextWindowOpen(z, t, open) = IF At(z, next, t.opens_at) > open THEN At(z, next, t.opens_at)
                                   ELSE At(z, next + 7, t.opens_at)
  BY Zenon DEF NextWindowOpen, NextOccurrence, next, today
<1> QED
  BY <1>2, <1>3, <1>4 DEF today

\* The openings found each from the one before are those of the weeks in a row.
OpeningNo(z, t, i, n) == At(z, LocalDate(z, NextWindowOpen(z, t, i)) + 7 * (n - 1), t.opens_at)

\* A row of openings, each found from the one before.
Rolled(z, t, i, limit, f) ==
  f = [n \in 1..limit |-> NextWindowOpen(z, t, IF n = 1 THEN i ELSE f[n - 1])]

LEMMA OpeningNoOpens ==
  ASSUME NEW z \in Zone, ChangesWithinDay(z), NEW t \in Timing, NEW i \in Int, NEW n \in Nat, n >= 1
  PROVE  LET open == OpeningNo(z, t, i, n) IN
         /\ open \in Int /\ Opens(z, t, open) /\ i < open
         /\ LocalDate(z, open) = LocalDate(z, NextWindowOpen(z, t, i)) + 7 * (n - 1)
         /\ NextWindowOpen(z, t, open) = OpeningNo(z, t, i, n + 1)
         /\ n = 1 => open = NextWindowOpen(z, t, i)
<1> DEFINE first == NextWindowOpen(z, t, i)
           d == LocalDate(z, first)
           e == d + 7 * (n - 1)
           open == OpeningNo(z, t, i, n)
<1>1. first \in Int /\ i < first /\ Opens(z, t, first)
  BY NextOpens
<1>2. d \in Int /\ d % 7 = TriggerDay(t) /\ first = At(z, d, t.opens_at)
  BY <1>1, LocalDateType DEF Opens
<1>3. t.opens_at \in 0..DayLen - 1 /\ t.opens_at \in Int /\ TriggerDay(t) \in 0..6
  BY TimingType, DayLenAssumption
<1>4. open = At(z, e, t.opens_at)
  BY DEF OpeningNo
<1> HIDE DEF first, d, open
<1>5. e \in Int /\ e % 7 = TriggerDay(t) /\ d <= e /\ (n = 1 => e = d)
  <2>1. PICK week \in Int : d = 7 * week + TriggerDay(t)
    BY <1>2, <1>3, Weekday
  <2>2. e = 7 * (week + n - 1) + TriggerDay(t) /\ week + n - 1 \in Int
    BY <1>2, <1>3, <2>1
  <2>3. e \in Int /\ d <= e /\ (n = 1 => e = d)
    BY <1>2
  <2> HIDE DEF e
  <2>4. e % 7 = TriggerDay(t)
    BY <1>3, <2>2, <2>3, WeekdayUnique
  <2> QED
    BY <2>3, <2>4
<1>6. d + 7 * ((n + 1) - 1) = e + 7
  BY <1>2
<1> HIDE DEF e
<1>7. open \in Int /\ LocalDate(z, open) = e
  BY <1>3, <1>4, <1>5, AtType, DateOfAt
<1>8. Opens(z, t, open)
  BY <1>4, <1>5, <1>7 DEF Opens
<1>9. i < open
  <2>1. open < first => e < d
    BY <1>1, <1>7, <1>8, LaterOpening DEF d
  <2> QED
    BY <1>1, <1>2, <1>5, <1>7, <2>1
<1>10. NextWindowOpen(z, t, open) = OpeningNo(z, t, i, n + 1)
  <2>1. NextWindowOpen(z, t, open) = At(z, e + 7, t.opens_at)
    BY <1>7, <1>8, OpeningAfter
  <2>2. OpeningNo(z, t, i, n + 1) = At(z, d + 7 * ((n + 1) - 1), t.opens_at)
    BY DEF OpeningNo, d, first
  <2> QED
    BY <1>6, <2>1, <2>2
<1>11. n = 1 => open = first
  BY <1>2, <1>4, <1>5
<1> QED
  BY <1>7, <1>8, <1>9, <1>10, <1>11 DEF open, e, d, first

LEMMA RolledIs ==
  ASSUME NEW z \in Zone, ChangesWithinDay(z), NEW t \in Timing, NEW i \in Int,
         NEW limit \in Nat, NEW f
  PROVE  Rolled(z, t, i, limit, f) <=> f = [n \in 1..limit |-> OpeningNo(z, t, i, n)]
<1> DEFINE g == [n \in 1..limit |-> OpeningNo(z, t, i, n)]
<1>1. ASSUME NEW n \in 1..limit, n # 1
      PROVE  n - 1 \in 1..limit /\ n - 1 \in Nat /\ n - 1 >= 1 /\ (n - 1) + 1 = n
  BY <1>1
<1>2. ASSUME NEW n \in 1..limit
      PROVE  OpeningNo(z, t, i, n) = NextWindowOpen(z, t, IF n = 1 THEN i ELSE OpeningNo(z, t, i, n - 1))
  <2>1. CASE n = 1
    BY <2>1, OpeningNoOpens
  <2>2. CASE n # 1
    <3>1. NextWindowOpen(z, t, OpeningNo(z, t, i, n - 1)) = OpeningNo(z, t, i, (n - 1) + 1)
      BY <1>1, <2>2, OpeningNoOpens
    <3> QED
      BY <1>1, <2>2, <3>1
  <2> QED
    BY <2>1, <2>2
<1>3. Rolled(z, t, i, limit, g)
  <2>1. \A n \in 1..limit : (IF n = 1 THEN i ELSE g[n - 1]) = IF n = 1 THEN i ELSE OpeningNo(z, t, i, n - 1)
    BY <1>1
  <2>2. \A n \in 1..limit :
          OpeningNo(z, t, i, n) = NextWindowOpen(z, t, IF n = 1 THEN i ELSE g[n - 1])
    BY <1>2, <2>1
  <2> QED
    BY <2>2, Zenon DEF Rolled
<1>4. ASSUME Rolled(z, t, i, limit, f) PROVE f = g
  <2>1. /\ f = [n \in 1..limit |-> f[n]]
        /\ \A n \in 1..limit : f[n] = NextWindowOpen(z, t, IF n = 1 THEN i ELSE f[n - 1])
    BY <1>4, Zenon DEF Rolled
  <2> DEFINE Bad == {n \in 1..limit : f[n] # OpeningNo(z, t, i, n)}
  <2>2. Bad = {}
    <3> SUFFICES ASSUME Bad # {} PROVE FALSE
      OBVIOUS
    <3>1. PICK n \in Bad : \A m \in Bad : n <= m
      <4>1. Bad \in SUBSET Nat
        OBVIOUS
      <4> HIDE DEF Bad
      <4> QED
        BY <4>1, LeastNatural
    <3>2. n \in 1..limit /\ f[n] # OpeningNo(z, t, i, n)
      OBVIOUS
    <3>3. n # 1 => f[n - 1] = OpeningNo(z, t, i, n - 1)
      <4>1. n # 1 => n - 1 \in 1..limit /\ n - 1 < n
        BY <3>2
      <4> QED
        BY <3>1, <4>1
    <3>4. (IF n = 1 THEN i ELSE f[n - 1]) = IF n = 1 THEN i ELSE OpeningNo(z, t, i, n - 1)
      BY <3>3
    <3> QED
      BY <1>2, <2>1, <3>2, <3>4
  <2>3. \A n \in 1..limit : f[n] = OpeningNo(z, t, i, n)
    BY <2>2
  <2> QED
    BY <2>1, <2>3, Zenon
<1> QED
  BY <1>3, <1>4

\* The openings the list rolls over.
LEMMA OpeningsAre ==
  ASSUME Typed, NEW r \in Rules
  PROVE  OpeningsOf(r) = {OpeningNo(TheZone, rule[r], now, n) : n \in 1..MaxPerRule}
<1>1. rule[r] \in Timing /\ now \in Int /\ MaxPerRule \in Nat /\ TheZone \in Zone /\ ChangesWithinDay(TheZone)
  BY ConstantTypes, UpcomingAssumption DEF Typed, RulesTyped
<1> DEFINE g == [n \in 1..MaxPerRule |-> OpeningNo(TheZone, rule[r], now, n)]
           Rolls(f) == f = [n \in 1..MaxPerRule |->
                              NextWindowOpen(TheZone, rule[r], IF n = 1 THEN now ELSE f[n - 1])]
<1>2. ASSUME NEW f PROVE Rolls(f) <=> f = g
  <2>1. Rolled(TheZone, rule[r], now, MaxPerRule, f) <=> f = g
    BY <1>1, RolledIs
  <2> QED
    BY <2>1, Zenon DEF Rolled
<1> HIDE DEF Rolls
<1>3. (CHOOSE f : Rolls(f)) = g
  BY <1>2
<1>4. OpeningsOf(r) = {(CHOOSE f : Rolls(f))[n] : n \in 1..MaxPerRule}
  BY DEF OpeningsOf, Rolls
<1> QED
  BY <1>3, <1>4

\* The opening the countdown finds for a rule, if it finds one.
LEMMA NextBookableIs ==
  ASSUME Typed, NEW r \in Rules
  PROVE  LET free == {n \in 1..MaxRoll :
                        ~Covered(TargetSlot(TheZone, rule[r], OpeningNo(TheZone, rule[r], now, n)))}
         IN  NextBookable(r) = {OpeningNo(TheZone, rule[r], now, n) :
                                  n \in {m \in free : \A k \in free : m <= k}}
<1>1. rule[r] \in Timing /\ now \in Int /\ MaxRoll \in Nat /\ TheZone \in Zone /\ ChangesWithinDay(TheZone)
  BY ConstantTypes, UpcomingAssumption DEF Typed, RulesTyped
<1> DEFINE g == [n \in 1..MaxRoll |-> OpeningNo(TheZone, rule[r], now, n)]
           Rolls(f) == f = [n \in 1..MaxRoll |->
                              NextWindowOpen(TheZone, rule[r], IF n = 1 THEN now ELSE f[n - 1])]
           FreeOf(f) == {n \in 1..MaxRoll : ~Covered(TargetSlot(TheZone, rule[r], f[n]))}
           ClosestOf(f) == {f[n] : n \in {m \in FreeOf(f) : \A k \in FreeOf(f) : m <= k}}
<1>2. ASSUME NEW f PROVE Rolls(f) <=> f = g
  <2>1. Rolled(TheZone, rule[r], now, MaxRoll, f) <=> f = g
    BY <1>1, RolledIs
  <2> QED
    BY <2>1, Zenon DEF Rolled
<1>3. NextBookable(r) = ClosestOf(CHOOSE f : Rolls(f))
  BY DEF NextBookable
<1> HIDE DEF Rolls
<1>4. (CHOOSE f : Rolls(f)) = g
  BY <1>2
<1>5. NextBookable(r) = ClosestOf(g)
  BY <1>3, <1>4
<1>6. FreeOf(g) = {n \in 1..MaxRoll :
                        ~Covered(TargetSlot(TheZone, rule[r], OpeningNo(TheZone, rule[r], now, n)))}
  OBVIOUS
<1> QED
  BY <1>5, <1>6

\* A clock change is no longer than a day.
LEMMA ShiftBound ==
  ASSUME NEW z \in Zone, ChangesWithinDay(z)
  PROVE  /\ z.before \in Int /\ z.after \in Int /\ z.change \in Int
         /\ z.after - z.before <= DayLen /\ z.before - z.after <= DayLen
<1> DEFINE first == z.change + IF z.before < z.after THEN z.before ELSE z.after
           last == IF z.before < z.after THEN z.change + 2 * z.after - z.before
                   ELSE z.change + z.before
<1>1. z.change \in Int /\ z.before \in Int /\ z.after \in Int /\ DayLen \in Nat
  BY DayLenAssumption DEF Zone
<1>2. first \in Int /\ last \in Int
  BY <1>1
<1>3. \A u \in first..last - 1 : DayOf(u) = DayOf(first)
  BY Zenon DEF ChangesWithinDay
<1>4. /\ z.before < z.after => last - first = 2 * (z.after - z.before)
      /\ ~(z.before < z.after) => last - first = z.before - z.after
  BY <1>1
<1> HIDE DEF first, last
<1>5. last - first <= DayLen
  <2>1. CASE first < last
    <3>1. DayOf(last - 1) = DayOf(first) /\ last - 1 \in Int
      BY <1>2, <1>3, <2>1
    <3>2. /\ DayOf(first) * DayLen \in Int /\ DayOf(first) * DayLen <= first
          /\ last - 1 < DayOf(first) * DayLen + DayLen
      BY <1>2, <3>1, DayBounds
    <3> QED
      BY <1>1, <1>2, <3>2
  <2> QED
    BY <1>1, <1>2, <2>1
<1> QED
  BY <1>1, <1>2, <1>4, <1>5

\* Days of 24 hours and days of the calendar differ by one at most.
LEMMA DaysLater ==
  ASSUME NEW z \in Zone, ChangesWithinDay(z), NEW i \in Int, NEW days \in Nat
  PROVE  /\ i + days * DayLen \in Int /\ i <= i + days * DayLen
         /\ LocalDate(z, i) + days <= LocalDate(z, i + days * DayLen) + 1
         /\ LocalDate(z, i + days * DayLen) <= LocalDate(z, i) + days + 1
<1> DEFINE span == days * DayLen
           v == ToLocal(z, i)
           w == ToLocal(z, i + span)
           d == LocalDate(z, i)
           e == LocalDate(z, i + span)
<1>1. DayLen \in Nat /\ span \in Nat
  BY DayLenAssumption
<1>2. span = days * DayLen
  OBVIOUS
<1> HIDE DEF span
<1>3. /\ z.before \in Int /\ z.after \in Int /\ z.change \in Int
      /\ z.after - z.before <= DayLen /\ z.before - z.after <= DayLen
  BY ShiftBound
<1>4. v \in Int /\ w \in Int /\ v + span <= w + DayLen /\ w <= v + span + DayLen
  BY <1>1, <1>3 DEF ToLocal
<1>5. d = DayOf(v) /\ e = DayOf(w)
  BY DEF LocalDate
<1> HIDE DEF v, w, d, e
<1>6. /\ d \in Int /\ d * DayLen \in Int /\ d * DayLen <= v /\ v < d * DayLen + DayLen
      /\ e \in Int /\ e * DayLen \in Int /\ e * DayLen <= w /\ w < e * DayLen + DayLen
  BY <1>4, <1>5, DayBounds
<1>7. (d + days) * DayLen = d * DayLen + span /\ d + days \in Int
  BY <1>1, <1>2, <1>6
<1>8. d + days <= e + 1
  <2>1. e + 1 \in Int /\ (e + 1) * DayLen = e * DayLen + DayLen
    BY <1>1, <1>6
  <2>2. e + 1 < d + days => (e + 1) * DayLen + DayLen <= (d + days) * DayLen
    BY <1>7, <2>1, LaterDays
  <2> QED
    BY <1>1, <1>4, <1>6, <1>7, <2>1, <2>2
<1>9. e <= d + days + 1
  <2>1. d + days + 1 \in Int /\ (d + days + 1) * DayLen = (d + days) * DayLen + DayLen
    BY <1>1, <1>7
  <2>2. d + days + 1 < e => (d + days + 1) * DayLen + DayLen <= e * DayLen
    BY <1>6, <2>1, LaterDays
  <2> QED
    BY <1>1, <1>4, <1>6, <1>7, <2>1, <2>2
<1>10. i + span \in Int /\ i <= i + span
  BY <1>1
<1> QED
  BY <1>2, <1>8, <1>9, <1>10 DEF d, e

\* Below a day's end, and from its start on, it is that day.
LEMMA DayHolds ==
  ASSUME NEW z \in Zone, ChangesWithinDay(z), NEW i \in Int, NEW d \in Int
  PROVE  WithinDay(z, d, i) <=> LocalDate(z, i) = d
<1>1. 0 \in 0..DayLen - 1
  BY DayLenAssumption
<1>2. d + 1 \in Int /\ At(z, d, 0) \in Int /\ At(z, d + 1, 0) \in Int /\ LocalDate(z, i) \in Int
  BY AtType, LocalDateType
<1>3. LocalDate(z, At(z, d, 0)) = d /\ LocalDate(z, At(z, d + 1, 0)) = d + 1
  BY <1>1, <1>2, DateOfAt
<1>4. At(z, d, 0) <= i => d <= LocalDate(z, i)
  BY <1>2, <1>3, DateMonotone
<1>5. At(z, d + 1, 0) <= i => d + 1 <= LocalDate(z, i)
  BY <1>2, <1>3, DateMonotone
<1>6. i < At(z, d, 0) => LocalDate(z, i) < d
  <2> SUFFICES ASSUME i < At(z, d, 0) PROVE LocalDate(z, i) < d
    OBVIOUS
  <2> QED
    BY <1>1, FirstInstant
<1>7. i < At(z, d + 1, 0) => LocalDate(z, i) < d + 1
  BY <1>1, <1>2, FirstInstant
<1> QED
  BY <1>2, <1>4, <1>5, <1>6, <1>7 DEF WithinDay

-----------------------------------------------------------------------------
(* What is near enough for the list. *)

\* The slots of runs and of the rows they left are on the list, or past.
RunsNear == \A r \in Rules : run[r] # NoRun => run[r].slot <= ListEnd /\ run[r].base <= ListEnd

RowsNear == \A row \in rows : row.rule # None => row.slot <= ListEnd

LEMMA ListEnds ==
  /\ RulesTyped => ListEnd \in Int
  /\ RulesTyped /\ [Next]_vars => ListEnd' \in Int /\ ListEnd <= ListEnd'
<1>1. ListDays * DayLen \in Int
  BY UpcomingAssumption, DayLenAssumption
<1>2. RulesTyped => now \in Int
  BY ConstantTypes DEF RulesTyped
<1> QED
  BY <1>1, <1>2, ClockStep DEF ListEnd

\* A slot on a day that the list reaches is on the list.
LEMMA OnTheList ==
  ASSUME ListReaches, RulesTyped, NEW t \in Timings, NEW slot \in Int,
         Day(slot) <= Day(now) + 7 + t.opens_days_before
  PROVE  slot <= ListEnd
<1>1. now \in Int /\ TheZone \in Zone /\ ChangesWithinDay(TheZone) /\ ListDays \in Nat /\ t \in Timing
  BY ConstantTypes, UpcomingAssumption DEF RulesTyped
<1>2. t.opens_days_before \in Nat /\ t.opens_days_before + 9 <= ListDays
  BY <1>1, TimingType DEF ListReaches
<1>3. ListEnd \in Int /\ Day(now) + ListDays <= Day(ListEnd) + 1
  BY <1>1, DaysLater DEF ListEnd, Day
<1>4. ListEnd < slot => Day(ListEnd) <= Day(slot)
  BY <1>1, <1>3, DateMonotone DEF Day
<1>5. Day(now) \in Int /\ Day(slot) \in Int /\ Day(ListEnd) \in Int
  BY <1>1, <1>3, DayType
<1> QED
  BY <1>1, <1>2, <1>3, <1>4, <1>5

\* A run in view of its opening contests the first opening from here on.
LEMMA ContestedIsNext ==
  ASSUME ListReaches, RulesTyped, NEW r \in Rules, StartRun(r), now < Contested(r)
  PROVE  Contested(r) = Next1(r, now)
<1> DEFINE c == Contested(r)
           n == Next1(r, now)
           z == TheZone
           t == rule[r]
<1>1. /\ now \in Int /\ now - 1 \in Int /\ t \in Timing /\ z \in Zone /\ ChangesWithinDay(z)
      /\ DayLen \in Nat /\ PrewarmLead \in Nat /\ PrewarmLead <= DayLen
  BY ConstantTypes, DayLenAssumption DEF RulesTyped, ListReaches
<1>2. job[r] # None /\ job[r] \in Int /\ now >= job[r] - PrewarmLead
  BY DEF StartRun, RulesTyped
<1>3. c \in Int /\ Opens(z, t, c)
  BY <1>2, ContestedOpens
<1>4. n \in Int /\ now < n /\ Opens(z, t, n)
  BY <1>1, Next1Type
<1>5. n <= c
  BY <1>1, <1>3, FirstOpening DEF Next1
<1>6. c = job[r] \/ c = Next1(r, now - 1)
  BY DEF Contested
<1>7. CASE c = job[r]
  <2>1. SUFFICES ASSUME n < c PROVE FALSE
    BY <1>3, <1>4, <1>5
  <2> DEFINE d == LocalDate(z, n)
             e == LocalDate(z, c)
  <2>2. d < e /\ d \in Int /\ e \in Int /\ d % 7 = e % 7
    BY <1>1, <1>3, <1>4, <2>1, LaterOpening, LocalDateType DEF Opens
  <2>3. d + 7 <= e
    <3> HIDE DEF d, e
    <3>1. PICK week \in Int : e = d + 7 * week
      BY <2>2, WeeksApart
    <3> QED
      BY <2>2, <3>1
  <2>4. c <= n + 1 * DayLen
    <3> HIDE DEF c, n
    <3> QED
      BY <1>1, <1>2, <1>3, <1>4, <1>7
  <2>5. n + 1 * DayLen \in Int /\ LocalDate(z, n + 1 * DayLen) <= d + 1 + 1
    BY <1>1, <1>4, DaysLater
  <2>6. e <= LocalDate(z, n + 1 * DayLen)
    BY <1>1, <1>3, <2>4, <2>5, DateMonotone
  <2>7. LocalDate(z, n + 1 * DayLen) \in Int
    BY <1>1, <2>5, LocalDateType
  <2> HIDE DEF d, e
  <2> QED
    BY <2>2, <2>3, <2>5, <2>6, <2>7
<1>8. CASE c = Next1(r, now - 1)
  <2>1. now - 1 < n
    BY <1>1, <1>4
  <2>2. c <= n
    BY <1>1, <1>4, <1>8, <2>1, FirstOpening DEF Next1
  <2> QED
    BY <1>3, <1>4, <1>5, <2>2
<1> QED
  BY <1>6, <1>7, <1>8

\* The class a run sets out for is on the list.
LEMMA StartedNear ==
  ASSUME ListReaches, RulesTyped, OverridesTyped, RunsTyped, NEW r \in Rules, StartRun(r)
  PROVE  run'[r].slot <= ListEnd /\ run'[r].base <= ListEnd
<1> DEFINE own == run'[r]
           t == rule[r]
<1>1. /\ own \in Started /\ own.open = Contested(r) /\ own.base = TargetSlot(TheZone, t, own.open)
      /\ own.plan = LoadOverride(r, Day(own.base)) /\ own.slot = PlannedSlot(own.plan, own.base)
  BY StartedRun
<1>2. /\ now \in Int /\ t \in Timing /\ t \in Timings /\ own.open \in Int /\ own.base \in Int
      /\ own.plan \in Plan \cup {None} /\ TheZone \in Zone /\ ChangesWithinDay(TheZone)
  BY <1>1, ConstantTypes DEF RulesTyped, Started
<1>3. Opens(TheZone, t, own.open)
  BY <1>1, ContestedOpens DEF StartRun
<1> HIDE DEF own
<1>4. Day(own.open) \in Int /\ Day(now) \in Int /\ t.opens_days_before \in Nat
  BY <1>2, DayType, TimingType
<1>5. Day(own.open) <= Day(now) + 7
  <2>1. CASE now < own.open
    <3>1. own.open = NextWindowOpen(TheZone, t, now)
      BY <1>1, <2>1, ContestedIsNext DEF Next1
    <3> QED
      BY <1>2, <3>1, NextWithinWeek DEF Day
  <2>2. CASE own.open <= now
    <3>1. Day(own.open) <= Day(now)
      BY <1>2, <2>2, DateMonotone DEF Day
    <3> QED
      BY <1>4, <3>1
  <2> QED
    BY <1>2, <2>1, <2>2
<1>6. Day(own.base) = Day(own.open) + t.opens_days_before
  BY <1>1, <1>2, <1>3, TargetDay DEF Day
<1>7. Day(own.base) <= Day(now) + 7 + t.opens_days_before
  BY <1>4, <1>5, <1>6
<1>8. own.slot \in Int /\ Day(own.slot) = Day(own.base)
  BY <1>1, <1>2, PlannedDay
<1>9. own.base <= ListEnd
  BY <1>2, <1>7, OnTheList
<1>10. own.slot <= ListEnd
  BY <1>2, <1>7, <1>8, OnTheList
<1> QED
  BY <1>9, <1>10 DEF own

LEMMA RunsNearStep ==
  ASSUME ListReaches, Typed, RunsNear, [Next]_vars
  PROVE  RunsNear'
<1> USE DEF Typed
<1> SUFFICES ASSUME NEW r \in Rules, run'[r] # NoRun
             PROVE  run'[r].slot <= ListEnd' /\ run'[r].base <= ListEnd'
  BY DEF RunsNear
<1>1. ListEnd \in Int /\ ListEnd' \in Int /\ ListEnd <= ListEnd'
  BY ListEnds
<1>2. run'[r].slot \in Int /\ run'[r].base \in Int
  <2>1. RunsTyped'
    BY TypedStep
  <2> QED
    BY <2>1 DEF RunsTyped, Started
<1>3. run'[r].slot <= ListEnd /\ run'[r].base <= ListEnd
  <2>1. CASE StartRun(r)
    BY <2>1, StartedNear
  <2>2. CASE CheckDay(r)
    BY <2>2, CheckedRun, RunKinds DEF Goes, RunsNear
  <2>3. CASE Book(r)
    <3>1. run[r] # NoRun /\ run'[r].base = run[r].base /\ run'[r].slot \in {run[r].slot, run[r].base}
      BY <2>3, BookedRun, RunKinds DEF Goes
    <3> QED
      BY <3>1 DEF RunsNear
  <2>4. CASE run'[r] = run[r]
    BY <2>4 DEF RunsNear
  <2> QED
    BY <2>1, <2>2, <2>3, <2>4, RunStep
<1> QED
  BY <1>1, <1>2, <1>3

LEMMA RowsNearStep ==
  ASSUME Typed, RunsNear, RowsNear, [Next]_vars
  PROVE  RowsNear'
<1> USE DEF Typed
<1> SUFFICES ASSUME NEW row \in rows', row.rule # None
             PROVE  row.slot <= ListEnd'
  BY DEF RowsNear
<1>1. ListEnd \in Int /\ ListEnd' \in Int /\ ListEnd <= ListEnd'
  BY ListEnds
<1>2. row.slot \in Int
  <2>1. RowsTyped'
    BY TypedStep
  <2> QED
    BY <2>1 DEF RowsTyped, Row
<1>3. row.slot <= ListEnd
  <2>1. CASE UNCHANGED <<rows, notices>>
    BY <2>1 DEF RowsNear
  <2>2. ASSUME NEW r \in Rules, Record(r) PROVE row.slot <= ListEnd
    <3>1. run[r] # NoRun
      BY <2>2, RecordedRun, RunKinds
    <3>2. row \in rows \/ row.slot = run[r].slot
      BY <2>2, RecordedRows
    <3> QED
      BY <3>1, <3>2 DEF RowsNear, RunsNear
  <2>3. ASSUME NEW q \in Requests, CancelCommit(q) \/ EnableCommit(q) PROVE row.slot <= ListEnd
    <3>1. PICK o \in rows : row = Marked(o, Ids(q))
      BY <2>3, CommittedRows
    <3>2. row.slot = o.slot /\ row.rule = o.rule
      BY <3>1, MarkedRow DEF RowsTyped
    <3> QED
      BY <3>2 DEF RowsNear
  <2> QED
    BY <2>1, <2>2, <2>3, RowsStep
<1> QED
  BY <1>1, <1>2, <1>3

LEMMA NearInvariance == ASSUME ListReaches PROVE Spec => [](RunsNear /\ RowsNear)
<1>1. Init => RunsNear /\ RowsNear
  BY DEF Init, RunsNear, RowsNear
<1>2. IInv /\ RunsNear /\ RowsNear /\ [Next]_vars => RunsNear' /\ RowsNear'
  BY RunsNearStep, RowsNearStep DEF IInv
<1> QED
  BY <1>1, <1>2, SpecIInv, PTL DEF Spec

-----------------------------------------------------------------------------
(* What the list and the countdown foretell. *)

\* The openings of a rule from here on, in order.
Opening(r, n) == OpeningNo(TheZone, rule[r], now, n)

Base(r, open) == TargetSlot(TheZone, rule[r], open)

LEMMA OpeningOf ==
  ASSUME Typed, NEW r \in Rules, NEW n \in Nat, n >= 1
  PROVE  /\ Opening(r, n) \in Int /\ now < Opening(r, n)
         /\ Opens(TheZone, rule[r], Opening(r, n))
         /\ Day(Opening(r, n)) = Day(Next1(r, now)) + 7 * (n - 1)
         /\ n = 1 => Opening(r, n) = Next1(r, now)
<1>1. rule[r] \in Timing /\ now \in Int /\ TheZone \in Zone /\ ChangesWithinDay(TheZone)
  BY ConstantTypes DEF Typed, RulesTyped
<1> QED
  BY <1>1, OpeningNoOpens DEF Opening, Next1, Day

\* The day of an opening's class tells the opening.
LEMMA BaseOf ==
  ASSUME Typed, NEW r \in Rules, NEW open \in Int, Opens(TheZone, rule[r], open)
  PROVE  /\ Base(r, open) \in Int /\ Day(Base(r, open)) \in Int
         /\ Day(Base(r, open)) = Day(open) + rule[r].opens_days_before
         /\ Day(Base(r, open)) % 7 = rule[r].day_of_week
         /\ Base(r, open) = At(TheZone, Day(Base(r, open)), rule[r].class_time)
         /\ WindowOpenFor(r, Day(Base(r, open))) = open
         /\ rule[r].opens_days_before \in Nat /\ Day(open) \in Int
<1>1. rule[r] \in Timing /\ TheZone \in Zone /\ ChangesWithinDay(TheZone)
  BY ConstantTypes DEF Typed, RulesTyped
<1>2. rule[r].opens_days_before \in Nat /\ Day(open) \in Int
  BY <1>1, TimingType, DayType
<1>3. Base(r, open) \in Int
  BY <1>1, TargetSlotType DEF Base
<1>4. /\ Day(Base(r, open)) = Day(open) + rule[r].opens_days_before
      /\ Day(Base(r, open)) % 7 = rule[r].day_of_week
      /\ Base(r, open) = At(TheZone, Day(Base(r, open)), rule[r].class_time)
  BY <1>1, TargetDay DEF Base, Day
<1>5. Day(Base(r, open)) - rule[r].opens_days_before = Day(open)
  BY <1>2, <1>4
<1>6. WindowOpenFor(r, Day(Base(r, open))) = open
  BY <1>5 DEF WindowOpenFor, Opens, Day
<1> QED
  BY <1>2, <1>3, <1>4, <1>6, DayType

\* A row on the list is an outcome of its day.
LEMMA OutcomeOfDay ==
  ASSUME Typed, NEW r \in Rules, NEW date \in Int
  PROVE  OutcomeExists(r, date) <=> \E row \in rows : row.rule = r /\ Day(row.slot) = date
<1>1. \A row \in rows : row.slot \in Int
  BY DEF Typed, RowsTyped, Row
<1>2. \A row \in rows : WithinDay(TheZone, date, row.slot) <=> Day(row.slot) = date
  BY <1>1, DayHolds, ConstantTypes DEF Day
<1> QED
  BY <1>2 DEF OutcomeExists

\* What the list shows that is not booked yet comes from an opening.
LEMMA PendingOf ==
  ASSUME Typed, NEW e \in PendingEntries
  PROVE  \E r \in Rules, n \in 1..MaxPerRule :
           /\ e = Projected(r, Opening(r, n)) /\ InView(r, Opening(r, n))
           /\ e.rule = r /\ e.date = Day(Base(r, Opening(r, n)))
           /\ e.slot = PlannedSlot(LoadOverride(r, e.date), Base(r, Opening(r, n)))
           /\ e.kind = Kind(LoadOverride(r, e.date), e.slot)
<1>1. PICK r \in Rules : \E open \in OpeningsOf(r) : InView(r, open) /\ e = Projected(r, open)
  BY DEF PendingEntries
<1>2. PICK open \in OpeningsOf(r) : InView(r, open) /\ e = Projected(r, open)
  BY <1>1
<1>3. PICK n \in 1..MaxPerRule : open = Opening(r, n)
  BY OpeningsAre DEF Opening
<1>4. /\ e.rule = r /\ e.date = Day(Base(r, open))
      /\ e.slot = PlannedSlot(LoadOverride(r, e.date), Base(r, open))
      /\ e.kind = Kind(LoadOverride(r, e.date), e.slot)
  BY <1>2 DEF Projected, Base
<1> QED
  BY <1>2, <1>3, <1>4

\* A run begins with StartRun.
LEMMA RunBegins ==
  ASSUME Typed, [Next]_vars, NEW r \in Rules, run[r] = NoRun, run'[r] # NoRun
  PROVE  StartRun(r)
<1>1. run[r].pc = "idle"
  BY DEF NoRun
<1> QED
  BY <1>1, RunStep DEF Typed, CheckDay, Book

\* What a run in view of its opening knows.
LEMMA RunInView ==
  ASSUME ListReaches, Typed, [Next]_vars, NEW r \in Rules,
         run[r] = NoRun, run'[r] # NoRun, now < run'[r].open
  PROVE  LET own == run'[r] IN
         /\ own.open \in Int /\ own.open = Opening(r, 1) /\ own.base = Base(r, own.open)
         /\ Opens(TheZone, rule[r], own.open)
         /\ own.plan = LoadOverride(r, Day(own.base)) /\ own.slot = PlannedSlot(own.plan, own.base)
         /\ own.base <= ListEnd
<1> USE DEF Typed
<1>1. StartRun(r)
  BY RunBegins
<1>2. /\ run'[r] \in Started /\ run'[r].open = Contested(r)
      /\ run'[r].base = TargetSlot(TheZone, rule[r], run'[r].open)
      /\ run'[r].plan = LoadOverride(r, Day(run'[r].base))
      /\ run'[r].slot = PlannedSlot(run'[r].plan, run'[r].base)
  BY <1>1, StartedRun
<1>3. run'[r].open = Next1(r, now)
  BY <1>1, <1>2, ContestedIsNext
<1>4. Next1(r, now) = Opening(r, 1) /\ Opening(r, 1) \in Int /\ Opens(TheZone, rule[r], Opening(r, 1))
  BY OpeningOf
<1>5. run'[r].base <= ListEnd
  BY <1>1, StartedNear
<1> QED
  BY <1>2, <1>3, <1>4, <1>5 DEF Base

LEMMA ListForetellsStep ==
  ASSUME ListReaches, Typed, [Next]_vars, NEW r \in Rules,
         run[r] = NoRun, run'[r] # NoRun, now < run'[r].open,
         ~OutcomeExists(r, Day(run'[r].base))
  PROVE  LET started == run'[r]
             shown   == {e \in UpcomingSlots : e.rule = r /\ e.date = Day(started.base)}
         IN  /\ Cardinality(shown) = 1
             /\ \A e \in shown :
                  /\ e.slot = started.slot
                  /\ (e.kind = "vacation") <=> Covered(started.slot)
                  /\ (e.kind = "skipped") <=>
                       (~Covered(started.slot) /\ started.plan # None /\ started.plan.skip)
<1> DEFINE own   == run'[r]
           date  == Day(own.base)
           shown == {e \in UpcomingSlots : e.rule = r /\ e.date = date}
           entry == Projected(r, own.open)
<1>1. /\ own.open \in Int /\ own.open = Opening(r, 1) /\ own.base = Base(r, own.open)
      /\ Opens(TheZone, rule[r], own.open)
      /\ own.plan = LoadOverride(r, date) /\ own.slot = PlannedSlot(own.plan, own.base)
      /\ own.base <= ListEnd
  BY RunInView
<1> HIDE DEF own
<1>2. date \in Int /\ date = Day(own.open) + rule[r].opens_days_before
  BY <1>1, BaseOf
<1>3. \A row \in rows : row.rule = r => Day(row.slot) # date
  BY <1>2, OutcomeOfDay DEF own
<1>4. <<r, date>> \notin CoveredKeys
  BY <1>3 DEF CoveredKeys, Coming
<1>5. InView(r, own.open)
  BY <1>1, <1>4 DEF InView, Base
<1>6. 1 \in 1..MaxPerRule
  BY UpcomingAssumption
<1>7. own.open \in OpeningsOf(r)
  BY <1>1, <1>6, OpeningsAre DEF Opening
<1>8. /\ entry.rule = r /\ entry.date = date /\ entry.slot = own.slot
      /\ entry.kind = Kind(own.plan, own.slot)
  BY <1>1 DEF Projected, Base
<1>9. entry \in shown
  BY <1>5, <1>7, <1>8 DEF UpcomingSlots, PendingEntries
<1>10. ASSUME NEW e \in shown PROVE e = entry
  <2>1. CASE e \in GrantedEntries
    <3>1. PICK row \in rows : e.rule = row.rule /\ e.date = Day(row.slot)
      BY <2>1 DEF GrantedEntries, Coming
    <3> QED
      BY <1>3, <3>1
  <2>2. CASE e \in PendingEntries
    <3>1. PICK s \in Rules, n \in 1..MaxPerRule :
            e = Projected(s, Opening(s, n)) /\ e.rule = s /\ e.date = Day(Base(s, Opening(s, n)))
      BY <2>2, PendingOf
    <3>2. s = r /\ e.date = date
      BY <3>1
    <3>3. n \in Nat /\ n >= 1
      OBVIOUS
    <3>4. Opening(r, n) \in Int /\ Opens(TheZone, rule[r], Opening(r, n))
      BY <3>3, OpeningOf
    <3>5. Day(Opening(r, n)) \in Int /\ Day(own.open) \in Int /\ rule[r].opens_days_before \in Nat
          /\ date = Day(Opening(r, n)) + rule[r].opens_days_before
      BY <1>1, <3>1, <3>2, <3>4, BaseOf
    <3>6. Day(Opening(r, n)) = Day(own.open)
      BY <1>2, <3>5
    <3>7. Opening(r, n) = own.open
      BY <1>1, <3>4, <3>6 DEF Opens, Day
    <3> QED
      BY <3>1, <3>2, <3>7
  <2> QED
    BY <2>1, <2>2 DEF UpcomingSlots
<1>11. shown = {entry}
  BY <1>9, <1>10
<1>12. Cardinality(shown) = 1
  BY <1>11, FS_Singleton
<1>13. /\ (entry.kind = "vacation") <=> Covered(own.slot)
       /\ (entry.kind = "skipped") <=> (~Covered(own.slot) /\ own.plan # None /\ own.plan.skip)
  BY <1>8 DEF Kind
<1> QED
  BY <1>8, <1>11, <1>12, <1>13 DEF own

LEMMA CountdownStep ==
  ASSUME ListReaches, Typed, [Next]_vars, NEW r \in Rules,
         run[r] = NoRun, run'[r] # NoRun, now < run'[r].open, ~Covered(run'[r].base)
  PROVE  /\ NextBooking # None /\ NextBooking <= run'[r].open
         /\ NextBooking < run'[r].open => \E s \in Rules \ {r} : NextBooking \in NextBookable(s)
<1> DEFINE open == run'[r].open
           best == UNION {NextBookable(s) : s \in Rules}
           Free(s) == {n \in 1..MaxRoll : ~Covered(TargetSlot(TheZone, rule[s], OpeningNo(TheZone, rule[s], now, n)))}
<1>1. open \in Int /\ open = Opening(r, 1) /\ run'[r].base = Base(r, open)
  BY RunInView
<1>2. \A s \in Rules : NextBookable(s) =
         {OpeningNo(TheZone, rule[s], now, n) : n \in {m \in Free(s) : \A k \in Free(s) : m <= k}}
  BY NextBookableIs
<1>3. 1 \in Free(r)
  <2>1. 1 \in 1..MaxRoll
    BY UpcomingAssumption
  <2> QED
    BY <1>1, <2>1 DEF Opening, Base
<1>4. \A n \in Free(r) : 1 <= n /\ n \in Int
  OBVIOUS
<1>5. {m \in Free(r) : \A k \in Free(r) : m <= k} = {1}
  <2> HIDE DEF Free
  <2> QED
    BY <1>3, <1>4
<1>6. NextBookable(r) = {open}
  <2> HIDE DEF Free, open
  <2> QED
    BY <1>1, <1>2, <1>5 DEF Opening
<1>7. \A s \in Rules : \A o \in NextBookable(s) : o \in Int /\ now <= o
  <2> SUFFICES ASSUME NEW s \in Rules, NEW o \in NextBookable(s) PROVE o \in Int /\ now <= o
    OBVIOUS
  <2>1. PICK n \in 1..MaxRoll : o = Opening(s, n)
    BY <1>2 DEF Opening
  <2>2. n \in Nat /\ n >= 1
    OBVIOUS
  <2>3. Opening(s, n) \in Int /\ now < Opening(s, n) /\ now \in Int
    BY <2>2, OpeningOf, ConstantTypes DEF Typed, RulesTyped
  <2> QED
    BY <2>1, <2>3
<1> HIDE DEF open
<1>8. best \subseteq Int /\ open \in best /\ \A o \in best : now <= o
  BY <1>6, <1>7
<1>9. NextBooking = IF best = {} THEN None ELSE CHOOSE o \in best : \A p \in best : o <= p
  BY DEF NextBooking
<1>10. \E o \in best : \A p \in best : o <= p
  <2>1. now \in Int
    BY ConstantTypes DEF Typed, RulesTyped
  <2> HIDE DEF best
  <2> QED
    BY <1>8, <2>1, LeastInstant
<1>11. NextBooking \in best /\ \A p \in best : NextBooking <= p
  <2> HIDE DEF best
  <2> QED
    BY <1>8, <1>9, <1>10
<1>12. NextBooking # None
  BY <1>8, <1>11, ConstantTypes
<1>13. NextBooking <= open
  BY <1>8, <1>11
<1>14. ASSUME NextBooking < open PROVE \E s \in Rules \ {r} : NextBooking \in NextBookable(s)
  <2>1. PICK s \in Rules : NextBooking \in NextBookable(s)
    BY <1>11
  <2>2. s = r => NextBooking = open
    BY <1>6, <2>1
  <2> QED
    BY <1>1, <1>14, <2>1, <2>2
<1> QED
  BY <1>12, <1>13, <1>14 DEF open

-----------------------------------------------------------------------------
(* The edits offered, and the pages together. *)

\* The day of a class of the rule has its opening.
LEMMA OpeningFor ==
  ASSUME Typed, NEW r \in Rules, NEW date \in Int, date % 7 = rule[r].day_of_week
  PROVE  LET open == WindowOpenFor(r, date) IN
         /\ open \in Int /\ Opens(TheZone, rule[r], open)
         /\ Day(open) = date - rule[r].opens_days_before
         /\ Day(Base(r, open)) = date
         /\ Base(r, open) = At(TheZone, date, rule[r].class_time)
<1> DEFINE t == rule[r]
           day == date - t.opens_days_before
           open == WindowOpenFor(r, date)
<1>1. t \in Timing /\ TheZone \in Zone /\ ChangesWithinDay(TheZone)
  BY ConstantTypes DEF Typed, RulesTyped
<1>2. t.opens_days_before \in Nat /\ t.day_of_week \in 0..6 /\ t.opens_at \in 0..DayLen - 1
  BY <1>1, TimingType
<1> HIDE DEF t
<1>3. day \in Int /\ day = date - t.opens_days_before
  BY <1>2
<1>4. t.opens_at \in Int
  BY <1>2, DayLenAssumption
<1>5. open = At(TheZone, day, t.opens_at)
  BY DEF WindowOpenFor, t
<1> HIDE DEF day, open
<1>6. open \in Int /\ LocalDate(TheZone, open) = day
  BY <1>1, <1>2, <1>3, <1>4, <1>5, AtType, DateOfAt
<1>7. day % 7 = (t.day_of_week - t.opens_days_before) % 7
  <2> DEFINE n == t.opens_days_before
             w == t.day_of_week
  <2>1. date = 7 * (date \div 7) + w /\ date \div 7 \in Int
    BY Weekday DEF t
  <2>2. w - n \in Int /\ w - n = 7 * ((w - n) \div 7) + ((w - n) % 7)
        /\ (w - n) \div 7 \in Int /\ (w - n) % 7 \in 0..6
    BY <1>2, Weekday
  <2>3. day = (7 * (date \div 7) + w) - n
    BY <1>3, <2>1
  <2> HIDE DEF n, w
  <2>4. day = 7 * ((date \div 7) + ((w - n) \div 7)) + ((w - n) % 7)
    <3>1. w \in Int /\ n \in Int
      BY <1>2 DEF w, n
    <3> QED
      BY <2>1, <2>2, <2>3, <3>1
  <2>5. (date \div 7) + ((w - n) \div 7) \in Int
    BY <2>1, <2>2
  <2>6. day % 7 = (w - n) % 7
    BY <1>3, <2>2, <2>4, <2>5, WeekdayUnique
  <2> QED
    BY <2>6 DEF w, n
<1>8. Opens(TheZone, t, open)
  BY <1>5, <1>6, <1>7 DEF Opens, TriggerDay
<1>9. day + t.opens_days_before = date
  BY <1>2, <1>3
<1>10. Base(r, open) = At(TheZone, date, t.class_time)
  BY <1>6, <1>9 DEF Base, TargetSlot, t
<1>11. Day(Base(r, open)) = date
  BY <1>6, <1>8, <1>9, BaseOf DEF Day, t
<1> QED
  BY <1>3, <1>6, <1>8, <1>10, <1>11 DEF open, Day, t

\* No row of a day whose opening is ahead is past, and the list reaches them all.
LEMMA RowsAhead ==
  ASSUME Typed, RowsNear, ListReaches, NEW r \in Rules, NEW open \in Int,
         Opens(TheZone, rule[r], open), now < open, Base(r, open) <= ListEnd
  PROVE  InView(r, open) <=> ~OutcomeExists(r, Day(Base(r, open)))
<1> DEFINE date == Day(Base(r, open))
<1>1. /\ date \in Int /\ date = Day(open) + rule[r].opens_days_before
      /\ rule[r].opens_days_before \in Nat /\ Day(open) \in Int
  BY BaseOf
<1>2. rule[r].opens_days_before >= 1
  BY DEF ListReaches, Typed, RulesTyped
<1>3. now \in Int /\ TheZone \in Zone /\ ChangesWithinDay(TheZone)
  BY ConstantTypes DEF Typed, RulesTyped
<1>4. OutcomeExists(r, date) <=> \E row \in rows : row.rule = r /\ Day(row.slot) = date
  BY <1>1, OutcomeOfDay
<1>5. <<r, date>> \in CoveredKeys <=> \E row \in Coming : row.rule = r /\ Day(row.slot) = date
  BY DEF CoveredKeys
<1> HIDE DEF date
<1>6. ASSUME NEW row \in rows, row.rule = r, Day(row.slot) = date PROVE row \in Coming
  <2>1. row.slot \in Int
    BY DEF Typed, RowsTyped, Row
  <2>2. row.slot <= ListEnd
    BY <1>6, ConstantTypes DEF RowsNear
  <2>3. row.slot <= open => Day(row.slot) <= Day(open)
    BY <1>3, <2>1, DateMonotone DEF Day
  <2>4. open < row.slot
    BY <1>1, <1>2, <1>6, <2>1, <2>3
  <2> QED
    BY <1>3, <2>1, <2>2, <2>4 DEF Coming
<1>7. OutcomeExists(r, date) <=> <<r, date>> \in CoveredKeys
  BY <1>4, <1>5, <1>6 DEF Coming
<1> QED
  BY <1>7 DEF InView, Base, date

\* Every opening ahead of a class on the list is rolled over.
LEMMA OpeningsReach ==
  ASSUME Typed, ListReaches, NEW r \in Rules, NEW open \in Int,
         Opens(TheZone, rule[r], open), now < open, Base(r, open) <= ListEnd
  PROVE  open \in OpeningsOf(r)
<1> DEFINE n == rule[r].opens_days_before
           first == Next1(r, now)
           base == Base(r, open)
<1>1. /\ now \in Int /\ TheZone \in Zone /\ ChangesWithinDay(TheZone) /\ rule[r] \in Timing
      /\ ListDays \in Nat /\ MaxPerRule \in Nat
  BY ConstantTypes, UpcomingAssumption DEF Typed, RulesTyped
<1>2. base \in Int /\ Day(base) \in Int /\ Day(base) = Day(open) + n /\ n \in Nat /\ Day(open) \in Int
  BY BaseOf
<1>3. first \in Int /\ now < first /\ Opens(TheZone, rule[r], first)
  BY <1>1, Next1Type DEF Typed
<1>4. first <= open
  BY <1>1, FirstOpening DEF Next1
<1>5. Day(now) \in Int /\ Day(first) \in Int /\ ListEnd \in Int /\ Day(ListEnd) \in Int
  BY <1>1, <1>3, DaysLater, DayType DEF ListEnd
<1>6. Day(now) <= Day(first) /\ Day(first) <= Day(open) /\ Day(base) <= Day(ListEnd)
  <2> HIDE DEF first, base
  <2> QED
    BY <1>1, <1>2, <1>3, <1>4, <1>5, DateMonotone DEF Day, base
<1>7. Day(ListEnd) <= Day(now) + ListDays + 1
  BY <1>1, DaysLater DEF ListEnd, Day
<1>8. Day(open) % 7 = Day(first) % 7
  BY <1>3 DEF Opens, Day
<1> HIDE DEF first, base, n
<1>9. PICK week \in Int : Day(open) = Day(first) + 7 * week
  BY <1>2, <1>5, <1>8, WeeksApart
<1>10. 0 <= week /\ 7 * week <= ListDays + 1
  BY <1>1, <1>2, <1>5, <1>6, <1>7, <1>9
<1>11. week < MaxPerRule
  BY <1>1, <1>10 DEF ListReaches
<1>12. week + 1 \in 1..MaxPerRule /\ week + 1 \in Nat /\ week + 1 >= 1 /\ (week + 1) - 1 = week
  BY <1>1, <1>10, <1>11
<1>13. /\ Opens(TheZone, rule[r], Opening(r, week + 1))
       /\ Day(Opening(r, week + 1)) = Day(first) + 7 * week
  BY <1>12, OpeningOf DEF first
<1>14. Opening(r, week + 1) = open
  BY <1>9, <1>13 DEF Opens, Day
<1> QED
  BY <1>12, <1>14, OpeningsAre DEF Opening

LEMMA OffersHold ==
  ASSUME Typed, RowsNear, ListReaches
  PROVE  OffersAreAccepted
<1> DEFINE offered == {<<e.rule, e.date>> : e \in {f \in UpcomingSlots : Offered(f)}}
           slot(r, date) == At(TheZone, date, rule[r].class_time)
           inView(r, date) == /\ slot(r, date) <= ListEnd
                              /\ ~Covered(PlannedSlot(LoadOverride(r, date), slot(r, date)))
           writable(r, date) == /\ date % 7 = rule[r].day_of_week
                                /\ IsEditable(r, date, now) /\ ~OutcomeExists(r, date)
<1>1. ASSUME NEW r \in Rules, NEW date \in Int, <<r, date>> \in offered
      PROVE  writable(r, date)
  <2>1. PICK e \in UpcomingSlots : Offered(e) /\ e.rule = r /\ e.date = date
    BY <1>1
  <2>2. e \in PendingEntries
    BY <2>1 DEF UpcomingSlots, GrantedEntries, Offered
  <2>3. PICK s \in Rules, n \in 1..MaxPerRule :
          InView(s, Opening(s, n)) /\ e.rule = s /\ e.date = Day(Base(s, Opening(s, n)))
    BY <2>2, PendingOf
  <2>4. s = r
    BY <2>1, <2>3
  <2>5. n \in Nat /\ n >= 1
    OBVIOUS
  <2>6. Opening(r, n) \in Int /\ now < Opening(r, n) /\ Opens(TheZone, rule[r], Opening(r, n))
    BY <2>5, OpeningOf
  <2>7. date = Day(Base(r, Opening(r, n))) /\ date % 7 = rule[r].day_of_week
    BY <2>1, <2>3, <2>4, <2>6, BaseOf
  <2>8. Base(r, Opening(r, n)) <= ListEnd
    BY <2>3, <2>4 DEF InView, Base
  <2>9. ~OutcomeExists(r, date)
    BY <2>3, <2>4, <2>6, <2>7, <2>8, RowsAhead
  <2> QED
    BY <2>1, <2>7, <2>9 DEF Offered
<1>2. ASSUME NEW r \in Rules, NEW date \in Int, writable(r, date), inView(r, date)
      PROVE  <<r, date>> \in offered
  <2> DEFINE open == WindowOpenFor(r, date)
             e    == Projected(r, open)
  <2>1. /\ open \in Int /\ Opens(TheZone, rule[r], open)
        /\ Day(Base(r, open)) = date /\ Base(r, open) = slot(r, date)
    BY <1>2, OpeningFor
  <2>2. IsEditable(r, date, now) /\ ~OutcomeExists(r, date)
    BY <1>2
  <2>3. now < open
    <3>1. now < open - (PrewarmLead + Margin)
      BY <2>2 DEF IsEditable, EditCutoff
    <3>2. now \in Int /\ PrewarmLead \in Nat /\ Margin \in Nat
      BY ConstantTypes DEF Typed, RulesTyped
    <3> HIDE DEF open
    <3> QED
      BY <2>1, <3>1, <3>2
  <2> HIDE DEF open
  <2>4. Base(r, open) <= ListEnd
    BY <1>2, <2>1
  <2>5. open \in OpeningsOf(r)
    BY <2>1, <2>3, <2>4, OpeningsReach
  <2>6. InView(r, open)
    BY <2>1, <2>2, <2>3, <2>4, RowsAhead
  <2>7. /\ e.rule = r /\ e.date = date
        /\ e.kind = Kind(LoadOverride(r, date), PlannedSlot(LoadOverride(r, date), slot(r, date)))
    BY <2>1 DEF Projected, Base
  <2>8. e \in UpcomingSlots
    BY <2>5, <2>6 DEF UpcomingSlots, PendingEntries
  <2>9. e.kind \in {"pending", "modified", "skipped"}
    BY <1>2, <2>7 DEF Kind
  <2>10. Offered(e)
    BY <2>2, <2>7, <2>9 DEF Offered
  <2> QED
    BY <2>7, <2>8, <2>10
<1>3. Dates \subseteq Int
  BY ConstantTypes
<1> HIDE DEF offered
<1>4. \A r \in Rules, date \in Dates :
        /\ <<r, date>> \in offered => writable(r, date)
        /\ writable(r, date) /\ inView(r, date) => <<r, date>> \in offered
  BY <1>1, <1>2, <1>3
<1> QED
  BY <1>4 DEF OffersAreAccepted, offered

\* What the pages show of the days to come is what the runs do and the handlers
\* accept: a run in view of its opening finds its day on the list once, with the
\* slot it contests, skipped or in a vacation as the run will find it; the
\* countdown leads to its opening or to an earlier one of another rule; and the
\* edits offered are those a save would be accepted for.  list_upcoming_slots,
\* _override_actions, compute_next_booking.
THEOREM SpecPagesForetell == ASSUME ListReaches PROVE Spec => PagesForetell
<1>1. IInv /\ [Next]_vars =>
        \A r \in Rules :
          LET started == run'[r]
              shown   == {e \in UpcomingSlots : e.rule = r /\ e.date = Day(started.base)}
          IN  (/\ run[r] = NoRun /\ started # NoRun /\ now < started.open
               /\ ~OutcomeExists(r, Day(started.base)))
              => /\ Cardinality(shown) = 1
                 /\ \A e \in shown :
                      /\ e.slot = started.slot
                      /\ (e.kind = "vacation") <=> Covered(started.slot)
                      /\ (e.kind = "skipped") <=>
                           (~Covered(started.slot) /\ started.plan # None /\ started.plan.skip)
  BY ListForetellsStep DEF IInv
<1>2. IInv /\ [Next]_vars =>
        \A r \in Rules :
          run[r] = NoRun /\ run'[r] # NoRun /\ now < run'[r].open /\ ~Covered(run'[r].base)
            => /\ NextBooking # None /\ NextBooking <= run'[r].open
               /\ NextBooking < run'[r].open => \E s \in Rules \ {r} : NextBooking \in NextBookable(s)
  BY CountdownStep DEF IInv
<1>3. IInv /\ RowsNear => OffersAreAccepted
  BY OffersHold DEF IInv
<1> QED
  BY <1>1, <1>2, <1>3, SpecIInv, NearInvariance, PTL
     DEF Spec, PagesForetell, ListForetells, CountdownLeadsToRun
=============================================================================
