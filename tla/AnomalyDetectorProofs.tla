----------------------- MODULE AnomalyDetectorProofs -----------------------
(***************************************************************************)
(* Proofs that the open alert is the detector's memory (AlertRemembers),   *)
(* that a prompt run is never reported as silent (PromptRunNotAlarmed) and *)
(* that a window nobody contested is reported in time (MissedReported),    *)
(* for any rules, timings, zones and limits, with the executor and the     *)
(* rule routes running between the detection and the commit of a tick.     *)
(* On the way: what the arithmetic of Calendar promises, for every zone    *)
(* whose clock change keeps to one day, every rule and every instant.      *)
(***************************************************************************)
EXTENDS AnomalyDetector, TLAPS

\* Nothing brings a window back to the detector's notice: its day has an
\* outcome, or it opened before anything the detector still keeps.
Gone(w) == OutcomeExists(w.rule, w.slot) \/ w.open < now - Retention

\* What a tick detects has passed.
MissedIsPast == \A w \in tick.missed : w.open <= now

\* A window leaves the alert only for good, and then neither the alert nor the
\* tick under way has it.
LeftIsGone == \A w \in left : Gone(w)

LeftIsApart ==
  /\ tick.missed \cap left = {}
  /\ alert # None => alert.tracked \cap left = {}

\* What the operator was told is gone or on the alert.
ToldIsKept == \A w \in told : Gone(w) \/ (alert # None /\ w \in alert.tracked)

IInv == TypeOK /\ MissedIsPast /\ LeftIsGone /\ LeftIsApart /\ ToldIsKept

-----------------------------------------------------------------------------
(* What is told is late, and what is late is told. *)

\* The instants at which a rule's booking opens.
Opens(z, t, open) ==
  /\ open = At(z, LocalDate(z, open), t.opens_at)
  /\ LocalDate(z, open) % 7 = TriggerDay(t)

TargetOf(r, open) == TargetSlot(zone, TimingOf[r], open)

\* A rule that is active was created when its history says.
CreatedSince == \A r \in Rules : rule[r].active => rule[r].created = since[r]

\* A prompt run left an outcome on the day of its class.
PromptRecorded ==
  \A p \in prompt :
    /\ p[1] \in Rules /\ p[2] \in Int /\ Opens(zone, TimingOf[p[1]], p[2])
    /\ OutcomeExists(p[1], TargetOf(p[1], p[2]))

TrackedIsTold == alert # None => alert.tracked \subseteq told

\* Any opening that leads to the day of a window is late for a prompt run.
IsLate(w) ==
  \A open \in Int :
    /\ Opens(zone, TimingOf[w.rule], open)
    /\ LocalDate(zone, TargetOf(w.rule, open)) = LocalDate(zone, w.slot)
    => open + Grace < now

NoPromptRun(w) ==
  \A p \in prompt :
    p[1] = w.rule => LocalDate(zone, TargetOf(p[1], p[2])) # LocalDate(zone, w.slot)

\* What was told, or is about to be, is late and had no prompt run.
AlarmsLate == \A w \in told \cup tick.missed : IsLate(w) /\ NoPromptRun(w)

\* How far after an opening the clock may be before its silence is told.
Patience ==
  IF tick.pc = "done" THEN Grace
  ELSE IF down > 0 THEN Grace + down
  ELSE Grace + MaxOutage + 1

WindowAt(r, open) == [rule |-> r, open |-> open, slot |-> TargetOf(r, open)]

ToldInTime ==
  \A r \in Rules : \A open \in Past(r) :
    RegularWeek(r, open) /\ Unattended(r, open) /\ ~WasTold(r, open) =>
      /\ now <= open + Patience
      /\ tick.pc = "detected" /\ open + Grace < now => WindowAt(r, open) \in tick.missed

\* The histories the two invariants above rest on.
Histories == CreatedSince /\ PromptRecorded /\ TrackedIsTold

-----------------------------------------------------------------------------
(* The calendar. *)

LEMMA TimingType ==
  ASSUME NEW t \in Timing
  PROVE  /\ t.day_of_week \in 0..6 /\ t.opens_days_before \in Nat
         /\ t.opens_at \in 0..DayLen - 1 /\ t.class_time \in 0..DayLen - 1
         /\ TriggerDay(t) \in 0..6
  BY DEF Timing, TriggerDay

LEMMA AtType ==
  ASSUME NEW z \in Zone, NEW day \in Int, NEW time \in Int
  PROVE  At(z, day, time) \in Int
<1>1. day * DayLen + time \in Int
  BY DayLenAssumption
<1> QED
  BY <1>1 DEF At, ToUTC, Zone

LEMMA LocalDateType ==
  ASSUME NEW z \in Zone, NEW i \in Int
  PROVE  LocalDate(z, i) \in Int
<1>1. ToLocal(z, i) \in Int
  BY DEF ToLocal, Zone
<1> QED
  BY <1>1, DayLenAssumption DEF LocalDate, DayOf

LEMMA TargetSlotType ==
  ASSUME NEW z \in Zone, NEW t \in Timing, NEW open \in Int
  PROVE  TargetSlot(z, t, open) \in Int
<1>1. t.opens_days_before \in Int /\ t.class_time \in Int
  BY TimingType, DayLenAssumption
<1>2. LocalDate(z, open) + t.opens_days_before \in Int
  BY <1>1, LocalDateType
<1> QED
  BY <1>1, <1>2, AtType DEF TargetSlot

\* A day holds the readings from its number times the length of a day.
LEMMA DayBounds ==
  ASSUME NEW wall \in Int
  PROVE  /\ DayOf(wall) \in Int
         /\ DayOf(wall) * DayLen \in Int
         /\ DayOf(wall) * DayLen <= wall /\ wall < DayOf(wall) * DayLen + DayLen
  BY DayLenAssumption DEF DayOf

LEMMA LaterDays ==
  ASSUME NEW d \in Int, NEW e \in Int, d < e
  PROVE  d * DayLen \in Int /\ e * DayLen \in Int /\ d * DayLen + DayLen <= e * DayLen
  BY DayLenAssumption

\* The day of a reading is the day whose readings are about it.
LEMMA DayOfReading ==
  ASSUME NEW wall \in Int, NEW d \in Int, d * DayLen <= wall, wall < d * DayLen + DayLen
  PROVE  DayOf(wall) = d
<1>1. d * DayLen \in Int
  BY DayLenAssumption
<1>2. DayLen \in Nat
  BY DayLenAssumption
<1> DEFINE e == DayOf(wall)
<1>3. /\ e \in Int /\ e * DayLen \in Int
      /\ e * DayLen <= wall /\ wall < e * DayLen + DayLen
  BY DayBounds
<1> HIDE DEF e
<1>4. e < d => e * DayLen + DayLen <= d * DayLen
  BY <1>3, LaterDays
<1>5. d < e => d * DayLen + DayLen <= e * DayLen
  BY <1>3, LaterDays
<1>6. e = d
  BY <1>1, <1>2, <1>3, <1>4, <1>5
<1> QED
  BY <1>6 DEF e

LEMMA DayOfMonotone ==
  ASSUME NEW v \in Int, NEW w \in Int, v <= w
  PROVE  DayOf(v) <= DayOf(w)
<1> DEFINE d == DayOf(v)
           e == DayOf(w)
<1>1. DayLen \in Nat
  BY DayLenAssumption
<1>2. /\ d \in Int /\ d * DayLen \in Int /\ d * DayLen <= v
      /\ e \in Int /\ e * DayLen \in Int /\ w < e * DayLen + DayLen
  BY DayBounds
<1> HIDE DEF d, e
<1>3. e < d => e * DayLen + DayLen <= d * DayLen
  BY <1>2, LaterDays
<1>4. d <= e
  BY <1>1, <1>2, <1>3
<1> QED
  BY <1>4 DEF d, e

\* The weekday of a day.
LEMMA Weekday ==
  ASSUME NEW d \in Int
  PROVE  /\ d % 7 \in 0..6 /\ d \div 7 \in Int
         /\ d = 7 * (d \div 7) + (d % 7)
  OBVIOUS

LEMMA WeekdayUnique ==
  ASSUME NEW d \in Int, NEW week \in Int, NEW n \in 0..6, d = 7 * week + n
  PROVE  d % 7 = n
  OBVIOUS

\* A clock that reads day and time reads that day.
LEMMA DateOfAt ==
  ASSUME NEW z \in Zone, ChangesWithinDay(z), NEW d \in Int, NEW time \in 0..DayLen - 1
  PROVE  LocalDate(z, At(z, d, time)) = d
<1> DEFINE wall == d * DayLen + time
           back == ToLocal(z, ToUTC(z, wall))
           first == z.change + IF z.before < z.after THEN z.before ELSE z.after
           last == IF z.before < z.after THEN z.change + 2 * z.after - z.before
                   ELSE z.change + z.before
<1>1. d * DayLen \in Int /\ DayLen \in Nat /\ time \in Int /\ 0 <= time /\ time < DayLen
  BY DayLenAssumption
<1>2. wall \in Int /\ d * DayLen <= wall /\ wall < d * DayLen + DayLen
  BY <1>1
<1>3. DayOf(wall) = d
  <2> HIDE DEF wall
  <2> QED
    BY <1>2, DayOfReading
<1> HIDE DEF wall
<1>4. z.change \in Int /\ z.before \in Int /\ z.after \in Int
  BY DEF Zone
<1>5. back = wall \/ (wall \in first..last - 1 /\ back \in first..last - 1)
  BY <1>2, <1>4 DEF ToLocal, ToUTC, Turn
<1>6. DayOf(back) = DayOf(wall)
  <2>1. \A w \in first..last - 1 : DayOf(w) = DayOf(first)
    BY Zenon DEF ChangesWithinDay
  <2> HIDE DEF back, first, last
  <2> QED
    BY <1>5, <2>1
<1>7. LocalDate(z, At(z, d, time)) = DayOf(back)
  BY Zenon DEF LocalDate, At, wall
<1> QED
  BY <1>3, <1>6, <1>7

\* Days do not go back with the clock.
LEMMA DateMonotone ==
  ASSUME NEW z \in Zone, ChangesWithinDay(z), NEW i \in Int, NEW j \in Int, i <= j
  PROVE  LocalDate(z, i) <= LocalDate(z, j)
<1> DEFINE first == z.change + IF z.before < z.after THEN z.before ELSE z.after
           last == IF z.before < z.after THEN z.change + 2 * z.after - z.before
                   ELSE z.change + z.before
<1>1. z.change \in Int /\ z.before \in Int /\ z.after \in Int
  BY DEF Zone
<1>2. ToLocal(z, i) \in Int /\ ToLocal(z, j) \in Int
  BY <1>1 DEF ToLocal
<1>3. \/ ToLocal(z, i) <= ToLocal(z, j)
      \/ ToLocal(z, i) \in first..last - 1 /\ ToLocal(z, j) \in first..last - 1
  BY <1>1 DEF ToLocal
<1>4. CASE ToLocal(z, i) <= ToLocal(z, j)
  BY <1>2, <1>4, DayOfMonotone DEF LocalDate
<1>5. CASE ToLocal(z, i) \in first..last - 1 /\ ToLocal(z, j) \in first..last - 1
  <2>1. \A w \in first..last - 1 : DayOf(w) = DayOf(first)
    BY Zenon DEF ChangesWithinDay
  <2> HIDE DEF first, last
  <2>2. DayOf(ToLocal(z, i)) = DayOf(ToLocal(z, j))
    BY <1>5, <2>1
  <2> QED
    BY <1>2, <2>2, DayBounds DEF LocalDate
<1> QED
  BY <1>3, <1>4, <1>5

LEMMA NextOpens ==
  ASSUME NEW z \in Zone, ChangesWithinDay(z), NEW t \in Timing, NEW i \in Int
  PROVE  LET open == NextWindowOpen(z, t, i)
         IN  open \in Int /\ i < open /\ Opens(z, t, open)
<1> DEFINE today == LocalDate(z, i)
           next  == today + ((TriggerDay(t) - today) % 7)
<1>1. t.opens_at \in 0..DayLen - 1 /\ t.opens_at \in Int /\ TriggerDay(t) \in 0..6
  BY TimingType, DayLenAssumption
<1>2. today \in Int
  BY LocalDateType
<1> HIDE DEF today
<1>3. next \in Int /\ next + 7 \in Int /\ today <= next
  BY <1>1, <1>2
<1>4. next % 7 = TriggerDay(t) /\ (next + 7) % 7 = TriggerDay(t)
  BY <1>1, <1>2
<1> HIDE DEF next
<1>5. LocalDate(z, At(z, next, t.opens_at)) = next /\ LocalDate(z, At(z, next + 7, t.opens_at)) = next + 7
  BY <1>1, <1>3, DateOfAt
<1>6. At(z, next, t.opens_at) \in Int /\ At(z, next + 7, t.opens_at) \in Int
  BY <1>1, <1>3, AtType
<1>7. i < At(z, next + 7, t.opens_at)
  <2>1. At(z, next + 7, t.opens_at) <= i => next + 7 <= today
    BY <1>5, <1>6, DateMonotone DEF today
  <2> QED
    BY <1>2, <1>3, <1>6, <2>1
<1>8. NextWindowOpen(z, t, i) = IF At(z, next, t.opens_at) > i THEN At(z, next, t.opens_at)
                                ELSE At(z, next + 7, t.opens_at)
  BY Zenon DEF NextWindowOpen, NextOccurrence, next, today
<1>9. CASE At(z, next, t.opens_at) > i
  BY <1>4, <1>5, <1>6, <1>8, <1>9 DEF Opens
<1>10. CASE ~(At(z, next, t.opens_at) > i)
  BY <1>4, <1>5, <1>6, <1>7, <1>8, <1>10 DEF Opens
<1> QED
  BY <1>9, <1>10

\* Between an opening and the next there is none.
LEMMA FirstOpening ==
  ASSUME NEW z \in Zone, ChangesWithinDay(z), NEW t \in Timing, NEW i \in Int,
         NEW open \in Int, Opens(z, t, open), i < open
  PROVE  NextWindowOpen(z, t, i) <= open
<1> DEFINE today == LocalDate(z, i)
           n     == (TriggerDay(t) - today) % 7
           next  == today + n
           e     == LocalDate(z, open)
<1>1. t.opens_at \in 0..DayLen - 1 /\ t.opens_at \in Int /\ TriggerDay(t) \in 0..6
  BY TimingType, DayLenAssumption
<1>2. today \in Int /\ e \in Int /\ today <= e
  BY LocalDateType, DateMonotone
<1>3. open = At(z, e, t.opens_at) /\ e % 7 = TriggerDay(t)
  BY DEF Opens
<1> HIDE DEF today, e
<1>4. next \in Int /\ next + 7 \in Int
  BY <1>1, <1>2
<1>5. e = next \/ next + 7 <= e
  <2>1. n \in 0..6 /\ next = today + n
    BY <1>1, <1>2
  <2>2. PICK x \in Int : e = 7 * x + TriggerDay(t)
    BY <1>2, <1>3, Weekday
  <2> DEFINE m == TriggerDay(t) - today
  <2>3. PICK y \in Int : TriggerDay(t) - today = 7 * y + n
    <3>1. m \in Int /\ n = m % 7
      BY <1>1, <1>2
    <3> HIDE DEF m, n
    <3>2. m = 7 * (m \div 7) + n /\ m \div 7 \in Int
      BY <3>1, Weekday
    <3> QED
      BY <3>2 DEF m
  <2> HIDE DEF n, next
  <2> QED
    BY <1>1, <1>2, <2>1, <2>2, <2>3
<1>6. NextWindowOpen(z, t, i) = IF At(z, next, t.opens_at) > i THEN At(z, next, t.opens_at)
                                ELSE At(z, next + 7, t.opens_at)
  BY Zenon DEF NextWindowOpen, NextOccurrence, next, today, n
<1> HIDE DEF n, next
<1>7. LocalDate(z, At(z, next, t.opens_at)) = next /\ LocalDate(z, At(z, next + 7, t.opens_at)) = next + 7
  BY <1>1, <1>4, DateOfAt
<1>8. At(z, next, t.opens_at) \in Int /\ At(z, next + 7, t.opens_at) \in Int
  BY <1>1, <1>4, AtType
<1>9. CASE At(z, next, t.opens_at) > i
  <2>1. open < At(z, next, t.opens_at) => e <= next
    BY <1>7, <1>8, DateMonotone DEF e
  <2> QED
    BY <1>2, <1>3, <1>4, <1>5, <1>6, <1>8, <1>9, <2>1
<1>10. CASE ~(At(z, next, t.opens_at) > i)
  <2>1. open < At(z, next + 7, t.opens_at) => e <= next + 7
    BY <1>7, <1>8, DateMonotone DEF e
  <2> QED
    BY <1>2, <1>3, <1>4, <1>5, <1>6, <1>8, <1>10, <2>1
<1> QED
  BY <1>9, <1>10

\* The next opening is one of the openings of today and the seven days that follow.
LEMMA NextIsWithinWeek ==
  ASSUME NEW z \in Zone, ChangesWithinDay(z), NEW t \in Timing, NEW i \in Int
  PROVE  LocalDate(z, NextWindowOpen(z, t, i)) \in LocalDate(z, i)..LocalDate(z, i) + 7
<1> DEFINE today == LocalDate(z, i)
           n     == (TriggerDay(t) - today) % 7
           next  == today + n
<1>1. t.opens_at \in 0..DayLen - 1 /\ t.opens_at \in Int /\ TriggerDay(t) \in 0..6
  BY TimingType, DayLenAssumption
<1>2. today \in Int
  BY LocalDateType
<1>3. NextWindowOpen(z, t, i) = IF At(z, next, t.opens_at) > i THEN At(z, next, t.opens_at)
                                ELSE At(z, next + 7, t.opens_at)
  BY Zenon DEF NextWindowOpen, NextOccurrence, next, today, n
<1> HIDE DEF today
<1>4. n \in 0..6 /\ next \in Int /\ next + 7 \in Int
  BY <1>1, <1>2
<1> HIDE DEF n
<1>5. LocalDate(z, At(z, next, t.opens_at)) = next /\ LocalDate(z, At(z, next + 7, t.opens_at)) = next + 7
  BY <1>1, <1>4, DateOfAt
<1>6. At(z, next, t.opens_at) \in Int
  BY <1>1, <1>4, AtType
<1>7. At(z, next, t.opens_at) <= i => next <= today
  BY <1>5, <1>6, DateMonotone DEF today
<1> DEFINE open == NextWindowOpen(z, t, i)
<1>8. CASE At(z, next, t.opens_at) > i
  <2>1. LocalDate(z, open) = today + n
    BY <1>3, <1>5, <1>8
  <2> HIDE DEF open
  <2> QED
    BY <1>2, <1>4, <2>1 DEF open, today
<1>9. CASE ~(At(z, next, t.opens_at) > i)
  <2>1. LocalDate(z, open) = today + n + 7
    BY <1>3, <1>5, <1>9
  <2>2. n = 0
    BY <1>2, <1>4, <1>6, <1>7, <1>9
  <2> HIDE DEF open
  <2> QED
    BY <1>2, <2>1, <2>2 DEF open, today
<1> QED
  BY <1>8, <1>9

\* An instant made from a reading shows that reading, or no instant does.
LEMMA ShownOrSkipped ==
  ASSUME NEW z \in Zone, NEW wall \in Int
  PROVE  \/ ToLocal(z, ToUTC(z, wall)) = wall
         \/ \A i \in Int : ToLocal(z, i) # wall
<1>1. z.change \in Int /\ z.before \in Int /\ z.after \in Int
  BY DEF Zone
<1> QED
  BY <1>1 DEF ToLocal, ToUTC, Turn

\* From any instant the next opening of a rule is the first of its openings, and
\* the class booked there falls on the rule's weekday, the days agreed later, at
\* its wall time unless the clock skips it (next_window_open_for_rule,
\* target_slot_for_window), in any zone whose clock change keeps to one day.
THEOREM WindowsAreRight ==
  ASSUME NEW z \in Zone, ChangesWithinDay(z), NEW t \in Timing, NEW i \in Int
  PROVE  LET open == NextWindowOpen(z, t, i)
         IN  /\ IsNextOpening(z, t, i, open)
             /\ IsTargetOf(z, t, open, TargetSlot(z, t, open))
<1> DEFINE open == NextWindowOpen(z, t, i)
           today == LocalDate(z, i)
           openings == Openings(z, t, today..today + 7)
<1>1. /\ t.day_of_week \in 0..6 /\ t.opens_days_before \in Nat
      /\ t.opens_at \in 0..DayLen - 1 /\ t.class_time \in 0..DayLen - 1
      /\ DayLen \in Nat \ {0}
  BY TimingType, DayLenAssumption
<1>2. open \in Int /\ i < open /\ Opens(z, t, open)
  BY NextOpens
<1>3. today \in Int /\ LocalDate(z, open) \in today..today + 7
  BY NextIsWithinWeek, LocalDateType
<1>4. \A o \in openings : o \in Int /\ Opens(z, t, o)
  <2> SUFFICES ASSUME NEW o \in openings PROVE o \in Int /\ Opens(z, t, o)
    OBVIOUS
  <2>1. PICK d \in today..today + 7 : d % 7 = TriggerDay(t) /\ o = At(z, d, t.opens_at)
    BY DEF Openings
  <2>2. d \in Int
    BY <1>3
  <2>3. o \in Int
    BY <1>1, <2>1, <2>2, AtType
  <2>4. LocalDate(z, o) = d
    BY <1>1, <2>1, <2>2, DateOfAt
  <2> QED
    BY <2>1, <2>3, <2>4 DEF Opens
<1>5. \A o \in openings : i < o => open <= o
  BY <1>4, FirstOpening
<1>6. open \in openings
  <2> HIDE DEF open, today
  <2> QED
    BY <1>2, <1>3 DEF Opens, Openings
<1>7. IsNextOpening(z, t, i, open)
  BY <1>2, <1>5, <1>6, Zenon DEF IsNextOpening
<1> DEFINE day == LocalDate(z, open) + t.opens_days_before
           wall == day * DayLen + t.class_time
           slot == TargetSlot(z, t, open)
<1>8. slot = At(z, day, t.class_time) /\ slot = ToUTC(z, wall)
  BY Zenon DEF TargetSlot, At
<1>9. LocalDate(z, open) \in Int /\ LocalDate(z, open) % 7 = (t.day_of_week - t.opens_days_before) % 7
  BY <1>2, LocalDateType DEF Opens, TriggerDay
<1>10. day \in Int /\ wall \in Int
  BY <1>1, <1>9
<1>11. LocalDate(z, slot) = day
  BY <1>1, <1>8, <1>10, DateOfAt
<1>12. day % 7 = t.day_of_week
  <2> DEFINE m == LocalDate(z, open)
             k == t.day_of_week - t.opens_days_before
  <2>1. m % 7 = k % 7 /\ t.day_of_week = k + t.opens_days_before
    BY <1>1, <1>9
  <2>2. m \in Int
    BY <1>9
  <2>3. k \in Int
    BY <1>1
  <2> HIDE DEF m, k
  <2>4. m = 7 * (m \div 7) + (m % 7) /\ m \div 7 \in Int
    BY <2>2, Weekday, Zenon
  <2>5. k = 7 * (k \div 7) + (k % 7) /\ k \div 7 \in Int /\ k % 7 \in 0..6
    BY <2>3, Weekday, Zenon
  <2> DEFINE p == m \div 7
             q == k \div 7
             r == k % 7
  <2>6. m = 7 * p + r /\ k = 7 * q + r /\ p \in Int /\ q \in Int /\ r \in Int
    BY <2>1, <2>4, <2>5
  <2> HIDE DEF p, q, r
  <2>7. m + t.opens_days_before = 7 * (p - q) + t.day_of_week /\ p - q \in Int
    BY <1>1, <2>1, <2>6
  <2>8. m + t.opens_days_before \in Int
    BY <1>1, <2>2
  <2> QED
    BY <1>1, <2>7, <2>8, WeekdayUnique DEF m
<1>13. \/ ToLocal(z, slot) = wall
       \/ \A j \in Int : ToLocal(z, j) # wall
  BY <1>8, <1>10, ShownOrSkipped
<1>14. slot \in Int /\ ToLocal(z, slot) \in Int /\ DayOf(ToLocal(z, slot)) = day
  <2>1. slot \in Int
    BY <1>2, TargetSlotType
  <2>2. ToLocal(z, slot) \in Int
    BY <2>1 DEF ToLocal, Zone
  <2> QED
    BY <1>11, <2>1, <2>2 DEF LocalDate
<1>15. wall % DayLen = t.class_time
  BY <1>1, <1>10
<1>16. \A j \in slot - DayLen..slot + DayLen : j \in Int
  BY <1>1, <1>14
<1> HIDE DEF slot, day, open
<1>17. IsTargetOf(z, t, open, slot)
  BY <1>12, <1>13, <1>14, <1>15, <1>16 DEF IsTargetOf, day
<1> QED
  BY <1>7, <1>17 DEF open, slot

\* A clock change is no longer than a day.
LEMMA ShiftBound ==
  ASSUME NEW z \in Zone, ChangesWithinDay(z)
  PROVE  /\ z.before \in Int /\ z.after \in Int /\ z.change \in Int
         /\ z.after - z.before <= DayLen /\ z.before - z.after <= DayLen
<1> DEFINE first == z.change + IF z.before < z.after THEN z.before ELSE z.after
           last == IF z.before < z.after THEN z.change + 2 * z.after - z.before
                   ELSE z.change + z.before
<1>1. z.change \in Int /\ z.before \in Int /\ z.after \in Int /\ DayLen \in Nat
  BY DayLenAssumption DEF Zone
<1>2. first \in Int /\ last \in Int
  BY <1>1
<1>3. \A u \in first..last - 1 : DayOf(u) = DayOf(first)
  BY Zenon DEF ChangesWithinDay
<1>4. /\ z.before < z.after => last - first = 2 * (z.after - z.before)
      /\ ~(z.before < z.after) => last - first = z.before - z.after
  BY <1>1
<1> HIDE DEF first, last
<1>5. last - first <= DayLen
  <2>1. CASE first < last
    <3>1. DayOf(last - 1) = DayOf(first) /\ last - 1 \in Int
      BY <1>2, <1>3, <2>1
    <3>2. /\ DayOf(first) * DayLen \in Int /\ DayOf(first) * DayLen <= first
          /\ last - 1 < DayOf(first) * DayLen + DayLen
      BY <1>2, <3>1, DayBounds
    <3> QED
      BY <1>1, <1>2, <3>2
  <2> QED
    BY <1>1, <1>2, <2>1
<1> QED
  BY <1>1, <1>2, <1>4, <1>5

\* The instant a week of 24-hour days before an opening is on the day of the
\* opening before it, or on a day next to that.
LEMMA WeekBefore ==
  ASSUME NEW z \in Zone, ChangesWithinDay(z), NEW i \in Int
  PROVE  /\ LocalDate(z, i - Week) + 6 <= LocalDate(z, i)
         /\ LocalDate(z, i) <= LocalDate(z, i - Week) + 8
<1> DEFINE v == ToLocal(z, i - Week)
           w == ToLocal(z, i)
           d == LocalDate(z, i - Week)
           e == LocalDate(z, i)
<1>1. DayLen \in Nat /\ Week = 7 * DayLen /\ Week \in Int
  BY DayLenAssumption DEF Week
<1>2. /\ z.before \in Int /\ z.after \in Int /\ z.change \in Int
      /\ z.after - z.before <= DayLen /\ z.before - z.after <= DayLen
  BY ShiftBound
<1>3. v \in Int /\ w \in Int /\ v + 6 * DayLen <= w /\ w <= v + 8 * DayLen
  BY <1>1, <1>2 DEF ToLocal
<1>4. d = DayOf(v) /\ e = DayOf(w)
  BY DEF LocalDate
<1> HIDE DEF v, w, d, e
<1>5. /\ d \in Int /\ d * DayLen \in Int /\ d * DayLen <= v /\ v < d * DayLen + DayLen
      /\ e \in Int /\ e * DayLen \in Int /\ e * DayLen <= w /\ w < e * DayLen + DayLen
  BY <1>3, <1>4, DayBounds
<1>6. d + 6 <= e
  <2>1. d + 6 \in Int /\ (d + 6) * DayLen = d * DayLen + 6 * DayLen
    BY <1>1, <1>5
  <2>2. e < d + 6 => e * DayLen + DayLen <= (d + 6) * DayLen
    BY <1>5, <2>1, LaterDays
  <2> QED
    BY <1>1, <1>3, <1>5, <2>1, <2>2
<1>7. e <= d + 8
  <2>1. d + 8 \in Int /\ (d + 8) * DayLen = d * DayLen + 8 * DayLen
    BY <1>1, <1>5
  <2>2. d + 8 < e => (d + 8) * DayLen + DayLen <= e * DayLen
    BY <1>5, <2>1, LaterDays
  <2> QED
    BY <1>1, <1>3, <1>5, <2>1, <2>2
<1> QED
  BY <1>6, <1>7 DEF d, e

\* The windows of a rule are what the scheduler takes them for: from any instant
\* there is a first one, no more than nine days ahead, and one lies five days or
\* more before the next, on either side of a clock change.  RuleJobs and
\* RuleJobsCalm assume this of Opens (next_window_open_for_rule, _schedule_next).
THEOREM WindowsServeScheduler ==
  ASSUME NEW z \in Zone, ChangesWithinDay(z), NEW t \in Timing
  PROVE  /\ \A i \in Int :
              LET open == NextWindowOpen(z, t, i)
              IN  /\ open \in Int /\ Opens(z, t, open) /\ i < open /\ open <= i + 9 * DayLen
                  /\ \A o \in Int : Opens(z, t, o) /\ i < o => open <= o
         /\ \A v, w \in Int : Opens(z, t, v) /\ Opens(z, t, w) /\ v < w => v + 5 * DayLen < w
<1>1. DayLen \in Nat \ {0}
  BY DayLenAssumption
<1>2. /\ z.before \in Int /\ z.after \in Int /\ z.change \in Int
      /\ z.after - z.before <= DayLen /\ z.before - z.after <= DayLen
  BY ShiftBound
<1>3. ASSUME NEW i \in Int
      PROVE  /\ ToLocal(z, i) \in Int /\ LocalDate(z, i) \in Int /\ LocalDate(z, i) * DayLen \in Int
             /\ LocalDate(z, i) * DayLen <= ToLocal(z, i)
             /\ ToLocal(z, i) < LocalDate(z, i) * DayLen + DayLen
  <2>1. ToLocal(z, i) \in Int
    BY <1>2 DEF ToLocal
  <2> QED
    BY <2>1, DayBounds DEF LocalDate
<1>4. ASSUME NEW i \in Int, NEW j \in Int
      PROVE  /\ ToLocal(z, j) - ToLocal(z, i) <= j - i + DayLen
             /\ j - i - DayLen <= ToLocal(z, j) - ToLocal(z, i)
  BY <1>1, <1>2 DEF ToLocal
<1>5. ASSUME NEW i \in Int
      PROVE  LET open == NextWindowOpen(z, t, i)
             IN  /\ open \in Int /\ Opens(z, t, open) /\ i < open /\ open <= i + 9 * DayLen
                 /\ \A o \in Int : Opens(z, t, o) /\ i < o => open <= o
  <2> DEFINE open == NextWindowOpen(z, t, i)
             d == LocalDate(z, i)
             e == LocalDate(z, open)
  <2>1. open \in Int /\ Opens(z, t, open) /\ i < open
    BY NextOpens
  <2>2. d \in Int /\ e \in Int /\ e <= d + 7
    BY <1>3, <2>1, NextIsWithinWeek
  <2>3. /\ ToLocal(z, i) \in Int /\ ToLocal(z, open) \in Int /\ d * DayLen \in Int /\ e * DayLen \in Int
        /\ d * DayLen <= ToLocal(z, i) /\ ToLocal(z, open) < e * DayLen + DayLen
    BY <1>3, <2>1
  <2>4. open - i <= ToLocal(z, open) - ToLocal(z, i) + DayLen
    <3> HIDE DEF open
    <3>1. open - i - DayLen <= ToLocal(z, open) - ToLocal(z, i)
      BY <1>4, <2>1
    <3> QED
      BY <1>1, <2>1, <2>3, <3>1
  <2>5. \A o \in Int : Opens(z, t, o) /\ i < o => open <= o
    BY FirstOpening
  <2> HIDE DEF open, d, e
  <2>6. e * DayLen <= d * DayLen + 7 * DayLen
    <3>1. d + 7 \in Int /\ (d + 7) * DayLen = d * DayLen + 7 * DayLen
      BY <1>1, <2>2
    <3>2. e < d + 7 => e * DayLen + DayLen <= (d + 7) * DayLen
      BY <2>2, <3>1, LaterDays
    <3> QED
      BY <1>1, <2>2, <2>3, <3>1, <3>2
  <2>7. open <= i + 9 * DayLen
    BY <1>1, <2>1, <2>3, <2>4, <2>6
  <2> QED
    BY <2>1, <2>5, <2>7 DEF open
<1>6. ASSUME NEW v \in Int, NEW w \in Int, Opens(z, t, v), Opens(z, t, w), v < w
      PROVE  v + 5 * DayLen < w
  <2> DEFINE d == LocalDate(z, v)
             e == LocalDate(z, w)
             n == TriggerDay(t)
  <2>1. d \in Int /\ e \in Int /\ d <= e
    BY <1>6, LocalDateType, DateMonotone
  <2>2. d # e /\ d % 7 = n /\ e % 7 = n
    BY <1>6 DEF Opens
  <2>3. /\ ToLocal(z, v) \in Int /\ ToLocal(z, w) \in Int /\ d * DayLen \in Int /\ e * DayLen \in Int
        /\ ToLocal(z, v) < d * DayLen + DayLen /\ e * DayLen <= ToLocal(z, w)
    BY <1>3
  <2>4. ToLocal(z, w) - ToLocal(z, v) <= w - v + DayLen
    BY <1>4
  <2> HIDE DEF d, e, n
  <2>5. d + 7 <= e
    <3>1. PICK x \in Int : d = 7 * x + n
      BY <2>1, <2>2, Weekday
    <3>2. PICK y \in Int : e = 7 * y + n
      BY <2>1, <2>2, Weekday
    <3>3. n \in Int
      BY TimingType DEF n
    <3> QED
      BY <2>1, <2>2, <3>1, <3>2, <3>3
  <2>6. d * DayLen + 7 * DayLen <= e * DayLen
    <3>1. d + 7 \in Int /\ (d + 7) * DayLen = d * DayLen + 7 * DayLen
      BY <1>1, <2>1
    <3>2. d + 7 < e => (d + 7) * DayLen + DayLen <= e * DayLen
      BY <2>1, <3>1, LaterDays
    <3> QED
      BY <1>1, <2>1, <2>3, <2>5, <3>1, <3>2
  <2> QED
    BY <1>1, <2>3, <2>4, <2>6
<1> QED
  BY <1>5, <1>6

\* What the detector takes for the previous opening is that opening or a later
\* instant of its day, or an hour that the clock skipped since came before it.
LEMMA DerivedOpening ==
  ASSUME NEW z \in Zone, ChangesWithinDay(z), NEW t \in Timing,
         NEW next \in Int, Opens(z, t, next), NEW open \in Int, Opens(z, t, open),
         LocalDate(z, next - Week) = LocalDate(z, open)
  PROVE  \/ open <= next - Week
         \/ z.before < z.after /\ open = next - Week + (z.after - z.before)
<1> DEFINE d == LocalDate(z, open)
           e == LocalDate(z, next)
<1>1. d \in Int /\ e \in Int /\ d + 6 <= e /\ e <= d + 8
  BY LocalDateType, WeekBefore
<1>2. /\ TriggerDay(t) \in 0..6 /\ d % 7 = TriggerDay(t) /\ e % 7 = TriggerDay(t)
      /\ open = ToUTC(z, d * DayLen + t.opens_at) /\ next = ToUTC(z, e * DayLen + t.opens_at)
  BY TimingType DEF Opens, At
<1> HIDE DEF d, e
<1>3. e = d + 7
  <2>1. PICK x \in Int : d = 7 * x + TriggerDay(t)
    BY <1>1, <1>2, Weekday
  <2>2. PICK y \in Int : e = 7 * y + TriggerDay(t)
    BY <1>1, <1>2, Weekday
  <2>3. e - d = 7 * (y - x) /\ y - x \in Int
    BY <1>1, <1>2, <2>1, <2>2
  <2>4. y - x = 1
    BY <1>1, <2>3
  <2> QED
    BY <1>1, <2>3, <2>4
<1>4. DayLen \in Nat /\ Week = 7 * DayLen /\ t.opens_at \in Int
  BY TimingType, DayLenAssumption DEF Week
<1>5. d * DayLen \in Int /\ e * DayLen = d * DayLen + Week /\ Week \in Nat
  BY <1>1, <1>3, <1>4
<1>6. z.change \in Int /\ z.before \in Int /\ z.after \in Int
  BY DEF Zone
<1> DEFINE v == d * DayLen + t.opens_at
           w == e * DayLen + t.opens_at
<1>7. v \in Int /\ w = v + Week /\ open = ToUTC(z, v) /\ next = ToUTC(z, w)
  BY <1>2, <1>4, <1>5
<1> HIDE DEF v, w
<1>8. /\ open = v - (IF v < Turn(z) THEN z.before ELSE z.after)
      /\ next = v + Week - (IF v + Week < Turn(z) THEN z.before ELSE z.after)
      /\ Turn(z) \in Int
  <2>1. Turn(z) \in Int
    BY <1>6 DEF Turn
  <2> QED
    BY <1>5, <1>6, <1>7, <2>1 DEF ToUTC
<1>9. CASE v < Turn(z) /\ ~(v + Week < Turn(z))
  BY <1>5, <1>6, <1>7, <1>8, <1>9
<1>10. CASE ~(v < Turn(z)) \/ v + Week < Turn(z)
  BY <1>5, <1>6, <1>7, <1>8, <1>10
<1> QED
  BY <1>9, <1>10

-----------------------------------------------------------------------------
(* Detection and the alert. *)

\* What a tick detects are windows of the past that are not gone.
LEMMA DetectedWindows ==
  ASSUME TypeOK, NEW w \in DetectMissedWindows
  PROVE  w \in Window /\ w.open <= now /\ ~Gone(w)
<1> USE DetectorAssumption
<1>1. PICK r \in Rules : w = MissedWindow(r) /\ Missed(w)
  BY DEF DetectMissedWindows
<1>2. zone \in Zone /\ ChangesWithinDay(zone) /\ TimingOf[r] \in Timing /\ now \in Int
  BY DEF TypeOK
<1>3. LastOpen(r) \in Int
  <2>1. Week \in Int
    BY DayLenAssumption DEF Week
  <2> QED
    BY <1>2, <2>1, NextOpens DEF LastOpen
<1>4. TargetSlot(zone, TimingOf[r], LastOpen(r)) \in Int
  BY <1>2, <1>3, TargetSlotType
<1>5. w \in Window
  BY <1>1, <1>3, <1>4 DEF MissedWindow, Window
<1>6. w.open \in Int /\ now - Lookback < w.open /\ w.open < now - Grace
  BY <1>1, <1>5 DEF Window, Missed
<1>7. ~OutcomeExists(w.rule, w.slot)
  BY <1>1 DEF Missed
<1> QED
  BY <1>2, <1>5, <1>6, <1>7 DEF Gone

\* An emission leaves an alert of the windows tracked and the windows detected,
\* with all that were tracked; it does without one only if there was none.
LEMMA EmittedWindows ==
  ASSUME TypeOK
  PROVE  LET emitted == Emitted(tick.missed)
         IN  /\ emitted \in Alert \cup {None}
             /\ emitted # None =>
                  /\ emitted.first <= emitted.last /\ emitted.last <= now
                  /\ \A w \in emitted.tracked :
                       w \in tick.missed \/ (alert # None /\ w \in alert.tracked)
             /\ alert # None => emitted # None /\ alert.tracked \subseteq emitted.tracked
             /\ Speaks(tick.missed) => emitted # None
<1> DEFINE emitted == Emitted(tick.missed)
<1> USE NoneAssumption
<1>1. now \in Times /\ tick.missed \in SUBSET Window
  BY DetectorAssumption DEF TypeOK, Times, Tick
<1>2. CASE ~Speaks(tick.missed)
  <2>1. emitted = alert
    BY <1>2 DEF Emitted
  <2> QED
    BY <1>2, <2>1 DEF TypeOK
<1>3. CASE Speaks(tick.missed) /\ alert = None
  <2>1. emitted = [tracked |-> Merge({}, tick.missed), first |-> now, last |-> now]
    BY <1>3 DEF Emitted, Notified
  <2>2. Merge({}, tick.missed) \subseteq tick.missed
    BY DEF Merge
  <2>3. emitted \in Alert
    BY <1>1, <2>1, <2>2 DEF Alert
  <2> QED
    BY <1>1, <1>3, <2>1, <2>2, <2>3 DEF Times
<1>4. CASE Speaks(tick.missed) /\ alert # None
  <2>1. alert \in Alert
    BY <1>4 DEF TypeOK
  <2>2. emitted = [alert EXCEPT !.tracked = Merge(alert.tracked, tick.missed), !.last = now]
    BY <1>4 DEF Emitted, Notified
  <2>3. /\ alert.tracked \subseteq Merge(alert.tracked, tick.missed)
        /\ Merge(alert.tracked, tick.missed) \subseteq alert.tracked \cup tick.missed
    BY DEF Merge
  <2>4. /\ emitted \in Alert /\ emitted.first = alert.first /\ emitted.last = now
        /\ emitted.tracked = Merge(alert.tracked, tick.missed)
    BY <1>1, <2>1, <2>2, <2>3 DEF Alert
  <2>5. alert.first <= now
    BY <1>1, <1>4, <2>1 DEF TypeOK, Alert, Times
  <2> QED
    BY <1>1, <1>4, <2>1, <2>3, <2>4, <2>5 DEF Alert, Times
<1> QED
  BY <1>2, <1>3, <1>4

\* Closing takes the windows that are gone off an alert, and no other.
LEMMA ClosedWindows ==
  ASSUME TypeOK, NEW a \in Alert
  PROVE  /\ Closed(a) \in Alert \cup {None}
         /\ Closed(a) # None =>
              /\ Closed(a).first = a.first /\ Closed(a).last = a.last
              /\ Closed(a).tracked \subseteq a.tracked
         /\ \A w \in a.tracked :
              IF Gone(w) THEN Closed(a) # None => w \notin Closed(a).tracked
                         ELSE Closed(a) # None /\ w \in Closed(a).tracked
<1> USE NoneAssumption
<1>1. \A w \in a.tracked : w \in Kept(a) <=> ~Gone(w)
  <2> SUFFICES ASSUME NEW w \in a.tracked PROVE w \in Kept(a) <=> ~Gone(w)
    OBVIOUS
  <2>1. w.open \in Int /\ now \in Int /\ Retention \in Int
    BY DetectorAssumption DEF Alert, Window, TypeOK
  <2> QED
    BY <2>1 DEF Kept, Gone
<1>2. Kept(a) \subseteq a.tracked
  BY DEF Kept
<1>3. CASE a.tracked = {} /\ a.first >= now - Retention
  BY <1>3 DEF Closed
<1>4. CASE ~(a.tracked = {} /\ a.first >= now - Retention) /\ Kept(a) = {}
  BY <1>1, <1>4 DEF Closed
<1>5. CASE ~(a.tracked = {} /\ a.first >= now - Retention) /\ Kept(a) # {}
  <2>1. Closed(a) = [a EXCEPT !.tracked = Kept(a)]
    BY <1>5 DEF Closed
  <2>2. /\ Closed(a) \in Alert /\ Closed(a).tracked = Kept(a)
        /\ Closed(a).first = a.first /\ Closed(a).last = a.last
    BY <1>2, <2>1 DEF Alert
  <2> QED
    BY <1>1, <1>2, <2>2
<1> QED
  BY <1>3, <1>4, <1>5

\* With more outcomes and a later clock, what was gone is gone.
LEMMA GoneForGood ==
  ASSUME TypeOK, zone' = zone, outcomes \subseteq outcomes', now' \in Int, now <= now',
         NEW w \in Window, Gone(w)
  PROVE  Gone(w)'
<1>1. OutcomeExists(w.rule, w.slot) => OutcomeExists(w.rule, w.slot)'
  BY DEF OutcomeExists
<1>2. w.open \in Int /\ now \in Int /\ Retention \in Int
  BY DetectorAssumption DEF Window, TypeOK
<1> QED
  BY <1>1, <1>2 DEF Gone

-----------------------------------------------------------------------------
(* The steps. *)

LEMMA InitIInv == Init => IInv
<1> SUFFICES ASSUME Init PROVE IInv
  OBVIOUS
<1> USE DetectorAssumption
<1>1. /\ now \in Start..Horizon /\ down \in 0..MaxOutage /\ edits \in 0..MaxEdits
      /\ 0 \in Times /\ 0 <= now
  BY DEF Init, Times
<1>2. DOMAIN rule = Rules /\ since \in [Rules -> Times]
  BY <1>1 DEF Init
<1>3. \A r \in Rules : rule[r] \in [active : BOOLEAN, created : Times \cup {None}]
  <2> SUFFICES ASSUME NEW r \in Rules
               PROVE  rule[r] \in [active : BOOLEAN, created : Times \cup {None}]
    OBVIOUS
  <2>1. rule[r] \in {[active |-> TRUE, created |-> 0], [active |-> FALSE, created |-> None]}
    BY DEF Init
  <2>2. [active |-> TRUE, created |-> 0] \in [active : BOOLEAN, created : Times \cup {None}]
    BY <1>1
  <2>3. [active |-> FALSE, created |-> None] \in [active : BOOLEAN, created : Times \cup {None}]
    OBVIOUS
  <2> QED
    BY <2>1, <2>2, <2>3
<1>4. /\ alert \in Alert \cup {None}
      /\ alert # None => alert.tracked = {} /\ alert.first = 0 /\ alert.last = 0
  BY <1>1 DEF Init, Alert
<1>5. tick \in Tick /\ tick.missed = {} /\ told = {} /\ left = {} /\ outcomes = {}
  BY DEF Init, Tick
<1>6. zone \in Zones
  BY DEF Init
<1>7. TypeOK
  BY <1>1, <1>2, <1>3, <1>4, <1>5, <1>6 DEF TypeOK
<1> QED
  BY <1>4, <1>5, <1>7 DEF IInv, MissedIsPast, LeftIsGone, LeftIsApart, ToldIsKept

LEMMA TickDetectKeeps ==
  ASSUME IInv, TickDetect
  PROVE  IInv'
<1> USE DEF IInv, TickDetect
<1>1. tick' \in Tick /\ tick'.missed = DetectMissedWindows
  BY DetectedWindows DEF Tick
<1>2. TypeOK'
  BY <1>1 DEF TypeOK, Window
<1>3. MissedIsPast'
  BY <1>1, DetectedWindows DEF MissedIsPast
<1>4. LeftIsGone' /\ ToldIsKept'
  BY DEF LeftIsGone, ToldIsKept, Gone, OutcomeExists
<1>5. DetectMissedWindows \cap left = {}
  BY DetectedWindows DEF LeftIsGone
<1>6. LeftIsApart'
  BY <1>1, <1>5 DEF LeftIsApart
<1> QED
  BY <1>2, <1>3, <1>4, <1>6

LEMMA TickCommitKeeps ==
  ASSUME IInv, TickCommit
  PROVE  IInv'
<1> DEFINE emitted == Emitted(tick.missed)
           closed  == Closed(emitted)
<1> USE DEF IInv
<1>1. /\ alert' = closed
      /\ told' = IF Speaks(tick.missed) THEN told \cup emitted.tracked ELSE told
      /\ left' = left \cup ((IF emitted = None THEN {} ELSE emitted.tracked)
                              \ (IF closed = None THEN {} ELSE closed.tracked))
      /\ tick' = [pc |-> "done", missed |-> {}]
      /\ UNCHANGED <<zone, now, down, rule, outcomes, edits, prompt, since>>
  BY DEF TickCommit
<1>2. /\ emitted \in Alert \cup {None}
      /\ emitted # None =>
           /\ emitted.first <= emitted.last /\ emitted.last <= now
           /\ \A w \in emitted.tracked :
                w \in tick.missed \/ (alert # None /\ w \in alert.tracked)
      /\ alert # None => emitted # None /\ alert.tracked \subseteq emitted.tracked
      /\ Speaks(tick.missed) => emitted # None
  BY EmittedWindows
<1>3. emitted = None => closed = None
  BY DEF Closed
<1>4. emitted # None =>
        /\ closed \in Alert \cup {None}
        /\ closed # None =>
             /\ closed.first = emitted.first /\ closed.last = emitted.last
             /\ closed.tracked \subseteq emitted.tracked
        /\ \A w \in emitted.tracked :
             IF Gone(w) THEN closed # None => w \notin closed.tracked
                        ELSE closed # None /\ w \in closed.tracked
  BY <1>2, ClosedWindows
<1> HIDE DEF emitted, closed
<1>5. \A w : Gone(w)' <=> Gone(w)
  BY <1>1 DEF Gone, OutcomeExists
<1>6. emitted # None => emitted.tracked \subseteq Window
  BY <1>2 DEF Alert
<1>7. told' \subseteq Window /\ left' \subseteq Window
  BY <1>1, <1>2, <1>6 DEF TypeOK
<1>8. closed # None => emitted # None /\ closed.tracked \subseteq emitted.tracked
                       /\ closed.first = emitted.first /\ closed.last = emitted.last
  BY <1>3, <1>4
<1>9. TypeOK'
  <2>1. tick' \in Tick
    BY <1>1 DEF Tick
  <2>2. alert' \in Alert \cup {None}
    BY <1>1, <1>3, <1>4
  <2>3. alert' # None => /\ alert'.first <= alert'.last /\ alert'.last <= now'
                         /\ \A w \in alert'.tracked : w.open <= now'
    BY <1>1, <1>2, <1>8 DEF TypeOK, MissedIsPast
  <2> QED
    BY <1>1, <1>7, <2>1, <2>2, <2>3 DEF TypeOK
<1>10. MissedIsPast'
  BY <1>1 DEF MissedIsPast
<1>11. LeftIsGone'
  <2> SUFFICES ASSUME NEW w \in left' PROVE Gone(w)
    BY <1>5 DEF LeftIsGone
  <2>1. CASE w \in left
    BY <2>1 DEF LeftIsGone
  <2>2. CASE w \notin left
    BY <1>1, <1>4, <2>2
  <2> QED
    BY <2>1, <2>2
<1>12. LeftIsApart'
  <2>1. emitted # None => emitted.tracked \cap left = {}
    BY <1>2 DEF LeftIsApart
  <2> QED
    BY <1>1, <1>8, <2>1 DEF LeftIsApart
<1>13. ToldIsKept'
  <2> SUFFICES ASSUME NEW w \in told', ~Gone(w)
               PROVE  closed # None /\ w \in closed.tracked
    BY <1>1, <1>5 DEF ToldIsKept
  <2>1. emitted # None /\ w \in emitted.tracked
    BY <1>1, <1>2 DEF ToldIsKept
  <2> QED
    BY <1>4, <2>1
<1> QED
  BY <1>9, <1>10, <1>11, <1>12, <1>13

\* A step that leaves the alert and its history alone, adds outcomes or lets
\* time pass, and detects nothing new.
LEMMA WorldKeeps ==
  ASSUME IInv, zone' = zone, outcomes \subseteq outcomes', now' \in Start..Horizon, now <= now',
         UNCHANGED <<alert, told, left>>, tick' = tick \/ tick' = [pc |-> "due", missed |-> {}]
  PROVE  /\ tick' \in Tick
         /\ alert' # None => /\ alert'.first <= alert'.last /\ alert'.last <= now'
                             /\ \A w \in alert'.tracked : w.open <= now'
         /\ MissedIsPast' /\ LeftIsGone' /\ LeftIsApart' /\ ToldIsKept'
<1> USE DEF IInv
<1>1. now \in Int /\ now' \in Int
  BY DetectorAssumption DEF TypeOK
<1>2. \A w \in Window : Gone(w) => Gone(w)'
  BY <1>1, GoneForGood
<1>3. tick' \in Tick /\ tick'.missed \subseteq tick.missed
  BY DEF TypeOK, Tick
<1>4. \A w \in Window : w.open <= now => w.open <= now'
  BY <1>1 DEF Window
<1>5. alert # None => alert.last <= now' /\ \A w \in alert.tracked : w.open <= now'
  BY <1>1, <1>4 DEF TypeOK, Alert, Times
<1>6. MissedIsPast'
  BY <1>3, <1>4 DEF MissedIsPast, TypeOK, Tick
<1>7. LeftIsGone' /\ ToldIsKept'
  BY <1>2 DEF LeftIsGone, ToldIsKept, TypeOK
<1>8. LeftIsApart'
  BY <1>3 DEF LeftIsApart
<1> QED
  BY <1>3, <1>5, <1>6, <1>7, <1>8 DEF TypeOK

LEMMA BookKeeps ==
  ASSUME IInv, NEW r \in Rules, Book(r)
  PROVE  IInv'
<1> USE DetectorAssumption DEF IInv
<1>1. PICK open \in Openings(zone, TimingOf[r], 0..DayOf(Horizon)), moved \in {0, 1} :
        /\ outcomes' = outcomes \cup
             {[rule |-> r, slot |-> TargetSlot(zone, TimingOf[r], open) + moved]}
        /\ UNCHANGED <<zone, now, down, rule, alert, tick, edits, since, told, left>>
  BY DEF Book
<1>2. zone \in Zone /\ TimingOf[r] \in Timing
  BY DEF TypeOK
<1>3. open \in Int
  <2>1. PICK d \in 0..DayOf(Horizon) : open = At(zone, d, TimingOf[r].opens_at)
    BY DEF Openings
  <2>2. d \in Int /\ TimingOf[r].opens_at \in Int
    BY <1>2, DayLenAssumption DEF Timing, DayOf
  <2> QED
    BY <1>2, <2>1, <2>2, AtType
<1>4. TargetSlot(zone, TimingOf[r], open) + moved \in Int
  <2>1. TargetSlot(zone, TimingOf[r], open) \in Int
    BY <1>2, <1>3, TargetSlotType
  <2> QED
    BY <2>1
<1> HIDE DEF Book
<1>5. \A o \in outcomes' : o.rule \in Rules /\ o.slot \in Int
  BY <1>1, <1>4 DEF TypeOK
<1>6. TypeOK'
  BY <1>1, <1>5 DEF TypeOK
<1> QED
  BY <1>1, <1>6, WorldKeeps DEF TypeOK

LEMMA EditRuleKeeps ==
  ASSUME IInv, NEW r \in Rules, EditRule(r)
  PROVE  IInv'
<1> USE DetectorAssumption DEF IInv
<1>1. UNCHANGED <<zone, now, down, outcomes, alert, tick, prompt, told, left>>
  BY DEF EditRule
<1>2. now \in Times /\ edits' \in 0..MaxEdits
  BY DEF TypeOK, Times, EditRule
<1>3. /\ DOMAIN rule' = Rules
      /\ \A q \in Rules : rule'[q] \in [active : BOOLEAN, created : Times \cup {None}]
  BY <1>2 DEF TypeOK, EditRule
<1>4. since' \in [Rules -> Times]
  BY <1>2 DEF TypeOK, EditRule
<1>5. TypeOK'
  BY <1>1, <1>2, <1>3, <1>4 DEF TypeOK
<1> QED
  BY <1>1, <1>5, WorldKeeps DEF TypeOK

LEMMA ClockKeeps ==
  ASSUME IInv, Clock
  PROVE  IInv'
<1> USE DetectorAssumption DEF IInv
<1>1. /\ UNCHANGED <<zone, rule, outcomes, alert, edits, prompt, since, told, left>>
      /\ tick' = [pc |-> "due", missed |-> {}]
  BY DEF Clock
<1>2. now' \in Start..Horizon /\ now <= now' /\ down' \in 0..MaxOutage
  BY DEF TypeOK, Clock
<1>3. /\ tick' \in Tick
      /\ alert' # None => /\ alert'.first <= alert'.last /\ alert'.last <= now'
                          /\ \A w \in alert'.tracked : w.open <= now'
      /\ MissedIsPast' /\ LeftIsGone' /\ LeftIsApart' /\ ToldIsKept'
  BY <1>1, <1>2, WorldKeeps
<1>4. TypeOK'
  BY <1>1, <1>2, <1>3 DEF TypeOK
<1> QED
  BY <1>3, <1>4

\* Every step keeps the invariant.
LEMMA NextIInv == IInv /\ [Next]_vars => IInv'
<1> SUFFICES ASSUME IInv, [Next]_vars PROVE IInv'
  OBVIOUS
<1>1. CASE TickDetect
  BY <1>1, TickDetectKeeps
<1>2. CASE TickCommit
  BY <1>2, TickCommitKeeps
<1>3. CASE \E r \in Rules : Book(r)
  BY <1>3, BookKeeps
<1>4. CASE \E r \in Rules : EditRule(r)
  BY <1>4, EditRuleKeeps
<1>5. CASE Clock
  BY <1>5, ClockKeeps
<1>6. CASE UNCHANGED vars
  BY <1>6 DEF vars, IInv, TypeOK, MissedIsPast, LeftIsGone, LeftIsApart, ToldIsKept, Gone,
              OutcomeExists
<1> QED
  BY <1>1, <1>2, <1>3, <1>4, <1>5, <1>6 DEF Next

-----------------------------------------------------------------------------
(* The theorem. *)

\* In the states of the invariant the alert remembers: what it lost is gone, and
\* neither the tick under way nor the alert has it.
LEMMA IInvRemembers == IInv => AlertRemembers
<1> SUFFICES ASSUME IInv PROVE AlertRemembers
  OBVIOUS
<1> USE DEF IInv
<1>1. \A w \in told : w.open >= now - Retention <=> ~(w.open < now - Retention)
  BY DetectorAssumption DEF Window, TypeOK
<1>2. ToldIsTracked
  BY <1>1 DEF ToldIsTracked, ToldIsKept, Gone
<1>3. NeverBack
  BY EmittedWindows DEF NeverBack, LeftIsApart
<1> QED
  BY <1>2, <1>3 DEF AlertRemembers

THEOREM SpecIInv == Spec => []IInv
<1> QED
  BY InitIInv, NextIInv, PTL DEF Spec

\* Nothing told is forgotten while it matters, and nothing forgotten is told
\* again (emit_anomaly_alerts, close_resolved_anomalies).
THEOREM SpecAlertRemembers == Spec => []AlertRemembers
<1> QED
  BY SpecIInv, IInvRemembers, PTL

-----------------------------------------------------------------------------
(* Late openings and prompt runs. *)

LEMMA Types ==
  ASSUME TypeOK
  PROVE  /\ zone \in Zone /\ ChangesWithinDay(zone) /\ zone \in Zones
         /\ now \in Nat /\ down \in Nat /\ down <= MaxOutage
         /\ Grace \in Nat /\ Lookback \in Nat /\ MaxOutage \in Nat
         /\ \A r \in Rules : TimingOf[r] \in Timing
  BY DetectorAssumption DEF TypeOK

\* The openings of a rule on some days are those of the clock.
LEMMA OpeningsOpen ==
  ASSUME NEW z \in Zone, ChangesWithinDay(z), NEW t \in Timing,
         NEW open \in Openings(z, t, 0..DayOf(Horizon))
  PROVE  open \in Int /\ Opens(z, t, open)
<1>1. PICK d \in 0..DayOf(Horizon) : d % 7 = TriggerDay(t) /\ open = At(z, d, t.opens_at)
  BY DEF Openings
<1>2. d \in Int /\ t.opens_at \in 0..DayLen - 1 /\ t.opens_at \in Int
  BY TimingType, DayLenAssumption
<1>3. open \in Int /\ LocalDate(z, open) = d
  BY <1>1, <1>2, AtType, DateOfAt
<1> QED
  BY <1>1, <1>3 DEF Opens

\* The day of the class an instant leads to.
LEMMA TargetDate ==
  ASSUME NEW z \in Zone, ChangesWithinDay(z), NEW t \in Timing, NEW open \in Int
  PROVE  LocalDate(z, TargetSlot(z, t, open)) = LocalDate(z, open) + t.opens_days_before
<1>1. t.opens_days_before \in Int /\ t.class_time \in 0..DayLen - 1
  BY TimingType
<1>2. LocalDate(z, open) + t.opens_days_before \in Int
  BY <1>1, LocalDateType
<1> QED
  BY <1>1, <1>2, DateOfAt DEF TargetSlot

\* A window is missed only when the grace period of the opening it stands for
\* is over, if a clock that is put forward is put forward by the lookback or more.
LEMMA LateDetection ==
  ASSUME TypeOK, zone.after <= zone.before \/ zone.after >= zone.before + Lookback,
         NEW r \in Rules, Missed(MissedWindow(r))
  PROVE  IsLate(MissedWindow(r))
<1> DEFINE w    == MissedWindow(r)
           t    == TimingOf[r]
           next == NextWindowOpen(zone, t, now)
<1>1. /\ zone \in Zone /\ ChangesWithinDay(zone) /\ t \in Timing
      /\ now \in Int /\ Grace \in Nat /\ Lookback \in Nat
  BY Types
<1>2. next \in Int /\ now < next /\ Opens(zone, t, next)
  BY <1>1, NextOpens
<1>3. DayLen \in Nat /\ Week = 7 * DayLen /\ Week \in Int /\ DayLen < Week
  BY DayLenAssumption DEF Week
<1>4. w.rule = r /\ w.open = next - Week /\ w.slot = TargetSlot(zone, t, next - Week)
  BY DEF MissedWindow, LastOpen
<1>5. now - Lookback < next - Week /\ next - Week < now - Grace
  BY <1>4 DEF Missed
<1> SUFFICES ASSUME NEW open \in Int, Opens(zone, t, open),
                    LocalDate(zone, TargetSlot(zone, t, open)) = LocalDate(zone, w.slot)
             PROVE  open + Grace < now
  BY <1>4 DEF IsLate, TargetOf
<1> HIDE DEF w, t, next
<1>6. LocalDate(zone, next - Week) = LocalDate(zone, open)
  <2> DEFINE d == LocalDate(zone, next - Week)
             e == LocalDate(zone, open)
  <2>1. d + t.opens_days_before = e + t.opens_days_before
    BY <1>1, <1>2, <1>3, <1>4, TargetDate
  <2>2. d \in Int /\ e \in Int /\ t.opens_days_before \in Int
    BY <1>1, <1>2, <1>3, LocalDateType, TimingType
  <2> HIDE DEF d, e
  <2>3. d = e
    BY <2>1, <2>2
  <2> QED
    BY <2>3 DEF d, e
<1>7. \/ open <= next - Week
      \/ zone.before < zone.after /\ open = next - Week + (zone.after - zone.before)
  BY <1>1, <1>2, <1>6, DerivedOpening
<1>8. CASE open <= next - Week
  BY <1>1, <1>2, <1>3, <1>5, <1>8
<1>9. CASE zone.before < zone.after /\ open = next - Week + (zone.after - zone.before)
  <2>1. /\ zone.before \in Int /\ zone.after \in Int /\ zone.after - zone.before <= DayLen
    BY <1>1, ShiftBound
  <2>2. now < open /\ open < next
    BY <1>1, <1>2, <1>3, <1>5, <1>9, <2>1
  <2>3. next <= open
    BY <1>1, <2>2, FirstOpening DEF next
  <2> QED
    BY <1>2, <2>2, <2>3
<1> QED
  BY <1>7, <1>8, <1>9

\* What a step does to the tables and histories, whichever it is.
LEMMA Steps ==
  ASSUME TypeOK, [Next]_vars
  PROVE  /\ zone' = zone /\ outcomes \subseteq outcomes' /\ now' \in Nat /\ now <= now'
         /\ UNCHANGED <<rule, since>> \/ \E r \in Rules : EditRule(r)
         /\ UNCHANGED prompt \/ \E r \in Rules : Book(r)
         /\ UNCHANGED told \/ TickCommit
         /\ UNCHANGED alert \/ TickCommit
         /\ tick'.missed \subseteq tick.missed \/ TickDetect
<1>1. now \in Nat
  BY Types
<1>2. CASE TickDetect
  BY <1>1, <1>2 DEF TickDetect
<1>3. CASE TickCommit
  BY <1>1, <1>3 DEF TickCommit
<1>4. ASSUME NEW r \in Rules, Book(r)
      PROVE  /\ zone' = zone /\ outcomes \subseteq outcomes'
             /\ UNCHANGED <<now, rule, since, told, alert, tick>>
  BY <1>4 DEF Book
<1>5. ASSUME NEW r \in Rules, EditRule(r)
      PROVE  UNCHANGED <<zone, now, outcomes, alert, tick, prompt, told>>
  BY <1>5 DEF EditRule
<1>6. CASE Clock
  BY <1>1, <1>6 DEF Clock
<1>7. CASE UNCHANGED vars
  BY <1>1, <1>7 DEF vars
<1> QED
  BY <1>1, <1>2, <1>3, <1>4, <1>5, <1>6, <1>7 DEF Next

\* What a booking adds.
LEMMA Booked ==
  ASSUME TypeOK, NEW r \in Rules, Book(r), NEW p \in prompt', p \notin prompt
  PROVE  /\ p[1] = r /\ p[2] \in Int /\ Opens(zone, TimingOf[r], p[2])
         /\ now <= p[2] + Grace /\ OutcomeExists(r, TargetOf(r, p[2]))'
<1>1. PICK open \in Openings(zone, TimingOf[r], 0..DayOf(Horizon)), moved \in {0, 1} :
        LET slot == TargetSlot(zone, TimingOf[r], open)
        IN  /\ WithinDay(zone, LocalDate(zone, slot), slot + moved)
            /\ outcomes' = outcomes \cup {[rule |-> r, slot |-> slot + moved]}
            /\ prompt' = IF now <= open + Grace THEN prompt \cup {<<r, open>>} ELSE prompt
            /\ zone' = zone
  BY DEF Book
<1>2. p = <<r, open>> /\ now <= open + Grace
  BY <1>1
<1>3. open \in Int /\ Opens(zone, TimingOf[r], open)
  BY <1>1, Types, OpeningsOpen
<1>4. OutcomeExists(r, TargetOf(r, open))'
  <2> DEFINE slot == TargetSlot(zone, TimingOf[r], open)
             o    == [rule |-> r, slot |-> slot + moved]
  <2>1. o \in outcomes' /\ o.rule = r /\ WithinDay(zone, LocalDate(zone, slot), o.slot) /\ zone' = zone
    BY <1>1
  <2> HIDE DEF o
  <2> QED
    BY <2>1 DEF OutcomeExists, TargetOf
<1> QED
  BY <1>2, <1>3, <1>4

LEMMA HistoriesStep ==
  ASSUME TypeOK, Histories, [Next]_vars
  PROVE  Histories'
<1> USE DEF Histories
<1>1. CreatedSince'
  <2>1. CASE UNCHANGED <<rule, since>>
    BY <2>1 DEF CreatedSince
  <2>2. ASSUME NEW r \in Rules, EditRule(r) PROVE CreatedSince'
    <3>1. \A q \in Rules \ {r} : rule'[q] = rule[q] /\ since'[q] = since[q]
      BY <2>2 DEF EditRule, TypeOK
    <3>2. rule'[r].active => rule'[r].created = since'[r]
      BY <2>2 DEF EditRule, TypeOK
    <3> QED
      BY <3>1, <3>2 DEF CreatedSince
  <2> QED
    BY <2>1, <2>2, Steps
<1>2. PromptRecorded'
  <2> SUFFICES ASSUME NEW p \in prompt'
               PROVE  /\ p[1] \in Rules /\ p[2] \in Int /\ Opens(zone', TimingOf[p[1]], p[2])
                      /\ OutcomeExists(p[1], TargetOf(p[1], p[2]))'
    BY DEF PromptRecorded
  <2>1. zone' = zone /\ outcomes \subseteq outcomes'
    BY Steps
  <2>2. CASE p \in prompt
    <3>1. OutcomeExists(p[1], TargetOf(p[1], p[2]))'
      BY <2>1, <2>2 DEF PromptRecorded, OutcomeExists, TargetOf
    <3> QED
      BY <2>1, <2>2, <3>1 DEF PromptRecorded
  <2>3. CASE p \notin prompt
    <3>1. PICK r \in Rules : Book(r)
      BY <2>3, Steps
    <3> QED
      BY <2>1, <2>3, <3>1, Booked
  <2> QED
    BY <2>2, <2>3
<1>3. TrackedIsTold'
  <2>1. CASE UNCHANGED <<alert, told>>
    BY <2>1 DEF TrackedIsTold
  <2>2. CASE TickCommit
    <3> DEFINE emitted == Emitted(tick.missed)
    <3>1. /\ alert' = Closed(emitted)
          /\ told' = IF Speaks(tick.missed) THEN told \cup emitted.tracked ELSE told
      BY <2>2 DEF TickCommit
    <3>2. emitted \in Alert \cup {None} /\ (~Speaks(tick.missed) => emitted = alert)
      BY EmittedWindows DEF Emitted
    <3>3. Closed(emitted) # None =>
            emitted # None /\ Closed(emitted).tracked \subseteq emitted.tracked
      <4>1. emitted = None => Closed(emitted) = None
        BY DEF Closed
      <4> QED
        BY <3>2, <4>1, ClosedWindows
    <3> HIDE DEF emitted
    <3> QED
      BY <3>1, <3>2, <3>3 DEF TrackedIsTold
  <2> QED
    BY <2>1, <2>2, Steps
<1> QED
  BY <1>1, <1>2, <1>3

\* What is told was told before, or detected.
LEMMA ToldWindows ==
  ASSUME TypeOK, TrackedIsTold, [Next]_vars
  PROVE  told \subseteq told' /\ told' \subseteq told \cup tick.missed
<1>1. CASE UNCHANGED told
  BY <1>1
<1>2. CASE TickCommit
  <2>1. told' = IF Speaks(tick.missed) THEN told \cup Emitted(tick.missed).tracked ELSE told
    BY <1>2 DEF TickCommit
  <2>2. Speaks(tick.missed) =>
          \A w \in Emitted(tick.missed).tracked : w \in tick.missed \cup told
    BY EmittedWindows DEF TrackedIsTold
  <2> QED
    BY <2>1, <2>2
<1> QED
  BY <1>1, <1>2, Steps

LEMMA AlarmsLateStep ==
  ASSUME IInv, Histories, AlarmsLate, [Next]_vars,
         zone.after <= zone.before \/ zone.after >= zone.before + Lookback
  PROVE  AlarmsLate'
<1> USE DEF IInv, Histories
<1>1. zone' = zone /\ now \in Nat /\ now' \in Nat /\ now <= now' /\ Grace \in Nat
  BY Steps, Types
<1>2. told' \cup tick'.missed \subseteq told \cup tick.missed \/ TickDetect
  BY Steps, ToldWindows
<1> SUFFICES ASSUME NEW w \in told' \cup tick'.missed PROVE IsLate(w)' /\ NoPromptRun(w)'
  BY DEF AlarmsLate
<1>3. CASE w \in told \cup tick.missed
  <2>1. IsLate(w) /\ NoPromptRun(w) /\ w \in Window
    BY <1>3 DEF AlarmsLate, TypeOK, Tick
  <2>2. IsLate(w)'
    <3>1. \A open \in Int : open + Grace < now => open + Grace < now'
      BY <1>1
    <3> QED
      BY <1>1, <2>1, <3>1 DEF IsLate, TargetOf
  <2>3. NoPromptRun(w)'
    <3> SUFFICES ASSUME NEW p \in prompt', p \notin prompt, p[1] = w.rule,
                        LocalDate(zone, TargetOf(p[1], p[2])) = LocalDate(zone, w.slot)
                 PROVE  FALSE
      BY <1>1, <2>1 DEF NoPromptRun, TargetOf
    <3>1. PICK r \in Rules : Book(r)
      BY Steps
    <3>2. p[1] = r /\ p[2] \in Int /\ Opens(zone, TimingOf[r], p[2]) /\ now <= p[2] + Grace
      BY <3>1, Booked
    <3>3. p[2] + Grace < now
      BY <2>1, <3>2 DEF IsLate
    <3> QED
      BY <1>1, <3>2, <3>3
  <2> QED
    BY <2>2, <2>3
<1>4. CASE TickDetect /\ w \in DetectMissedWindows
  <2>1. PICK r \in Rules : w = MissedWindow(r) /\ Missed(w)
    BY <1>4 DEF DetectMissedWindows
  <2>2. IsLate(w)
    BY <2>1, LateDetection
  <2>3. NoPromptRun(w)
    <3> SUFFICES ASSUME NEW p \in prompt, p[1] = w.rule,
                        LocalDate(zone, TargetOf(p[1], p[2])) = LocalDate(zone, w.slot)
                 PROVE  FALSE
      BY DEF NoPromptRun
    <3>1. OutcomeExists(p[1], TargetOf(p[1], p[2]))
      BY DEF PromptRecorded
    <3>2. ~OutcomeExists(w.rule, w.slot)
      BY <2>1 DEF Missed
    <3> QED
      BY <3>1, <3>2 DEF OutcomeExists
  <2>4. now' = now /\ prompt' = prompt
    BY <1>4 DEF TickDetect
  <2> QED
    BY <1>1, <2>2, <2>3, <2>4 DEF IsLate, NoPromptRun, TargetOf
<1> QED
  BY <1>2, <1>3, <1>4 DEF TickDetect

\* Until the opening that follows it, an opening is what the detector finds.
LEMMA FoundUntilNext ==
  ASSUME TypeOK, NEW r \in Rules, NEW open \in Int, RegularWeek(r, open),
         open <= now, now < open + Week
  PROVE  MissedWindow(r) = WindowAt(r, open)
<1> DEFINE t    == TimingOf[r]
           next == NextWindowOpen(zone, t, now)
<1>1. zone \in Zone /\ ChangesWithinDay(zone) /\ t \in Timing /\ now \in Int
  BY Types
<1>2. next \in Int /\ now < next /\ Opens(zone, t, next)
  BY <1>1, NextOpens
<1>3. open + Week \in Int /\ Opens(zone, t, open + Week) /\ Week \in Int
  BY <1>1, NextOpens, DayLenAssumption DEF RegularWeek, Week
<1>4. next <= open + Week
  BY <1>1, <1>3, FirstOpening
<1>5. open + Week <= next
  <2>1. NextWindowOpen(zone, t, open) <= next
    <3> HIDE DEF next
    <3>1. open < next
      BY <1>1, <1>2
    <3> QED
      BY <1>1, <1>2, <3>1, FirstOpening
  <2> QED
    BY <2>1 DEF RegularWeek
<1>6. next - Week = open
  <2> HIDE DEF next
  <2> QED
    BY <1>2, <1>3, <1>4, <1>5
<1> QED
  BY <1>6 DEF MissedWindow, LastOpen, WindowAt, TargetOf

\* A round of notifications, or the alert it leaves alone, has every window
\* that was detected.
LEMMA DetectedIsTold ==
  ASSUME TypeOK, TrackedIsTold, TickCommit, NEW w \in tick.missed
  PROVE  \E v \in told' : v.rule = w.rule /\ v.open = w.open
<1>1. told' = IF Speaks(tick.missed) THEN told \cup Emitted(tick.missed).tracked ELSE told
  BY DEF TickCommit
<1>2. \A recorded : \E v \in Merge(recorded, tick.missed) : v.rule = w.rule /\ v.open = w.open
  BY DEF Merge
<1>3. CASE ~Speaks(tick.missed)
  <2>1. alert # None /\ Merge(alert.tracked, tick.missed) = alert.tracked
    BY <1>3 DEF Speaks, Suppressed
  <2> QED
    BY <1>1, <1>2, <1>3, <2>1 DEF TrackedIsTold
<1>4. CASE Speaks(tick.missed)
  <2>1. Emitted(tick.missed) = Notified(alert, tick.missed)
    BY <1>4 DEF Emitted
  <2>2. CASE alert = None
    BY <1>1, <1>2, <1>4, <2>1, <2>2 DEF Notified
  <2>3. CASE alert # None
    <3>1. alert \in Alert
      BY <2>3 DEF TypeOK
    <3>2. Emitted(tick.missed).tracked = Merge(alert.tracked, tick.missed)
      BY <2>1, <2>3, <3>1 DEF Notified, Alert
    <3> QED
      BY <1>1, <1>2, <1>4, <3>2
  <2> QED
    BY <2>2, <2>3
<1> QED
  BY <1>3, <1>4

\* An opening is past and unattended only if it was before, unless the clock
\* just reached it or its rule was just created.
LEMMA UnattendedBefore ==
  ASSUME TypeOK, CreatedSince, [Next]_vars, NEW r \in Rules, NEW open \in Past(r)',
         Unattended(r, open)'
  PROVE  \/ open \in Past(r) /\ Unattended(r, open)
         \/ open = now'
<1>1. /\ zone' = zone /\ outcomes \subseteq outcomes' /\ now \in Nat /\ now' \in Nat /\ now <= now'
      /\ zone \in Zone /\ ChangesWithinDay(zone) /\ TimingOf[r] \in Timing
  BY Steps, Types
<1>2. /\ open \in Openings(zone, TimingOf[r], 0..DayOf(Horizon)) /\ Start <= open /\ open <= now'
      /\ open \in Int
  BY <1>1, OpeningsOpen DEF Past
<1>3. ~OutcomeExists(r, TargetOf(r, open))
  BY <1>1 DEF Unattended, OutcomeExists, TargetOf
<1>4. rule'[r].active /\ since'[r] <= open
  BY DEF Unattended
<1>5. CASE UNCHANGED <<rule, since>>
  <2>1. now' = now \/ now' = now + 1
    <3>1. ASSUME NEW q \in Rules, Book(q) \/ EditRule(q) PROVE now' = now
      BY <3>1 DEF Book, EditRule
    <3> QED
      BY <3>1 DEF Next, TickDetect, TickCommit, Clock, vars
  <2>2. open = now' \/ open <= now
    BY <1>1, <1>2, <2>1
  <2> QED
    BY <1>2, <1>3, <1>4, <1>5, <2>2 DEF Past, Unattended, TargetOf
<1>6. ASSUME NEW q \in Rules, EditRule(q)
      PROVE  \/ open \in Past(r) /\ Unattended(r, open)
             \/ open = now'
  <2>1. now' = now /\ (q # r => rule'[r] = rule[r] /\ since'[r] = since[r])
    BY <1>6 DEF EditRule, TypeOK
  <2>2. CASE q # r
    BY <1>2, <1>3, <1>4, <2>1, <2>2 DEF Past, Unattended, TargetOf
  <2>3. CASE q = r
    <3>1. since'[r] = now
      BY <1>4, <1>6, <2>3 DEF EditRule, TypeOK
    <3> QED
      BY <1>1, <1>2, <1>4, <2>1, <3>1
  <2> QED
    BY <2>2, <2>3
<1> QED
  BY <1>5, <1>6, Steps

LEMMA ToldInTimeStep ==
  ASSUME IInv, Histories, ToldInTime, [Next]_vars,
         Grace + MaxOutage + 1 < Lookback, Lookback <= Week
  PROVE  ToldInTime'
<1> USE DEF IInv, Histories
<1>1. /\ zone' = zone /\ now \in Nat /\ now' \in Nat /\ now <= now'
      /\ zone \in Zone /\ ChangesWithinDay(zone) /\ Week \in Int
      /\ down \in Nat /\ down <= MaxOutage /\ MaxOutage \in Nat /\ Grace \in Nat /\ Lookback \in Nat
  BY Steps, Types, DayLenAssumption DEF Week
<1> SUFFICES ASSUME NEW r \in Rules, NEW open \in Past(r)', RegularWeek(r, open)',
                    Unattended(r, open)', ~WasTold(r, open)'
             PROVE  /\ now' <= open + Patience'
                    /\ tick'.pc = "detected" /\ open + Grace < now'
                         => WindowAt(r, open)' \in tick'.missed
  BY DEF ToldInTime
<1>2. /\ TimingOf[r] \in Timing
      /\ open \in Openings(zone, TimingOf[r], 0..DayOf(Horizon)) /\ open <= now'
  BY <1>1, Types DEF Past
<1>3. open \in Int
  BY <1>1, <1>2, OpeningsOpen
<1>4. TypeOK' /\ down' \in Nat
  <2>1. IInv'
    BY NextIInv
  <2> QED
    BY <2>1, DetectorAssumption DEF TypeOK
<1>5. Patience' \in Nat /\ Grace <= Patience'
  <2>1. Patience' = IF tick'.pc = "done" THEN Grace
                    ELSE IF down' > 0 THEN Grace + down' ELSE Grace + MaxOutage + 1
    BY DEF Patience
  <2>2. Grace \in Nat /\ MaxOutage \in Nat /\ down' \in Nat
    BY <1>1, <1>4
  <2>3. CASE tick'.pc = "done"
    BY <2>1, <2>2, <2>3
  <2>4. CASE tick'.pc # "done" /\ down' > 0
    <3>1. Grace + down' \in Nat /\ Grace <= Grace + down'
      <4>1. \A g, n \in Nat : g + n \in Nat /\ g <= g + n
        OBVIOUS
      <4> HIDE DEF IInv, Histories
      <4> QED
        BY <2>2, <4>1, Zenon
    <3>2. Patience' = Grace + down'
      BY <2>1, <2>4
    <3> QED
      BY <3>1, <3>2
  <2>5. CASE tick'.pc # "done" /\ ~(down' > 0)
    BY <2>1, <2>2, <2>5
  <2> QED
    BY <2>3, <2>4, <2>5
<1>6. RegularWeek(r, open) /\ ~WasTold(r, open) /\ WindowAt(r, open)' = WindowAt(r, open)
  BY <1>1, ToldWindows DEF RegularWeek, WasTold, WindowAt, TargetOf
<1>7. CASE open = now'
  <2>1. \A o \in Int : \A g, p \in Nat : o <= o + p /\ ~(o + g < o)
    OBVIOUS
  <2> HIDE DEF IInv, Histories
  <2>2. open <= open + Patience' /\ ~(open + Grace < open)
    BY <1>1, <1>3, <1>5, <2>1, Zenon
  <2> QED
    BY <1>7, <2>2, Zenon
<1>8. CASE open \in Past(r) /\ Unattended(r, open)
  <2>1. /\ now <= open + Patience /\ open <= now
        /\ tick.pc = "detected" /\ open + Grace < now => WindowAt(r, open) \in tick.missed
    BY <1>6, <1>8 DEF ToldInTime, Past
  <2>2. CASE TickDetect
    <3>1. down = 0 /\ tick.pc = "due" /\ now' = now /\ tick'.missed = DetectMissedWindows
          /\ Patience = Grace + MaxOutage + 1 /\ Patience' = Patience
      BY <2>2 DEF TickDetect, Patience
    <3>2. ASSUME open + Grace < now PROVE WindowAt(r, open) \in DetectMissedWindows
      <4>1. now < open + Lookback /\ now < open + Week
        BY <1>1, <1>3, <2>1, <3>1
      <4>2. MissedWindow(r) = WindowAt(r, open)
        BY <1>3, <1>6, <2>1, <4>1, FoundUntilNext
      <4>3. rule[r].active /\ rule[r].created <= open /\ ~OutcomeExists(r, TargetOf(r, open))
        BY <1>8 DEF Unattended, CreatedSince, TargetOf
      <4>4. Missed(WindowAt(r, open))
        BY <1>1, <1>3, <3>2, <4>1, <4>3 DEF Missed, WindowAt
      <4> QED
        BY <4>2, <4>4 DEF DetectMissedWindows
    <3> QED
      BY <1>6, <2>1, <3>1, <3>2
  <2>3. CASE TickCommit
    <3>1. tick.pc = "detected" /\ tick'.pc = "done" /\ now' = now /\ Patience' = Grace
      BY <2>3 DEF TickCommit, Patience
    <3>2. WindowAt(r, open) \notin tick.missed
      <4>1. ASSUME WindowAt(r, open) \in tick.missed PROVE FALSE
        <5>1. PICK v \in told' : v.rule = r /\ v.open = open
          BY <2>3, <4>1, DetectedIsTold DEF WindowAt
        <5> QED
          BY <5>1 DEF WasTold
      <4> QED
        BY <4>1
    <3> QED
      BY <1>1, <1>3, <2>1, <3>1, <3>2
  <2>4. CASE Clock
    <3>1. /\ now' = now + 1 /\ tick'.pc = "due" /\ (down = 0 => tick.pc = "done")
          /\ (down' = 0 \/ down' = down + 1)
      BY <2>4 DEF Clock
    <3>2. now <= open + Grace + down
      BY <1>1, <1>3, <2>1, <3>1 DEF Patience
    <3>3. Patience' >= Grace + down + 1
      BY <1>1, <3>1 DEF Patience
    <3> QED
      BY <1>1, <1>3, <1>5, <3>1, <3>2, <3>3
  <2>5. CASE UNCHANGED <<now, tick, down>>
    BY <1>6, <2>1, <2>5 DEF Patience
  <2>6. TickDetect \/ TickCommit \/ Clock \/ UNCHANGED <<now, tick, down>>
    BY DEF Next, Book, EditRule, vars
  <2> QED
    BY <2>2, <2>3, <2>4, <2>5, <2>6
<1> QED
  BY <1>7, <1>8, UnattendedBefore

LEMMA InitLate == Init => Histories /\ AlarmsLate /\ ToldInTime
<1> SUFFICES ASSUME Init PROVE Histories /\ AlarmsLate /\ ToldInTime
  OBVIOUS
<1>1. TypeOK
  BY InitIInv DEF IInv
<1>2. /\ prompt = {} /\ told = {} /\ tick.missed = {} /\ tick.pc = "due" /\ now = Start
      /\ alert # None => alert.tracked = {}
  BY DEF Init
<1>3. \A r \in Rules : since[r] = 0 /\ (rule[r].active => rule[r].created = 0)
  <2>1. \A r \in Rules :
          rule[r] \in {[active |-> TRUE, created |-> 0], [active |-> FALSE, created |-> None]}
    BY DEF Init
  <2> QED
    BY <2>1 DEF Init
<1>4. Histories
  BY <1>2, <1>3 DEF Histories, CreatedSince, PromptRecorded, TrackedIsTold
<1>5. AlarmsLate
  BY <1>2 DEF AlarmsLate
<1>6. ASSUME NEW r \in Rules, NEW open \in Past(r)
      PROVE  now <= open + Patience
  <2>1. open \in Openings(zone, TimingOf[r], 0..DayOf(Horizon)) /\ Start <= open
    BY DEF Past
  <2>2. open \in Int /\ now \in Nat /\ Patience \in Nat
    BY <1>1, <2>1, Types, OpeningsOpen DEF Patience
  <2> QED
    BY <1>2, <2>1, <2>2
<1> QED
  BY <1>2, <1>4, <1>5, <1>6 DEF ToldInTime

THEOREM SpecHistories == Spec => []Histories
<1>1. Init => Histories
  BY InitLate
<1>2. IInv /\ Histories /\ [Next]_vars => Histories'
  BY HistoriesStep DEF IInv
<1> QED
  BY <1>1, <1>2, SpecIInv, PTL DEF Spec

\* A run recorded within the grace period of its opening is never reported as
\* silent, if the clocks of the zones are put forward by no less than the
\* lookback.  detect_missed_windows.
THEOREM SpecPromptRunNotAlarmed ==
  ASSUME \A z \in Zones : z.after <= z.before \/ z.after >= z.before + Lookback
  PROVE  Spec => []PromptRunNotAlarmed
<1>1. Init => AlarmsLate
  BY InitLate
<1>2. IInv /\ Histories /\ AlarmsLate /\ [Next]_vars => AlarmsLate'
  <2>1. IInv => zone \in Zones
    BY DEF IInv, TypeOK
  <2> QED
    BY <2>1, AlarmsLateStep
<1>3. AlarmsLate => PromptRunNotAlarmed
  BY DEF AlarmsLate, NoPromptRun, PromptRunNotAlarmed, TargetOf
<1> QED
  BY <1>1, <1>2, <1>3, SpecIInv, SpecHistories, PTL DEF Spec

\* A window nobody contested is reported before it leaves the lookback, if the
\* worker is down for less than what the grace period leaves of it.
\* detect_missed_windows, emit_anomaly_alerts.
THEOREM SpecMissedReported ==
  ASSUME Grace + MaxOutage + 1 < Lookback, Lookback <= Week
  PROVE  Spec => []MissedReported
<1>1. Init => ToldInTime
  BY InitLate
<1>2. IInv /\ Histories /\ ToldInTime /\ [Next]_vars => ToldInTime'
  BY ToldInTimeStep
<1>3. IInv /\ ToldInTime => MissedReported
  <2> SUFFICES ASSUME IInv, ToldInTime, NEW r \in Rules, NEW open \in Past(r),
                      open + Lookback <= now, down = 0, RegularWeek(r, open),
                      Unattended(r, open), ~WasTold(r, open)
               PROVE  FALSE
    BY DEF MissedReported
  <2>1. now <= open + Patience /\ Patience <= Grace + MaxOutage + 1
    BY Types DEF ToldInTime, Patience, IInv
  <2>2. open \in Int /\ now \in Nat /\ Patience \in Int
    BY Types, OpeningsOpen DEF Past, Patience, IInv
  <2> QED
    BY <2>1, <2>2, Types DEF IInv
<1> QED
  BY <1>1, <1>2, <1>3, SpecIInv, SpecHistories, PTL DEF Spec
=============================================================================
