------------------------ MODULE StatisticsPageProofs ------------------------
(***************************************************************************)
(* Theorems about the attendance ledger (Capture) and about the figures    *)
(* the statistics page derives from it (Metrics, StatisticsPage), for any  *)
(* classes, calendar, months, thresholds, prices and bounds.               *)
(***************************************************************************)
EXTENDS StatisticsPage, FiniteSetTheorems, SequenceTheorems, WellFoundedInduction, TLAPS

-----------------------------------------------------------------------------
(* The inductive invariant of the ledger. *)

Page == [pc    : {"idle", "reading", "fetched"},
         today : 0..LastDay,
         month : (Days \X Days) \cup {<<0, 0>>},
         todo  : Seq(Days),
         got   : [count  : 0..Cardinality(Classes),
                  states : UNION {[S -> Shown] : S \in SUBSET Classes}]]

Typed ==
  /\ now \in FirstDay * Ticks..EndOfTime
  /\ gym \in [Classes -> Entry]
  /\ moves \in 0..MaxMoves
  /\ ledger \in [Days -> DayRow \cup {Unread}]
  /\ records \in [Classes -> Shown \cup {Unread}]
  /\ failures \in 0..MaxFailures
  /\ visit \in [Visits -> Page]
  /\ \A v \in Visits : visit[v].today <= DayAt(now) /\ Len(visit[v].todo) <= Cap

\* A final row is of a day that is over, and holds what the gym says of it.
FinalHolds ==
  \A d \in Days : ledger[d] # Unread /\ ledger[d].final =>
    /\ d < DayAt(now)
    /\ ledger[d].count = ReadOperatorStates(d).count
    /\ \A c \in ClassesOn(d) : gym[c].list \notin {"none", "off"} => records[c] = gym[c]

\* What a visit holds of a day that was over when it began is what the gym still
\* says of it.
FetchedHolds ==
  \A v \in Visits : visit[v].pc = "fetched" =>
    /\ visit[v].todo # <<>>
    /\ \A d \in Days : d = Head(visit[v].todo) =>
         /\ DOMAIN visit[v].got.states \subseteq ClassesOn(d)
         /\ d < visit[v].today => visit[v].got = ReadOperatorStates(d)

\* The days of the month on screen are read, or yet to be read by the visit.
MonthAhead ==
  \A v \in Visits : visit[v].pc # "idle" =>
    \A d \in visit[v].month[1]..visit[v].month[2] :
      visit[v].today - Horizon <= d /\ d <= visit[v].today
        => ledger[d] # Unread \/ d \in Range(visit[v].todo)

\* A record came with the row of its day.
RecordOfDay == \A c \in Classes : records[c] # Unread => ledger[DayOf(c)] # Unread

IInv == Typed /\ FinalHolds /\ FetchedHolds /\ MonthAhead /\ RecordOfDay

-----------------------------------------------------------------------------
(* Days and instants. *)

LEMMA ConstantTypes ==
  /\ Ticks \in Nat \ {0} /\ FirstDay \in Nat \ {0} /\ LastDay \in Nat \ {0} /\ Cap \in Nat \ {0}
  /\ Horizon \in Nat /\ MaxMoves \in Nat /\ MaxFailures \in Nat /\ EndOfTime \in Nat
  /\ FirstDay * Ticks \in Nat /\ FirstDay * Ticks <= EndOfTime
  /\ IsFiniteSet(Classes) /\ Cardinality(Classes) \in Nat
  /\ \A c \in Classes : Start[c] \in Nat /\ DayOf(c) \in Days
<1>1. IsFiniteSet(Classes)
  BY CaptureAssumption
<1> QED
  BY <1>1, CaptureAssumption, FS_CardinalityType

\* Later instants are not on earlier days.
LEMMA DayAtOrders ==
  ASSUME NEW i \in Nat, NEW j \in Nat, i <= j
  PROVE  DayAt(i) \in Nat /\ DayAt(j) \in Nat /\ DayAt(i) <= DayAt(j)
<1> DEFINE d == i \div Ticks
           e == j \div Ticks
<1>1. /\ d \in Nat /\ d * Ticks \in Nat /\ d * Ticks <= i
      /\ e \in Nat /\ e * Ticks \in Nat /\ j < e * Ticks + Ticks
  BY ConstantTypes
<1> HIDE DEF d, e
<1>2. e < d => e * Ticks + Ticks <= d * Ticks
  BY <1>1, ConstantTypes
<1>3. d <= e
  BY <1>1, <1>2, ConstantTypes
<1> QED
  BY <1>1, <1>3 DEF d, e, DayAt

\* The clock stays within the calendar.
LEMMA Today ==
  ASSUME Typed
  PROVE  now \in Nat /\ DayAt(now) \in 0..LastDay
<1>1. now \in Nat /\ now <= EndOfTime
  <2> DEFINE begin == FirstDay * Ticks
  <2>1. begin \in Nat /\ EndOfTime \in Nat
    BY ConstantTypes
  <2>2. now \in begin..EndOfTime
    BY DEF Typed
  <2> HIDE DEF begin
  <2> QED
    BY <2>1, <2>2
<1>2. DayAt(now) \in Nat /\ DayAt(EndOfTime) \in Nat /\ DayAt(now) <= DayAt(EndOfTime)
  BY <1>1, ConstantTypes, DayAtOrders
<1>3. DayAt(EndOfTime) <= LastDay
  BY CaptureAssumption
<1> QED
  BY <1>1, <1>2, <1>3, ConstantTypes

-----------------------------------------------------------------------------
(* The days in descending order. *)

\* The days of a set, each at the place of its rank.
LEMMA NewestFirstLists ==
  ASSUME NEW S \in SUBSET Days
  PROVE  /\ NewestFirst(S) \in Seq(Days) /\ Len(NewestFirst(S)) = Cardinality(S)
         /\ \A d \in S : \E i \in 1..Cardinality(S) : NewestFirst(S)[i] = d
<1> DEFINE up(d) == {e \in S : e >= d}
           n == Cardinality(S)
           rank == [d \in S |-> Cardinality(up(d))]
<1>1. IsFiniteSet(S) /\ n \in Nat /\ S \subseteq Int
  <2>1. Days \subseteq Int /\ IsFiniteSet(Days)
    BY ConstantTypes, FS_Interval DEF Days
  <2>2. IsFiniteSet(S)
    BY <2>1, FS_Subset
  <2> QED
    BY <2>1, <2>2, FS_CardinalityType
<1>2. \A d \in S : up(d) \in SUBSET S /\ IsFiniteSet(up(d)) /\ Cardinality(up(d)) \in 1..n
  <2> SUFFICES ASSUME NEW d \in S
               PROVE  up(d) \in SUBSET S /\ IsFiniteSet(up(d)) /\ Cardinality(up(d)) \in 1..n
    OBVIOUS
  <2>1. up(d) \in SUBSET S /\ d \in up(d)
    BY <1>1
  <2> HIDE DEF up
  <2>2. IsFiniteSet(up(d)) /\ Cardinality(up(d)) <= n /\ Cardinality(up(d)) \in Nat
    BY <1>1, <2>1, FS_Subset, FS_CardinalityType
  <2>3. Cardinality(up(d)) # 0
    BY <2>1, <2>2, FS_EmptySet
  <2> QED
    BY <1>1, <2>1, <2>2, <2>3
<1>3. ASSUME NEW d \in S, NEW e \in S, Cardinality(up(d)) = Cardinality(up(e)) PROVE d = e
  <2>1. ASSUME NEW a \in S, NEW b \in S, a < b PROVE Cardinality(up(a)) # Cardinality(up(b))
    <3>1. up(b) \in SUBSET up(a) /\ a \in up(a) /\ a \notin up(b)
      <4>1. a \in Int /\ b \in Int /\ S \subseteq Int
        BY <1>1
      <4>2. \A k \in S : (k >= b => k >= a) /\ ~(a >= b) /\ a >= a
        BY <2>1, <4>1
      <4> QED
        BY <4>2, Zenon
    <3>2. IsFiniteSet(up(a))
      BY <1>2
    <3> HIDE DEF up
    <3> QED
      BY <3>1, <3>2, FS_Subset
  <2> QED
    BY <1>1, <1>3, <2>1
<1>4. rank \in Injection(S, 1..n)
  <2> HIDE DEF up
  <2>1. rank \in [S -> 1..n]
    BY <1>2
  <2> QED
    BY <1>3, <2>1 DEF Injection, IsInjective
<1>5. rank \in Surjection(S, 1..n)
  <2>1. IsFiniteSet(1..n) /\ Cardinality(1..n) = n
    BY <1>1, FS_Interval
  <2> HIDE DEF rank
  <2> QED
    BY <1>4, <2>1, FS_Injection
<1>6. \A i \in 1..n : \E d \in S : Cardinality(up(d)) = i
  <2> HIDE DEF up
  <2> QED
    BY <1>5 DEF Surjection
<1>7. NewestFirst(S) = [i \in 1..n |-> CHOOSE d \in S : Cardinality(up(d)) = i]
  BY DEF NewestFirst
<1> HIDE DEF up
<1>8. \A i \in 1..n : NewestFirst(S)[i] \in S /\ Cardinality(up(NewestFirst(S)[i])) = i
  BY <1>6, <1>7
<1>9. NewestFirst(S) \in [1..n -> Days]
  BY <1>7, <1>8
<1>10. NewestFirst(S) \in Seq(Days) /\ Len(NewestFirst(S)) = n
  BY <1>1, <1>9
<1>11. ASSUME NEW d \in S PROVE \E i \in 1..n : NewestFirst(S)[i] = d
  <2>1. Cardinality(up(d)) \in 1..n
    BY <1>2
  <2>2. NewestFirst(S)[Cardinality(up(d))] = d
    BY <1>3, <1>8, <2>1
  <2> QED
    BY <2>1, <2>2
<1> QED
  BY <1>10, <1>11

-----------------------------------------------------------------------------
(* The ledger: every step keeps the invariant. *)

LEMMA NoVisitIsPage ==
  /\ NoVisit \in Page /\ NoVisit.pc = "idle" /\ NoVisit.today = 0
  /\ NoVisit.todo = <<>> /\ Len(NoVisit.todo) = 0
<1>1. NoDay.states \in [{} -> Shown]
  BY DEF NoDay
<1>2. NoDay \in [count  : 0..Cardinality(Classes),
                 states : UNION {[S -> Shown] : S \in SUBSET Classes}]
  <2>1. NoDay.states \in UNION {[S -> Shown] : S \in SUBSET Classes}
    BY <1>1, Zenon
  <2>2. NoDay = [count |-> 0, states |-> NoDay.states] /\ 0 \in 0..Cardinality(Classes)
    BY ConstantTypes DEF NoDay
  <2> QED
    BY <2>1, <2>2
<1>3. <<>> \in Seq(Days) /\ 0 \in 0..LastDay
  BY ConstantTypes
<1> QED
  BY <1>2, <1>3 DEF NoVisit, Page

LEMMA InitIInv == Init => IInv
<1> SUFFICES ASSUME Init PROVE IInv
  OBVIOUS
<1>1. gym \in [Classes -> Entry]
  BY RowAssumption DEF Init
<1>2. now \in FirstDay * Ticks..EndOfTime /\ DayAt(now) \in Nat
  <2> DEFINE begin == FirstDay * Ticks
  <2>1. begin \in Nat /\ EndOfTime \in Nat /\ begin <= EndOfTime /\ now = begin
    BY ConstantTypes DEF Init
  <2> HIDE DEF begin
  <2>2. now \in begin..EndOfTime /\ now \in Nat
    BY <2>1
  <2>3. DayAt(now) \in Nat
    BY <2>2, DayAtOrders
  <2> QED
    BY <2>2, <2>3 DEF begin
<1>3. Typed
  BY <1>1, <1>2, ConstantTypes, NoVisitIsPage DEF Init, Typed
<1>4. FinalHolds /\ RecordOfDay
  BY DEF Init, FinalHolds, RecordOfDay
<1>5. FetchedHolds /\ MonthAhead
  BY NoVisitIsPage DEF Init, FetchedHolds, MonthAhead
<1> QED
  BY <1>3, <1>4, <1>5 DEF IInv

\* What the gym says of a day that is over stands.
LEMMA DayStands ==
  ASSUME Typed, GymMoves, NEW d \in Int, d < DayAt(now)
  PROVE  /\ \A c \in ClassesOn(d) : gym'[c] = gym[c]
         /\ ReadOperatorStates(d)' = ReadOperatorStates(d)
<1>1. PICK k \in Classes : \E e : gym' = [gym EXCEPT ![k] = e] /\ (now < Start[k] \/ DayAt(now) = DayOf(k))
  BY Zenon DEF GymMoves, Book, Leave, MarkAbsent, CallOff, Moves
<1>2. DayAt(now) <= DayOf(k) /\ DayOf(k) \in Int /\ DayAt(now) \in Int
  <2>1. now \in Nat /\ Start[k] \in Nat
    BY Today, ConstantTypes
  <2>2. CASE now < Start[k]
    BY <2>1, <2>2, DayAtOrders DEF DayOf
  <2>3. CASE DayAt(now) = DayOf(k)
    BY <2>1, <2>3, DayAtOrders
  <2> QED
    BY <1>1, <2>2, <2>3
<1>3. k \notin ClassesOn(d)
  BY <1>2 DEF ClassesOn
<1>4. \A c \in ClassesOn(d) : gym'[c] = gym[c]
  BY <1>1, <1>3 DEF Typed, ClassesOn
<1> QED
  BY <1>4, Zenon DEF ReadOperatorStates

LEMMA GymMovesKeeps == IInv /\ GymMoves => IInv'
<1> SUFFICES ASSUME IInv, GymMoves PROVE IInv'
  OBVIOUS
<1>1. /\ Typed /\ DayAt(now) \in Int
      /\ UNCHANGED <<now, ledger, records, visit, failures>>
  BY Today DEF IInv, GymMoves, Book, Leave, MarkAbsent, CallOff, Moves
<1>2. moves' \in 0..MaxMoves /\ gym' \in [Classes -> Entry]
  <2>1. PICK k \in Classes, e \in Entry : Moves(k, e)
    <3>1. now \in 0..EndOfTime
      BY <1>1, Today, ConstantTypes DEF Typed
    <3>2. \A list \in {"attended", "cancelled", "no_show"} : [list |-> list, at |-> now] \in Entry
      BY <3>1 DEF Entry, Lists
    <3>3. [list |-> "off", at |-> NoInstant] \in Entry
      BY DEF Entry, Lists
    <3> QED
      BY <3>2, <3>3 DEF GymMoves, Book, Leave, MarkAbsent, CallOff
  <2> QED
    BY <1>1, <2>1, ConstantTypes DEF Moves, Typed
<1>3. Typed'
  BY <1>1, <1>2 DEF Typed
<1>4. FinalHolds'
  <2> SUFFICES ASSUME NEW d \in Days, ledger[d] # Unread, ledger[d].final
               PROVE  /\ d < DayAt(now) /\ ledger[d].count = ReadOperatorStates(d)'.count
                      /\ \A c \in ClassesOn(d) :
                           gym'[c].list \notin {"none", "off"} => records[c] = gym'[c]
    BY <1>1 DEF FinalHolds
  <2>1. /\ d < DayAt(now) /\ ledger[d].count = ReadOperatorStates(d).count
        /\ \A c \in ClassesOn(d) : gym[c].list \notin {"none", "off"} => records[c] = gym[c]
    BY DEF IInv, FinalHolds
  <2>2. d \in Int
    BY DEF Days
  <2> QED
    BY <1>1, <2>1, <2>2, DayStands
<1>5. FetchedHolds'
  <2> SUFFICES ASSUME NEW v \in Visits, visit[v].pc = "fetched",
                      NEW d \in Days, d = Head(visit[v].todo), d < visit[v].today
               PROVE  visit[v].got = ReadOperatorStates(d)'
    BY <1>1 DEF IInv, FetchedHolds
  <2>1. visit[v].got = ReadOperatorStates(d)
    BY DEF IInv, FetchedHolds
  <2>2. d \in Int /\ visit[v].today \in Int /\ visit[v].today <= DayAt(now)
    BY <1>1 DEF Typed, Page, Days
  <2> QED
    BY <1>1, <2>1, <2>2, DayStands
<1>6. MonthAhead' /\ RecordOfDay'
  BY <1>1 DEF IInv, MonthAhead, RecordOfDay
<1> QED
  BY <1>3, <1>4, <1>5, <1>6 DEF IInv

\* The lesser and the greater of two numbers.
LEMMA OfTwo ==
  ASSUME NEW a \in Int, NEW b \in Int
  PROVE  /\ Min({a, b}) = IF a <= b THEN a ELSE b
         /\ Max({a, b}) = IF a >= b THEN a ELSE b
<1> DEFINE least == IF a <= b THEN a ELSE b
           most  == IF a >= b THEN a ELSE b
<1>1. least \in {a, b} /\ \A y \in {a, b} : least =< y
  OBVIOUS
<1>2. \A x \in {a, b} : (\A y \in {a, b} : x =< y) => x = least
  OBVIOUS
<1>3. most \in {a, b} /\ \A y \in {a, b} : most >= y
  OBVIOUS
<1>4. \A x \in {a, b} : (\A y \in {a, b} : x >= y) => x = most
  OBVIOUS
<1> HIDE DEF least, most
<1>5. Min({a, b}) = least /\ Max({a, b}) = most
  BY <1>1, <1>2, <1>3, <1>4 DEF Min, Max
<1> QED
  BY <1>5 DEF least, most

\* What a visit sets out to read: as many days as the cap allows, and among them
\* all those of the month on screen that have no row.
LEMMA PendingCovers ==
  ASSUME NEW today \in 0..LastDay, NEW month \in Months,
         NEW todo, todo = SubSeq(PendingDates(today, month), 1,
                                 Min({Cap, Len(PendingDates(today, month))}))
  PROVE  /\ todo \in Seq(Days) /\ Len(todo) <= Cap
         /\ \A d \in month[1]..month[2] :
              today - Horizon <= d /\ d <= today => ledger[d] # Unread \/ d \in Range(todo)
<1> DEFINE worth    == {d \in Days : /\ today - Horizon <= d /\ d <= today
                                     /\ ledger[d] = Unread \/ ~ledger[d].final}
           onScreen == {d \in worth : month[1] <= d /\ d <= month[2] /\ d <= today}
           front    == NewestFirst(onScreen)
           back     == NewestFirst(worth \ onScreen)
           pending  == front \o back
           k        == Min({Cap, Len(pending)})
<1>1. month[1] \in Days /\ month[2] \in Days /\ month[2] - month[1] < Cap /\ month[1] <= month[2]
  BY CaptureAssumption
<1>2. PendingDates(today, month) = pending
  BY DEF PendingDates
<1>3. onScreen \in SUBSET Days /\ worth \ onScreen \in SUBSET Days
  OBVIOUS
<1>4. IsFiniteSet(onScreen) /\ Cardinality(onScreen) \in Nat /\ Cardinality(onScreen) <= Cap
  <2>1. month[1] \in Int /\ month[2] \in Int /\ Cap \in Nat
    BY <1>1, ConstantTypes DEF Days
  <2>2. /\ IsFiniteSet(month[1]..month[2])
        /\ Cardinality(month[1]..month[2]) = month[2] - month[1] + 1
    <3> DEFINE a == month[1]
               b == month[2]
    <3>1. a \in Int /\ b \in Int /\ a <= b
      BY <1>1, <2>1
    <3> HIDE DEF a, b
    <3>2. IsFiniteSet(a..b) /\ Cardinality(a..b) = IF a > b THEN 0 ELSE b - a + 1
      BY <3>1, FS_Interval
    <3>3. IsFiniteSet(a..b) /\ Cardinality(a..b) = b - a + 1
      BY <3>1, <3>2
    <3> QED
      BY <3>3 DEF a, b
  <2>3. onScreen \in SUBSET (month[1]..month[2])
    BY <2>1 DEF Days
  <2> HIDE DEF onScreen
  <2>4. IsFiniteSet(onScreen) /\ Cardinality(onScreen) <= month[2] - month[1] + 1
    BY <2>2, <2>3, FS_Subset
  <2> QED
    BY <1>1, <2>1, <2>4, FS_CardinalityType
<1>5. /\ front \in Seq(Days) /\ Len(front) = Cardinality(onScreen) /\ back \in Seq(Days)
      /\ \A d \in onScreen : \E i \in 1..Len(front) : front[i] = d
  <2> HIDE DEF onScreen, worth
  <2> QED
    BY <1>3, NewestFirstLists
<1> HIDE DEF front, back
<1>6. /\ pending \in Seq(Days) /\ Len(pending) \in Nat /\ Len(front) <= Len(pending)
      /\ \A i \in 1..Len(front) : pending[i] = front[i]
  <2>1. Len(front) \in Nat /\ Len(back) \in Nat
    BY <1>5
  <2>2. /\ pending \in Seq(Days) /\ Len(pending) = Len(front) + Len(back)
        /\ \A i \in 1..Len(front) + Len(back) :
             pending[i] = IF i <= Len(front) THEN front[i] ELSE back[i - Len(front)]
    BY <1>5, ConcatProperties
  <2> HIDE DEF pending
  <2> QED
    BY <2>1, <2>2
<1> HIDE DEF pending
<1>7. k \in Nat /\ k <= Cap /\ k <= Len(pending) /\ Len(front) <= k
  <2>1. k = IF Cap <= Len(pending) THEN Cap ELSE Len(pending)
    <3>1. Cap \in Int /\ Len(pending) \in Int
      BY <1>6, ConstantTypes
    <3> QED
      BY <3>1, OfTwo
  <2> HIDE DEF k
  <2> QED
    BY <1>4, <1>5, <1>6, <2>1, ConstantTypes
<1> HIDE DEF k
<1>8. todo = SubSeq(pending, 1, k)
  BY <1>2 DEF k
<1>9. todo \in Seq(Days) /\ Len(todo) = k /\ \A i \in 1..k : todo[i] = pending[i]
  <2>1. \A i \in 1..k : pending[i] \in Days
    BY <1>6, <1>7
  <2> QED
    <3>1. /\ SubSeq(pending, 1, k) \in Seq(Days)
          /\ Len(SubSeq(pending, 1, k)) = IF 1 <= k THEN k - 1 + 1 ELSE 0
          /\ \A i \in 1..k - 1 + 1 : SubSeq(pending, 1, k)[i] = pending[1 + i - 1]
      BY <1>7, <2>1, SubSeqProperties
    <3> DEFINE cut == SubSeq(pending, 1, k)
    <3> HIDE DEF cut
    <3>2. Len(cut) = k
      BY <1>7, <3>1 DEF cut
    <3>3. ASSUME NEW i \in 1..k PROVE cut[i] = pending[i]
      <4>1. i \in 1..k - 1 + 1 /\ 1 + i - 1 = i
        BY <1>7
      <4> QED
        BY <3>1, <4>1 DEF cut
    <3> QED
      BY <1>8, <3>1, <3>2, <3>3 DEF cut
<1>10. ASSUME NEW d \in month[1]..month[2], today - Horizon <= d, d <= today, ledger[d] = Unread
       PROVE  d \in Range(todo)
  <2>1. d \in onScreen
    <3>1. d \in Days /\ month[1] <= d /\ d <= month[2]
      BY <1>1, ConstantTypes DEF Days
    <3> QED
      BY <1>10, <3>1
  <2> HIDE DEF onScreen
  <2>2. PICK i \in 1..Len(front) : front[i] = d
    BY <1>5, <2>1
  <2>3. i \in 1..k /\ todo[i] = d
    <3>1. Len(front) \in Nat
      BY <1>5
    <3>2. i \in 1..k
      BY <1>7, <2>2, <3>1
    <3> QED
      BY <1>6, <1>9, <2>2, <3>2
  <2>4. i \in DOMAIN todo
    BY <1>9, <2>3
  <2> QED
    BY <2>3, <2>4 DEF Range
<1> QED
  BY <1>7, <1>9, <1>10, ConstantTypes

LEMMA OpenPageKeeps ==
  ASSUME IInv, NEW v \in Visits, NEW month \in Months, OpenPage(v, month)
  PROVE  IInv'
<1> DEFINE today == DayAt(now)
           todo  == SubSeq(PendingDates(today, month), 1,
                           Min({Cap, Len(PendingDates(today, month))}))
           page  == [NoVisit EXCEPT !.pc = "reading", !.today = today, !.month = month,
                                    !.todo = todo]
<1>1. /\ visit' = [visit EXCEPT ![v] = page]
      /\ UNCHANGED <<now, gym, moves, ledger, records, failures>>
  BY DEF OpenPage
<1>2. Typed /\ today \in 0..LastDay
  BY Today DEF IInv
<1> HIDE DEF today
<1>3. /\ todo \in Seq(Days) /\ Len(todo) <= Cap
      /\ \A d \in month[1]..month[2] :
           today - Horizon <= d /\ d <= today => ledger[d] # Unread \/ d \in Range(todo)
  BY <1>2, PendingCovers
<1> HIDE DEF todo
<1>4. /\ page \in Page /\ page.pc = "reading" /\ page.today = today /\ page.month = month
      /\ page.todo = todo
  <2>1. month \in Days \X Days
    BY CaptureAssumption
  <2> QED
    BY <1>2, <1>3, <2>1, NoVisitIsPage DEF Page
<1> HIDE DEF page
<1>5. visit' \in [Visits -> Page] /\ visit'[v] = page /\ \A w \in Visits \ {v} : visit'[w] = visit[w]
  BY <1>1, <1>2, <1>4 DEF Typed
<1>6. Typed'
  <2>1. \A w \in Visits : visit'[w].today <= today /\ Len(visit'[w].todo) <= Cap
    BY <1>2, <1>3, <1>4, <1>5 DEF Typed, today
  <2> QED
    BY <1>1, <1>2, <1>5, <2>1 DEF Typed, today
<1>7. FinalHolds' /\ RecordOfDay'
  BY <1>1 DEF IInv, FinalHolds, RecordOfDay, ReadOperatorStates
<1>8. FetchedHolds'
  BY <1>1, <1>4, <1>5 DEF IInv, FetchedHolds, ReadOperatorStates
<1>9. MonthAhead'
  BY <1>1, <1>3, <1>4, <1>5 DEF IInv, MonthAhead
<1> QED
  BY <1>6, <1>7, <1>8, <1>9 DEF IInv

\* What the gym shows of a day fits a page.
LEMMA ReadingIsTyped ==
  ASSUME Typed, NEW d \in Days
  PROVE  /\ ReadOperatorStates(d) \in [count  : 0..Cardinality(Classes),
                                       states : UNION {[S -> Shown] : S \in SUBSET Classes}]
         /\ DOMAIN ReadOperatorStates(d).states =
              {c \in ClassesOn(d) : gym[c].list \notin {"none", "off"}}
         /\ \A c \in DOMAIN ReadOperatorStates(d).states :
              ReadOperatorStates(d).states[c] = gym[c]
<1> DEFINE ran == {c \in ClassesOn(d) : gym[c].list # "off"}
           S   == {c \in ClassesOn(d) : gym[c].list \notin {"none", "off"}}
           f   == [c \in S |-> gym[c]]
<1>1. Cardinality(ran) \in 0..Cardinality(Classes)
  <2>1. ran \in SUBSET Classes
    BY DEF ClassesOn
  <2> HIDE DEF ran
  <2>2. IsFiniteSet(ran) /\ Cardinality(ran) <= Cardinality(Classes)
    BY <2>1, ConstantTypes, FS_Subset
  <2>3. Cardinality(ran) \in Nat
    BY <2>2, FS_CardinalityType
  <2> QED
    BY <2>2, <2>3, ConstantTypes
<1>2. S \in SUBSET Classes
  BY DEF ClassesOn
<1>3. f \in [S -> Shown]
  <2>1. ASSUME NEW c \in S PROVE gym[c] \in Shown
    <3>1. gym[c] \in Entry /\ gym[c].list \notin {"none", "off"}
      BY <1>2 DEF Typed
    <3> QED
      BY <3>1 DEF Entry, Shown, Lists
  <2> QED
    BY <2>1
<1>4. ReadOperatorStates(d) = [count |-> Cardinality(ran), states |-> f]
  BY DEF ReadOperatorStates
<1> HIDE DEF ran
<1>5. f \in UNION {[T -> Shown] : T \in SUBSET Classes}
  BY <1>2, <1>3, Zenon
<1>6. DOMAIN f = S /\ \A c \in S : f[c] = gym[c]
  OBVIOUS
<1> HIDE DEF f
<1> QED
  BY <1>1, <1>4, <1>5, <1>6

LEMMA FetchDayKeeps ==
  ASSUME IInv, NEW v \in Visits, FetchDay(v)
  PROVE  IInv'
<1> DEFINE d == Head(visit[v].todo)
<1>1. /\ visit[v].pc = "reading" /\ visit[v].todo # <<>>
      /\ visit' = [visit EXCEPT ![v].pc = "fetched", ![v].got = ReadOperatorStates(d)]
      /\ UNCHANGED <<now, gym, moves, ledger, records, failures>>
  BY DEF FetchDay
<1>2. Typed /\ visit[v] \in Page
  BY DEF IInv, Typed
<1>3. d \in Days
  BY <1>1, <1>2, HeadTailProperties DEF Page
<1> HIDE DEF d
<1> DEFINE got == ReadOperatorStates(d)
<1>4. /\ got \in [count  : 0..Cardinality(Classes),
                  states : UNION {[S -> Shown] : S \in SUBSET Classes}]
      /\ DOMAIN got.states \subseteq ClassesOn(d)
  BY <1>2, <1>3, ReadingIsTyped
<1> HIDE DEF got
<1>5. /\ visit' \in [Visits -> Page] /\ \A w \in Visits \ {v} : visit'[w] = visit[w]
      /\ visit'[v] = [visit[v] EXCEPT !.pc = "fetched", !.got = got]
  <2>1. [visit[v] EXCEPT !.pc = "fetched", !.got = got] \in Page
    BY <1>2, <1>4 DEF Page
  <2>2. visit' = [visit EXCEPT ![v] = [visit[v] EXCEPT !.pc = "fetched", !.got = got]]
    BY <1>1, <1>2 DEF Typed, Page, got
  <2> QED
    BY <1>2, <2>1, <2>2 DEF Typed
<1>6. /\ visit'[v].pc = "fetched" /\ visit'[v].got = got
      /\ visit'[v].today = visit[v].today /\ visit'[v].month = visit[v].month
      /\ visit'[v].todo = visit[v].todo
  BY <1>2, <1>5 DEF Page
<1>7. Typed'
  <2>1. \A w \in Visits : visit'[w].today <= DayAt(now) /\ Len(visit'[w].todo) <= Cap
    BY <1>2, <1>5, <1>6 DEF Typed
  <2> QED
    BY <1>1, <1>2, <1>5, <2>1 DEF Typed
<1>8. FinalHolds' /\ RecordOfDay'
  BY <1>1 DEF IInv, FinalHolds, RecordOfDay, ReadOperatorStates
<1>9. FetchedHolds'
  <2> SUFFICES ASSUME NEW w \in Visits, visit'[w].pc = "fetched"
               PROVE  /\ visit'[w].todo # <<>>
                      /\ \A e \in Days : e = Head(visit'[w].todo) =>
                           /\ DOMAIN visit'[w].got.states \subseteq ClassesOn(e)
                           /\ e < visit'[w].today => visit'[w].got = ReadOperatorStates(e)
    <3>1. \A e : ReadOperatorStates(e)' = ReadOperatorStates(e)
      BY <1>1 DEF ReadOperatorStates
    <3> QED
      BY <3>1 DEF FetchedHolds
  <2>1. CASE w = v
    BY <1>1, <1>4, <1>6, <2>1 DEF d, got
  <2>2. CASE w # v
    BY <1>5, <2>2 DEF IInv, FetchedHolds
  <2> QED
    BY <2>1, <2>2
<1>10. MonthAhead'
  BY <1>1, <1>5, <1>6 DEF IInv, MonthAhead
<1> QED
  BY <1>7, <1>8, <1>9, <1>10 DEF IInv

LEMMA PersistDayKeeps ==
  ASSUME IInv, NEW v \in Visits, PersistDay(v)
  PROVE  IInv'
<1> DEFINE d     == Head(visit[v].todo)
           got   == visit[v].got
           row   == [count |-> got.count, final |-> IsFinal(d, visit[v].today)]
           after == [visit[v] EXCEPT !.pc = "reading", !.todo = Tail(visit[v].todo), !.got = NoDay]
<1>1. /\ visit[v].pc = "fetched"
      /\ records' = [c \in Classes |-> IF c \in DOMAIN got.states THEN got.states[c] ELSE records[c]]
      /\ ledger' = [ledger EXCEPT ![d] = row]
      /\ visit' = [visit EXCEPT ![v].pc = "reading", ![v].todo = Tail(@), ![v].got = NoDay]
      /\ UNCHANGED <<now, gym, moves, failures>>
  BY DEF PersistDay
<1>2. Typed /\ visit[v] \in Page /\ visit[v].todo \in Seq(Days)
      /\ visit[v].today \in Int /\ DayAt(now) \in Int /\ visit[v].today <= DayAt(now)
  BY Today DEF IInv, Typed, Page
<1>3. visit[v].todo # <<>>
  BY <1>1 DEF IInv, FetchedHolds
<1>4. d \in Days /\ d \in Int
  <2>1. d \in Days
    BY <1>2, <1>3, HeadTailProperties
  <2> QED
    BY <2>1 DEF Days
<1>5. /\ DOMAIN got.states \subseteq ClassesOn(d)
      /\ d < visit[v].today => got = ReadOperatorStates(d)
  BY <1>1, <1>4 DEF IInv, FetchedHolds
<1>6. /\ Tail(visit[v].todo) \in Seq(Days) /\ Len(Tail(visit[v].todo)) <= Cap
      /\ \A e \in Range(visit[v].todo) : e = d \/ e \in Range(Tail(visit[v].todo))
  <2> DEFINE s == visit[v].todo
  <2>1. s \in Seq(Days) /\ s # <<>> /\ Len(s) \in Nat /\ Len(s) <= Cap /\ d = s[1]
    BY <1>2, <1>3 DEF Typed
  <2>2. /\ Tail(s) \in Seq(Days) /\ Len(Tail(s)) = Len(s) - 1
        /\ \A i \in 1..Len(Tail(s)) : Tail(s)[i] = s[i + 1]
    BY <2>1, HeadTailProperties
  <2> HIDE DEF s, d
  <2>3. ASSUME NEW e \in Range(s), e # d PROVE e \in Range(Tail(s))
    <3>1. PICK i \in 1..Len(s) : e = s[i]
      BY <2>1 DEF Range
    <3>2. i # 1
      BY <2>1, <2>3, <3>1
    <3>3. i - 1 \in 1..Len(Tail(s)) /\ (i - 1) + 1 = i
      BY <2>1, <2>2, <3>2
    <3>4. Tail(s)[i - 1] = e /\ i - 1 \in DOMAIN Tail(s)
      BY <2>2, <3>1, <3>3
    <3> QED
      BY <3>4 DEF Range
  <2> QED
    BY <2>1, <2>2, <2>3, ConstantTypes DEF s
<1>7. row \in DayRow /\ row # Unread
  <2>1. row \in DayRow
    BY <1>2 DEF Page, DayRow, IsFinal
  <2> QED
    BY <2>1, RowAssumption
<1>8. ledger'[d] = row /\ \A e \in Days \ {d} : ledger'[e] = ledger[e]
  BY <1>1, <1>2, <1>4 DEF Typed
<1> HIDE DEF row
<1>9. /\ after \in Page /\ after.pc = "reading" /\ after.today = visit[v].today
      /\ after.month = visit[v].month /\ after.todo = Tail(visit[v].todo)
  <2>1. NoDay \in [count  : 0..Cardinality(Classes),
                   states : UNION {[S -> Shown] : S \in SUBSET Classes}]
    BY NoVisitIsPage DEF NoVisit, Page
  <2> QED
    BY <1>2, <1>6, <2>1 DEF Page
<1>10. /\ visit' \in [Visits -> Page] /\ visit'[v] = after
       /\ \A w \in Visits \ {v} : visit'[w] = visit[w]
  <2>1. visit' = [visit EXCEPT ![v] = after]
    BY <1>1, <1>2 DEF Typed, Page
  <2> HIDE DEF after
  <2> QED
    BY <1>2, <1>9, <2>1 DEF Typed
<1> HIDE DEF after
<1>11. records' \in [Classes -> Shown \cup {Unread}]
  <2>1. \A c \in DOMAIN got.states : got.states[c] \in Shown
    <3>1. got.states \in UNION {[S -> Shown] : S \in SUBSET Classes}
      BY <1>2 DEF Page
    <3>2. PICK S \in SUBSET Classes : got.states \in [S -> Shown]
      BY <3>1, Zenon
    <3> QED
      BY <3>2
  <2> QED
    BY <1>1, <1>2, <2>1 DEF Typed
<1>12. Typed'
  <2>1. ledger' \in [Days -> DayRow \cup {Unread}]
    BY <1>1, <1>2, <1>7 DEF Typed
  <2>2. \A w \in Visits : visit'[w].today <= DayAt(now) /\ Len(visit'[w].todo) <= Cap
    BY <1>2, <1>6, <1>9, <1>10 DEF Typed
  <2> QED
    BY <1>1, <1>2, <1>10, <1>11, <2>1, <2>2 DEF Typed
<1>13. \A e \in Days : \A c \in ClassesOn(e) : e # d => records'[c] = records[c]
  BY <1>1, <1>5 DEF ClassesOn
<1>14. FinalHolds'
  <2> SUFFICES ASSUME NEW e \in Days, ledger'[e] # Unread, ledger'[e].final
               PROVE  /\ e < DayAt(now) /\ ledger'[e].count = ReadOperatorStates(e).count
                      /\ \A c \in ClassesOn(e) :
                           gym[c].list \notin {"none", "off"} => records'[c] = gym[c]
    BY <1>1 DEF FinalHolds, ReadOperatorStates
  <2>1. CASE e # d
    <3>1. ledger[e] # Unread /\ ledger[e].final /\ ledger'[e] = ledger[e]
      BY <1>8, <2>1
    <3>2. /\ e < DayAt(now) /\ ledger'[e].count = ReadOperatorStates(e).count
          /\ \A c \in ClassesOn(e) : gym[c].list \notin {"none", "off"} => records[c] = gym[c]
      BY <3>1 DEF IInv, FinalHolds
    <3> QED
      BY <1>13, <2>1, <3>2
  <2>2. CASE e = d
    <3>1. d < visit[v].today /\ ledger'[d].count = got.count
      <4>1. row.final = IsFinal(d, visit[v].today) /\ row.count = got.count
        BY DEF row
      <4> QED
        BY <1>8, <2>2, <4>1 DEF IsFinal
    <3>2. d < DayAt(now) /\ got = ReadOperatorStates(d)
      BY <1>2, <1>4, <1>5, <3>1
    <3>3. /\ DOMAIN got.states = {c \in ClassesOn(d) : gym[c].list \notin {"none", "off"}}
          /\ \A c \in DOMAIN got.states : got.states[c] = gym[c]
      BY <1>2, <1>4, <3>2, ReadingIsTyped
    <3>4. \A c \in ClassesOn(d) : gym[c].list \notin {"none", "off"} => records'[c] = gym[c]
      BY <1>1, <3>3 DEF ClassesOn
    <3> QED
      BY <2>2, <3>1, <3>2, <3>4
  <2> QED
    BY <2>1, <2>2
<1>15. FetchedHolds'
  <2> SUFFICES ASSUME NEW w \in Visits, visit'[w].pc = "fetched"
               PROVE  /\ visit'[w].todo # <<>>
                      /\ \A e \in Days : e = Head(visit'[w].todo) =>
                           /\ DOMAIN visit'[w].got.states \subseteq ClassesOn(e)
                           /\ e < visit'[w].today => visit'[w].got = ReadOperatorStates(e)
    <3>1. \A e : ReadOperatorStates(e)' = ReadOperatorStates(e)
      BY <1>1 DEF ReadOperatorStates
    <3> QED
      BY <3>1 DEF FetchedHolds
  <2>1. w # v
    BY <1>9, <1>10
  <2> QED
    BY <1>10, <2>1 DEF IInv, FetchedHolds
<1>16. MonthAhead'
  <2> SUFFICES ASSUME NEW w \in Visits, visit'[w].pc # "idle",
                      NEW e \in visit'[w].month[1]..visit'[w].month[2],
                      visit'[w].today - Horizon <= e, e <= visit'[w].today, ledger'[e] = Unread
               PROVE  e \in Range(visit'[w].todo)
    BY DEF MonthAhead
  <2>1. e # d
    BY <1>7, <1>8
  <2>2. ledger[e] = Unread
    BY <1>1, <1>2, <2>1 DEF Typed
  <2>3. CASE w = v
    BY <1>1, <1>6, <1>9, <1>10, <2>1, <2>2, <2>3 DEF IInv, MonthAhead
  <2>4. CASE w # v
    BY <1>10, <2>2, <2>4 DEF IInv, MonthAhead
  <2> QED
    BY <2>3, <2>4
<1>17. RecordOfDay'
  <2> SUFFICES ASSUME NEW c \in Classes, records'[c] # Unread PROVE ledger'[DayOf(c)] # Unread
    BY DEF RecordOfDay
  <2>1. CASE DayOf(c) = d
    BY <1>7, <1>8, <2>1
  <2>2. CASE DayOf(c) # d
    <3>1. c \in ClassesOn(DayOf(c)) /\ DayOf(c) \in Days
      BY ConstantTypes DEF ClassesOn
    <3>2. records[c] # Unread /\ ledger'[DayOf(c)] = ledger[DayOf(c)]
      BY <1>8, <1>13, <2>2, <3>1
    <3> QED
      BY <3>2 DEF IInv, RecordOfDay
  <2> QED
    BY <2>1, <2>2
<1> QED
  BY <1>12, <1>14, <1>15, <1>16, <1>17 DEF IInv

\* A visit that is over, or was cut short, holds nothing.
LEMMA LeavingKeeps ==
  ASSUME IInv, visit' \in [Visits -> Page],
         \A w \in Visits : visit'[w] = visit[w] \/ visit'[w] = NoVisit,
         failures' \in 0..MaxFailures, UNCHANGED <<now, gym, moves, ledger, records>>
  PROVE  IInv'
<1>1. Typed'
  <2>1. Typed /\ DayAt(now) \in Nat
    BY Today DEF IInv
  <2>2. \A w \in Visits : visit'[w].today <= DayAt(now) /\ Len(visit'[w].todo) <= Cap
    BY <2>1, NoVisitIsPage, ConstantTypes DEF Typed
  <2> QED
    BY <2>1, <2>2 DEF Typed
<1>2. FinalHolds' /\ RecordOfDay'
  BY DEF IInv, FinalHolds, RecordOfDay, ReadOperatorStates
<1>3. FetchedHolds'
  <2>1. \A e : ReadOperatorStates(e)' = ReadOperatorStates(e)
    BY DEF ReadOperatorStates
  <2> QED
    BY <2>1, NoVisitIsPage DEF IInv, FetchedHolds
<1>4. MonthAhead'
  BY NoVisitIsPage DEF IInv, MonthAhead
<1> QED
  BY <1>1, <1>2, <1>3, <1>4 DEF IInv

LEMMA CatchUpKeeps ==
  ASSUME IInv, NEW v \in Visits, CatchUpStops(v) \/ CatchUpEnds(v)
  PROVE  IInv'
<1>1. /\ visit' = [visit EXCEPT ![v] = NoVisit] /\ failures' \in 0..MaxFailures
      /\ UNCHANGED <<now, gym, moves, ledger, records>>
  BY ConstantTypes DEF IInv, Typed, CatchUpStops, CatchUpEnds
<1>2. visit \in [Visits -> Page]
  BY DEF IInv, Typed
<1>3. /\ visit' \in [Visits -> Page]
      /\ \A w \in Visits : visit'[w] = visit[w] \/ visit'[w] = NoVisit
  BY <1>1, <1>2, NoVisitIsPage
<1> QED
  BY <1>1, <1>3, LeavingKeeps

LEMMA RestartKeeps ==
  ASSUME IInv, Restart
  PROVE  IInv'
<1>1. /\ visit' = [v \in Visits |-> NoVisit] /\ failures' \in 0..MaxFailures
      /\ UNCHANGED <<now, gym, moves, ledger, records>>
  BY ConstantTypes DEF IInv, Typed, Restart
<1>2. visit' \in [Visits -> Page] /\ \A w \in Visits : visit'[w] = NoVisit
  BY <1>1, NoVisitIsPage
<1> QED
  BY <1>1, <1>2, LeavingKeeps

LEMMA TickKeeps ==
  ASSUME IInv, Tick
  PROVE  IInv'
<1>1. /\ now < EndOfTime /\ now' = now + 1
      /\ UNCHANGED <<gym, moves, ledger, records, visit, failures>>
  BY DEF Tick
<1>2. Typed /\ now \in Nat
  BY Today DEF IInv
<1>3. DayAt(now) \in Nat /\ DayAt(now + 1) \in Nat /\ DayAt(now) <= DayAt(now + 1)
  BY <1>2, DayAtOrders
<1>4. now' \in FirstDay * Ticks..EndOfTime
  <2> DEFINE begin == FirstDay * Ticks
  <2>1. begin \in Nat /\ EndOfTime \in Nat /\ now \in begin..EndOfTime
    BY <1>2, ConstantTypes DEF Typed
  <2> HIDE DEF begin
  <2>2. now' \in begin..EndOfTime
    BY <1>1, <2>1
  <2> QED
    BY <2>2 DEF begin
<1>5. Typed'
  <2>1. \A v \in Visits : visit[v].today \in Int /\ visit[v].today <= DayAt(now)
    BY <1>2 DEF Typed, Page
  <2>2. \A v \in Visits : visit'[v].today <= DayAt(now + 1) /\ Len(visit'[v].todo) <= Cap
    BY <1>1, <1>2, <1>3, <2>1 DEF Typed
  <2>3. DayAt(now)' = DayAt(now + 1)
    BY <1>1
  <2> QED
    BY <1>1, <1>2, <1>4, <2>2, <2>3 DEF Typed
<1>6. FinalHolds'
  <2>1. \A e : ReadOperatorStates(e)' = ReadOperatorStates(e)
    BY <1>1 DEF ReadOperatorStates
  <2>2. DayAt(now)' = DayAt(now + 1)
    BY <1>1
  <2>3. \A e \in Days : e < DayAt(now) => e < DayAt(now + 1)
    BY <1>3 DEF Days
  <2> QED
    BY <1>1, <2>1, <2>2, <2>3 DEF IInv, FinalHolds
<1>7. FetchedHolds'
  <2>1. \A e : ReadOperatorStates(e)' = ReadOperatorStates(e)
    BY <1>1 DEF ReadOperatorStates
  <2> QED
    BY <1>1, <2>1 DEF IInv, FetchedHolds
<1>8. MonthAhead' /\ RecordOfDay'
  BY <1>1 DEF IInv, MonthAhead, RecordOfDay
<1> QED
  BY <1>5, <1>6, <1>7, <1>8 DEF IInv

LEMMA StutterKeeps ==
  ASSUME IInv, UNCHANGED vars
  PROVE  IInv'
<1>1. visit' \in [Visits -> Page] /\ failures' \in 0..MaxFailures
  BY DEF IInv, Typed, vars
<1> QED
  BY <1>1, LeavingKeeps DEF vars

LEMMA IInvIsInductive == IInv /\ [Next]_vars => IInv'
<1> SUFFICES ASSUME IInv, [Next]_vars PROVE IInv'
  OBVIOUS
<1>1. CASE GymMoves
  BY <1>1, GymMovesKeeps
<1>2. CASE Tick
  BY <1>2, TickKeeps
<1>3. CASE Restart
  BY <1>3, RestartKeeps
<1>4. ASSUME NEW v \in Visits, VisitStep(v) PROVE IInv'
  BY <1>4, FetchDayKeeps, PersistDayKeeps, CatchUpKeeps DEF VisitStep
<1>5. ASSUME NEW v \in Visits, CatchUpStops(v) PROVE IInv'
  BY <1>5, CatchUpKeeps
<1>6. ASSUME NEW v \in Visits, NEW month \in Months, OpenPage(v, month) PROVE IInv'
  BY <1>6, OpenPageKeeps
<1>7. CASE UNCHANGED vars
  BY <1>7, StutterKeeps
<1> QED
  BY <1>1, <1>2, <1>3, <1>4, <1>5, <1>6, <1>7 DEF Next

\* The invariant holds in every state of the ledger.
THEOREM SpecIInv == Spec => []IInv
<1>1. Init => IInv
  BY InitIInv
<1>2. IInv /\ [Next]_vars => IInv'
  BY IInvIsInductive
<1> QED
  BY <1>1, <1>2, PTL DEF Spec

LEMMA IInvIsTrue == IInv => LedgerTrue
<1> SUFFICES ASSUME IInv PROVE LedgerTrue
  OBVIOUS
<1>1. TypeOK
  <2>1. ASSUME NEW v \in Visits
        PROVE  /\ visit[v].pc \in {"idle", "reading", "fetched"}
               /\ visit[v].today \in 0..DayAt(now)
               /\ Range(visit[v].todo) \subseteq Days /\ Len(visit[v].todo) <= Cap
               /\ visit[v].got.count \in 0..Cardinality(Classes)
               /\ DOMAIN visit[v].got.states \subseteq Classes
               /\ Range(visit[v].got.states) \subseteq Shown
    <3>1. /\ visit[v] \in Page /\ visit[v].today <= DayAt(now) /\ Len(visit[v].todo) <= Cap
          /\ DayAt(now) \in Nat
      BY Today DEF IInv, Typed
    <3>2. PICK S \in SUBSET Classes : visit[v].got.states \in [S -> Shown]
      <4>1. visit[v].got.states \in UNION {[S -> Shown] : S \in SUBSET Classes}
        BY <3>1 DEF Page
      <4> QED
        BY <4>1, Zenon
    <3>3. DOMAIN visit[v].got.states \subseteq Classes /\ Range(visit[v].got.states) \subseteq Shown
      BY <3>2 DEF Range
    <3>4. visit[v].today \in 0..DayAt(now)
      BY <3>1 DEF Page
    <3>5. Range(visit[v].todo) \subseteq Days
      BY <3>1 DEF Page, Range
    <3> QED
      BY <3>1, <3>3, <3>4, <3>5 DEF Page
  <2> QED
    BY <2>1 DEF IInv, Typed, TypeOK
<1>2. FinalIsTheLastWord
  BY DEF IInv, FinalHolds, FinalIsTheLastWord
<1>3. MonthOnScreenRead
  <2> SUFFICES ASSUME NEW v \in Visits, visit[v].pc = "reading", visit[v].todo = <<>>,
                      NEW d \in visit[v].month[1]..visit[v].month[2],
                      visit[v].today - Horizon <= d, d <= visit[v].today
               PROVE  ledger[d] # Unread
    BY DEF MonthOnScreenRead
  <2>1. Range(visit[v].todo) = {}
    BY DEF Range
  <2> QED
    BY <2>1 DEF IInv, MonthAhead
<1> QED
  BY <1>1, <1>2, <1>3 DEF LedgerTrue

\* A day is marked final by a visit that began after it, and nothing at the gym
\* moves on a day that is over: whatever visits overlap, its rows are the gym's
\* last word; and a page is rendered with its month read.
THEOREM SpecLedgerTrue == Spec => []LedgerTrue
<1>1. Spec => []IInv
  BY SpecIInv
<1>2. IInv => LedgerTrue
  BY IInvIsTrue
<1> QED
  BY <1>1, <1>2, PTL

-----------------------------------------------------------------------------
(* The rows behind the figures. *)

\* A set of naturals has a least member.
LEMMA LeastNatural ==
  ASSUME NEW S \in SUBSET Nat, S # {}
  PROVE  \E i \in S : \A j \in S : i <= j
<1>1. IsWellFoundedOn(OpToRel(<, Nat), Nat)
  BY NatLessThanWellFounded
<1>2. PICK i \in S : \A j \in S : ~(<<j, i>> \in OpToRel(<, Nat))
  BY <1>1, WFMin
<1>3. ASSUME NEW j \in S PROVE i <= j
  <2>1. <<j, i>> \in Nat \X Nat /\ <<j, i>>[1] = j /\ <<j, i>>[2] = i
    OBVIOUS
  <2>2. ~(j < i)
    BY <1>2, <2>1 DEF OpToRel
  <2> QED
    BY <2>2
<1> QED
  BY <1>3

\* A bounded set of integers has a greatest member.
LEMMA Greatest ==
  ASSUME NEW S \in SUBSET Int, S # {}, NEW n \in Int, \A i \in S : i <= n
  PROVE  Max(S) \in S /\ \A i \in S : i <= Max(S)
<1> DEFINE below == {k \in Nat : n - k \in S}
<1>1. \A i \in S : n - i \in below
  OBVIOUS
<1>2. below # {} /\ below \in SUBSET Nat
  BY <1>1
<1>3. PICK k \in below : \A l \in below : k <= l
  <2> HIDE DEF below
  <2> QED
    BY <1>2, LeastNatural
<1>4. n - k \in S /\ k \in Nat
  OBVIOUS
<1>5. ASSUME NEW i \in S PROVE n - k >= i
  <2>1. n - i \in below /\ n - i \in Int
    BY <1>1
  <2>2. k <= n - i
    BY <1>3, <2>1
  <2> QED
    BY <1>4, <2>1, <2>2
<1>6. \E x \in S : \A y \in S : x >= y
  BY <1>4, <1>5
<1>7. Max(S) \in S /\ \A y \in S : Max(S) >= y
  BY <1>6 DEF Max
<1> QED
  BY <1>7

\* The rows of a window are rows of the page.
LEMMA WindowRows ==
  ASSUME NEW R, NEW W
  PROVE  /\ DOMAIN InWindow(R, W) = {c \in DOMAIN R : DayOf(c) \in W}
         /\ \A c \in DOMAIN InWindow(R, W) : InWindow(R, W)[c] = R[c]
  BY DEF InWindow, Restrict

\* What counts at any instant is settled and stored, and is a session exactly if
\* the gym listed the operator as attending.
LEMMA RowsOfPage ==
  ASSUME Typed, NEW R, R = CountedRecords(now)
  PROVE  /\ DOMAIN R = Counted(now) /\ DOMAIN R \in SUBSET Classes /\ IsFiniteSet(DOMAIN R)
         /\ \A c \in DOMAIN R : /\ R[c] \in States /\ records[c] \in Shown
                                /\ R[c] = "attended" <=> records[c].list = "attended"
<1> DEFINE swapped == SwappedDays(now)
<1>1. R = [c \in Counted(now) |-> StateOf(c, swapped)]
  BY DEF CountedRecords
<1> HIDE DEF swapped
<1>2. Counted(now) \in SUBSET Classes /\ \A c \in Counted(now) : records[c] # Unread
  BY DEF Counted, Stored
<1>3. IsFiniteSet(Counted(now))
  BY <1>2, ConstantTypes, FS_Subset
<1>4. ASSUME NEW c \in Counted(now)
      PROVE  /\ StateOf(c, swapped) \in States /\ records[c] \in Shown
             /\ StateOf(c, swapped) = "attended" <=> records[c].list = "attended"
  <2>1. records[c] \in Shown
    BY <1>2 DEF Typed
  <2>2. records[c].list \in {"attended", "cancelled", "no_show"}
    BY <2>1 DEF Shown
  <2> QED
    BY <2>1, <2>2 DEF StateOf, States
<1> QED
  BY <1>1, <1>2, <1>3, <1>4

\* What has settled lies behind the clock.
LEMMA SettledIsPast ==
  ASSUME Typed, NEW c \in Classes, Settled(c, now)
  PROVE  DayOf(c) \in Days /\ DayOf(c) <= DayAt(now)
<1>1. Start[c] \in Nat /\ now \in Nat /\ Settle \in Nat /\ DayOf(c) \in Days
  BY Today, ConstantTypes, MetricsAssumption
<1>2. Start[c] <= now
  BY <1>1 DEF Settled
<1> QED
  BY <1>1, <1>2, DayAtOrders DEF DayOf

\* The gym ran no class on a day exactly if the count of the day is zero.
LEMMA RanNothing ==
  ASSUME Typed, NEW d \in Days
  PROVE  ReadOperatorStates(d).count = 0 <=> \A c \in ClassesOn(d) : gym[c].list = "off"
<1> DEFINE ran == {c \in ClassesOn(d) : gym[c].list # "off"}
<1>1. IsFiniteSet(ran)
  <2>1. ran \in SUBSET Classes
    BY DEF ClassesOn
  <2> HIDE DEF ran
  <2> QED
    BY <2>1, ConstantTypes, FS_Subset
<1>2. Cardinality(ran) = 0 <=> ran = {}
  <2> HIDE DEF ran
  <2> QED
    BY <1>1, FS_EmptySet
<1>3. ReadOperatorStates(d).count = Cardinality(ran)
  BY DEF ReadOperatorStates
<1> QED
  BY <1>2, <1>3

-----------------------------------------------------------------------------
(* A day that was not read is told apart from a day without training. *)

LEMMA CalendarIsHonest == IInv => CalendarHonest
<1> SUFFICES ASSUME IInv, NEW d \in Days, d < DayAt(now)
             PROVE  LET rows == CountedRecords(now) IN
                    /\ CellStatus(d, rows, now) \in {"closed", "no_activity"} => ledger[d] # Unread
                    /\ ledger[d] # Unread /\ ledger[d].final =>
                         /\ CellStatus(d, rows, now) = "closed" =>
                              \A c \in ClassesOn(d) : gym[c].list = "off"
                         /\ CellStatus(d, rows, now) = "no_activity" =>
                              ClassesOn(d) \cap GymCounted(now) = {}
  BY DEF CalendarHonest
<1> DEFINE R   == CountedRecords(now)
           own == InWindow(R, {d})
<1>1. Typed
  BY DEF IInv
<1>2. DOMAIN own = {c \in Counted(now) : DayOf(c) = d}
  <2>1. DOMAIN R = Counted(now)
    BY <1>1, RowsOfPage
  <2>2. DOMAIN own = {c \in DOMAIN R : DayOf(c) \in {d}}
    BY WindowRows
  <2> HIDE DEF own, R
  <2> QED
    BY <2>1, <2>2
<1>3. CellStatus(d, R, now) \in {"closed", "no_activity"} =>
        DOMAIN own = {} /\ ledger[d] # Unread
  BY DEF CellStatus
<1>4. CellStatus(d, R, now) = "closed" => ledger[d].count = 0
  BY DEF CellStatus
<1> HIDE DEF own, R
<1>5. ASSUME ledger[d] # Unread, ledger[d].final, CellStatus(d, R, now) = "closed"
      PROVE  \A c \in ClassesOn(d) : gym[c].list = "off"
  <2>1. ReadOperatorStates(d).count = 0
    BY <1>4, <1>5 DEF IInv, FinalHolds
  <2> QED
    BY <1>1, <2>1, RanNothing
<1>6. ASSUME ledger[d] # Unread, ledger[d].final, CellStatus(d, R, now) = "no_activity",
             NEW c \in ClassesOn(d) \cap GymCounted(now)
      PROVE  FALSE
  <2>1. c \in Classes /\ DayOf(c) = d /\ gym[c].list \notin {"none", "off"} /\ Settled(c, now)
    BY DEF ClassesOn, GymCounted
  <2>2. records[c] = gym[c]
    <3>1. c \in ClassesOn(d)
      OBVIOUS
    <3> QED
      BY <1>6, <2>1, <3>1 DEF IInv, FinalHolds
  <2>3. gym[c] \in Shown
    BY <1>1, <2>1 DEF Typed, Entry, Shown, Lists
  <2>4. c \in Counted(now)
    BY <2>1, <2>2, <2>3, RowAssumption DEF Counted, Stored
  <2> QED
    BY <1>2, <1>3, <1>6, <2>1, <2>4
<1> QED
  BY <1>3, <1>5, <1>6 DEF R

\* The days on which the operator trained at the gym.
LEMMA GymTrainedDays ==
  ASSUME Typed
  PROVE  /\ GymTrained(now) \in SUBSET Days /\ IsFiniteSet(GymTrained(now))
         /\ \A d \in GymTrained(now) : d <= DayAt(now)
<1>1. \A c \in GymCounted(now) : DayOf(c) \in Days /\ DayOf(c) <= DayAt(now)
  BY SettledIsPast DEF GymCounted
<1>2. GymTrained(now) \in SUBSET Days /\ \A d \in GymTrained(now) : d <= DayAt(now)
  BY <1>1 DEF GymTrained
<1>3. IsFiniteSet(Days)
  BY ConstantTypes, FS_Interval DEF Days
<1> QED
  BY <1>2, <1>3, FS_Subset

\* Days trained with no missed day between them are no more than the longest run.
LEMMA StretchIsRun ==
  ASSUME Typed, NEW D \in SUBSET GymTrained(now),
         \A e \in D, d \in D, b \in GymMissed(now) : e <= b => d < b
  PROVE  Cardinality(D) \in Nat /\ Cardinality(D) <= GymLongestRun(now) /\ GymLongestRun(now) \in Nat
<1> DEFINE T == GymTrained(now)
           M == GymMissed(now)
           run(a) == {d \in T : a <= d /\ \A b \in M : a <= b => d < b}
           runs == {Cardinality(run(a)) : a \in T}
<1>1. T \in SUBSET Days /\ IsFiniteSet(T) /\ Cardinality(T) \in Nat /\ T \in SUBSET Nat
  BY GymTrainedDays, FS_CardinalityType DEF Days
<1> HIDE DEF T, M
<1>2. \A a \in T : Cardinality(run(a)) \in Nat /\ Cardinality(run(a)) <= Cardinality(T)
  <2> SUFFICES ASSUME NEW a \in T
               PROVE  Cardinality(run(a)) \in Nat /\ Cardinality(run(a)) <= Cardinality(T)
    OBVIOUS
  <2>1. run(a) \in SUBSET T
    OBVIOUS
  <2> HIDE DEF run
  <2> QED
    BY <1>1, <2>1, FS_Subset, FS_CardinalityType
<1>3. runs \cup {0} \in SUBSET Int /\ \A n \in runs \cup {0} : n <= Cardinality(T)
  <2> HIDE DEF run
  <2> QED
    BY <1>1, <1>2
<1>4. GymLongestRun(now) = Max(runs \cup {0})
  BY DEF GymLongestRun, Highest, T, M
<1> HIDE DEF runs
<1>5. /\ Max(runs \cup {0}) \in runs \cup {0}
      /\ \A n \in runs \cup {0} : n <= Max(runs \cup {0})
  <2>1. runs \cup {0} # {} /\ Cardinality(T) \in Int
    BY <1>1
  <2> HIDE DEF run
  <2> QED
    BY <1>3, <2>1, Greatest
<1>6. GymLongestRun(now) \in Nat
  <2>1. runs \cup {0} \subseteq Nat
    <3> HIDE DEF run
    <3> QED
      BY <1>2 DEF runs
  <2> QED
    BY <1>4, <1>5, <2>1
<1>7. IsFiniteSet(D) /\ Cardinality(D) \in Nat
  BY <1>1, FS_Subset, FS_CardinalityType DEF T
<1>8. CASE D = {}
  <2>1. Cardinality(D) = 0
    BY <1>8, FS_EmptySet
  <2> QED
    BY <1>6, <2>1
<1>9. CASE D # {}
  <2>1. D \in SUBSET Nat
    BY <1>1 DEF T
  <2>2. PICK a \in D : \A d \in D : a <= d
    BY <1>9, <2>1, LeastNatural
  <2>3. D \in SUBSET run(a) /\ a \in T
    BY <2>2 DEF T, M
  <2>4. run(a) \in SUBSET T
    OBVIOUS
  <2> HIDE DEF run
  <2>5. IsFiniteSet(run(a))
    BY <1>1, <2>4, FS_Subset
  <2>6. Cardinality(D) <= Cardinality(run(a))
    BY <2>3, <2>5, FS_Subset
  <2>7. Cardinality(run(a)) \in runs /\ Cardinality(run(a)) \in Nat
    BY <1>2, <2>3 DEF runs
  <2>8. Cardinality(run(a)) <= GymLongestRun(now)
    BY <1>4, <1>5, <2>7
  <2> QED
    BY <1>6, <1>7, <2>6, <2>7, <2>8
<1> QED
  BY <1>8, <1>9

\* What a window of fresh rows knows of the gym: where it was read it trains and
\* misses on the gym's days, and where it was not it stops.
LEMMA FreshWindow ==
  ASSUME IInv, Fresh, NEW W \in SUBSET Days, \A d \in W : d <= DayAt(now),
         NEW R, R = CountedRecords(now)
  PROVE  /\ Trained(R, W) = GymTrained(now) \cap (W \cap Captured)
         /\ Stops(R, W, now) \in SUBSET (0..LastDay + 1) /\ 0 \in Stops(R, W, now)
         /\ \A d \in GymMissed(now) : d \in Days /\ d < DayAt(now)
         /\ \A d \in (0..LastDay + 1) \ Stops(R, W, now) : d \in W \cap Captured /\ d \notin GymMissed(now)
         /\ \A d \in Stops(R, W, now) \cap (W \cap Captured) : d \in GymMissed(now)
<1> DEFINE trained == Trained(R, W)
           read    == W \cap Captured
           own     == InWindow(R, W)
<1>1. Typed /\ now \in Nat /\ DayAt(now) \in 0..LastDay
  BY Today DEF IInv
<1>2. \A d \in read : UpToDate(d)
  BY DEF Fresh
<1>3. \A d \in read : d \in Days /\ ledger[d] # Unread
  BY DEF Captured
<1>4. DOMAIN own = {c \in Counted(now) : DayOf(c) \in W} /\ \A c \in DOMAIN own : own[c] = R[c]
  <2>1. DOMAIN R = Counted(now)
    BY <1>1, RowsOfPage
  <2> QED
    BY <2>1, WindowRows
<1>5. trained = {DayOf(c) : c \in {k \in DOMAIN own : own[k] = "attended"}}
  BY DEF Trained, In
<1> HIDE DEF own, trained, read
<1>6. ASSUME NEW d \in trained PROVE d \in read /\ d \in GymTrained(now)
  <2>1. PICK c \in DOMAIN own : own[c] = "attended" /\ DayOf(c) = d
    BY <1>5
  <2>2. /\ c \in Classes /\ c \in Counted(now) /\ d \in W /\ records[c] # Unread
        /\ Settled(c, now) /\ records[c].list = "attended"
    <3>1. c \in DOMAIN R /\ DOMAIN R = Counted(now) /\ R[c] = "attended" /\ d \in W
      BY <1>1, <1>4, <2>1, RowsOfPage
    <3>2. records[c].list = "attended"
      BY <1>1, <3>1, RowsOfPage
    <3> QED
      BY <3>1, <3>2 DEF Counted, Stored
  <2>3. ledger[d] # Unread
    BY <2>1, <2>2 DEF IInv, RecordOfDay
  <2>4. d \in read
    BY <2>2, <2>3 DEF read, Captured
  <2>5. c \in ClassesOn(d)
    BY <2>1, <2>2 DEF ClassesOn
  <2>6. records[c] = IF gym[c].list \in {"none", "off"} THEN Unread ELSE gym[c]
    BY <1>2, <2>4, <2>5 DEF UpToDate
  <2>7. gym[c].list \notin {"none", "off"} /\ gym[c].list = "attended"
    BY <2>2, <2>6
  <2>8. c \in GymCounted(now)
    BY <2>2, <2>7 DEF GymCounted
  <2> QED
    BY <2>1, <2>4, <2>7, <2>8 DEF GymTrained
<1>7. ASSUME NEW d \in GymTrained(now), d \in read PROVE d \in trained
  <2>1. PICK c \in GymCounted(now) : gym[c].list = "attended" /\ DayOf(c) = d
    BY DEF GymTrained
  <2>2. c \in Classes /\ Settled(c, now) /\ c \in ClassesOn(d) /\ d \in W
    BY <1>7, <2>1 DEF GymCounted, ClassesOn, read
  <2>3. records[c] = gym[c]
    BY <1>2, <1>7, <2>1, <2>2 DEF UpToDate
  <2>4. gym[c] \in Shown
    BY <1>1, <2>1, <2>2 DEF Typed, Entry, Shown, Lists
  <2>5. c \in Counted(now)
    BY <2>2, <2>3, <2>4, RowAssumption DEF Counted, Stored
  <2>6. c \in DOMAIN own /\ own[c] = R[c]
    BY <1>4, <2>1, <2>2, <2>5
  <2>7. R[c] = "attended"
    BY <1>1, <2>1, <2>3, <2>5, RowsOfPage
  <2> QED
    BY <1>5, <2>1, <2>6, <2>7
<1>8. trained = GymTrained(now) \cap read
  BY <1>6, <1>7
<1>9. ASSUME NEW d \in read
      PROVE  d \notin trained /\ Breaks(d, now) <=> d \in GymMissed(now)
  <2>1. d \in Days /\ ledger[d].count = ReadOperatorStates(d).count
    BY <1>2, <1>3 DEF UpToDate
  <2>2. ledger[d].count # 0 <=> \E c \in ClassesOn(d) : gym[c].list # "off"
    BY <1>1, <2>1, RanNothing
  <2> QED
    BY <1>8, <2>1, <2>2 DEF Breaks, GymMissed
<1>10. Stops(R, W, now) = {d \in 0..LastDay + 1 : d \notin read \/ (d \notin trained /\ Breaks(d, now))}
  BY DEF Stops, trained, read
<1>11. 0 \in 0..LastDay + 1 /\ 0 \notin read
  BY <1>3, ConstantTypes DEF Days
<1>12. \A d \in GymMissed(now) : d \in Days /\ d < DayAt(now)
  BY DEF GymMissed
<1> HIDE DEF trained
<1> QED
  BY <1>8, <1>9, <1>10, <1>11, <1>12 DEF trained, read

\* The runs of a window against the gym's.
LEMMA RunsOfWindow ==
  ASSUME IInv, Fresh, NEW W \in SUBSET Days, \A d \in W : d <= DayAt(now),
         NEW R, R = CountedRecords(now)
  PROVE  /\ CurrentRun(R, W, now).days <= GymCurrentRun(now)
         /\ CurrentRun(R, W, now).days > 0 /\ ~CurrentRun(R, W, now).atLeast
              => CurrentRun(R, W, now).days = GymCurrentRun(now)
         /\ LongestRun(R, W, now) <= GymLongestRun(now)
<1> DEFINE trained == Trained(R, W)
           read    == W \cap Captured
           stops   == Stops(R, W, now)
           T       == GymTrained(now)
           M       == GymMissed(now)
           today   == DayAt(now)
           past    == {d \in stops : d <= today}
           stop    == Max(past)
           days    == {d \in trained : stop < d}
           actual  == {d \in T : \A b \in M : b < d}
<1>1. Typed /\ today \in 0..LastDay /\ LastDay \in Nat
  BY Today, ConstantTypes DEF IInv
<1>2. T \in SUBSET Days /\ T \in SUBSET Nat /\ IsFiniteSet(T) /\ \A d \in T : d <= today
  BY <1>1, GymTrainedDays DEF Days
<1>3. /\ trained = T \cap read /\ stops \in SUBSET (0..LastDay + 1) /\ 0 \in stops
      /\ \A b \in M : b \in Days /\ b < today
      /\ \A d \in (0..LastDay + 1) \ stops : d \in read /\ d \notin M
      /\ \A d \in stops \cap read : d \in M
  BY FreshWindow
<1>4. /\ CurrentRun(R, W, now).days = Cardinality(days)
      /\ CurrentRun(R, W, now).atLeast <=> days # {} /\ stop \notin read
  BY DEF CurrentRun
<1>5. GymCurrentRun(now) = Cardinality(actual)
  BY DEF GymCurrentRun
<1>6. BestRun(R, W, now) = Highest({Cardinality({d \in trained : a < d /\ \A b \in stops : a < b => d < b}) :
                                      a \in stops})
  BY DEF BestRun
<1>7. LongestRun(R, W, now) = Max({BestRun(R, W, now), CurrentRun(R, W, now).days})
  BY DEF LongestRun
<1>8. \A d \in Days : d \in 0..LastDay + 1 /\ d \in Nat
  BY <1>1 DEF Days
<1> HIDE DEF trained, read, stops, T, M, today
<1>9. stop \in stops /\ stop \in Nat /\ stop <= today /\ \A b \in stops : b <= today => b <= stop
  <2>1. past \in SUBSET Int /\ past # {} /\ today \in Int /\ \A b \in past : b <= today
    <3>1. 0 <= today /\ today \in Int /\ 0..LastDay + 1 \subseteq Nat
      BY <1>1
    <3>2. 0 \in past /\ past \subseteq 0..LastDay + 1
      BY <1>3, <3>1
    <3> QED
      BY <3>1, <3>2
  <2>3. 0..LastDay + 1 \subseteq Nat
    BY <1>1
  <2>4. \A b : b \in past <=> b \in stops /\ b <= today
    OBVIOUS
  <2> HIDE DEF past
  <2>2. Max(past) \in past /\ \A b \in past : b <= Max(past)
    BY <2>1, Greatest
  <2> QED
    BY <1>3, <2>2, <2>3, <2>4 DEF stop
<1> HIDE DEF stop
<1>10. ASSUME NEW d \in days, NEW b \in M PROVE b <= stop
  <2>1. b \in Nat /\ b < today /\ b \in 0..LastDay + 1
    BY <1>3, <1>8
  <2>2. b \in stops
    BY <1>3, <2>1
  <2> QED
    BY <1>1, <1>9, <2>1, <2>2
<1>11. days \in SUBSET actual
  <2>1. ASSUME NEW d \in days PROVE d \in actual
    <3>1. d \in T /\ d \in Nat /\ stop < d
      BY <1>2, <1>3
    <3>2. ASSUME NEW b \in M PROVE b < d
      <4>1. b <= stop /\ b \in Nat
        BY <1>3, <1>8, <1>10
      <4> QED
        BY <1>9, <3>1, <4>1
    <3> QED
      BY <3>1, <3>2
  <2> QED
    BY <2>1
<1>12. ASSUME days # {}, stop \in read PROVE actual \in SUBSET days
  <2>1. stop \in M
    BY <1>3, <1>9, <1>12
  <2>2. ASSUME NEW d \in actual PROVE d \in days
    <3>1. d \in T /\ d \in Nat /\ stop < d /\ d <= today /\ d \in 0..LastDay + 1
      BY <1>2, <1>8, <2>1
    <3>2. d \notin stops
      BY <1>1, <1>9, <3>1
    <3>3. d \in trained
      BY <1>3, <3>1, <3>2
    <3> QED
      BY <3>1, <3>3
  <2> QED
    BY <2>2
<1>13. /\ actual \in SUBSET T /\ IsFiniteSet(actual) /\ Cardinality(actual) \in Nat
       /\ IsFiniteSet(days) /\ Cardinality(days) \in Nat
  <2>1. actual \in SUBSET T
    OBVIOUS
  <2> HIDE DEF actual, days
  <2>2. IsFiniteSet(actual)
    BY <1>2, <2>1, FS_Subset
  <2>3. IsFiniteSet(days)
    BY <1>11, <2>2, FS_Subset
  <2> QED
    BY <2>1, <2>2, <2>3, FS_CardinalityType
<1>14. Cardinality(days) <= Cardinality(actual)
  <2> HIDE DEF actual, days
  <2> QED
    BY <1>11, <1>13, FS_Subset
<1>15. ASSUME Cardinality(days) > 0, stop \in read PROVE Cardinality(days) = Cardinality(actual)
  <2>1. days # {}
    BY <1>15, FS_EmptySet
  <2>2. days = actual
    BY <1>11, <1>12, <1>15, <2>1
  <2> QED
    BY <2>2
<1>16. Cardinality(days) <= GymLongestRun(now) /\ GymLongestRun(now) \in Nat
  <2>1. days \in SUBSET T
    BY <1>3
  <2>2. \A e \in days, d \in days, b \in M : e <= b => d < b
    <3> SUFFICES ASSUME NEW e \in days, NEW b \in M, e <= b PROVE FALSE
      OBVIOUS
    <3>1. e \in Nat /\ stop < e /\ b \in Nat /\ b <= stop
      BY <1>2, <1>3, <1>8, <1>10
    <3> QED
      BY <1>9, <3>1
  <2> HIDE DEF days
  <2> QED
    BY <1>1, <2>1, <2>2, StretchIsRun DEF T, M
<1>17. BestRun(R, W, now) \in Nat /\ BestRun(R, W, now) <= GymLongestRun(now)
  <2> DEFINE stretch(a) == {d \in trained : a < d /\ \A b \in stops : a < b => d < b}
             all == {Cardinality(stretch(a)) : a \in stops} \cup {0}
  <2>1. ASSUME NEW a \in stops
        PROVE  Cardinality(stretch(a)) \in Nat /\ Cardinality(stretch(a)) <= GymLongestRun(now)
    <3>1. stretch(a) \in SUBSET T
      BY <1>3
    <3>2. \A e \in stretch(a), d \in stretch(a), b \in M : e <= b => d < b
      <4> SUFFICES ASSUME NEW e \in stretch(a), NEW d \in stretch(a), NEW b \in M, e <= b
                   PROVE  d < b
        OBVIOUS
      <4>1. b \in Nat /\ b \in 0..LastDay + 1 /\ e \in Nat /\ a \in Int /\ a < e
        <5>1. b \in Nat /\ b \in 0..LastDay + 1
          BY <1>3, <1>8
        <5>2. a \in 0..LastDay + 1 /\ LastDay \in Int
          BY <1>1, <1>3
        <5>3. e \in T /\ a < e
          BY <1>3
        <5> QED
          BY <1>2, <5>1, <5>2, <5>3
      <4>2. b \in stops
        BY <1>3, <4>1
      <4>3. a < b
        BY <4>1
      <4> QED
        BY <4>2, <4>3
    <3> HIDE DEF stretch
    <3> QED
      BY <1>1, <3>1, <3>2, StretchIsRun DEF T, M
  <2> HIDE DEF stretch
  <2>2. /\ all \in SUBSET Int /\ all # {} /\ \A n \in all : n <= GymLongestRun(now) /\ n \in Nat
        /\ GymLongestRun(now) \in Int
    BY <1>16, <2>1
  <2> HIDE DEF all
  <2>3. Max(all) \in all
    BY <2>2, Greatest
  <2>4. BestRun(R, W, now) = Max(all)
    BY <1>6 DEF Highest, all, stretch
  <2> QED
    BY <2>2, <2>3, <2>4
<1>18. LongestRun(R, W, now) <= GymLongestRun(now)
  <2> DEFINE best == BestRun(R, W, now)
             here == CurrentRun(R, W, now).days
  <2>1. /\ best \in Int /\ best <= GymLongestRun(now)
        /\ here \in Int /\ here <= GymLongestRun(now)
    BY <1>4, <1>13, <1>16, <1>17
  <2>2. LongestRun(R, W, now) = Max({best, here})
    BY <1>7
  <2> HIDE DEF best, here
  <2>3. Max({best, here}) = IF best >= here THEN best ELSE here
    BY <2>1, OfTwo
  <2> QED
    BY <2>1, <2>2, <2>3
<1>19. Cardinality(days) > 0 => days # {}
  BY FS_EmptySet
<1> HIDE DEF days, actual
<1> QED
  BY <1>4, <1>5, <1>13, <1>14, <1>15, <1>18, <1>19

LEMMA StreaksAreNotInflated == IInv => StreakNotInflated
<1> SUFFICES ASSUME IInv, Fresh, NEW key \in Keys
             PROVE  LET W   == Window(key, now)
                        run == CurrentRun(CountedRecords(now), W, now)
                    IN  /\ run.days <= GymCurrentRun(now)
                        /\ run.days > 0 /\ ~run.atLeast => run.days = GymCurrentRun(now)
                        /\ LongestRun(CountedRecords(now), W, now) <= GymLongestRun(now)
  BY DEF StreakNotInflated
<1> DEFINE W == Window(key, now)
           R == CountedRecords(now)
<1>1. W \in SUBSET Days /\ \A d \in W : d <= DayAt(now)
  BY DEF Window
<1> HIDE DEF W, R
<1>2. /\ CurrentRun(R, W, now).days <= GymCurrentRun(now)
      /\ CurrentRun(R, W, now).days > 0 /\ ~CurrentRun(R, W, now).atLeast
           => CurrentRun(R, W, now).days = GymCurrentRun(now)
      /\ LongestRun(R, W, now) <= GymLongestRun(now)
  BY <1>1, RunsOfWindow DEF R
<1> QED
  BY <1>2 DEF R, W

\* The page does not take an unread day for one without training: what it states
\* of a streak as a fact is so, what it states as a bound is not too much, and the
\* calendar shows a past day as closed or idle only from a reading, which, once
\* final, is what the gym says.
THEOREM SpecUnreadIsNotAbsence == Spec => []UnreadIsNotAbsence
<1>1. Spec => []IInv
  BY SpecIInv
<1>2. IInv => UnreadIsNotAbsence
  BY CalendarIsHonest, StreaksAreNotInflated DEF UnreadIsNotAbsence
<1> QED
  BY <1>1, <1>2, PTL

-----------------------------------------------------------------------------
(* Sums over finite sets. *)

\* The recursive equation of a sum over subsets.
Adds(f, D, sum) ==
  sum = [s \in SUBSET D |-> IF s = {} THEN 0
                            ELSE LET x == CHOOSE x \in s : TRUE IN f[x] + sum[s \ {x}]]

LEMMA SumChosen ==
  ASSUME NEW f, NEW D
  PROVE  SumFunctionOnSet(f, D) = (CHOOSE sum : Adds(f, D, sum))[D]
  BY Zenon DEF SumFunctionOnSet, FoldFunctionOnSet, MapThenFoldSet, Adds

\* One function at most satisfies it.
LEMMA AddsOnce ==
  ASSUME NEW D, IsFiniteSet(D), NEW f, NEW sum, NEW other,
         Adds(f, D, sum), Adds(f, D, other)
  PROVE  sum = other
<1> DEFINE wrong == {s \in SUBSET D : sum[s] # other[s]}
<1>1. /\ sum = [s \in SUBSET D |-> sum[s]] /\ other = [s \in SUBSET D |-> other[s]]
      /\ \A s \in SUBSET D : sum[s] = IF s = {} THEN 0
                                     ELSE LET x == CHOOSE x \in s : TRUE IN f[x] + sum[s \ {x}]
      /\ \A s \in SUBSET D : other[s] = IF s = {} THEN 0
                                     ELSE LET x == CHOOSE x \in s : TRUE IN f[x] + other[s \ {x}]
  BY Zenon DEF Adds
<1>2. ASSUME wrong # {} PROVE FALSE
  <2>1. IsWellFoundedOn(StrictSubsetOrdering(D), FiniteSubsetsOf(D))
    BY FS_StrictSubsetOrderingWellFounded
  <2>2. wrong \subseteq FiniteSubsetsOf(D)
    BY FS_FiniteSubsetsOfFinite
  <2>3. PICK s \in wrong : \A t \in wrong : ~(<<t, s>> \in StrictSubsetOrdering(D))
    <3> HIDE DEF wrong
    <3> QED
      BY <1>2, <2>1, <2>2, WFMin
  <2> DEFINE x == CHOOSE x \in s : TRUE
  <2>4. s # {}
    BY <1>1, <2>3
  <2>5. x \in s
    BY <2>4
  <2>6. s \ {x} \in SUBSET D /\ s \ {x} # s
    BY <2>3, <2>5
  <2>7. s \ {x} \notin wrong
    BY <2>3, <2>6 DEF StrictSubsetOrdering
  <2>8. sum[s \ {x}] = other[s \ {x}]
    BY <2>6, <2>7
  <2>9. sum[s] = f[x] + sum[s \ {x}] /\ other[s] = f[x] + other[s \ {x}]
    BY <1>1, <2>3, <2>4
  <2> QED
    BY <2>3, <2>8, <2>9
<1>3. \A s \in SUBSET D : sum[s] = other[s]
  BY <1>2
<1> QED
  BY <1>1, <1>3

\* A function of the subsets that grows by the value of each element added.
AddsUp(f, D, sum) ==
  /\ sum \in [SUBSET D -> Nat] /\ sum[{}] = 0
  /\ \A s \in SUBSET D : \A x \in s : sum[s] = f[x] + sum[s \ {x}]

\* Such a function is the sum, in whatever order the elements are taken.
LEMMA SumIs ==
  ASSUME NEW D, IsFiniteSet(D), NEW f, NEW sum, AddsUp(f, D, sum)
  PROVE  SumFunctionOnSet(f, D) = sum[D]
<1> USE DEF AddsUp
<1>1. \A s \in SUBSET D : sum[s] = IF s = {} THEN 0
                                     ELSE LET x == CHOOSE x \in s : TRUE IN f[x] + sum[s \ {x}]
  <2> SUFFICES ASSUME NEW s \in SUBSET D, s # {}
               PROVE  LET x == CHOOSE x \in s : TRUE IN sum[s] = f[x] + sum[s \ {x}]
    OBVIOUS
  <2>1. (CHOOSE x \in s : TRUE) \in s
    OBVIOUS
  <2> QED
    BY <2>1
<1>2. Adds(f, D, sum)
  <2>1. sum = [s \in SUBSET D |-> sum[s]]
    OBVIOUS
  <2>2. [s \in SUBSET D |-> sum[s]]
          = [s \in SUBSET D |-> IF s = {} THEN 0
                                ELSE LET x == CHOOSE x \in s : TRUE IN f[x] + sum[s \ {x}]]
    BY <1>1
  <2> QED
    BY <2>1, <2>2, Zenon DEF Adds
<1>3. Adds(f, D, CHOOSE other : Adds(f, D, other))
  BY <1>2, Zenon
<1>4. (CHOOSE other : Adds(f, D, other)) = sum
  <2> DEFINE other == CHOOSE other : Adds(f, D, other)
  <2>1. Adds(f, D, other)
    BY <1>3
  <2> HIDE DEF other
  <2>2. other = sum
    BY <1>2, <2>1, AddsOnce
  <2> QED
    BY <2>2 DEF other
<1> QED
  BY <1>4, SumChosen

\* f[x] counts the members of A that h sends to x.
Counts(f, D, A, h) == \A x \in D : f[x] = Cardinality({a \in A : h[a] = x})

\* Counted part by part, a set is counted once.
LEMMA SumOfParts ==
  ASSUME NEW D, IsFiniteSet(D), NEW A, IsFiniteSet(A), NEW h, NEW f, Counts(f, D, A, h)
  PROVE  SumFunctionOnSet(f, D) = Cardinality({a \in A : h[a] \in D})
<1> USE DEF Counts
<1> DEFINE in(s) == {a \in A : h[a] \in s}
           sum == [s \in SUBSET D |-> Cardinality(in(s))]
<1>1. \A s : in(s) \in SUBSET A /\ IsFiniteSet(in(s))
  <2>1. \A s : in(s) \in SUBSET A
    OBVIOUS
  <2> HIDE DEF in
  <2> QED
    BY <2>1, FS_Subset
<1>2. sum[{}] = 0
  <2>1. in({}) = {}
    OBVIOUS
  <2> HIDE DEF in
  <2> QED
    BY <2>1, FS_EmptySet
<1>3. ASSUME NEW s \in SUBSET D, NEW x \in s PROVE sum[s] = f[x] + sum[s \ {x}]
  <2> DEFINE own == {a \in A : h[a] = x}
  <2>1. in(s) = own \cup in(s \ {x}) /\ own \cap in(s \ {x}) = {} /\ own \in SUBSET A
    OBVIOUS
  <2> HIDE DEF in, own
  <2>2. IsFiniteSet(own) /\ IsFiniteSet(in(s \ {x}))
    BY <1>1, <2>1, FS_Subset
  <2>3. /\ Cardinality(in(s)) = Cardinality(own) + Cardinality(in(s \ {x})) - Cardinality({})
        /\ Cardinality(own) \in Nat /\ Cardinality(in(s \ {x})) \in Nat
    <3>1. Cardinality(own \cup in(s \ {x})) = Cardinality(own) + Cardinality(in(s \ {x}))
                                                - Cardinality(own \cap in(s \ {x}))
      BY <2>2, FS_Union
    <3>2. Cardinality(own) \in Nat /\ Cardinality(in(s \ {x})) \in Nat
      BY <2>2, FS_CardinalityType
    <3> QED
      BY <2>1, <3>1, <3>2
  <2>4. Cardinality(in(s)) = Cardinality(own) + Cardinality(in(s \ {x}))
    BY <2>3, FS_EmptySet
  <2>5. f[x] = Cardinality(own)
    BY DEF own
  <2> QED
    BY <2>4, <2>5
<1>4. sum \in [SUBSET D -> Nat]
  <2> HIDE DEF in
  <2> QED
    BY <1>1, FS_CardinalityType
<1>5. AddsUp(f, D, sum)
  <2> HIDE DEF sum
  <2> QED
    BY <1>2, <1>3, <1>4 DEF AddsUp
<1>6. SumFunctionOnSet(f, D) = sum[D]
  <2> HIDE DEF sum
  <2> QED
    BY <1>5, SumIs, Zenon
<1> QED
  BY <1>6

\* A function that counts the parts of a set sums to the number of its elements.
LEMMA SumOfAllParts ==
  ASSUME NEW A, IsFiniteSet(A), NEW f, IsFiniteSet(DOMAIN f), NEW h,
         \A a \in A : h[a] \in DOMAIN f,
         \A x \in DOMAIN f : f[x] = Cardinality({a \in A : h[a] = x})
  PROVE  SumFunction(f) = Cardinality(A)
<1> DEFINE D == DOMAIN f
<1>1. IsFiniteSet(D) /\ \A x \in D : f[x] = Cardinality({a \in A : h[a] = x})
  OBVIOUS
<1>2. {a \in A : h[a] \in D} = A
  OBVIOUS
<1>3. SumFunction(f) = SumFunctionOnSet(f, D)
  BY Zenon DEF SumFunction
<1> HIDE DEF D
<1>4. SumFunctionOnSet(f, D) = Cardinality({a \in A : h[a] \in D})
  BY <1>1, SumOfParts DEF Counts
<1> QED
  BY <1>2, <1>3, <1>4

\* The values of a function on a finite set are finitely many.
LEMMA ValuesFinite ==
  ASSUME NEW A, IsFiniteSet(A), NEW h
  PROVE  IsFiniteSet({h[a] : a \in A})
<1> DEFINE V == {h[a] : a \in A}
           g == [a \in A |-> h[a]]
<1>1. g \in Surjection(A, V)
  BY DEF Surjection
<1> HIDE DEF V, g
<1>2. IsFiniteSet(V)
  BY <1>1, FS_Surjection
<1> QED
  BY <1>2 DEF V

-----------------------------------------------------------------------------
(* The sections of the page count the same rows. *)

\* Rows of classes that hold a record.
Backed(R) == DOMAIN R \in SUBSET Classes /\ \A c \in DOMAIN R : records[c] \in Shown

LEMMA InRows ==
  ASSUME NEW R, Backed(R), NEW state
  PROVE  /\ In(R, state) \in SUBSET DOMAIN R /\ In(R, state) \in SUBSET Classes
         /\ IsFiniteSet(In(R, state)) /\ Cardinality(In(R, state)) \in Nat
<1>1. In(R, state) \in SUBSET DOMAIN R /\ In(R, state) \in SUBSET Classes
  BY DEF In, Backed
<1>2. IsFiniteSet(In(R, state))
  BY <1>1, ConstantTypes, FS_Subset
<1> QED
  BY <1>1, <1>2, FS_CardinalityType

LEMMA NoticeType ==
  ASSUME NEW R, Backed(R), NEW c \in DOMAIN R
  PROVE  /\ records[c].at = NoInstant \/ Notice(c) \in Int
         /\ FreeLead \in Nat /\ VeryLateLead \in Nat /\ VeryLateLead <= FreeLead
<1>1. records[c].at \in Int \/ records[c].at = NoInstant
  BY ConstantTypes DEF Backed, Shown
<1>2. Start[c] \in Int
  BY ConstantTypes DEF Backed
<1>3. FreeLead \in Nat /\ VeryLateLead \in Nat /\ VeryLateLead <= FreeLead
  BY MetricsAssumption
<1> QED
  BY <1>1, <1>2, <1>3 DEF Notice

LEMMA FourAreFinite ==
  ASSUME NEW a, NEW b, NEW c, NEW d
  PROVE  IsFiniteSet({a, b, c, d})
<1>1. IsFiniteSet({a})
  BY FS_Singleton
<1>2. IsFiniteSet({a} \cup {b})
  BY <1>1, FS_AddElement
<1>3. IsFiniteSet(({a} \cup {b}) \cup {c})
  BY <1>2, FS_AddElement
<1>4. IsFiniteSet((({a} \cup {b}) \cup {c}) \cup {d})
  BY <1>3, FS_AddElement
<1>5. (({a} \cup {b}) \cup {c}) \cup {d} = {a, b, c, d}
  OBVIOUS
<1> QED
  BY <1>4, <1>5

LEMMA BandsAddUp ==
  ASSUME NEW R, Backed(R)
  PROVE  SumFunction(CancellationBands(R)) = Count(R, "cancelled")
<1> DEFINE C == In(R, "cancelled")
           h == [c \in C |-> IF records[c].at = NoInstant THEN "unknown_lead"
                             ELSE IF Notice(c) >= FreeLead THEN "early"
                             ELSE IF VeryLateLead <= Notice(c) THEN "late" ELSE "very_late"]
           f == CancellationBands(R)
<1>1. C \in SUBSET DOMAIN R /\ IsFiniteSet(C)
  BY InRows
<1>2. /\ f = [early |-> Cardinality(Early(C)), late |-> Cardinality(Late(C)),
              very_late |-> Cardinality(VeryLate(C)), unknown_lead |-> Cardinality(Unknown(C))]
  BY DEF CancellationBands
<1> HIDE DEF C
<1>3. \A c \in C : /\ records[c].at = NoInstant \/ Notice(c) \in Int
                   /\ FreeLead \in Nat /\ VeryLateLead \in Nat /\ VeryLateLead <= FreeLead
  BY <1>1, NoticeType
<1>4. /\ Unknown(C) = {c \in C : h[c] = "unknown_lead"}
      /\ Early(C) = {c \in C : h[c] = "early"}
      /\ Late(C) = {c \in C : h[c] = "late"}
      /\ VeryLate(C) = {c \in C : h[c] = "very_late"}
  BY <1>3 DEF Unknown, Early, Late, VeryLate
<1>5. \A c \in C : h[c] \in {"early", "late", "very_late", "unknown_lead"}
  OBVIOUS
<1> HIDE DEF h, f
<1>6. /\ DOMAIN f = {"early", "late", "very_late", "unknown_lead"}
      /\ \A x \in DOMAIN f : f[x] = Cardinality({c \in C : h[c] = x})
  <2>1. DOMAIN f = {"early", "late", "very_late", "unknown_lead"}
    BY <1>2
  <2>2. /\ f["early"] = Cardinality({c \in C : h[c] = "early"})
        /\ f["late"] = Cardinality({c \in C : h[c] = "late"})
        /\ f["very_late"] = Cardinality({c \in C : h[c] = "very_late"})
        /\ f["unknown_lead"] = Cardinality({c \in C : h[c] = "unknown_lead"})
    BY <1>2, <1>4
  <2> QED
    BY <2>1, <2>2
<1>7. IsFiniteSet(DOMAIN f)
  <2>1. IsFiniteSet({"early", "late", "very_late", "unknown_lead"})
    BY FourAreFinite
  <2> QED
    BY <1>6, <2>1
<1>8. SumFunction(f) = Cardinality(C)
  BY <1>1, <1>5, <1>6, <1>7, SumOfAllParts
<1> QED
  BY <1>8 DEF f, C, Count

LEMMA LeadsAddUp ==
  ASSUME NEW R, Backed(R)
  PROVE  SumFunction(BookingLeadBands(R)) = Count(R, "attended")
<1> DEFINE A == In(R, "attended")
           h == [c \in A |-> IF records[c].at = NoInstant THEN "unknown"
                             ELSE IF Notice(c) < FreeLead THEN "same_day"
                             ELSE IF Notice(c) < Ticks THEN "within_day" ELSE "early"]
           f == BookingLeadBands(R)
           known == A \ Unknown(A)
<1>1. A \in SUBSET DOMAIN R /\ IsFiniteSet(A)
  BY InRows
<1>2. f = [same_day   |-> Cardinality({c \in known : Notice(c) < FreeLead}),
           within_day |-> Cardinality({c \in known : FreeLead <= Notice(c) /\ Notice(c) < Ticks}),
           early      |-> Cardinality({c \in known : FreeLead <= Notice(c) /\ Ticks <= Notice(c)}),
           unknown    |-> Cardinality(Unknown(A))]
  BY DEF BookingLeadBands
<1> HIDE DEF A
<1>3. \A c \in A : /\ records[c].at = NoInstant \/ Notice(c) \in Int
                   /\ FreeLead \in Nat /\ Ticks \in Nat
  BY <1>1, NoticeType, ConstantTypes
<1>4. /\ Unknown(A) = {c \in A : h[c] = "unknown"}
      /\ {c \in known : Notice(c) < FreeLead} = {c \in A : h[c] = "same_day"}
      /\ {c \in known : FreeLead <= Notice(c) /\ Notice(c) < Ticks} = {c \in A : h[c] = "within_day"}
      /\ {c \in known : FreeLead <= Notice(c) /\ Ticks <= Notice(c)} = {c \in A : h[c] = "early"}
  BY <1>3 DEF Unknown
<1>5. \A c \in A : h[c] \in {"same_day", "within_day", "early", "unknown"}
  OBVIOUS
<1> HIDE DEF h, f, known
<1>6. /\ DOMAIN f = {"same_day", "within_day", "early", "unknown"}
      /\ \A x \in DOMAIN f : f[x] = Cardinality({c \in A : h[c] = x})
  <2>1. DOMAIN f = {"same_day", "within_day", "early", "unknown"}
    BY <1>2
  <2>2. /\ f["same_day"] = Cardinality({c \in A : h[c] = "same_day"})
        /\ f["within_day"] = Cardinality({c \in A : h[c] = "within_day"})
        /\ f["early"] = Cardinality({c \in A : h[c] = "early"})
        /\ f["unknown"] = Cardinality({c \in A : h[c] = "unknown"})
    BY <1>2, <1>4
  <2> QED
    BY <2>1, <2>2
<1>7. IsFiniteSet(DOMAIN f)
  <2>1. IsFiniteSet({"same_day", "within_day", "early", "unknown"})
    BY FourAreFinite
  <2> QED
    BY <1>6, <2>1
<1>8. SumFunction(f) = Cardinality(A)
  BY <1>1, <1>5, <1>6, <1>7, SumOfAllParts
<1> QED
  BY <1>8 DEF f, A, Count

LEMMA GridAddsUp ==
  ASSUME NEW R, Backed(R)
  PROVE  /\ SumFunction(WeekdayHourGrid(R)) = Count(R, "attended")
         /\ \A s : SumFunctionOnSet(WeekdayHourGrid(R), {cell \in DOMAIN WeekdayHourGrid(R) : cell[2] = s})
                     = Cardinality({c \in In(R, "attended") : Slot(c) = s})
<1> DEFINE A == In(R, "attended")
           h == [c \in A |-> <<Weekday(DayOf(c)), Slot(c)>>]
           f == WeekdayHourGrid(R)
<1>1. IsFiniteSet(A)
  BY InRows
<1>2. f = [cell \in {<<Weekday(DayOf(c)), Slot(c)>> : c \in A} |->
             Cardinality({c \in A : <<Weekday(DayOf(c)), Slot(c)>> = cell})]
  BY DEF WeekdayHourGrid
<1> HIDE DEF A
<1>3. /\ DOMAIN f = {h[c] : c \in A}
      /\ \A x \in DOMAIN f : f[x] = Cardinality({c \in A : h[c] = x})
  <2>1. \A x : {c \in A : <<Weekday(DayOf(c)), Slot(c)>> = x} = {c \in A : h[c] = x}
    OBVIOUS
  <2>2. {<<Weekday(DayOf(c)), Slot(c)>> : c \in A} = {h[c] : c \in A}
    OBVIOUS
  <2> HIDE DEF h, f
  <2> QED
    BY <1>2, <2>1, <2>2
<1>4. \A c \in A : h[c][2] = Slot(c)
  OBVIOUS
<1> HIDE DEF h, f
<1>5. IsFiniteSet(DOMAIN f)
  BY <1>1, <1>3, ValuesFinite
<1>6. SumFunction(f) = Cardinality(A)
  <2>1. \A c \in A : h[c] \in DOMAIN f
    BY <1>3
  <2> QED
    BY <1>1, <1>3, <1>5, <2>1, SumOfAllParts
<1>7. ASSUME NEW s
      PROVE  SumFunctionOnSet(f, {cell \in DOMAIN f : cell[2] = s}) = Cardinality({c \in A : Slot(c) = s})
  <2> DEFINE D == {cell \in DOMAIN f : cell[2] = s}
  <2>1. D \in SUBSET DOMAIN f
    OBVIOUS
  <2>2. {c \in A : h[c] \in D} = {c \in A : Slot(c) = s}
    BY <1>3, <1>4
  <2> HIDE DEF D
  <2>3. IsFiniteSet(D)
    BY <1>5, <2>1, FS_Subset
  <2>4. \A x \in D : f[x] = Cardinality({c \in A : h[c] = x})
    BY <1>3, <2>1
  <2>5. SumFunctionOnSet(f, D) = Cardinality({c \in A : h[c] \in D})
    <3>1. Counts(f, D, A, h)
      BY <2>4 DEF Counts
    <3> QED
      BY <1>1, <2>3, <3>1, SumOfParts, Zenon
  <2> QED
    BY <2>2, <2>5 DEF D
<1> QED
  BY <1>6, <1>7 DEF f, A, Count

\* The place of a month in the calendar is a number.
LEMMA MonthNumbers ==
  ASSUME NEW d
  PROVE  MonthOf(d) \in Nat
<1>1. IsFiniteSet(Months)
  <2>1. IsFiniteSet(Days)
    BY ConstantTypes, FS_Interval DEF Days
  <2>2. IsFiniteSet(Days \X Days)
    BY <2>1, FS_Product
  <2> QED
    BY <2>2, CaptureAssumption, FS_Subset
<1> DEFINE over == {month \in Months : month[2] < d}
<1>2. over \in SUBSET Months
  OBVIOUS
<1> HIDE DEF over
<1>3. Cardinality(over) \in Nat
  BY <1>1, <1>2, FS_Subset, FS_CardinalityType
<1> QED
  BY <1>3 DEF MonthOf, over

\* From the first to the last of finitely many numbers.
LEMMA Spanned ==
  ASSUME NEW S \in SUBSET Nat, IsFiniteSet(S), S # {}
  PROVE  /\ Min(S) \in Nat /\ Max(S) \in Nat /\ S \subseteq Min(S)..Max(S)
<1>1. PICK n \in Nat : \A i \in S : i <= n
  <2> DEFINE above(i) == {j \in S : j > i}
             counts == {Cardinality(above(i)) : i \in S}
  <2>1. \A i \in S : above(i) \in SUBSET S
    OBVIOUS
  <2>2. \A i \in S : IsFiniteSet(above(i)) /\ Cardinality(above(i)) \in Nat
    <3> HIDE DEF above
    <3> QED
      BY <2>1, FS_Subset, FS_CardinalityType
  <2>3. counts \in SUBSET Nat /\ counts # {}
    <3> HIDE DEF above
    <3> QED
      BY <2>2
  <2>4. PICK k \in counts : \A l \in counts : k <= l
    <3> HIDE DEF counts
    <3> QED
      BY <2>3, LeastNatural
  <2>5. PICK i \in S : k = Cardinality(above(i))
    OBVIOUS
  <2>6. ASSUME NEW j \in S, j > i PROVE FALSE
    <3>1. above(j) \in SUBSET above(i) /\ j \in above(i) /\ j \notin above(j)
      <4>1. i \in Nat /\ \A e \in S : (e > j => e > i) /\ ~(j > j)
        BY <2>6
      <4> QED
        BY <2>6, <4>1, Zenon
    <3>2. Cardinality(above(j)) \in counts
      OBVIOUS
    <3> HIDE DEF above, counts
    <3>3. Cardinality(above(j)) <= Cardinality(above(i)) /\ Cardinality(above(j)) # Cardinality(above(i))
      BY <2>2, <3>1, FS_Subset
    <3>4. Cardinality(above(i)) <= Cardinality(above(j))
      BY <2>4, <2>5, <3>2
    <3> QED
      BY <2>2, <3>3, <3>4
  <2>7. \A j \in S : j <= i
    BY <2>6
  <2> QED
    BY <2>7
<1>2. Max(S) \in S /\ \A i \in S : i <= Max(S)
  BY <1>1, Greatest
<1>3. \E i \in S : \A j \in S : i =< j
  BY LeastNatural
<1>4. Min(S) \in S /\ \A j \in S : Min(S) =< j
  BY <1>3 DEF Min
<1>5. ASSUME NEW i \in S PROVE i \in Min(S)..Max(S)
  <2>1. i \in Nat /\ Min(S) \in Nat /\ Max(S) \in Nat /\ Min(S) <= i /\ i <= Max(S)
    BY <1>2, <1>4
  <2> QED
    BY <2>1
<1> QED
  BY <1>2, <1>4, <1>5

LEMMA TrendAddsUp ==
  ASSUME NEW R, Backed(R), NEW state \in {"attended", "cancelled"}
  PROVE  SumFunction([k \in DOMAIN MonthlyTrend(R) |-> MonthlyTrend(R)[k][state]]) = Count(R, state)
<1> DEFINE A      == In(R, state)
           both   == In(R, "attended") \cup In(R, "cancelled")
           h      == [c \in A |-> MonthOf(DayOf(c))]
           active == {MonthOf(DayOf(c)) : c \in both}
           months == IF active = {} THEN {} ELSE Min(active)..Max(active)
           trend  == MonthlyTrend(R)
           f      == [k \in DOMAIN trend |-> trend[k][state]]
           At(k, st) == Cardinality({c \in In(R, st) : MonthOf(DayOf(c)) = k})
<1>1. IsFiniteSet(A) /\ IsFiniteSet(both)
  BY InRows, FS_Union
<1>2. trend = [k \in months |-> [attended |-> At(k, "attended"), cancelled |-> At(k, "cancelled")]]
  BY DEF MonthlyTrend
<1>3. active \in SUBSET Nat /\ IsFiniteSet(active)
  <2>1. active \in SUBSET Nat
    BY MonthNumbers
  <2> DEFINE g == [c \in both |-> MonthOf(DayOf(c))]
  <2>2. active = {g[c] : c \in both}
    OBVIOUS
  <2> HIDE DEF g, active, both
  <2>3. IsFiniteSet({g[c] : c \in both})
    BY <1>1, ValuesFinite
  <2> QED
    BY <2>1, <2>2, <2>3
<1>4. \A c \in A : h[c] \in active
  OBVIOUS
<1>5. \A k : {c \in A : MonthOf(DayOf(c)) = k} = {c \in A : h[c] = k}
  OBVIOUS
<1>6. \A k \in months : trend[k][state] = Cardinality({c \in A : MonthOf(DayOf(c)) = k})
  <2> HIDE DEF trend, months
  <2>1. CASE state = "attended"
    BY <1>2, <2>1
  <2>2. CASE state = "cancelled"
    BY <1>2, <2>2
  <2> QED
    BY <2>1, <2>2
<1>7. DOMAIN f = months
  <2> HIDE DEF trend, months
  <2> QED
    BY <1>2
<1>8. \A k \in DOMAIN f : f[k] = Cardinality({c \in A : h[c] = k})
  <2>1. \A k \in DOMAIN f : f[k] = trend[k][state]
    OBVIOUS
  <2> HIDE DEF f, trend, months, h, A
  <2> QED
    BY <1>5, <1>6, <1>7, <2>1
<1> HIDE DEF active, trend, h, A, f
<1>9. IsFiniteSet(months) /\ \A k \in active : k \in months
  <2>1. CASE active = {}
    BY <2>1, FS_EmptySet
  <2>2. CASE active # {}
    <3>1. Min(active) \in Nat /\ Max(active) \in Nat /\ active \subseteq Min(active)..Max(active)
      BY <1>3, <2>2, Spanned
    <3>2. IsFiniteSet(Min(active)..Max(active))
      BY <3>1, FS_Interval
    <3> QED
      BY <2>2, <3>1, <3>2
  <2> QED
    BY <2>1, <2>2
<1> HIDE DEF months
<1>10. IsFiniteSet(DOMAIN f) /\ \A c \in A : h[c] \in DOMAIN f
  BY <1>4, <1>7, <1>9
<1>11. SumFunction(f) = Cardinality(A)
  BY <1>1, <1>8, <1>10, SumOfAllParts
<1> QED
  BY <1>11 DEF f, trend, A, Count

LEMMA WindowIn ==
  ASSUME NEW R, NEW W, NEW state
  PROVE  In(InWindow(R, W), state) = {c \in DOMAIN R : DayOf(c) \in W /\ R[c] = state}
<1> DEFINE own == InWindow(R, W)
<1>1. /\ DOMAIN own = {c \in DOMAIN R : DayOf(c) \in W}
      /\ \A c \in DOMAIN own : own[c] = R[c]
  BY WindowRows
<1>2. In(own, state) = {c \in DOMAIN own : own[c] = state}
  BY DEF In
<1> HIDE DEF own
<1>3. In(own, state) = {c \in DOMAIN R : DayOf(c) \in W /\ R[c] = state}
  BY <1>1, <1>2
<1> QED
  BY <1>3 DEF own

LEMMA DaysAddUp ==
  ASSUME NEW R, Backed(R), NEW W \in SUBSET Days, NEW state \in States
  PROVE  SumFunction([d \in W |-> Count(InWindow(R, {d}), state)]) = Count(InWindow(R, W), state)
<1> DEFINE A == In(InWindow(R, W), state)
           h == [c \in A |-> DayOf(c)]
           f == [d \in W |-> Count(InWindow(R, {d}), state)]
<1>1. A = {c \in DOMAIN R : DayOf(c) \in W /\ R[c] = state}
  BY WindowIn
<1>2. \A d \in W : In(InWindow(R, {d}), state) = {c \in A : h[c] = d}
  <2> SUFFICES ASSUME NEW d \in W PROVE In(InWindow(R, {d}), state) = {c \in A : h[c] = d}
    OBVIOUS
  <2>1. In(InWindow(R, {d}), state) = {c \in DOMAIN R : DayOf(c) \in {d} /\ R[c] = state}
    BY WindowIn
  <2>2. {c \in A : h[c] = d} = {c \in A : DayOf(c) = d}
    OBVIOUS
  <2> HIDE DEF A, h
  <2> QED
    BY <1>1, <2>1, <2>2
<1>3. \A c \in A : h[c] \in W
  BY <1>1
<1> HIDE DEF A, h
<1>4. IsFiniteSet(A)
  <2>1. A \in SUBSET Classes
    BY <1>1 DEF Backed
  <2> QED
    BY <2>1, ConstantTypes, FS_Subset
<1>5. IsFiniteSet(W)
  <2>1. IsFiniteSet(Days)
    BY ConstantTypes, FS_Interval DEF Days
  <2> QED
    BY <2>1, FS_Subset
<1>6. DOMAIN f = W /\ \A d \in DOMAIN f : f[d] = Cardinality({c \in A : h[c] = d})
  BY <1>2 DEF Count
<1> HIDE DEF f
<1>7. IsFiniteSet(DOMAIN f) /\ \A c \in A : h[c] \in DOMAIN f
  BY <1>3, <1>5, <1>6
<1>8. SumFunction(f) = Cardinality(A)
  BY <1>4, <1>6, <1>7, SumOfAllParts
<1> QED
  BY <1>8 DEF f, A, Count

LEMMA SectionsOfWindow ==
  ASSUME Typed, NEW rows, rows = CountedRecords(now), NEW W \in SUBSET Days
  PROVE  LET attendance == AttendanceSection(rows, W)
             patterns   == PatternsSection(rows, W)
             total      == attendance.abandonment
             days       == DayCalendar(rows, W \cap Days, now)
         IN  /\ SumFunction(attendance.bands) = total["cancelled"]
             /\ total["attended"] \in
                  {attendance.pace.sessions} \cap {SumFunction(patterns.grid)}
                  \cap {SumFunction(patterns.lead)} \cap {patterns.occupancy.sessions}
             /\ \A state \in {"attended", "cancelled"} :
                  SumFunction([k \in DOMAIN patterns.trend |-> patterns.trend[k][state]]) = total[state]
             /\ \A s \in DOMAIN patterns.drop :
                  patterns.drop[s].attended =
                    SumFunctionOnSet(patterns.grid, {cell \in DOMAIN patterns.grid : cell[2] = s})
             /\ \A state \in States :
                  SumFunction([d \in DOMAIN days |-> days[d].counts[state]]) = total[state]
             /\ \A d \in DOMAIN days :
                  days[d].status = "attended" => days[d].counts["attended"] > 0
<1> DEFINE own        == InWindow(rows, W)
           attendance == AttendanceSection(rows, W)
           patterns   == PatternsSection(rows, W)
           total      == attendance.abandonment
           days       == DayCalendar(rows, W \cap Days, now)
<1>1. Backed(rows)
  BY RowsOfPage DEF Backed
<1>2. Backed(own)
  <2>1. DOMAIN own = {c \in DOMAIN rows : DayOf(c) \in W}
    BY WindowRows
  <2> HIDE DEF own
  <2> QED
    BY <1>1, <2>1 DEF Backed
<1>3. attendance.bands = CancellationBands(own) /\ total = Abandonment(own)
  BY DEF AttendanceSection
<1>4. attendance.pace.sessions = Count(own, "attended")
  BY DEF AttendanceSection, WeeklyAverage
<1>5. /\ patterns.grid = WeekdayHourGrid(own) /\ patterns.lead = BookingLeadBands(own)
      /\ patterns.trend = MonthlyTrend(own) /\ patterns.drop = DropRateBySlot(own)
      /\ patterns.occupancy = Occupancy(own)
  BY DEF PatternsSection
<1>6. patterns.occupancy.sessions = Count(own, "attended")
  BY <1>5 DEF Occupancy
<1>7. /\ DOMAIN days = W
      /\ \A d \in W : /\ days[d].status = CellStatus(d, rows, now)
                      /\ days[d].counts = Abandonment(InWindow(rows, {d}))
  BY DEF DayCalendar
<1>8. \A state \in States : total[state] = Count(own, state)
  BY <1>3 DEF Abandonment
<1> HIDE DEF own, attendance, patterns, total, days
<1>9. "attended" \in States /\ "cancelled" \in States
  BY DEF States
<1>10. SumFunction(attendance.bands) = total["cancelled"]
  BY <1>2, <1>3, <1>8, <1>9, BandsAddUp
<1>11. total["attended"] = Count(own, "attended")
  BY <1>8, <1>9
<1>12. SumFunction(patterns.grid) = Count(own, "attended") /\ SumFunction(patterns.lead) = Count(own, "attended")
  BY <1>2, <1>5, GridAddsUp, LeadsAddUp
<1>13. ASSUME NEW state \in {"attended", "cancelled"}
       PROVE  SumFunction([k \in DOMAIN patterns.trend |-> patterns.trend[k][state]]) = total[state]
  BY <1>2, <1>5, <1>8, <1>9, TrendAddsUp
<1>14. ASSUME NEW s \in DOMAIN patterns.drop
       PROVE  patterns.drop[s].attended =
                SumFunctionOnSet(patterns.grid, {cell \in DOMAIN patterns.grid : cell[2] = s})
  <2>1. patterns.drop[s].attended = Cardinality({c \in In(own, "attended") : Slot(c) = s})
    BY <1>5 DEF DropRateBySlot
  <2> QED
    BY <1>2, <1>5, <2>1, GridAddsUp
<1>15. ASSUME NEW state \in States
       PROVE  SumFunction([d \in DOMAIN days |-> days[d].counts[state]]) = total[state]
  <2>1. \A d \in W : days[d].counts[state] = Count(InWindow(rows, {d}), state)
    BY <1>7 DEF Abandonment
  <2>2. [d \in DOMAIN days |-> days[d].counts[state]] = [d \in W |-> Count(InWindow(rows, {d}), state)]
    BY <1>7, <2>1
  <2>3. SumFunction([d \in W |-> Count(InWindow(rows, {d}), state)]) = Count(own, state)
    BY <1>1, DaysAddUp DEF own
  <2> QED
    BY <1>8, <2>2, <2>3
<1>16. ASSUME NEW d \in DOMAIN days, days[d].status = "attended"
       PROVE  days[d].counts["attended"] > 0
  <2> DEFINE A == In(InWindow(rows, {d}), "attended")
  <2>1. A # {}
    BY <1>7, <1>16 DEF CellStatus
  <2>2. A = {c \in DOMAIN rows : DayOf(c) \in {d} /\ rows[c] = "attended"}
    BY WindowIn
  <2> HIDE DEF A
  <2>3. IsFiniteSet(A) /\ Cardinality(A) \in Nat
    <3>1. A \in SUBSET Classes
      BY <1>1, <2>2 DEF Backed
    <3> QED
      BY <3>1, ConstantTypes, FS_Subset, FS_CardinalityType
  <2>4. Cardinality(A) # 0
    BY <2>1, <2>3, FS_EmptySet
  <2>5. days[d].counts["attended"] = Cardinality(A)
    BY <1>7, <1>9 DEF Abandonment, Count, A
  <2> QED
    BY <2>3, <2>4, <2>5
<1>17. total["attended"] \in {attendance.pace.sessions} \cap {SumFunction(patterns.grid)}
                             \cap {SumFunction(patterns.lead)} \cap {patterns.occupancy.sessions}
  BY <1>4, <1>6, <1>11, <1>12
<1> QED
  BY <1>10, <1>13, <1>14, <1>15, <1>16, <1>17, Zenon DEF attendance, patterns, total, days

\* The sections of a page count the same rows of a window, each in its own way:
\* bands, cells, months, slots and days are parts that miss no row and repeat none.
THEOREM SpecSectionsAgree == Spec => []SectionsAgree
<1>1. Spec => []IInv
  BY SpecIInv
<1>2. IInv => SectionsAgree
  <2> SUFFICES ASSUME IInv PROVE SectionsAgree
    OBVIOUS
  <2>1. Typed
    BY DEF IInv
  <2>2. \A W \in {Window(key, now) : key \in Keys} : W \in SUBSET Days
    BY DEF Window
  <2> QED
    BY <2>1, <2>2, SectionsOfWindow, Zenon DEF SectionsAgree
<1> QED
  BY <1>1, <1>2, PTL

-----------------------------------------------------------------------------
(* Sums of numbers, by the sets of points under them. *)

Points(f, s) == UNION {{x} \X (1..f[x]) : x \in s}

LEMMA Pairs ==
  \A S, T : \A p \in S \X T : \E a \in S : \E b \in T : p = <<a, b>>
  OBVIOUS

LEMMA PointsAre ==
  ASSUME NEW D, NEW f \in [D -> Nat], NEW s \in SUBSET D
  PROVE  /\ \A p : p \in Points(f, s) <=> \E x \in s : \E n \in 1..f[x] : p = <<x, n>>
         /\ IsFiniteSet(s) => IsFiniteSet(Points(f, s)) /\ Cardinality(Points(f, s)) \in Nat
<1>1. \A p : p \in Points(f, s) <=> \E x \in s : \E n \in 1..f[x] : p = <<x, n>>
  BY DEF Points
<1>2. ASSUME IsFiniteSet(s) PROVE IsFiniteSet(Points(f, s))
  <2> DEFINE h == [x \in s |-> {x} \X (1..f[x])]
             columns == {h[x] : x \in s}
  <2>1. \A x \in s : IsFiniteSet(h[x])
    <3> SUFFICES ASSUME NEW x \in s PROVE IsFiniteSet({x} \X (1..f[x]))
      OBVIOUS
    <3>1. f[x] \in Nat
      OBVIOUS
    <3>2. IsFiniteSet(1..f[x])
      BY <3>1, FS_Interval
    <3>3. IsFiniteSet({x})
      BY FS_Singleton
    <3> QED
      BY <3>2, <3>3, FS_Product
  <2>2. Points(f, s) = UNION columns
    BY DEF Points
  <2> HIDE DEF h
  <2>3. IsFiniteSet(columns)
    BY <1>2, ValuesFinite
  <2>4. \A T \in columns : IsFiniteSet(T)
    BY <2>1
  <2> HIDE DEF columns
  <2>5. IsFiniteSet(UNION columns)
    BY <2>3, <2>4, FS_UNION
  <2> QED
    BY <2>2, <2>5
<1> QED
  BY <1>1, <1>2, FS_CardinalityType

\* Apart from each other, sizes add.
LEMMA SizesAdd ==
  ASSUME NEW S, NEW T, IsFiniteSet(S), IsFiniteSet(T), S \cap T = {}
  PROVE  /\ IsFiniteSet(S \cup T) /\ Cardinality(S) \in Nat /\ Cardinality(T) \in Nat
         /\ Cardinality(S \cup T) = Cardinality(S) + Cardinality(T)
<1>1. /\ IsFiniteSet(S \cup T)
      /\ Cardinality(S \cup T) = Cardinality(S) + Cardinality(T) - Cardinality(S \cap T)
  BY FS_Union
<1>2. Cardinality(S \cap T) = 0
  BY FS_EmptySet
<1>3. Cardinality(S) \in Nat /\ Cardinality(T) \in Nat
  BY FS_CardinalityType
<1> QED
  BY <1>1, <1>2, <1>3

LEMMA SumIsSize ==
  ASSUME NEW D, IsFiniteSet(D), NEW f \in [D -> Nat]
  PROVE  /\ SumFunction(f) = Cardinality(Points(f, D)) /\ SumFunction(f) \in Nat
         /\ IsFiniteSet(Points(f, D))
<1> DEFINE sum == [s \in SUBSET D |-> Cardinality(Points(f, s))]
<1>1. \A s \in SUBSET D : IsFiniteSet(s)
  BY FS_Subset
<1>2. \A s \in SUBSET D : IsFiniteSet(Points(f, s)) /\ Cardinality(Points(f, s)) \in Nat
  BY <1>1, PointsAre
<1>3. sum[{}] = 0
  <2>1. Points(f, {}) = {}
    BY DEF Points
  <2> QED
    BY <2>1, FS_EmptySet
<1>4. ASSUME NEW s \in SUBSET D, NEW x \in s PROVE sum[s] = f[x] + sum[s \ {x}]
  <2> DEFINE column == {x} \X (1..f[x])
             rest   == Points(f, s \ {x})
  <2>1. f[x] \in Nat /\ s \ {x} \in SUBSET D
    OBVIOUS
  <2>2. IsFiniteSet(column) /\ Cardinality(column) = f[x]
    <3>1. IsFiniteSet({x}) /\ Cardinality({x}) = 1
      BY FS_Singleton
    <3>2. IsFiniteSet(1..f[x]) /\ Cardinality(1..f[x]) = f[x]
      BY <2>1, FS_Interval
    <3>3. IsFiniteSet(column) /\ Cardinality(column) = Cardinality({x}) * Cardinality(1..f[x])
      BY <3>1, <3>2, FS_Product
    <3> QED
      BY <2>1, <3>1, <3>2, <3>3
  <2>3. Points(f, s) = column \cup rest /\ column \cap rest = {}
    <3>1. Points(f, s) = column \cup rest
      BY DEF Points
    <3>2. ASSUME NEW p \in column, p \in rest PROVE FALSE
      <4>1. PICK z \in {x}, m \in 1..f[x] : p = <<z, m>>
        BY Pairs
      <4>2. PICK y \in s \ {x} : \E n \in 1..f[y] : p = <<y, n>>
        BY <2>1, <3>2, PointsAre
      <4> QED
        BY <4>1, <4>2
    <3> QED
      BY <3>1, <3>2
  <2>4. IsFiniteSet(rest) /\ Cardinality(rest) \in Nat
    BY <1>2, <2>1
  <2> HIDE DEF column, rest
  <2>5. Cardinality(Points(f, s)) = Cardinality(column) + Cardinality(rest)
    BY <2>2, <2>3, <2>4, SizesAdd
  <2> QED
    BY <2>1, <2>2, <2>5 DEF rest
<1>5. sum \in [SUBSET D -> Nat]
  BY <1>2
<1>6. AddsUp(f, D, sum)
  <2> HIDE DEF sum
  <2> QED
    BY <1>3, <1>4, <1>5 DEF AddsUp
<1>7. SumFunctionOnSet(f, D) = sum[D]
  <2> HIDE DEF sum
  <2> QED
    BY <1>6, SumIs, Zenon
<1>8. DOMAIN f = D
  OBVIOUS
<1>9. SumFunction(f) = SumFunctionOnSet(f, D)
  BY <1>8, Zenon DEF SumFunction
<1>10. SumFunction(f) = Cardinality(Points(f, D))
  BY <1>7, <1>9
<1> QED
  BY <1>2, <1>10

LEMMA SumGrows ==
  ASSUME NEW D, IsFiniteSet(D), NEW f \in [D -> Nat], NEW g \in [D -> Nat],
         \A x \in D : f[x] <= g[x]
  PROVE  SumFunction(f) <= SumFunction(g)
<1>1. Points(f, D) \in SUBSET Points(g, D)
  <2>1. ASSUME NEW p \in Points(f, D) PROVE p \in Points(g, D)
    <3>1. PICK x \in D : \E n \in 1..f[x] : p = <<x, n>>
      BY PointsAre
    <3>2. 1..f[x] \subseteq 1..g[x]
      OBVIOUS
    <3> QED
      BY <3>1, <3>2, PointsAre
  <2> QED
    BY <2>1
<1>2. IsFiniteSet(Points(g, D))
  BY SumIsSize
<1>3. Cardinality(Points(f, D)) <= Cardinality(Points(g, D))
  BY <1>1, <1>2, FS_Subset
<1> QED
  BY <1>3, SumIsSize

\* h is f on D and g on E.
Joins(h, f, D, g, E) ==
  /\ h \in [D \cup E -> Nat] /\ f \in [D -> Nat] /\ g \in [E -> Nat]
  /\ \A x \in D : h[x] = f[x]
  /\ \A x \in E : h[x] = g[x]

LEMMA SumSplits ==
  ASSUME NEW D, NEW E, IsFiniteSet(D), IsFiniteSet(E), D \cap E = {},
         NEW f, NEW g, NEW h, Joins(h, f, D, g, E)
  PROVE  SumFunction(h) = SumFunction(f) + SumFunction(g)
<1> USE DEF Joins
<1>1. Points(h, D \cup E) = Points(f, D) \cup Points(g, E)
  BY DEF Points
<1>2. Points(f, D) \cap Points(g, E) = {}
  <2>1. ASSUME NEW p \in Points(f, D), p \in Points(g, E) PROVE FALSE
    <3>1. PICK x \in D : \E n \in 1..f[x] : p = <<x, n>>
      BY PointsAre
    <3>2. PICK y \in E : \E m \in 1..g[y] : p = <<y, m>>
      BY <2>1, PointsAre
    <3> QED
      BY <3>1, <3>2
  <2> QED
    BY <2>1
<1>3. /\ IsFiniteSet(Points(f, D)) /\ IsFiniteSet(Points(g, E))
      /\ SumFunction(f) = Cardinality(Points(f, D)) /\ SumFunction(g) = Cardinality(Points(g, E))
  BY SumIsSize
<1>4. SumFunction(h) = Cardinality(Points(h, D \cup E))
  <2>1. IsFiniteSet(D \cup E)
    BY FS_Union
  <2> QED
    BY <2>1, SumIsSize
<1>5. Cardinality(Points(f, D) \cup Points(g, E)) =
        Cardinality(Points(f, D)) + Cardinality(Points(g, E))
  <2> DEFINE P == Points(f, D)
             Q == Points(g, E)
  <2>1. IsFiniteSet(P) /\ IsFiniteSet(Q) /\ P \cap Q = {}
    BY <1>2, <1>3
  <2> HIDE DEF P, Q
  <2>2. Cardinality(P \cup Q) = Cardinality(P) + Cardinality(Q)
    BY <2>1, SizesAdd
  <2> QED
    BY <2>2 DEF P, Q
<1> QED
  BY <1>1, <1>3, <1>4, <1>5

LEMMA SumOfConstant ==
  ASSUME NEW D, IsFiniteSet(D), NEW k \in Nat
  PROVE  SumFunction([x \in D |-> k]) = k * Cardinality(D)
<1> DEFINE f == [x \in D |-> k]
<1>1. f \in [D -> Nat] /\ \A x \in D : f[x] = k
  OBVIOUS
<1>2. Points(f, D) = D \X (1..k)
  <2>1. \A x \in D : 1..f[x] = 1..k
    OBVIOUS
  <2> HIDE DEF f
  <2>2. \A p : p \in Points(f, D) <=> \E x \in D : \E n \in 1..k : p = <<x, n>>
    BY <1>1, <2>1, PointsAre
  <2> QED
    BY <2>2
<1> HIDE DEF f
<1>3. SumFunction(f) = Cardinality(D \X (1..k))
  BY <1>1, <1>2, SumIsSize
<1>4. IsFiniteSet(1..k) /\ Cardinality(1..k) = k
  BY FS_Interval
<1>5. Cardinality(D \X (1..k)) = Cardinality(D) * k
  BY <1>4, FS_Product
<1>6. Cardinality(D) \in Nat
  BY FS_CardinalityType
<1> QED
  BY <1>3, <1>5, <1>6 DEF f

-----------------------------------------------------------------------------
(* The estimate and what the gym can have charged. *)

LEMMA ExtremesAre ==
  ASSUME NEW S \in SUBSET Int, NEW x \in S
  PROVE  /\ (\A y \in S : x <= y) => Min(S) = x
         /\ (\A y \in S : x >= y) => Max(S) = x
<1>1. ASSUME \A y \in S : x <= y PROVE Min(S) = x
  <2>1. \A z \in S : (\A y \in S : z <= y) => z = x
    BY <1>1
  <2> QED
    BY <1>1, <2>1 DEF Min
<1>2. ASSUME \A y \in S : x >= y PROVE Max(S) = x
  <2>1. \A z \in S : (\A y \in S : z >= y) => z = x
    BY <1>2
  <2> QED
    BY <1>2, <2>1 DEF Max
<1> QED
  BY <1>1, <1>2

\* Every reading of every point of D has a price between low and high, and some
\* reading has each of the two.
Bounds(D, T, price, low, high) ==
  \A c \in D : /\ \A r \in T : low[c] <= price[c][r] /\ price[c][r] <= high[c]
               /\ \E r \in T : price[c][r] = low[c]
               /\ \E r \in T : price[c][r] = high[c]

\* What all of D costs under one reading of each point.
Price(D, price, reading) == SumFunction([c \in D |-> price[c][reading[c]]])

\* What all of D can cost, with k for each of the points of Q that is paid.
Totals(D, T, price, Q, k) ==
  {Price(D, price, reading) + k * Cardinality(paid) :
     reading \in [D -> T], paid \in SUBSET Q}

LEMMA TotalIs ==
  ASSUME NEW D, IsFiniteSet(D), NEW T, NEW price \in [D -> [T -> Nat]],
         NEW reading \in [D -> T], NEW low \in [D -> Nat], NEW high \in [D -> Nat],
         Bounds(D, T, price, low, high)
  PROVE  /\ Price(D, price, reading) \in Nat
         /\ SumFunction(low) <= Price(D, price, reading)
         /\ Price(D, price, reading) <= SumFunction(high)
<1> DEFINE f == [c \in D |-> price[c][reading[c]]]
<1>1. f \in [D -> Nat]
  OBVIOUS
<1>2. \A c \in D : low[c] <= f[c] /\ f[c] <= high[c]
  BY DEF Bounds
<1> HIDE DEF f
<1>3. SumFunction(f) \in Nat
  BY <1>1, SumIsSize
<1>4. SumFunction(low) <= SumFunction(f)
  BY <1>1, <1>2, SumGrows
<1>5. SumFunction(f) <= SumFunction(high)
  BY <1>1, <1>2, SumGrows
<1> QED
  BY <1>3, <1>4, <1>5 DEF f, Price

LEMMA TimesOrders ==
  ASSUME NEW k \in Nat, NEW m \in Nat, NEW n \in Nat, m <= n
  PROVE  k * m \in Nat /\ k * n \in Nat /\ k * m <= k * n
<1>1. n - m \in Nat /\ n = m + (n - m)
  OBVIOUS
<1>2. k * n = k * m + k * (n - m) /\ k * (n - m) \in Nat /\ k * m \in Nat
  BY <1>1
<1> QED
  BY <1>2

LEMMA ExtremesOfTotals ==
  ASSUME NEW D, IsFiniteSet(D), NEW T, NEW price \in [D -> [T -> Nat]],
         NEW low \in [D -> Nat], NEW high \in [D -> Nat],
         Bounds(D, T, price, low, high),
         NEW Q, IsFiniteSet(Q), NEW k \in Nat
  PROVE  /\ Min(Totals(D, T, price, Q, k)) = SumFunction(low)
         /\ Max(Totals(D, T, price, Q, k)) = SumFunction(high) + k * Cardinality(Q)
<1> DEFINE totals == Totals(D, T, price, Q, k)
           sum(reading) == Price(D, price, reading)
<1>1. \A x : x \in totals <=> \E reading \in [D -> T], paid \in SUBSET Q :
                                x = sum(reading) + k * Cardinality(paid)
  BY DEF Totals
<1>2. \A reading \in [D -> T] : /\ sum(reading) \in Nat
                                /\ SumFunction(low) <= sum(reading)
                                /\ sum(reading) <= SumFunction(high)
  <2> SUFFICES ASSUME NEW reading \in [D -> T]
               PROVE  /\ sum(reading) \in Nat
                      /\ SumFunction(low) <= sum(reading) /\ sum(reading) <= SumFunction(high)
    OBVIOUS
  <2> QED
    BY TotalIs, Zenon
<1>3. SumFunction(low) \in Nat /\ SumFunction(high) \in Nat
  BY SumIsSize
<1>4. \A paid \in SUBSET Q : /\ k * Cardinality(paid) \in Nat /\ k * Cardinality(Q) \in Nat
                             /\ k * Cardinality(paid) <= k * Cardinality(Q)
  <2> SUFFICES ASSUME NEW paid \in SUBSET Q
               PROVE  /\ k * Cardinality(paid) \in Nat /\ k * Cardinality(Q) \in Nat
                      /\ k * Cardinality(paid) <= k * Cardinality(Q)
    OBVIOUS
  <2>1. IsFiniteSet(paid) /\ Cardinality(paid) <= Cardinality(Q)
    BY FS_Subset
  <2>2. Cardinality(paid) \in Nat /\ Cardinality(Q) \in Nat
    BY <2>1, FS_CardinalityType
  <2> QED
    BY <2>1, <2>2, TimesOrders
<1>5. SumFunction(low) \in totals
  <2> DEFINE reading == [c \in D |-> CHOOSE r \in T : price[c][r] = low[c]]
  <2>1. reading \in [D -> T] /\ \A c \in D : price[c][reading[c]] = low[c]
    BY DEF Bounds
  <2> HIDE DEF reading
  <2>2. [c \in D |-> price[c][reading[c]]] = low
    BY <2>1
  <2>3. {} \in SUBSET Q /\ k * Cardinality({}) = 0
    BY FS_EmptySet
  <2>4. SumFunction(low) = sum(reading) + k * Cardinality({})
    BY <1>3, <2>2, <2>3 DEF Price
  <2> HIDE DEF totals, sum
  <2> QED
    BY <1>1, <2>1, <2>3, <2>4
<1>6. SumFunction(high) + k * Cardinality(Q) \in totals
  <2> DEFINE reading == [c \in D |-> CHOOSE r \in T : price[c][r] = high[c]]
  <2>1. reading \in [D -> T] /\ \A c \in D : price[c][reading[c]] = high[c]
    BY DEF Bounds
  <2> HIDE DEF reading
  <2>2. [c \in D |-> price[c][reading[c]]] = high
    BY <2>1
  <2>3. SumFunction(high) + k * Cardinality(Q) = sum(reading) + k * Cardinality(Q)
    BY <2>2 DEF Price
  <2> HIDE DEF totals, sum
  <2> QED
    BY <1>1, <2>1, <2>3
<1> HIDE DEF totals, sum
<1>7. ASSUME NEW x \in totals
      PROVE  /\ x \in Int /\ SumFunction(low) <= x
             /\ x <= SumFunction(high) + k * Cardinality(Q)
  <2>1. PICK reading \in [D -> T] : \E paid \in SUBSET Q :
               x = sum(reading) + k * Cardinality(paid)
    BY <1>1
  <2>2. PICK paid \in SUBSET Q : x = sum(reading) + k * Cardinality(paid)
    BY <2>1
  <2> DEFINE a == sum(reading)
             b == k * Cardinality(paid)
             n == k * Cardinality(Q)
             least == SumFunction(low)
             most == SumFunction(high)
  <2>3. /\ a \in Nat /\ b \in Nat /\ n \in Nat /\ least \in Nat /\ most \in Nat
        /\ least <= a /\ a <= most /\ b <= n /\ x = a + b
    BY <1>2, <1>3, <1>4, <2>2
  <2> HIDE DEF a, b, n, least, most
  <2>4. x \in Int /\ least <= x /\ x <= most + n
    BY <2>3
  <2> QED
    BY <2>4 DEF least, most, n
<1>8. totals \in SUBSET Int
  BY <1>7
<1>9. Min(totals) = SumFunction(low)
  BY <1>5, <1>7, <1>8, ExtremesAre
<1>10. Max(totals) = SumFunction(high) + k * Cardinality(Q)
  <2> DEFINE top == SumFunction(high) + k * Cardinality(Q)
  <2>1. top \in totals /\ top \in Int /\ \A y \in totals : y \in Int /\ y <= top
    BY <1>6, <1>7
  <2> HIDE DEF top
  <2>2. \A y \in totals : top >= y
    BY <2>1
  <2>3. Max(totals) = top
    BY <1>8, <2>1, <2>2, ExtremesAre
  <2> QED
    BY <2>3 DEF top
<1> QED
  BY <1>9, <1>10 DEF totals

\* Classes of R left or missed, and those of them that count as absences.
Dropped(R) == {c \in DOMAIN R : records[c].list # "attended"}
Absent(R)  == In(R, "no_show") \cup In(R, "removed_after_start")

\* A state of the page goes back to the list and the instant of the record.
LEMMA Classified ==
  ASSUME Typed, NEW rows, rows = CountedRecords(now), NEW W
  PROVE  LET R == InWindow(rows, W)
         IN  /\ Backed(R)
             /\ Dropped(R) = Removed(R) \cup Absent(R) /\ Removed(R) \cap Absent(R) = {}
             /\ \A c \in Absent(R) : ~BeforeStart(records[c], c)
             /\ \A c \in Removed(R) :
                  \/ FiledAsAbsent(c)
                  \/ records[c].list = "cancelled" /\ ~AfterStart(records[c], c)
<1> DEFINE R == InWindow(rows, W)
           swapped == SwappedDays(now)
<1>1. Backed(rows) /\ \A c \in DOMAIN rows : rows[c] = StateOf(c, swapped)
  <2>1. Backed(rows)
    BY RowsOfPage DEF Backed
  <2> QED
    BY <2>1 DEF CountedRecords
<1>2. /\ DOMAIN R = {c \in DOMAIN rows : DayOf(c) \in W}
      /\ \A c \in DOMAIN R : R[c] = rows[c]
  BY WindowRows
<1> HIDE DEF R, swapped
<1>3. Backed(R)
  BY <1>1, <1>2 DEF Backed
<1>4. ASSUME NEW c \in DOMAIN R
      PROVE  /\ R[c] = "attended" => records[c].list = "attended"
             /\ records[c].list = "attended" => R[c] = "attended"
             /\ R[c] \in {"attended", "no_show", "removed_after_start", "swapped", "cancelled"}
             /\ R[c] = "no_show" => ~BeforeStart(records[c], c)
             /\ R[c] = "removed_after_start" => AfterStart(records[c], c)
             /\ R[c] \in {"swapped", "cancelled"} =>
                  \/ FiledAsAbsent(c)
                  \/ records[c].list = "cancelled" /\ ~AfterStart(records[c], c)
  <2>1. R[c] = StateOf(c, swapped)
    BY <1>1, <1>2
  <2>2. records[c].list \in {"attended", "cancelled", "no_show"}
    BY <1>3 DEF Backed, Shown
  <2> QED
    BY <2>1, <2>2 DEF StateOf, FiledAsAbsent
<1>5. \A c \in DOMAIN R : AfterStart(records[c], c) => ~BeforeStart(records[c], c)
  <2> SUFFICES ASSUME NEW c \in DOMAIN R, AfterStart(records[c], c)
               PROVE  ~BeforeStart(records[c], c)
    OBVIOUS
  <2>1. records[c].at \in Int /\ Start[c] \in Int
    BY <1>3, ConstantTypes DEF Backed, Shown, AfterStart
  <2> QED
    BY <2>1 DEF AfterStart, BeforeStart
<1>6. Dropped(R) = Removed(R) \cup Absent(R) /\ Removed(R) \cap Absent(R) = {}
  BY <1>4 DEF Dropped, Removed, Absent, In
<1>7. \A c \in Absent(R) : ~BeforeStart(records[c], c)
  BY <1>4, <1>5 DEF Absent, In
<1>8. \A c \in Removed(R) :
        \/ FiledAsAbsent(c)
        \/ records[c].list = "cancelled" /\ ~AfterStart(records[c], c)
  BY <1>4 DEF Removed, In
<1> QED
  BY <1>3, <1>6, <1>7, <1>8 DEF R

\* The two ends of what one removal can have cost.
Least(c) == IF FiledAsAbsent(c) THEN Min({Tier(c), AbsencePenalty}) ELSE Tier(c)
Most(c)  == IF FiledAsAbsent(c) THEN Max({Tier(c), AbsencePenalty}) ELSE Tier(c)

\* The price list charges an absence as such, and a removal before the start by
\* its notice, or as an absence where it was filed as one.
LEMMA Charged ==
  ASSUME NEW R, Backed(R), NEW c \in DOMAIN R, NEW reading
  PROVE  /\ Tier(c) \in Nat /\ AbsencePenalty \in Nat
         /\ ~BeforeStart(records[c], c) => GymPenalty(c, reading) = AbsencePenalty
         /\ BeforeStart(records[c], c) =>
              GymPenalty(c, reading) =
                IF FiledAsAbsent(c) /\ reading = "absence" THEN AbsencePenalty ELSE Tier(c)
<1>1. /\ LatePenalty \in Nat /\ VeryLatePenalty \in Nat /\ AbsencePenalty \in Nat
      /\ FreeLead \in Nat /\ VeryLateLead \in Nat /\ VeryLateLead <= FreeLead
  BY MetricsAssumption
<1>2. Tier(c) \in Nat
  BY <1>1 DEF Tier
<1>3. ASSUME BeforeStart(records[c], c)
      PROVE  GymPenalty(c, reading) =
               IF FiledAsAbsent(c) /\ reading = "absence" THEN AbsencePenalty ELSE Tier(c)
  <2>1. records[c].at # NoInstant
    BY <1>3 DEF BeforeStart
  <2>2. records[c].at \in Int /\ Start[c] \in Int
    BY <2>1, ConstantTypes DEF Backed, Shown
  <2> DEFINE notice == Start[c] - records[c].at
  <2>3. notice \in Int
    BY <2>2
  <2>4. Tier(c) = IF notice < VeryLateLead THEN VeryLatePenalty
                  ELSE IF VeryLateLead <= notice /\ notice < FreeLead THEN LatePenalty ELSE 0
    BY <2>1 DEF Tier, VeryLate, Late, Unknown, Notice
  <2> HIDE DEF notice
  <2>5. Tier(c) = IF notice < VeryLateLead THEN VeryLatePenalty
                  ELSE IF notice < FreeLead THEN LatePenalty ELSE 0
    BY <1>1, <2>3, <2>4
  <2> QED
    BY <1>3, <2>5 DEF GymPenalty, FiledAsAbsent, notice
<1>4. ~BeforeStart(records[c], c) => GymPenalty(c, reading) = AbsencePenalty
  BY DEF GymPenalty
<1> QED
  BY <1>1, <1>2, <1>3, <1>4

Readings == {"notice", "absence"}
Prices(D) == [c \in D |-> [reading \in Readings |-> GymPenalty(c, reading)]]

\* The reading of one class that costs least, and the one that costs most.
LEMMA ReadingsOfOne ==
  ASSUME NEW R, Backed(R), NEW c \in DOMAIN R, BeforeStart(records[c], c)
  PROVE  /\ Least(c) \in Nat /\ Most(c) \in Nat
         /\ \A reading \in Readings : /\ GymPenalty(c, reading) \in Nat
                                      /\ Least(c) <= GymPenalty(c, reading)
                                      /\ GymPenalty(c, reading) <= Most(c)
         /\ \E reading \in Readings : GymPenalty(c, reading) = Least(c)
         /\ \E reading \in Readings : GymPenalty(c, reading) = Most(c)
<1> DEFINE tier == Tier(c)
<1>1. tier \in Nat /\ AbsencePenalty \in Nat
  BY Charged
<1>2. /\ GymPenalty(c, "notice") = tier
      /\ GymPenalty(c, "absence") = IF FiledAsAbsent(c) THEN AbsencePenalty ELSE tier
  BY Charged
<1>3. /\ Least(c) = IF FiledAsAbsent(c) THEN Min({tier, AbsencePenalty}) ELSE tier
      /\ Most(c) = IF FiledAsAbsent(c) THEN Max({tier, AbsencePenalty}) ELSE tier
  BY DEF Least, Most
<1> HIDE DEF tier
<1>4. /\ Min({tier, AbsencePenalty}) = IF tier <= AbsencePenalty THEN tier ELSE AbsencePenalty
      /\ Max({tier, AbsencePenalty}) = IF tier >= AbsencePenalty THEN tier ELSE AbsencePenalty
  BY <1>1, OfTwo
<1>5. "notice" \in Readings /\ "absence" \in Readings
      /\ \A reading \in Readings : reading = "notice" \/ reading = "absence"
  BY DEF Readings
<1> QED
  BY <1>1, <1>2, <1>3, <1>4, <1>5

\* The estimate of a window is the least and the most of all the readings.
LEMMA EstimateOfWindow ==
  ASSUME Typed, NEW rows, rows = CountedRecords(now), NEW W, NEW R, R = InWindow(rows, W),
         \A c \in Dropped(R) : records[c].list = "cancelled" => records[c].at # NoInstant
  PROVE  LET D == Dropped(R)
             totals == Totals(D, Readings, Prices(D), D \cap EverFull, BaseCost)
         IN  Estimate(R).low = Min(totals) /\ Estimate(R).high = Max(totals)
<1> DEFINE D == Dropped(R)
           removed == Removed(R)
           absent == Absent(R)
           low == [c \in D |-> IF c \in removed THEN Least(c) ELSE AbsencePenalty]
           high == [c \in D |-> IF c \in removed THEN Most(c) ELSE AbsencePenalty]
           least == [c \in removed |-> Least(c)]
           most == [c \in removed |-> Most(c)]
           missed == [c \in absent |-> AbsencePenalty]
           fixed == AbsencePenalty * Cardinality(absent)
           paid == D \cap EverFull
           base == BaseCost * Cardinality(paid)
<1>1. /\ Backed(R) /\ D = removed \cup absent /\ removed \cap absent = {}
      /\ \A c \in absent : ~BeforeStart(records[c], c)
      /\ \A c \in removed : \/ FiledAsAbsent(c)
                            \/ records[c].list = "cancelled" /\ ~AfterStart(records[c], c)
  BY Classified
<1>2. D \in SUBSET DOMAIN R /\ D \in SUBSET Classes /\ removed \in SUBSET D /\ absent \in SUBSET D
  BY <1>1 DEF Dropped, Backed
<1>3. /\ IsFiniteSet(D) /\ IsFiniteSet(removed) /\ IsFiniteSet(absent) /\ IsFiniteSet(paid)
  <2>1. IsFiniteSet(D)
    BY <1>2, ConstantTypes, FS_Subset
  <2>2. removed \in SUBSET D /\ absent \in SUBSET D /\ paid \in SUBSET D
    BY <1>2
  <2> HIDE DEF D, removed, absent, paid
  <2> QED
    BY <2>1, <2>2, FS_Subset
<1>4. AbsencePenalty \in Nat /\ BaseCost \in Nat
  BY MetricsAssumption
<1>5. ASSUME NEW c \in removed PROVE BeforeStart(records[c], c)
  <2>1. CASE FiledAsAbsent(c)
    BY <2>1 DEF FiledAsAbsent
  <2>2. CASE records[c].list = "cancelled" /\ ~AfterStart(records[c], c)
    <3>1. records[c].at # NoInstant
      BY <1>2, <2>2
    <3>2. records[c].at \in Int /\ Start[c] \in Int
      BY <1>1, <1>2, <3>1, ConstantTypes DEF Backed, Shown
    <3> QED
      BY <2>2, <3>1, <3>2 DEF AfterStart, BeforeStart
  <2> QED
    BY <1>1, <2>1, <2>2
<1>6. Estimate(R).low = fixed + SumFunction(least)
  BY Zenon DEF Estimate, Least, Absent
<1>7. Estimate(R).high = fixed + SumFunction(most) + BaseCost * Cardinality((removed \cup absent) \cap EverFull)
  BY Zenon DEF Estimate, Most, Absent
<1>8. Estimate(R).high = fixed + SumFunction(most) + base
  BY <1>1, <1>7
<1> HIDE DEF D, removed, absent
<1>9. \A c \in removed : Least(c) \in Nat /\ Most(c) \in Nat
  BY <1>1, <1>2, <1>5, ReadingsOfOne
<1>10. /\ low \in [D -> Nat] /\ high \in [D -> Nat]
       /\ least \in [removed -> Nat] /\ most \in [removed -> Nat] /\ missed \in [absent -> Nat]
  BY <1>4, <1>9
<1>11. /\ \A c \in removed : low[c] = least[c]
       /\ \A c \in removed : high[c] = most[c]
       /\ \A c \in absent : low[c] = missed[c]
       /\ \A c \in absent : high[c] = missed[c]
  BY <1>1, <1>2
<1>12. SumFunction(missed) = fixed
  BY <1>3, <1>4, SumOfConstant
<1>13. Prices(D) \in [D -> [Readings -> Nat]]
  <2>1. ASSUME NEW c \in D, NEW reading \in Readings PROVE GymPenalty(c, reading) \in Nat
    <3>1. CASE c \in removed
      BY <1>1, <1>2, <1>5, <3>1, ReadingsOfOne
    <3>2. CASE c \in absent
      BY <1>1, <1>2, <1>4, <3>2, Charged
    <3> QED
      BY <1>1, <3>1, <3>2
  <2> QED
    BY <2>1 DEF Prices
<1>14. Bounds(D, Readings, Prices(D), low, high)
  <2>1. ASSUME NEW c \in D
        PROVE  /\ \A r \in Readings : low[c] <= Prices(D)[c][r] /\ Prices(D)[c][r] <= high[c]
               /\ \E r \in Readings : Prices(D)[c][r] = low[c]
               /\ \E r \in Readings : Prices(D)[c][r] = high[c]
    <3>1. \A r \in Readings : Prices(D)[c][r] = GymPenalty(c, r)
      BY DEF Prices
    <3>2. CASE c \in removed
      <4>1. low[c] = Least(c) /\ high[c] = Most(c)
        BY <3>2
      <4> HIDE DEF low, high
      <4>2. /\ \A r \in Readings : Least(c) <= GymPenalty(c, r) /\ GymPenalty(c, r) <= Most(c)
            /\ \E r \in Readings : GymPenalty(c, r) = Least(c)
            /\ \E r \in Readings : GymPenalty(c, r) = Most(c)
        BY <1>1, <1>2, <1>5, <3>2, ReadingsOfOne
      <4> QED
        BY <3>1, <4>1, <4>2
    <3>3. CASE c \in absent
      <4>1. low[c] = AbsencePenalty /\ high[c] = AbsencePenalty
        BY <1>1, <3>3
      <4>2. \A r \in Readings : GymPenalty(c, r) = AbsencePenalty
        BY <1>1, <1>2, <3>3, Charged
      <4> HIDE DEF low, high
      <4>3. "notice" \in Readings
        BY DEF Readings
      <4> QED
        BY <1>4, <3>1, <4>1, <4>2, <4>3
    <3> QED
      BY <1>1, <3>2, <3>3
  <2> HIDE DEF low, high
  <2> QED
    BY <2>1 DEF Bounds
<1> HIDE DEF low, high, least, most, missed, paid, fixed, base
<1>15. low \in [removed \cup absent -> Nat] /\ high \in [removed \cup absent -> Nat]
  BY <1>1, <1>10 DEF D, removed, absent
<1>16. SumFunction(low) = SumFunction(least) + SumFunction(missed)
  <2>1. Joins(low, least, removed, missed, absent)
    BY <1>10, <1>11, <1>15 DEF Joins
  <2> QED
    BY <1>1, <1>3, <2>1, SumSplits
<1>17. SumFunction(high) = SumFunction(most) + SumFunction(missed)
  <2>1. Joins(high, most, removed, missed, absent)
    BY <1>10, <1>11, <1>15 DEF Joins
  <2> QED
    BY <1>1, <1>3, <2>1, SumSplits
<1>18. /\ Min(Totals(D, Readings, Prices(D), paid, BaseCost)) = SumFunction(low)
       /\ Max(Totals(D, Readings, Prices(D), paid, BaseCost)) =
            SumFunction(high) + BaseCost * Cardinality(paid)
  BY <1>3, <1>4, <1>10, <1>13, <1>14, ExtremesOfTotals
<1>19. SumFunction(least) \in Nat /\ SumFunction(most) \in Nat /\ SumFunction(missed) \in Nat
  BY <1>3, <1>10, SumIsSize
<1>20. Estimate(R).low = SumFunction(low)
  BY <1>6, <1>12, <1>16, <1>19
<1>21. base \in Nat /\ base = BaseCost * Cardinality(paid)
  BY <1>3, <1>4, FS_CardinalityType DEF base
<1>22. Estimate(R).high = SumFunction(high) + base
  BY <1>8, <1>12, <1>17, <1>19, <1>21
<1> QED
  BY <1>18, <1>20, <1>21, <1>22 DEF D, paid

\* The two ends of the estimate are the least and the most that the gym's price
\* list can have charged for the window (points_estimate).
THEOREM SpecEstimateBracketsCharge == Spec => []EstimateBracketsCharge
<1>1. Spec => []IInv
  BY SpecIInv
<1>2. IInv => EstimateBracketsCharge
  <2> SUFFICES ASSUME IInv PROVE EstimateBracketsCharge
    OBVIOUS
  <2> DEFINE rows == CountedRecords(now)
  <2>1. Typed
    BY DEF IInv
  <2>2. ASSUME NEW key \in Keys
        PROVE  LET R       == InWindow(rows, Window(key, now))
                   S       == DOMAIN R
                   dropped == {c \in S : records[c].list # "attended"}
                   ways    == [reading : [dropped -> {"notice", "absence"}],
                               paid    : SUBSET (dropped \cap EverFull)]
                   charges == {SumFunction([c \in dropped |-> GymPenalty(c, w.reading[c])])
                                 + BaseCost * Cardinality(w.paid) : w \in ways}
                   unknown == {c \in dropped : records[c].list = "cancelled" /\ c \in Unknown(S)}
               IN  unknown = {} => /\ Estimate(R).low = Min(charges)
                                   /\ Estimate(R).high = Max(charges)
    <3> DEFINE R       == InWindow(rows, Window(key, now))
               dropped == {c \in DOMAIN R : records[c].list # "attended"}
               ways    == [reading : [dropped -> {"notice", "absence"}],
                           paid    : SUBSET (dropped \cap EverFull)]
               charges == {SumFunction([c \in dropped |-> GymPenalty(c, w.reading[c])])
                             + BaseCost * Cardinality(w.paid) : w \in ways}
               unknown == {c \in dropped : records[c].list = "cancelled" /\ c \in Unknown(DOMAIN R)}
               totals  == Totals(dropped, Readings, Prices(dropped), dropped \cap EverFull, BaseCost)
    <3>1. dropped = Dropped(R)
      BY DEF Dropped
    <3>2. ASSUME unknown = {}
          PROVE  \A c \in Dropped(R) : records[c].list = "cancelled" => records[c].at # NoInstant
      <4>1. \A c \in dropped : ~(records[c].list = "cancelled" /\ c \in Unknown(DOMAIN R))
        BY <3>2
      <4> QED
        BY <4>1 DEF Dropped, Unknown
    <3>3. charges = totals
      <4>1. ASSUME NEW reading \in [dropped -> {"notice", "absence"}]
            PROVE  SumFunction([c \in dropped |-> GymPenalty(c, reading[c])]) =
                     Price(dropped, Prices(dropped), reading)
        <5>1. \A c \in dropped : Prices(dropped)[c][reading[c]] = GymPenalty(c, reading[c])
          BY DEF Prices, Readings
        <5>2. [c \in dropped |-> GymPenalty(c, reading[c])] =
                [c \in dropped |-> Prices(dropped)[c][reading[c]]]
          BY <5>1
        <5> QED
          BY <5>2, Zenon DEF Price
      <4> DEFINE cost(reading, paid) ==
                   Price(dropped, Prices(dropped), reading) + BaseCost * Cardinality(paid)
      <4>2. charges = {cost(w.reading, w.paid) : w \in ways}
        <5>1. ASSUME NEW w \in ways
              PROVE  SumFunction([c \in dropped |-> GymPenalty(c, w.reading[c])])
                       = Price(dropped, Prices(dropped), w.reading)
          <6>1. w.reading \in [dropped -> {"notice", "absence"}]
            OBVIOUS
          <6> HIDE DEF dropped, ways
          <6> QED
            BY <4>1, <6>1, Zenon
        <5> HIDE DEF ways, dropped
        <5> QED
          BY <5>1
      <4>3. totals = {cost(reading, paid) : reading \in [dropped -> {"notice", "absence"}],
                                            paid \in SUBSET (dropped \cap EverFull)}
        BY DEF Totals, Readings
      <4> HIDE DEF dropped, cost
      <4>4. ASSUME NEW x \in charges PROVE x \in totals
        <5>1. PICK w \in ways : x = cost(w.reading, w.paid)
          BY <4>2
        <5> QED
          BY <4>3, <5>1
      <4>5. ASSUME NEW x \in totals PROVE x \in charges
        <5>1. PICK reading \in [dropped -> {"notice", "absence"}] :
                     \E paid \in SUBSET (dropped \cap EverFull) : x = cost(reading, paid)
          BY <4>3
        <5>2. PICK paid \in SUBSET (dropped \cap EverFull) : x = cost(reading, paid)
          BY <5>1
        <5> DEFINE w == [reading |-> reading, paid |-> paid]
        <5>3. w \in ways /\ w.reading = reading /\ w.paid = paid
          OBVIOUS
        <5> HIDE DEF w, ways
        <5> QED
          BY <4>2, <5>2, <5>3
      <4> QED
        BY <4>4, <4>5
    <3> HIDE DEF R, dropped, ways, charges, unknown, totals, rows
    <3>4. ASSUME unknown = {} PROVE Estimate(R).low = Min(totals) /\ Estimate(R).high = Max(totals)
      BY <2>1, <3>1, <3>2, <3>4, EstimateOfWindow DEF totals, R, rows
    <3>5. unknown = {} => Estimate(R).low = Min(charges) /\ Estimate(R).high = Max(charges)
      BY <3>3, <3>4
    <3> QED
      BY <3>5, Zenon DEF R, dropped, ways, charges, unknown
  <2> QED
    BY <2>2, Zenon DEF EstimateBracketsCharge, rows
<1> QED
  BY <1>1, <1>2, PTL

=============================================================================
