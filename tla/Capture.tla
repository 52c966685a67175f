------------------------------- MODULE Capture ------------------------------
(***************************************************************************)
(* The attendance ledger of one gym account: page visits that read days of *)
(* the gym's calendar and persist them, while the athlete and the coaches  *)
(* go on changing that calendar (statistics/capture.py, the capture part   *)
(* of statistics/routes.py, read_operator_states of the parsers).          *)
(*                                                                         *)
(* Visits are synchronous handlers on a thread pool: several run at once.  *)
(* A day is fetched without a transaction and persisted in one, so two     *)
(* visits interleave between the two, and midnight can pass in between.    *)
(***************************************************************************)
EXTENDS Integers, Sequences, FiniteSets, SequencesExt

CONSTANTS
  Classes,      \* class instances of the gym, by their upstream id
  Start,        \* Start[c]: the instant class c starts
  Ticks,        \* instants in a day: instant i is on day i \div Ticks
  FirstDay,     \* the day on which the worker is observed first
  LastDay,      \* the last day of the calendar in view
  EndOfTime,    \* the clock stops here
  History,      \* History[c]: what the gym may say of a class of an earlier day
  NoInstant,    \* a FechaEstado that is missing or cannot be parsed
  Unread,       \* no row
  Months,       \* the months a reader may open: <<first day, last day>>
  Visits,       \* concurrent page requests
  Cap,          \* statistics_capture_cap_per_request
  Horizon,      \* statistics_backfill_days
  MaxMoves,     \* bound on what happens at the gym
  MaxFailures   \* bound on failed reads, spent budgets and restarts

DayAt(i)    == i \div Ticks
DayOf(c)    == DayAt(Start[c])
Days        == 1..LastDay
ClassesOn(d) == {c \in Classes : DayOf(c) = d}

ASSUME CaptureAssumption ==
  /\ {Ticks, FirstDay, LastDay, Cap} \subseteq Nat \ {0}
  /\ {Horizon, MaxMoves, MaxFailures} \subseteq Nat
  /\ EndOfTime \in Nat /\ FirstDay * Ticks <= EndOfTime /\ DayAt(EndOfTime) <= LastDay
  /\ IsFiniteSet(Classes) /\ \A c \in Classes : Start[c] \in Nat /\ DayOf(c) \in Days
  \* the cap covers a whole month (config.py)
  /\ Months \subseteq Days \X Days
  /\ \A m \in Months : m[1] <= m[2] /\ m[2] - m[1] < Cap

VARIABLES
  now,       \* the clock
  gym,       \* the list the operator is in for each class, and since when
  moves,     \* changes at the gym so far
  ledger,    \* table attendance_day
  records,   \* table attendance_record
  visit,     \* the page request of each thread
  failures   \* failed reads, spent budgets and restarts so far

vars == <<now, gym, moves, ledger, records, visit, failures>>

\* "none": in no list; "off": the gym took the class off its calendar.
Lists   == {"none", "off", "attended", "cancelled", "no_show"}
Entry   == [list : Lists, at : 0..EndOfTime \cup {NoInstant}]
Shown   == [list : {"attended", "cancelled", "no_show"}, at : 0..EndOfTime \cup {NoInstant}]
DayRow  == [count : 0..Cardinality(Classes), final : BOOLEAN]

\* A missing row is no row, a missing instant no instant.
ASSUME RowAssumption ==
  /\ \A c \in Classes : History[c] \subseteq Entry
  /\ Unread \notin DayRow \cup Shown /\ NoInstant \notin Int

NoDay   == [count |-> 0, states |-> [c \in {} |-> Unread]]
NoVisit == [pc |-> "idle", today |-> 0, month |-> <<0, 0>>, todo |-> <<>>, got |-> NoDay]

TypeOK ==
  /\ now \in FirstDay * Ticks..EndOfTime
  /\ gym \in [Classes -> Entry]
  /\ moves \in 0..MaxMoves
  /\ ledger \in [Days -> DayRow \cup {Unread}]
  /\ records \in [Classes -> Shown \cup {Unread}]
  /\ failures \in 0..MaxFailures
  /\ \A v \in Visits :
       /\ visit[v].pc \in {"idle", "reading", "fetched"}
       /\ visit[v].today \in 0..DayAt(now)
       /\ Range(visit[v].todo) \subseteq Days /\ Len(visit[v].todo) <= Cap
       /\ visit[v].got.count \in 0..Cardinality(Classes)
       /\ DOMAIN visit[v].got.states \subseteq Classes
       /\ Range(visit[v].got.states) \subseteq Shown

Init ==
  /\ now = FirstDay * Ticks
  /\ gym \in [Classes -> UNION {History[c] : c \in Classes}]
  /\ \A c \in Classes : gym[c] \in History[c]
  /\ moves = 0 /\ failures = 0
  /\ ledger = [d \in Days |-> Unread]
  /\ records = [c \in Classes |-> Unread]
  /\ visit = [v \in Visits |-> NoVisit]

-----------------------------------------------------------------------------
(* The gym. *)

Moves(c, e) ==
  /\ moves < MaxMoves
  /\ moves' = moves + 1
  /\ gym' = [gym EXCEPT ![c] = e]
  /\ UNCHANGED <<now, ledger, records, visit, failures>>

Book(c) ==
  /\ now < Start[c] /\ gym[c].list \in {"none", "cancelled"}
  /\ Moves(c, [list |-> "attended", at |-> now])

\* The athlete leaves a class; some gyms file it as "did not train".
Leave(c, list) ==
  /\ now < Start[c] /\ gym[c].list = "attended"
  /\ Moves(c, [list |-> list, at |-> now])

\* A coach marks an absence, or removes the athlete where the attendance
\* controls are off, while the class's day lasts.
MarkAbsent(c, list) ==
  /\ Start[c] <= now /\ DayAt(now) = DayOf(c) /\ gym[c].list = "attended"
  /\ Moves(c, [list |-> list, at |-> now])

CallOff(c) ==
  /\ now < Start[c] /\ gym[c].list # "off"
  /\ Moves(c, [list |-> "off", at |-> NoInstant])

GymMoves ==
  \E c \in Classes :
    \/ Book(c) \/ CallOff(c)
    \/ \E list \in {"cancelled", "no_show"} : Leave(c, list) \/ MarkAbsent(c, list)

-----------------------------------------------------------------------------
(* What a visit reads and writes. *)

\* read_operator_states and extract_class_slots: the classes of the day that
\* list the operator, and how many classes the gym ran.
ReadOperatorStates(d) ==
  [count  |-> Cardinality({c \in ClassesOn(d) : gym[c].list # "off"}),
   states |-> [c \in {k \in ClassesOn(d) : gym[k].list \notin {"none", "off"}} |-> gym[c]]]

\* sorted(days, reverse=True).
NewestFirst(S) ==
  [i \in 1..Cardinality(S) |-> CHOOSE d \in S : Cardinality({e \in S : e >= d}) = i]

\* Mutants of PendingDates: every day with a row is taken for read; the month
\* on screen gets no preference.
PendingDatesUnread(today, month) ==
  NewestFirst({d \in Days : today - Horizon <= d /\ d <= today /\ ledger[d] = Unread})

\* The days of the horizon without a final row, those on screen first.
PendingDates(today, month) ==
  LET worth    == {d \in Days : /\ today - Horizon <= d /\ d <= today
                                /\ ledger[d] = Unread \/ ~ledger[d].final}
      onScreen == {d \in worth : month[1] <= d /\ d <= month[2] /\ d <= today}
  IN  NewestFirst(onScreen) \o NewestFirst(worth \ onScreen)

\* Mutant of IsFinal: the day still running is taken for finished.
IsFinalToday(d, today) == d <= today

\* Finished as of the day on which the visit began.
IsFinal(d, today) == d < today

OpenPage(v, month) ==
  /\ visit[v].pc = "idle"
  /\ LET pending == PendingDates(DayAt(now), month)
     IN  visit' = [visit EXCEPT ![v] =
           [NoVisit EXCEPT !.pc = "reading", !.today = DayAt(now), !.month = month,
                           !.todo = SubSeq(pending, 1, Min({Cap, Len(pending)}))]]
  /\ UNCHANGED <<now, gym, moves, ledger, records, failures>>

FetchDay(v) ==
  /\ visit[v].pc = "reading" /\ visit[v].todo # <<>>
  /\ visit' = [visit EXCEPT ![v].pc = "fetched",
                            ![v].got = ReadOperatorStates(Head(visit[v].todo))]
  /\ UNCHANGED <<now, gym, moves, ledger, records, failures>>

\* One transaction of upserts: rows the gym no longer shows are left alone.
PersistDay(v) ==
  /\ visit[v].pc = "fetched"
  /\ LET d   == Head(visit[v].todo)
         got == visit[v].got
     IN  /\ records' = [c \in Classes |->
                          IF c \in DOMAIN got.states THEN got.states[c] ELSE records[c]]
         /\ ledger' = [ledger EXCEPT ![d] =
                          [count |-> got.count, final |-> IsFinal(d, visit[v].today)]]
  /\ visit' = [visit EXCEPT ![v].pc = "reading", ![v].todo = Tail(@), ![v].got = NoDay]
  /\ UNCHANGED <<now, gym, moves, failures>>

\* No cookie or a rejected one, an unreachable gym, or the budget of seconds is
\* spent: the days not yet persisted stay as they were.
CatchUpStops(v) ==
  /\ visit[v].pc = "reading" /\ visit[v].todo # <<>>
  /\ failures < MaxFailures
  /\ failures' = failures + 1
  /\ visit' = [visit EXCEPT ![v] = NoVisit]
  /\ UNCHANGED <<now, gym, moves, ledger, records>>

\* Every day asked for is read; the page is rendered.
CatchUpEnds(v) ==
  /\ visit[v].pc = "reading" /\ visit[v].todo = <<>>
  /\ visit' = [visit EXCEPT ![v] = NoVisit]
  /\ UNCHANGED <<now, gym, moves, ledger, records, failures>>

\* The worker restarts: the requests under way are gone, the tables stay.
Restart ==
  /\ failures < MaxFailures
  /\ \E v \in Visits : visit[v].pc # "idle"
  /\ failures' = failures + 1
  /\ visit' = [v \in Visits |-> NoVisit]
  /\ UNCHANGED <<now, gym, moves, ledger, records>>

Tick ==
  /\ now < EndOfTime
  /\ now' = now + 1
  /\ UNCHANGED <<gym, moves, ledger, records, visit, failures>>

VisitStep(v) == FetchDay(v) \/ PersistDay(v) \/ CatchUpEnds(v)

Next ==
  \/ GymMoves \/ Tick \/ Restart
  \/ \E v \in Visits :
       \/ VisitStep(v) \/ CatchUpStops(v)
       \/ \E month \in Months : OpenPage(v, month)

Spec == Init /\ [][Next]_vars

\* A request that began goes on, and the reader keeps opening the page.
FairSpec ==
  /\ Spec
  /\ \A v \in Visits : WF_vars(VisitStep(v))
  /\ \A v \in Visits : WF_vars(\E month \in Months : OpenPage(v, month))

-----------------------------------------------------------------------------
\* What the ledger holds of day d is what the gym says of it now.
UpToDate(d) ==
  /\ ledger[d] # Unread
  /\ ledger[d].count = ReadOperatorStates(d).count
  /\ \A c \in ClassesOn(d) :
       records[c] = IF gym[c].list \in {"none", "off"} THEN Unread ELSE gym[c]

\* A day marked final is never read again, so what it holds must be the gym's
\* last word on every class still on the calendar, whichever visits overlapped
\* and on whichever side of midnight they began.
FinalIsTheLastWord ==
  \A d \in Days : ledger[d] # Unread /\ ledger[d].final =>
    \A c \in ClassesOn(d) : gym[c].list \notin {"none", "off"} => records[c] = gym[c]

\* A visit that was not stopped short has read the whole month on screen, as far
\* back as the horizon reaches (catch_up's priority).
MonthOnScreenRead ==
  \A v \in Visits :
    visit[v].pc = "reading" /\ visit[v].todo = <<>> =>
      \A d \in visit[v].month[1]..visit[v].month[2] :
        visit[v].today - Horizon <= d /\ d <= visit[v].today
          => ledger[d] # Unread

\* With a reader who returns and a gym that answers again, every past day within
\* the horizon ends up read for good, also one that a visit from before midnight
\* turned back into a provisional day.
HistoryFills ==
  <>[](\A d \in Days : DayAt(now) - Horizon <= d /\ d < DayAt(now)
         => ledger[d] # Unread /\ ledger[d].final)

\* The ledger is the gym's history as far as it was read, and the month on the
\* screen is read first.
LedgerTrue == TypeOK /\ FinalIsTheLastWord /\ MonthOnScreenRead

=============================================================================
