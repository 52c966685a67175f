------------------------------ MODULE DayPlan ------------------------------
(***************************************************************************)
(* The requests of an operator that change what happens on a day, beside   *)
(* the runs of the rules: day overrides (booking/override_routes.py,       *)
(* booking/overrides.py), vacations with their bulk cancellation           *)
(* (booking/vacation_routes.py, booking/vacation.py), cancellations        *)
(* (booking/routes.py, booking/cancellation.py) and edits of a rule        *)
(* (rules/service.py).  A request holds one transaction, which commits     *)
(* after all its calls to the gym.  A run is what BookingRun promises of   *)
(* it, with its reads (scheduler/rule_jobs.py, booking/executor.py) and    *)
(* its commit as steps.                                                    *)
(***************************************************************************)
EXTENDS Priority

CONSTANTS
  Requests,     \* the requests that may be under way at a time
  MaxRequests,  \* bound on the requests made
  MaxRestarts,  \* bound on the restarts of the worker
  MaxAnswer,    \* a request is answered no later (its calls to the gym are bounded)
  MaxLate,      \* a job starts no later than that after its opening
  MaxRepeats,   \* bound on the runs of a rule before an opening
  MaxRun,       \* a run goes on for no longer than that
  Instants,     \* the instants of the clock at which something may happen
  Dates,        \* the days the operator may want to change
  Timings,      \* what a rule may be edited to
  Vacations     \* the windows the operator may ask for, as pairs of dates

ASSUME DayPlanAssumption ==
  /\ {MaxRequests, MaxRestarts, MaxAnswer, MaxLate, MaxRepeats, MaxRun} \subseteq Nat
  /\ Instants \cup Dates \subseteq Int /\ Timings \subseteq Timing
  /\ Vacations \subseteq Int \X Int

VARIABLES
  job,          \* the opening each rule's job is registered for, or None
  run,          \* the run of each rule
  enrolled,     \* the gym: the slots the athlete is enrolled in
  req,          \* the request in each place
  made,         \* requests made so far
  restarts,     \* restarts so far
  notices,      \* the cancellation notices committed, per row
  adrift,       \* history: rows whose cancellation was answered unclearly or lost
  rebooked,     \* history: slots of cancelled rows a later run booked
  excused,      \* history: rows a vacation could not clear
  reopened,     \* history: rows whose rule was edited after their run
  strayed,      \* history: overrides saved while their rule was edited
  edited        \* history: rules edited since their run under way began

tables == <<rule, rows, overrides, windows>>
ghosts == <<adrift, rebooked, excused, reopened, strayed, edited>>
vars   == <<now, tables, job, run, enrolled, req, made, restarts, notices, ghosts>>

Idle    == [kind |-> "idle"]
NoRun   == [pc |-> "idle"]

TypeOK ==
  /\ now \in Instants
  /\ rule \in [Rules -> Timings]
  /\ rows \subseteq Row /\ Cardinality({row.id : row \in rows}) = Cardinality(rows)
  /\ DOMAIN overrides \subseteq Rules \X Dates
  /\ \A key \in DOMAIN overrides :
       /\ overrides[key] \in Plan
       /\ overrides[key].skip # Moves(overrides[key])
  /\ windows \subseteq Vacation
  /\ job \in [Rules -> Int \cup {None}]
  /\ \A r \in Rules : run[r].pc \in {"idle", "planned", "checked", "done"}
  /\ \A q \in Requests : req[q].kind \in {"idle", "save", "cancel", "enable"}
  /\ DOMAIN notices = {row.id : row \in rows}

Next1(r, at) == NextWindowOpen(TheZone, rule[r], at)

-----------------------------------------------------------------------------
(* A run: the plan is read with the rule, the vacation in a session of its *)
(* own, the row written at the end.                                        *)

\* The window a job contests: its own, unless an edit came in between.
Contested(r) ==
  IF Next1(r, job[r] - 1) = job[r] THEN job[r] ELSE Next1(r, now - 1)

\* book_rule up to the executor.
StartRun(r) ==
  /\ run[r] = NoRun /\ job[r] # None /\ now >= job[r] - PrewarmLead
  /\ LET open == Contested(r)
         slot == TargetSlot(TheZone, rule[r], open)
         plan == LoadOverride(r, Day(slot))
     IN  /\ now < open => Cardinality({row \in rows : row.rule = r}) < MaxRepeats
         /\ run' = [run EXCEPT ![r] =
               [pc |-> "planned", rule |-> rule[r], open |-> open, base |-> slot,
                slot |-> PlannedSlot(plan, slot), plan |-> plan, status |-> None, seen |-> {},
                early |-> now < open - PrewarmLead,
                until |-> IF now < open THEN now + PrewarmLead + MaxRun ELSE open + MaxRun]]
  /\ job' = [job EXCEPT ![r] = None]
  /\ UNCHANGED <<now, tables, enrolled, req, made, restarts, notices, ghosts>>

\* Mutant of Vacant: the run does not ask for vacations.
VacantUnasked(r) == run[r].pc = "planned"

Vacant(r) == ~Covered(run[r].slot)

\* The first exits of _book_inner: a vacation, then a skipped day.  What the run
\* saw of the vacations is kept for the properties.
CheckDay(r) ==
  /\ run[r].pc = "planned"
  /\ run' = [run EXCEPT ![r] =
       IF Vacant(r) /\ (run[r].plan # None => ~run[r].plan.skip)
       THEN [@ EXCEPT !.pc = "checked", !.seen = windows]
       ELSE [@ EXCEPT !.pc = "done", !.status = "skipped"]]
  /\ UNCHANGED <<now, tables, job, enrolled, req, made, restarts, notices, ghosts>>

\* The walk at the gym: the wanted slot, the rule's own after it, or neither.
CancelledSlots == {row.slot : row \in {c \in rows : c.status = "cancelled"}}
                  \cup {req[q].row.slot : q \in {p \in Requests : req[p].kind = "cancel"}}
                  \cup UNION {{row.slot : row \in req[q].done} :
                                q \in {p \in Requests : req[p].kind = "enable"}}

\* "full" is any end without a class on record; the gym may have booked one all
\* the same, its answer lost or not understood.
Book(r) ==
  /\ run[r].pc = "checked"
  /\ \/ \E slot \in {run[r].slot, run[r].base} :
          /\ now >= run[r].open
          /\ enrolled' = enrolled \cup {slot}
          /\ rebooked' = rebooked \cup ({slot} \cap CancelledSlots)
          /\ \E status \in {"granted", "full"} :
               run' = [run EXCEPT ![r].pc = "done", ![r].status = status, ![r].slot = slot]
     \/ /\ run' = [run EXCEPT ![r].pc = "done", ![r].status = "full"]
        /\ UNCHANGED <<enrolled, rebooked>>
  /\ UNCHANGED <<now, tables, job, req, made, restarts, notices, adrift, excused,
                 reopened, strayed, edited>>

\* A run records a class behind the back of a vacation: one that was enabled
\* since the run looked, or is being enabled and has loaded its rows.
Overtaken(r) ==
  \/ \E w \in OpenWindows(now) \ run[r].seen : Covers(w, run[r].slot)
  \/ \E q \in Requests : req[q].kind = "enable" /\ Covers(req[q].window, run[r].slot)

NewId == Cardinality(rows) + 1

\* Mutant of NextJob: the next job is sought from the window just contested.
NextJobFromWindow(r) == NextWindowOpen(TheZone, run[r].rule, run[r].open - 1)

NextJob(r) == NextWindowOpen(TheZone, run[r].rule, now)

\* persist_outcome and _schedule_next, with the rule as the run read it.
Record(r) ==
  /\ run[r].pc = "done"
  /\ rows' = rows \cup {[id |-> NewId, rule |-> r, slot |-> run[r].slot,
                         status |-> run[r].status]}
  /\ notices' = [i \in 1..NewId |-> IF i = NewId THEN 0 ELSE notices[i]]
  /\ excused' = IF run[r].status = "granted" /\ Overtaken(r)
                THEN excused \cup {NewId} ELSE excused
  /\ reopened' = IF run[r].rule # rule[r] THEN reopened \cup {NewId} ELSE reopened
  /\ job' = [job EXCEPT ![r] = NextJob(r)]
  /\ run' = [run EXCEPT ![r] = NoRun]
  /\ edited' = edited \ {r}
  /\ UNCHANGED <<now, rule, overrides, windows, enrolled, req, made, restarts,
                 adrift, rebooked, strayed>>

-----------------------------------------------------------------------------
(* Overrides.  The clock is read, and the cutoff checked, when the request *)
(* starts; the gym is probed; the row is written.                          *)

Begin(q, request) ==
  /\ req[q] = Idle /\ made < MaxRequests
  /\ made' = made + 1
  /\ req' = [req EXCEPT ![q] = request]

End(q) == req' = [req EXCEPT ![q] = Idle]

SkipPlan == [skip |-> TRUE, time |-> None]

\* What a submission means: a skip stands alone, the rule's own time is left to
\* the rule, and nothing left to say is a revert.  (The class type and the
\* second shot, the other things an override may change, are left out.)
PlanOf(r, skip, time) ==
  CASE skip                                -> SkipPlan
    [] ~skip /\ time = rule[r].class_time -> None
    [] OTHER                               -> [skip |-> FALSE, time |-> time]

\* override_save and override_revert up to the probe; a date the rule does not
\* project, or past its cutoff, is answered at once.
SaveBegin(q) ==
  \E r \in Rules, date \in Dates, skip \in BOOLEAN :
    \E time \in {t.class_time : t \in Timings} :
      /\ date % 7 = rule[r].day_of_week
      /\ IsEditable(r, date, now)
      /\ Begin(q, [kind |-> "save", since |-> now, rule |-> r, date |-> date,
                   timing |-> rule[r], plan |-> PlanOf(r, skip, time)])
      /\ UNCHANGED <<now, tables, job, run, enrolled, restarts, notices, ghosts>>

Without(keys) == [key \in DOMAIN overrides \ keys |-> overrides[key]]

\* delete_override and save_override.
Saved(key, plan) ==
  IF plan = None THEN Without({key})
  ELSE [k \in DOMAIN overrides \cup {key} |-> IF k = key THEN plan ELSE overrides[k]]

\* _assert_writable once the request is under way: the cutoff is checked again,
\* but with the clock and the rule the request read when it started.
Writable(s) == ~OutcomeExists(s.rule, s.date)

\* override_save after the probe: refused once the day has an outcome, or when
\* the published schedule lacks the class moved to.
SaveEnd(q) ==
  LET s == req[q] IN
  /\ s.kind = "save" /\ End(q)
  /\ \/ /\ Writable(s)
        /\ overrides' = Saved(<<s.rule, s.date>>, s.plan)
        /\ strayed' = IF s.timing = rule[s.rule] THEN strayed
                      ELSE strayed \cup {<<s.rule, s.date>>}
     \/ /\ ~Writable(s) \/ Moves(s.plan)
        /\ UNCHANGED <<overrides, strayed>>
  /\ UNCHANGED <<now, rule, rows, windows, job, run, enrolled, made, restarts,
                 notices, adrift, rebooked, excused, reopened, edited>>

\* override_revert: there is nothing to probe.
Revert ==
  /\ made < MaxRequests /\ made' = made + 1
  /\ \E key \in DOMAIN overrides :
       /\ key[2] % 7 = rule[key[1]].day_of_week
       /\ IsEditable(key[1], key[2], now) /\ ~OutcomeExists(key[1], key[2])
       /\ overrides' = Without({key})
  /\ UNCHANGED <<now, rule, rows, windows, job, run, enrolled, req, restarts, notices, ghosts>>

\* discard_future_overrides_for_rule.
Discarded(r) == {key \in DOMAIN overrides : key[1] = r /\ key[2] >= Day(now)}

\* update_rule, and the synchronisation of the job that follows it.
UpdateRule(r) ==
  /\ made < MaxRequests /\ made' = made + 1
  /\ \E timing \in Timings \ {rule[r]} :
       /\ rule' = [rule EXCEPT ![r] = timing]
       /\ overrides' = IF timing.day_of_week = rule[r].day_of_week THEN overrides
                       ELSE Without(Discarded(r))
       /\ job' = [job EXCEPT ![r] = NextWindowOpen(TheZone, timing, now)]
  /\ reopened' = reopened \cup {row.id : row \in {o \in rows : o.rule = r}}
  /\ edited' = IF run[r] = NoRun THEN edited ELSE edited \cup {r}
  /\ UNCHANGED <<now, rows, windows, run, enrolled, req, restarts, notices,
                 adrift, rebooked, excused, strayed>>

-----------------------------------------------------------------------------
(* Cancellations: the row is read, the gym is called, the row is written.  *)

CancelBegin(q) ==
  \E row \in rows :
    /\ row.status = "granted"
    /\ Begin(q, [kind |-> "cancel", since |-> now, row |-> row, accepted |-> FALSE])
    /\ UNCHANGED <<now, tables, job, run, enrolled, restarts, notices, ghosts>>

\* borrar: the gym cancels what is booked and nothing else, its answer may be
\* lost, and its Res field may be one the client does not know.
Borrar(slot) ==
  {[answer |-> a, enrolled |-> enrolled] : a \in {"refused", "unclear"}}
  \cup IF slot \notin enrolled THEN {}
       ELSE {[answer |-> a, enrolled |-> enrolled \ {slot}] : a \in {"accepted", "unclear", "lost"}}

\* Mutant of Cancelled: an answer will do, whatever it says.
CancelledAnyhow(answer) == answer # "lost"

Cancelled(answer) == answer \in {"accepted", "unclear"}

Doubtful(answer) == answer \in {"lost", "unclear"}

CancelAtGym(q) ==
  /\ req[q].kind = "cancel" /\ ~req[q].accepted
  /\ \E b \in Borrar(req[q].row.slot) :
       /\ enrolled' = b.enrolled
       /\ IF Cancelled(b.answer) THEN req' = [req EXCEPT ![q].accepted = TRUE] ELSE End(q)
       /\ adrift' = IF Doubtful(b.answer) THEN adrift \cup {req[q].row.id} ELSE adrift
  /\ UNCHANGED <<now, tables, job, run, made, restarts, notices, rebooked, excused,
                 reopened, strayed, edited>>

\* The rows as they are once those of ids are cancelled, and their notices.
MarkCancelled(ids) ==
  /\ rows' = {IF row.id \in ids THEN [row EXCEPT !.status = "cancelled"] ELSE row : row \in rows}
  /\ notices' = [i \in DOMAIN notices |-> IF i \in ids THEN notices[i] + 1 ELSE notices[i]]

CancelCommit(q) ==
  /\ req[q].kind = "cancel" /\ req[q].accepted
  /\ MarkCancelled({req[q].row.id}) /\ End(q)
  /\ UNCHANGED <<now, rule, overrides, windows, job, run, enrolled, made, restarts, ghosts>>

-----------------------------------------------------------------------------
(* Vacations: the window is added and the granted rows in it are loaded,   *)
(* then cancelled one by one; everything commits at the end.               *)

\* _floor_day and _ceil_day.
WindowOf(from, to) ==
  [id |-> 0, from |-> At(TheZone, from, 0), until |-> At(TheZone, to + 1, 0) - 1,
   created |-> now, closed |-> FALSE]

GrantedIn(w) ==
  {row \in rows : row.status = "granted" /\ Covers(w, row.slot) /\ row.slot >= now}

EnableBegin(q) ==
  \E dates \in Vacations :
    LET w == WindowOf(dates[1], dates[2])
    IN  /\ Begin(q, [kind |-> "enable", since |-> now, window |-> w, todo |-> GrantedIn(w),
                     done |-> {}])
        /\ UNCHANGED <<now, tables, job, run, enrolled, restarts, notices, ghosts>>

Remaining(q, row, answer) == req[q].todo \ {row}

EnableNext(q) ==
  /\ req[q].kind = "enable"
  /\ \E row \in req[q].todo : \E b \in Borrar(row.slot) :
       /\ \A other \in req[q].todo : row.slot <= other.slot
       /\ enrolled' = b.enrolled
       /\ req' = [req EXCEPT ![q].todo = Remaining(q, row, b.answer),
                             ![q].done = IF Cancelled(b.answer) THEN @ \cup {row} ELSE @]
       /\ adrift' = IF Doubtful(b.answer) THEN adrift \cup {row.id} ELSE adrift
       /\ excused' = IF Cancelled(b.answer) THEN excused ELSE excused \cup {row.id}
  /\ UNCHANGED <<now, tables, job, run, made, restarts, notices, rebooked, reopened, strayed,
                 edited>>

EnableCommit(q) ==
  /\ req[q].kind = "enable" /\ req[q].todo = {}
  /\ windows' = windows \cup {[req[q].window EXCEPT !.id = Cardinality(windows) + 1]}
  /\ MarkCancelled({row.id : row \in req[q].done}) /\ End(q)
  /\ UNCHANGED <<now, rule, overrides, job, run, enrolled, made, restarts, ghosts>>

CloseEarly ==
  /\ made < MaxRequests /\ made' = made + 1
  /\ \E w \in windows :
       /\ ~w.closed
       /\ windows' = (windows \ {w}) \cup {[w EXCEPT !.closed = TRUE]}
  /\ UNCHANGED <<now, rule, rows, overrides, job, run, enrolled, req, restarts, notices, ghosts>>
-----------------------------------------------------------------------------
(* Restarts, time, and the specification. *)

\* The worker stops and comes back: transactions are rolled back, the gym keeps
\* what it did, every rule's job is registered anew.
Restart ==
  /\ restarts < MaxRestarts /\ restarts' = restarts + 1
  /\ run' = [r \in Rules |-> NoRun]
  /\ req' = [q \in Requests |-> Idle]
  /\ adrift' = adrift
       \cup {req[q].row.id : q \in {p \in Requests : req[p].kind = "cancel" /\ req[p].accepted}}
       \cup UNION {{row.id : row \in req[q].done} : q \in {p \in Requests : req[p].kind = "enable"}}
  /\ job' = [r \in Rules |-> Next1(r, now)]
  /\ edited' = {}
  /\ UNCHANGED <<now, tables, enrolled, made, notices, rebooked, excused, reopened, strayed>>

\* Time passes, but no further than requests, jobs and runs allow.
Clock ==
  /\ now' \in {i \in Instants : now < i /\ \A j \in Instants : now < j => i <= j}
  /\ \A q \in Requests : req[q] # Idle => now' <= req[q].since + MaxAnswer
  /\ \A r \in Rules : /\ job[r] # None => now' <= job[r] + MaxLate
                      /\ run[r] # NoRun => now' <= run[r].until
  /\ UNCHANGED <<tables, job, run, enrolled, req, made, restarts, notices, ghosts>>

\* The day begins with a class booked for a rule that was deleted since.
Init ==
  /\ now \in Instants /\ \A i \in Instants : now <= i
  /\ rule \in [Rules -> Timings]
  /\ rows \in {{}} \cup {{[id |-> 1, rule |-> None, slot |-> TargetSlot(TheZone, t, Next1(r, now)),
                         status |-> "granted"]} : t \in {rule[r] : r \in Rules}, r \in Rules}
  /\ overrides = [key \in {} |-> None]
  /\ windows = {}
  /\ job = [r \in Rules |-> Next1(r, now)]
  /\ run = [r \in Rules |-> NoRun]
  /\ enrolled = {row.slot : row \in rows}
  /\ req = [q \in Requests |-> Idle]
  /\ made = 0 /\ restarts = 0
  /\ notices = [i \in {row.id : row \in rows} |-> 0]
  /\ adrift = {} /\ rebooked = {} /\ excused = {} /\ reopened = {} /\ strayed = {}
  /\ edited = {}

Next ==
  \/ \E r \in Rules : StartRun(r) \/ CheckDay(r) \/ Book(r) \/ Record(r) \/ UpdateRule(r)
  \/ \E q \in Requests : SaveBegin(q) \/ SaveEnd(q)
  \/ Revert
  \/ \E q \in Requests : CancelBegin(q) \/ CancelAtGym(q) \/ CancelCommit(q)
  \/ \E q \in Requests : EnableBegin(q) \/ EnableNext(q) \/ EnableCommit(q)
  \/ CloseEarly
  \/ Restart
  \/ Clock

Spec == Init /\ [][Next]_vars

-----------------------------------------------------------------------------
(* Properties. *)

\* A save the program answers with success never touches a day whose run has
\* read its plan: what the operator is told is what the run does, as long as
\* the save's probe of the gym does not outlast the margin before the job
\* fires and spans no edit of the rule, and the run was not started for an
\* opening far ahead (by a job an edit left behind).
\* _assert_writable, override_save, book_rule.
AcceptedIsHonoured ==
  [][\A r \in Rules :
       (/\ run[r] # NoRun /\ run'[r] # NoRun /\ rule' = rule /\ run[r].rule = rule[r]
        /\ ~run[r].early
        /\ \A q \in Requests : req[q].kind = "save" => req[q].timing = rule[req[q].rule]) =>
         LoadOverride(r, Day(run[r].base)) = LoadOverride(r, Day(run[r].base))']_vars

\* A booking still to come never stands inside an open vacation, unless the gym
\* refused to cancel it or the run that booked it had looked for vacations before
\* this one was enabled: rows loaded, runs that look later, second shots and
\* moved classes, and the days at the window's ends included.
\* vacation.enable, find_covering_window, _book_inner.
VacationClears ==
  \A w \in OpenWindows(now), row \in rows :
    row.status = "granted" /\ Covers(w, row.slot) /\ w.created <= row.slot
      => row.id \in excused

\* The rows and the gym agree: a cancelled class is not attended and a granted
\* one is, unless the gym's answer left it open or a later run booked it again,
\* whatever cancellations, vacations and restarts overlap.  cancel_booking.
RowsMatchGym ==
  LET doubtful == {row.slot : row \in {o \in rows : o.id \in adrift}}
  IN  \A row \in rows :
        /\ row.status = "cancelled" /\ row.slot \in enrolled => row.slot \in rebooked \cup doubtful
        /\ row.status = "granted" /\ row.slot \notin enrolled
             => row.slot \in CancelledSlots \cup doubtful

\* A cancellation is announced exactly once, if the gym spoke clearly and
\* the class was not booked anew meanwhile, even when the button, a second tab
\* and a vacation cancel the same booking.
\* _enqueue_cancel_outbox.
NoticePerCancel ==
  \A row \in rows : row.id \notin adrift /\ row.slot \notin rebooked =>
    notices[row.id] = IF row.status = "cancelled" THEN 1 ELSE 0

\* A class the operator cancelled is not booked again by its rule, unless the
\* rule is edited: the run does not contest a day twice.  _schedule_next.
CancelStays ==
  \A c, g \in rows :
    /\ c.status = "cancelled" /\ g.status = "granted" /\ c.id < g.id
    /\ c.rule = g.rule /\ c.rule # None /\ Day(c.slot) = Day(g.slot)
    => c.id \in reopened

\* An override never outlives the projection of its day, to surface when the
\* rule moves back, unless it was saved while its rule moved.
\* discard_future_overrides_for_rule.
NoStrayOverride ==
  \A key \in DOMAIN overrides :
    Day(now) <= key[2] /\ key[2] % 7 # rule[key[1]].day_of_week => key \in strayed

\* What a run in view of its opening sets out to do is what the list showed for
\* its day, once and nowhere else: the slot it contests, the day skipped, the
\* vacation.  list_upcoming_slots, book_rule.
ListForetells ==
  [][\A r \in Rules :
       LET started == run'[r]
           shown   == {e \in UpcomingSlots : e.rule = r /\ e.date = Day(started.base)}
       IN  (/\ run[r] = NoRun /\ started # NoRun /\ now < started.open
            /\ ~OutcomeExists(r, Day(started.base)))
           => /\ Cardinality(shown) = 1
              /\ \A e \in shown :
                   /\ e.slot = started.slot
                   /\ (e.kind = "vacation") <=> Covered(started.slot)
                   /\ (e.kind = "skipped") <=>
                        (~Covered(started.slot) /\ started.plan # None /\ started.plan.skip)]_vars

\* What a rival's run holds back for is what the administrator's run contests,
\* whenever in that run the rival starts: none of its slots without protection,
\* and no protection by a run that a skip or a vacation has ended, unless a
\* vacation was enabled or closed since the run looked.  A run of a rule edited
\* since, and the saves AcceptedIsHonoured leaves out, are left out here.
\* priority._contested_by.
ProtectionMatchesRun ==
  \A r \in Rules :
    LET own  == run[r]
        ends == own.plan # None /\ own.plan.skip
    IN  (/\ own.pc \in {"planned", "checked"} /\ ~own.early /\ r \notin edited
         /\ <<r, Day(own.base)>> \notin strayed)
        => IF Covered(own.slot) \/ ends THEN ContestedBy(r, Day(own.base)) = {}
           ELSE {own.slot, own.base} \subseteq Protected(Day(own.base))

\* A rival that sights a protected class while an administrator's run is on holds
\* back until the administrators had their time since the opening, once for the
\* whole of its walk, and whatever the countdown said never for longer than that
\* per candidate.  _PriorityHold, _hold_for_priority.
HoldsGiveWay ==
  \A r \in Rules : run[r] # NoRun /\ now >= run[r].open => GivesWay(run[r].open, now)

\* The list offers an edit for a day exactly when a save of it would be
\* accepted and could matter.  _override_actions, _assert_writable.
OffersAreAccepted ==
  LET offered == {<<e.rule, e.date>> : e \in {f \in UpcomingSlots : Offered(f)}}
      inView(r, date) ==
        LET slot == At(TheZone, date, rule[r].class_time)
        IN  slot <= ListEnd /\ ~Covered(PlannedSlot(LoadOverride(r, date), slot))
  IN  \A r \in Rules, date \in Dates :
        LET writable == /\ date % 7 = rule[r].day_of_week
                        /\ IsEditable(r, date, now) /\ ~OutcomeExists(r, date)
        IN  /\ <<r, date>> \in offered => writable
            /\ writable /\ inView(r, date) => <<r, date>> \in offered

\* The countdown leads to the opening the next run contests, unless a vacation
\* covers its class.  compute_next_booking.
CountdownLeadsToRun ==
  [][\A r \in Rules :
       run[r] = NoRun /\ run'[r] # NoRun /\ now < run'[r].open /\ ~Covered(run'[r].base)
         => /\ NextBooking # None /\ NextBooking <= run'[r].open
            /\ NextBooking < run'[r].open => \E s \in Rules \ {r} : NextBooking \in NextBookable(s)]_vars

\* The tables tell what happened: rows and gym, notices and cancellations, and
\* no override but for a day its rule still has.
RecordsTrue == TypeOK /\ RowsMatchGym /\ NoticePerCancel /\ NoStrayOverride

\* The list reaches the class of every opening of the week ahead, rolls over as
\* many openings as it reaches, and no booking opens on the day of its class.
ListReaches ==
  /\ PrewarmLead <= DayLen /\ ListDays + 1 < 7 * MaxPerRule
  /\ \A t \in Timings : 1 <= t.opens_days_before /\ t.opens_days_before + 9 <= ListDays

\* What the pages show of the days to come is what the runs do and what the
\* handlers accept: the list, the edits it offers and the countdown.
PagesForetell == ListForetells /\ CountdownLeadsToRun /\ []OffersAreAccepted

\* Administrators come first: the class their run contests is protected, and who
\* meets it in their time gives way, for a bounded time.
PriorityWorks == ProtectionMatchesRun /\ HoldsGiveWay

=============================================================================
