------------------------------ MODULE RuleJobs ------------------------------
(***************************************************************************)
(* The life of the booking job of a scheduler rule: registration from the  *)
(* rule routes, firing by APScheduler, the run of book_rule, its           *)
(* re-registration for the following window, and the restart of the worker *)
(* (scheduler/rule_jobs.py, scheduler/scheduler.py, rules/routes.py).      *)
(*                                                                         *)
(* Three kinds of threads touch the in-memory jobstore without a common    *)
(* lock: the web handlers, the booking pool threads and the scheduler's    *)
(* own thread.  A registration is three jobstore calls (get_job,           *)
(* remove_job, add_job), each a step of its own here.                      *)
(***************************************************************************)
EXTENDS Integers

CONSTANTS
  Rules,          \* identifiers of scheduler rules
  Timings,        \* what day_of_week, opens_days_before and opens_at describe
  NoTiming,       \* no snapshot taken
  NoRule,         \* no rule in the update handler
  Opens,          \* Opens[t]: the instants at which timing t opens its window
  Lead,           \* DEFAULT_PREWARM_LEAD_S
  Offset,         \* the one second _schedule_next adds to the clock
  Threshold,      \* alignment_threshold_s: how early an aligned run may end
  MaxLate,        \* a due job starts at most this long after its run date
  MaxRun,         \* a run gives up after this long (alignment and retry limits)
  Horizon,        \* the clock stops here
  MaxTime,        \* bound of every window computed before the Horizon
  MaxEdits,       \* bound on rule edits
  MaxRestarts,    \* bound on restarts
  EarlyReturn,    \* may a run end before its window opens?
  EditDuringRun   \* may a rule be edited while its job is due or running?

(***************************************************************************)
(* First(t, i, w): w is the first window of timing t after instant i.      *)
(***************************************************************************)
First(t, i, w) ==
  /\ w \in Opens[t]
  /\ i < w
  /\ \A v \in Opens[t] : i < v => w <= v

ASSUME TimingAssumption ==
  /\ NoTiming \notin Timings
  /\ NoRule \notin Rules
  /\ Timings \cap {"unborn", "deleted"} = {}
  /\ Opens \in [Timings -> SUBSET (1..2 * MaxTime)]
  /\ \A t \in Timings, i \in 0..MaxTime : \E w \in Opens[t] : First(t, i, w)
  /\ \A t \in Timings, i \in 0..Horizon + Offset :
       \E w \in Opens[t] : i < w /\ w <= MaxTime

ASSUME BoundAssumption ==
  /\ {Lead, Offset, Threshold, MaxLate, MaxRun, MaxEdits, MaxRestarts} \subseteq Nat
  /\ Horizon \in Nat \ {0} /\ MaxTime \in Nat
  /\ Threshold <= Offset /\ Lead <= MaxRun
  /\ EarlyReturn \in BOOLEAN /\ EditDuringRun \in BOOLEAN

VARIABLES
  now,     \* the worker's clock
  up,      \* is the process running?
  boots,   \* restarts so far
  edits,   \* rule edits so far
  rule,    \* table scheduler_rule: the timing of each rule, or no row
  jobs,    \* APScheduler's in-memory jobstore
  run,     \* the one instance of each job's callable (max_instances=1)
  http,    \* the create or update handler (async: one at a time)
  del,     \* the delete handler of each rule (sync: on the thread pool)
  since,   \* history: when the rule last took its timing, or the last boot
  ran      \* history: the runs that contested a window

vars == <<now, up, boots, edits, rule, jobs, run, http, del, since, ran>>

Windows == 0..MaxTime
Job     == [rule : Rules, window : Windows]
Run     == [pc : {"idle", "queued", "booking", "get", "remove", "add", "done"},
            window : Windows, timing : Timings \cup {NoTiming},
            started : Nat, next : Windows]
Sync    == [pc : {"idle", "get", "remove", "add"},
            rule : Rules \cup {NoRule}, next : Windows]

TypeOK ==
  /\ now \in 1..Horizon
  /\ up \in BOOLEAN
  /\ boots \in 0..MaxRestarts
  /\ edits \in 0..MaxEdits
  /\ rule \in [Rules -> Timings \cup {"unborn", "deleted"}]
  /\ jobs \subseteq Job
  /\ run \in [Rules -> Run]
  /\ http \in Sync
  /\ del \in [Rules -> {"idle", "get", "remove"}]
  /\ since \in [Rules -> Nat]
  /\ ran \subseteq [rule : Rules, window : Windows, epoch : Nat]

-----------------------------------------------------------------------------
(* The window arithmetic and the jobstore. *)

\* Mutant of NextOpen: a window opening at this very instant is still next.
NextOpenInclusive(t, i) == CHOOSE w \in Opens[t] : First(t, i - 1, w)

\* The first window of timing t strictly after instant i.
NextOpen(t, i) == CHOOSE w \in Opens[t] : First(t, i, w)

JobOf(r)     == {j \in jobs : j.rule = r}
Due(j)       == j.window - Lead <= now
Active(r)    == rule[r] \in Timings
NoRun        == [pc |-> "idle", window |-> 0, timing |-> NoTiming,
                 started |-> 0, next |-> 0]
NoSync       == [pc |-> "idle", rule |-> NoRule, next |-> 0]

\* remove_job raises JobLookupError when the job is gone, and the caller
\* gives up; add_job raises ConflictingIdError when the id is taken.
Removed(r)   == jobs \ JobOf(r)

Added(r, w)  == IF JobOf(r) = {} THEN jobs \cup {[rule |-> r, window |-> w]} ELSE jobs

\* Mutant of AfterGet: no get_job before remove_job.
AfterGetUnchecked(r) == "remove"

AfterGet(r)  == IF JobOf(r) = {} THEN "add" ELSE "remove"

Init ==
  /\ now = 1 /\ up = TRUE /\ boots = 0 /\ edits = 0
  /\ rule = [r \in Rules |-> "unborn"]
  /\ jobs = {}
  /\ run = [r \in Rules |-> NoRun]
  /\ http = NoSync
  /\ del = [r \in Rules |-> "idle"]
  /\ since = [r \in Rules |-> 0]
  /\ ran = {}

-----------------------------------------------------------------------------
(* The rule routes: the row is committed first, the job synced afterwards. *)

\* Nothing of rule r is due or running.
Quiet(r) == run[r].pc = "idle" /\ \A j \in JobOf(r) : ~Due(j)

Save(r, t) ==
  /\ up /\ http.pc = "idle"
  /\ rule' = [rule EXCEPT ![r] = t]
  /\ since' = [since EXCEPT ![r] = now]
  /\ http' = [pc |-> "get", rule |-> r, next |-> NextOpen(t, now)]
  /\ UNCHANGED <<now, up, boots, jobs, run, del, ran>>

RulesCreate(r, t) == rule[r] = "unborn" /\ Save(r, t) /\ UNCHANGED edits

RulesUpdate(r, t) ==
  /\ Active(r)
  /\ edits < MaxEdits
  /\ EditDuringRun \/ Quiet(r)
  /\ edits' = edits + 1
  /\ Save(r, t)

SyncGet ==
  /\ http.pc = "get"
  /\ http' = [http EXCEPT !.pc = AfterGet(http.rule)]
  /\ UNCHANGED <<now, up, boots, edits, rule, jobs, run, del, since, ran>>

SyncRemove ==
  /\ http.pc = "remove"
  /\ jobs' = Removed(http.rule)
  /\ http' = IF JobOf(http.rule) = {} THEN NoSync ELSE [http EXCEPT !.pc = "add"]
  /\ UNCHANGED <<now, up, boots, edits, rule, run, del, since, ran>>

SyncAdd ==
  /\ http.pc = "add"
  /\ jobs' = Added(http.rule, http.next)
  /\ http' = NoSync
  /\ UNCHANGED <<now, up, boots, edits, rule, run, del, since, ran>>

RulesDelete(r) ==
  /\ up /\ Active(r) /\ del[r] = "idle"
  /\ rule' = [rule EXCEPT ![r] = "deleted"]
  /\ del' = [del EXCEPT ![r] = "get"]
  /\ UNCHANGED <<now, up, boots, edits, jobs, run, http, since, ran>>

UnregisterGet(r) ==
  /\ del[r] = "get"
  /\ del' = [del EXCEPT ![r] = IF JobOf(r) = {} THEN "idle" ELSE "remove"]
  /\ UNCHANGED <<now, up, boots, edits, rule, jobs, run, http, since, ran>>

UnregisterRemove(r) ==
  /\ del[r] = "remove"
  /\ jobs' = Removed(r)
  /\ del' = [del EXCEPT ![r] = "idle"]
  /\ UNCHANGED <<now, up, boots, edits, rule, run, http, since, ran>>

\* Deleting the user cascades to the rule's row and leaves its job behind.
UserDelete(r) ==
  /\ up /\ Active(r)
  /\ rule' = [rule EXCEPT ![r] = "deleted"]
  /\ UNCHANGED <<now, up, boots, edits, jobs, run, http, del, since, ran>>

-----------------------------------------------------------------------------
(* The scheduler thread and the booking pool. *)

\* A due job leaves the jobstore: its DateTrigger has no further run date.
\* With an instance still running, max_instances=1 skips the run.
Dispatch(r) ==
  /\ up
  /\ \E j \in JobOf(r) :
       /\ Due(j)
       /\ jobs' = jobs \ {j}
       /\ run' = IF run[r].pc = "idle"
                 THEN [run EXCEPT ![r] = [NoRun EXCEPT !.pc = "queued", !.window = j.window]]
                 ELSE run
  /\ UNCHANGED <<now, up, boots, edits, rule, http, del, since, ran>>

\* Mutants of TargetWindow: the window derived from the clock alone, as before
\* the job carried it; the carried window never checked against the rule.
TargetWindowByClock(r, w)  == NextOpen(rule[r], now)
TargetWindowAsCarried(r, w) == w

\* book_rule up to the snapshot: a rule that is gone ends the run with no
\* reschedule; a window the rule no longer describes is derived afresh.
TargetWindow(r, w) ==
  IF NextOpen(rule[r], w - 1) = w THEN w ELSE NextOpen(rule[r], now - 1)

StartRunGoneReschedules(r) ==
  /\ run[r].pc = "queued" /\ ~Active(r)
  /\ run' = [run EXCEPT ![r].pc = "get", ![r].next = run[r].window]
  /\ UNCHANGED <<now, up, boots, edits, rule, jobs, http, del, since, ran>>

StartRun(r) ==
  /\ run[r].pc = "queued"
  /\ \/ /\ ~Active(r)
        /\ run' = [run EXCEPT ![r] = NoRun]
        /\ UNCHANGED ran
     \/ /\ Active(r)
        /\ LET w == TargetWindow(r, run[r].window) IN
             /\ run' = [run EXCEPT ![r] = [pc |-> "booking", window |-> w,
                                           timing |-> rule[r], started |-> now, next |-> 0]]
             /\ ran' = ran \cup {[rule |-> r, window |-> w, epoch |-> boots + edits]}
  /\ UNCHANGED <<now, up, boots, edits, rule, jobs, http, del, since>>

\* Mutant of FinishRun: a run whose booking raised ends without rescheduling.
FinishRunRaised(r) ==
  /\ run[r].pc = "booking"
  /\ EarlyReturn \/ run[r].started + MaxRun <= now
  /\ run' = [run EXCEPT ![r].pc = "done"]
  /\ UNCHANGED <<now, up, boots, edits, rule, jobs, http, del, since, ran>>

\* executor.book returned or raised.  An aligned run lasts until publication,
\* Threshold before the window at the earliest; a vacation or skipped day, a
\* missing cookie or a refused one, an early publication end it sooner.
FinishRun(r) ==
  /\ run[r].pc = "booking"
  /\ \/ EarlyReturn
     \/ run[r].window - Threshold <= now
     \/ run[r].started + MaxRun <= now
  /\ run' = [run EXCEPT ![r].pc = "get",
                        ![r].next = NextOpen(run[r].timing, now + Offset)]
  /\ UNCHANGED <<now, up, boots, edits, rule, jobs, http, del, since, ran>>

RescheduleGet(r) ==
  /\ run[r].pc = "get"
  /\ run' = [run EXCEPT ![r].pc = AfterGet(r)]
  /\ UNCHANGED <<now, up, boots, edits, rule, jobs, http, del, since, ran>>

RescheduleRemove(r) ==
  /\ run[r].pc = "remove"
  /\ jobs' = Removed(r)
  /\ run' = [run EXCEPT ![r].pc = IF JobOf(r) = {} THEN "done" ELSE "add"]
  /\ UNCHANGED <<now, up, boots, edits, rule, http, del, since, ran>>

RescheduleAdd(r) ==
  /\ run[r].pc = "add"
  /\ jobs' = Added(r, run[r].next)
  /\ run' = [run EXCEPT ![r].pc = "done"]
  /\ UNCHANGED <<now, up, boots, edits, rule, http, del, since, ran>>

\* The pool's done callback gives the instance back.
ReleaseInstance(r) ==
  /\ run[r].pc = "done"
  /\ run' = [run EXCEPT ![r] = NoRun]
  /\ UNCHANGED <<now, up, boots, edits, rule, jobs, http, del, since, ran>>

-----------------------------------------------------------------------------
(* The process and the clock. *)

\* The jobstore and every thread are gone; the tables stay.
Stop ==
  /\ up /\ boots < MaxRestarts
  /\ up' = FALSE
  /\ jobs' = {} /\ http' = NoSync
  /\ run' = [r \in Rules |-> NoRun]
  /\ del' = [r \in Rules |-> "idle"]
  /\ UNCHANGED <<now, boots, edits, rule, since, ran>>

RegisterBootstrapJobs ==
  /\ ~up
  /\ up' = TRUE
  /\ boots' = boots + 1
  /\ jobs' = {[rule |-> r, window |-> NextOpen(rule[r], now)] : r \in {s \in Rules : Active(s)}}
  /\ since' = [r \in Rules |-> now]
  /\ UNCHANGED <<now, edits, rule, run, http, del, ran>>

\* Handlers and jobstore calls finish within a tick; a due or queued job
\* starts within MaxLate; a run ends within MaxRun.
Prompt ==
  /\ http.pc = "idle"
  /\ \A j \in jobs : now < j.window - Lead + MaxLate
  /\ \A r \in Rules :
       /\ del[r] = "idle"
       /\ \/ run[r].pc = "idle"
          \/ run[r].pc = "queued" /\ now < run[r].window - Lead + MaxLate
          \/ run[r].pc = "booking" /\ now < run[r].started + MaxRun

Tick ==
  /\ now < Horizon
  /\ up => Prompt
  /\ now' = now + 1
  /\ UNCHANGED <<up, boots, edits, rule, jobs, run, http, del, since, ran>>

\* The clock has run out; time stands still here, the code does not.
Halt == now = Horizon /\ UNCHANGED vars

RuleStep(r) ==
  \/ \E t \in Timings : RulesCreate(r, t) \/ RulesUpdate(r, t)
  \/ RulesDelete(r) \/ UserDelete(r) \/ UnregisterGet(r) \/ UnregisterRemove(r)
  \/ Dispatch(r) \/ StartRun(r) \/ FinishRun(r)
  \/ RescheduleGet(r) \/ RescheduleRemove(r) \/ RescheduleAdd(r) \/ ReleaseInstance(r)

Next ==
  \/ \E r \in Rules : RuleStep(r)
  \/ SyncGet \/ SyncRemove \/ SyncAdd
  \/ Stop \/ RegisterBootstrapJobs \/ Tick \/ Halt

Spec == Init /\ [][Next]_vars

-----------------------------------------------------------------------------
(* Properties that hold whatever the runs and the edits do. *)

\* A run contests a window of the timing it read, even when the rule was
\* edited between the job's registration and its start (book_rule's check of
\* the window it was registered for).
RunWindowOfItsTiming ==
  \A r \in Rules : run[r].pc \notin {"idle", "queued"} =>
    run[r].window \in Opens[run[r].timing]

\* A deleted rule winds down: once the run and the handlers that touched it are
\* through, its job may go but never comes back, and no further run books or
\* reschedules it, whatever fires or restarts.
DeletedRuleWindsDown ==
  [][\A r \in Rules :
       rule[r] = "deleted" /\ run[r].pc \in {"idle", "queued"} /\ http.rule # r
         => /\ JobOf(r)' \subseteq JobOf(r)
            /\ run'[r].pc \in {"idle", "queued"}]_vars

\* Somebody answers for the job of rule r: the jobstore holds it, or a handler
\* or a run under way will still add it.  One that is about to remove a job that
\* is gone will not, remove_job raises and its registration ends there.
AnsweredFor(r) ==
  \/ JobOf(r) # {}
  \/ http.rule = r /\ http.pc \in {"get", "add"}
  \/ run[r].pc \in {"queued", "booking", "get", "add"}

\* However the get_job, remove_job and add_job of a handler, a delete and a run
\* fall between each other, none of these calls takes the job of an active rule
\* away for good: only a firing does, that APScheduler skips because the run
\* that re-registered the job has not given its instance back (register_rule_job,
\* max_instances=1).
OnlySkippedFiringLosesJob ==
  [][\A r \in Rules :
       /\ up /\ Active(r) /\ AnsweredFor(r)
       /\ up' /\ Active(r)' /\ ~AnsweredFor(r)'
       => /\ run[r].pc \in {"remove", "done"} /\ UNCHANGED <<run, http, del>>
          /\ \E j \in JobOf(r) : Due(j)]_vars

-----------------------------------------------------------------------------
(* Properties of runs that last to their windows and of edits outside of due *)
(* and running jobs (RuleJobsCalm says when that is).                        *)

\* Every window of a rule is contested, however late the pool starts the job,
\* unless the rule was edited or the worker was down in the meantime.
EveryWindowRun ==
  up => \A r \in Rules : Active(r) => \A w \in Opens[rule[r]] :
    since[r] < w /\ w - Lead + MaxLate < now
      => \E b \in ran : b.rule = r /\ b.window = w

\* The scheduler owns one job per active rule, and while a run is on, the run
\* itself will register it.
OneJobPerActiveRule ==
  up => \A r \in Rules :
    Active(r) /\ run[r].pc = "idle" /\ http.rule # r => JobOf(r) # {}

\* An edited rule's job fires at the new timing.
JobFollowsRule ==
  up => \A r \in Rules :
    Active(r) /\ run[r].pc = "idle" /\ http.rule # r
      => \A j \in JobOf(r) : j.window \in Opens[rule[r]]

\* A run re-registers its rule for a window past the one that just fired.
RescheduleRollsForward ==
  \A r \in Rules : run[r].pc \in {"get", "remove", "add"} => run[r].window < run[r].next

=============================================================================
