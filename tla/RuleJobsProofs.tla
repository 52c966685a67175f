--------------------------- MODULE RuleJobsProofs ---------------------------
(***************************************************************************)
(* What holds of the booking jobs of any number of rules, timings, edits   *)
(* and restarts: the jobstore stays well formed, a run contests a window   *)
(* of the timing it read, and a deleted rule winds down.  Of the calm      *)
(* behaviours: no window of an active rule passes uncontested or is        *)
(* contested twice, and the rule keeps its job.                            *)
(***************************************************************************)
EXTENDS RuleJobsCalm, TLAPS

\* The first window after an instant is a window of the timing, later than the
\* instant (next_window_open_for_rule).
LEMMA NextOpenIsFirst ==
  ASSUME NEW t \in Timings, NEW i \in Int, -1 <= i, i <= MaxTime
  PROVE  First(t, i, NextOpen(t, i))
<1>1. MaxTime \in Nat
  BY BoundAssumption
<1>2. Opens[t] \subseteq 1..2 * MaxTime
  BY TimingAssumption
<1>3. \E w \in Opens[t] : First(t, i, w)
  <2>1. CASE i = -1
    <3>1. PICK w \in Opens[t] : First(t, 0, w)
      BY <1>1, TimingAssumption
    <3>2. First(t, i, w)
      BY <1>1, <1>2, <2>1, <3>1 DEF First
    <3> QED BY <3>1, <3>2
  <2>2. CASE i # -1
    BY <1>1, <2>2, TimingAssumption
  <2> QED BY <2>1, <2>2
<1> QED BY <1>3 DEF NextOpen

\* Up to the horizon the first window lies within MaxTime.
LEMMA NextOpenInRange ==
  ASSUME NEW t \in Timings, NEW i \in Int, -1 <= i, i <= Horizon + Offset
  PROVE  /\ NextOpen(t, i) \in Windows
         /\ NextOpen(t, i) \in Opens[t]
         /\ i < NextOpen(t, i)
<1>1. MaxTime \in Nat /\ Horizon \in Nat /\ Offset \in Nat
  BY BoundAssumption
<1>2. Opens[t] \subseteq 1..2 * MaxTime
  BY TimingAssumption
<1> DEFINE j == IF i = -1 THEN 0 ELSE i
<1>3. j \in 0..Horizon + Offset /\ i <= j
  BY <1>1
<1>4. PICK v \in Opens[t] : j < v /\ v <= MaxTime
  BY <1>3, TimingAssumption
<1>5. i < v /\ v \in Int /\ i <= MaxTime
  BY <1>1, <1>2, <1>3, <1>4
<1>6. First(t, i, NextOpen(t, i))
  BY <1>5, NextOpenIsFirst
<1>7. NextOpen(t, i) <= v /\ NextOpen(t, i) \in Opens[t] /\ i < NextOpen(t, i)
  BY <1>5, <1>6 DEF First
<1> QED BY <1>1, <1>2, <1>4, <1>7 DEF Windows

\* The window a run contests is one of the timing of the rule's row.
LEMMA TargetWindowInRange ==
  ASSUME TypeOK, NEW r \in Rules, Active(r), NEW w \in Windows
  PROVE  /\ TargetWindow(r, w) \in Windows
         /\ TargetWindow(r, w) \in Opens[rule[r]]
<1>1. rule[r] \in Timings
  BY DEF Active
<1>2. now - 1 \in Int /\ -1 <= now - 1 /\ now - 1 <= Horizon + Offset
  BY BoundAssumption DEF TypeOK
<1>3. NextOpen(rule[r], now - 1) \in Windows \cap Opens[rule[r]]
  BY <1>1, <1>2, NextOpenInRange
<1>4. w - 1 \in Int /\ -1 <= w - 1 /\ w - 1 <= MaxTime
  BY BoundAssumption DEF Windows
<1>5. NextOpen(rule[r], w - 1) \in Opens[rule[r]]
  BY <1>1, <1>4, NextOpenIsFirst DEF First
<1> QED BY <1>3, <1>5 DEF TargetWindow

LEMMA JobsHelpers ==
  ASSUME jobs \subseteq Job, NEW r \in Rules, NEW w \in Windows
  PROVE  /\ Removed(r) \subseteq Job
         /\ Added(r, w) \subseteq Job
         /\ AfterGet(r) \in {"add", "remove"}
BY DEF Removed, Added, AfterGet, Job

\* A handler's save keeps the types: the window it computes is in range.
LEMMA SaveType ==
  ASSUME TypeOK, NEW r \in Rules, NEW t \in Timings, Save(r, t)
  PROVE  /\ rule' \in [Rules -> Timings \cup {"unborn", "deleted"}]
         /\ since' \in [Rules -> Nat]
         /\ http' \in Sync
<1>1. NextOpen(t, now) \in Windows
  BY NextOpenInRange, BoundAssumption DEF TypeOK
<1> QED BY <1>1 DEF TypeOK, Save, Sync

\* A run past its start carries the snapshot of a timing, so that the window
\* computed at its end exists; a handler past its commit names a rule; a worker
\* that is down may restart.  With these TypeOK is inductive.
RunTimed ==
  \A r \in Rules : run[r].pc \notin {"idle", "queued"} => run[r].timing \in Timings
SyncHasRule == http.pc # "idle" => http.rule \in Rules
BootsLeft   == ~up => boots < MaxRestarts

TypeInv == TypeOK /\ RunTimed /\ SyncHasRule /\ BootsLeft

\* The inductive invariant.
IInv == TypeInv /\ RunWindowOfItsTiming

LEMMA TypeInit == Init => TypeInv
BY BoundAssumption
DEF Init, TypeInv, TypeOK, RunTimed, SyncHasRule, BootsLeft, NoRun, NoSync, Run, Sync, Windows

LEMMA TypeStep == TypeInv /\ [Next]_vars => TypeOK'
<1> SUFFICES ASSUME TypeInv, [Next]_vars PROVE TypeOK'
  OBVIOUS
<1> USE DEF TypeInv
<1>0. Horizon \in Nat \ {0} /\ MaxTime \in Nat /\ 0 \in Windows /\ now \in 1..Horizon
      /\ MaxEdits \in Nat /\ MaxRestarts \in Nat
  BY BoundAssumption DEF Windows, TypeOK
<1>1. ASSUME NEW r \in Rules, NEW t \in Timings, RulesCreate(r, t) PROVE TypeOK'
  BY <1>1, SaveType DEF TypeOK, RulesCreate, Save
<1>2. ASSUME NEW r \in Rules, NEW t \in Timings, RulesUpdate(r, t) PROVE TypeOK'
  <2>1. edits' \in 0..MaxEdits
    BY <1>0, <1>2 DEF TypeOK, RulesUpdate
  <2>2. Save(r, t)
    BY <1>2 DEF RulesUpdate
  <2> QED BY <2>1, <2>2, SaveType DEF TypeOK, Save
<1>3. ASSUME NEW r \in Rules, RulesDelete(r) PROVE TypeOK'
  BY <1>3 DEF TypeOK, RulesDelete
<1>4. ASSUME NEW r \in Rules, UserDelete(r) PROVE TypeOK'
  BY <1>4 DEF TypeOK, UserDelete
<1>5. ASSUME NEW r \in Rules, UnregisterGet(r) PROVE TypeOK'
  BY <1>5 DEF TypeOK, UnregisterGet
<1>6. ASSUME NEW r \in Rules, UnregisterRemove(r) PROVE TypeOK'
  BY <1>6 DEF TypeOK, UnregisterRemove, Removed
<1>7. ASSUME NEW r \in Rules, Dispatch(r) PROVE TypeOK'
  <2>1. PICK j \in JobOf(r) :
          /\ jobs' = jobs \ {j}
          /\ run' = IF run[r].pc = "idle"
                    THEN [run EXCEPT ![r] = [NoRun EXCEPT !.pc = "queued", !.window = j.window]]
                    ELSE run
    BY <1>7 DEF Dispatch
  <2>2. j.window \in Windows
    BY DEF JobOf, TypeOK, Job
  <2>3. [NoRun EXCEPT !.pc = "queued", !.window = j.window] \in Run
    BY <1>0, <2>2 DEF NoRun, Run
  <2>4. run' \in [Rules -> Run]
    BY <2>1, <2>3 DEF TypeOK
  <2> QED BY <1>7, <2>1, <2>4 DEF TypeOK, Dispatch
<1>8. ASSUME NEW r \in Rules, StartRun(r) PROVE TypeOK'
  <2>1. CASE ~Active(r)
    <3>1. NoRun \in Run
      BY <1>0 DEF NoRun, Run
    <3> QED BY <1>8, <2>1, <3>1 DEF TypeOK, StartRun
  <2>2. CASE Active(r)
    <3> DEFINE w == TargetWindow(r, run[r].window)
    <3>1. run[r].window \in Windows
      BY DEF TypeOK, Run
    <3>2. w \in Windows
      BY <2>2, <3>1, TargetWindowInRange
    <3>3. [pc |-> "booking", window |-> w, timing |-> rule[r],
           started |-> now, next |-> 0] \in Run
      BY <1>0, <2>2, <3>2 DEF Run, Active
    <3>4. boots + edits \in Nat
      BY <1>0 DEF TypeOK
    <3> HIDE DEF w
    <3>5. [rule |-> r, window |-> w, epoch |-> boots + edits]
            \in [rule : Rules, window : Windows, epoch : Nat]
      BY <3>2, <3>4
    <3>6. /\ run' = [run EXCEPT ![r] = [pc |-> "booking", window |-> w, timing |-> rule[r],
                                         started |-> now, next |-> 0]]
          /\ ran' = ran \cup {[rule |-> r, window |-> w, epoch |-> boots + edits]}
      BY <1>8, <2>2 DEF StartRun, w
    <3>7. run' \in [Rules -> Run] /\ ran' \subseteq [rule : Rules, window : Windows, epoch : Nat]
      BY <3>3, <3>5, <3>6 DEF TypeOK
    <3> QED BY <1>8, <3>7 DEF TypeOK, StartRun
  <2> QED BY <2>1, <2>2
<1>9. ASSUME NEW r \in Rules, FinishRun(r) PROVE TypeOK'
  <2>1. NextOpen(run[r].timing, now + Offset) \in Windows
    BY <1>0, <1>9, NextOpenInRange, BoundAssumption DEF FinishRun, RunTimed
  <2>2. run' \in [Rules -> Run]
    BY <1>9, <2>1 DEF FinishRun, TypeOK, Run
  <2> QED BY <1>9, <2>2 DEF TypeOK, FinishRun
<1>10. ASSUME NEW r \in Rules, RescheduleGet(r) PROVE TypeOK'
  BY <1>10 DEF TypeOK, RescheduleGet, AfterGet, Run
<1>11. ASSUME NEW r \in Rules, RescheduleRemove(r) PROVE TypeOK'
  BY <1>11 DEF TypeOK, RescheduleRemove, Removed, Run
<1>12. ASSUME NEW r \in Rules, RescheduleAdd(r) PROVE TypeOK'
  <2>1. run[r].next \in Windows
    BY DEF TypeOK, Run
  <2>2. jobs' \subseteq Job
    BY <1>12, <2>1, JobsHelpers DEF RescheduleAdd, TypeOK
  <2> QED BY <1>12, <2>2 DEF TypeOK, RescheduleAdd, Run
<1>13. ASSUME NEW r \in Rules, ReleaseInstance(r) PROVE TypeOK'
  <2>1. NoRun \in Run
    BY <1>0 DEF NoRun, Run
  <2> QED BY <1>13, <2>1 DEF TypeOK, ReleaseInstance
<1>14. ASSUME SyncGet PROVE TypeOK'
  BY <1>14 DEF TypeOK, SyncGet, AfterGet, Sync
<1>15. ASSUME SyncRemove PROVE TypeOK'
  BY <1>0, <1>15 DEF TypeOK, SyncRemove, Removed, Sync, NoSync
<1>16. ASSUME SyncAdd PROVE TypeOK'
  <2>1. http.rule \in Rules /\ http.next \in Windows
    BY <1>16 DEF TypeOK, Sync, SyncAdd, SyncHasRule
  <2>2. jobs' \subseteq Job
    BY <1>16, <2>1, JobsHelpers DEF SyncAdd, TypeOK
  <2>3. NoSync \in Sync
    BY <1>0 DEF NoSync, Sync
  <2> QED BY <1>16, <2>2, <2>3 DEF TypeOK, SyncAdd
<1>17. ASSUME Stop PROVE TypeOK'
  <2>1. NoRun \in Run /\ NoSync \in Sync
    BY <1>0 DEF NoRun, Run, NoSync, Sync
  <2> QED BY <1>17, <2>1 DEF TypeOK, Stop
<1>18. ASSUME RegisterBootstrapJobs PROVE TypeOK'
  <2>1. boots' \in 0..MaxRestarts
    BY <1>0, <1>18 DEF TypeOK, BootsLeft, RegisterBootstrapJobs
  <2>2. \A r \in Rules : Active(r) => NextOpen(rule[r], now) \in Windows
    BY <1>0, NextOpenInRange, BoundAssumption DEF Active
  <2>3. jobs' \subseteq Job
    BY <1>18, <2>2 DEF RegisterBootstrapJobs, Job
  <2>4. since' \in [Rules -> Nat]
    BY <1>0, <1>18 DEF RegisterBootstrapJobs
  <2> QED BY <1>18, <2>1, <2>3, <2>4 DEF TypeOK, RegisterBootstrapJobs
<1>19. ASSUME Tick PROVE TypeOK'
  BY <1>0, <1>19 DEF TypeOK, Tick
<1>20. ASSUME UNCHANGED vars PROVE TypeOK'
  BY <1>20 DEF TypeOK, vars
<1> QED
  BY <1>1, <1>2, <1>3, <1>4, <1>5, <1>6, <1>7, <1>8, <1>9, <1>10, <1>11, <1>12, <1>13,
     <1>14, <1>15, <1>16, <1>17, <1>18, <1>19, <1>20 DEF Next, RuleStep, Halt

\* The strengthening is kept: each conjunct by the actions that may disturb it.
LEMMA TypeInvStep == TypeInv /\ [Next]_vars => TypeInv'
<1> SUFFICES ASSUME TypeInv, [Next]_vars PROVE TypeInv'
  OBVIOUS
<1> USE DEF TypeInv
<1>1. TypeOK'
  BY TypeStep
<1>2. RunTimed'
  <2>1. ASSUME NEW r \in Rules, Dispatch(r) PROVE RunTimed'
    BY <2>1 DEF Dispatch, RunTimed, TypeOK, NoRun
  <2>2. ASSUME NEW r \in Rules, StartRun(r) PROVE RunTimed'
    BY <2>2 DEF StartRun, RunTimed, TypeOK, NoRun, Active
  <2>3. ASSUME NEW r \in Rules, FinishRun(r) PROVE RunTimed'
    BY <2>3 DEF FinishRun, RunTimed, TypeOK, Run
  <2>4. ASSUME NEW r \in Rules,
               RescheduleGet(r) \/ RescheduleRemove(r) \/ RescheduleAdd(r)
        PROVE RunTimed'
    BY <2>4 DEF RescheduleGet, RescheduleRemove, RescheduleAdd, RunTimed, TypeOK, Run
  <2>5. ASSUME NEW r \in Rules, ReleaseInstance(r) PROVE RunTimed'
    BY <2>5 DEF ReleaseInstance, RunTimed, TypeOK, NoRun
  <2>6. ASSUME Stop PROVE RunTimed'
    BY <2>6 DEF Stop, RunTimed, NoRun
  <2>7. ASSUME UNCHANGED run PROVE RunTimed'
    BY <2>7 DEF RunTimed
  <2> QED
    BY <2>1, <2>2, <2>3, <2>4, <2>5, <2>6, <2>7
    DEF Next, RuleStep, vars, RulesCreate, RulesUpdate, Save, RulesDelete, UserDelete,
        UnregisterGet, UnregisterRemove, SyncGet, SyncRemove, SyncAdd,
        RegisterBootstrapJobs, Tick, Halt
<1>3. SyncHasRule'
  <2>1. ASSUME NEW r \in Rules, NEW t \in Timings, Save(r, t) PROVE SyncHasRule'
    BY <2>1 DEF Save, SyncHasRule
  <2>2. ASSUME SyncGet \/ SyncRemove \/ SyncAdd PROVE SyncHasRule'
    BY <2>2 DEF SyncGet, SyncRemove, SyncAdd, SyncHasRule, TypeOK, Sync, NoSync
  <2>3. ASSUME Stop PROVE SyncHasRule'
    BY <2>3 DEF Stop, SyncHasRule, NoSync
  <2>4. ASSUME UNCHANGED http PROVE SyncHasRule'
    BY <2>4 DEF SyncHasRule
  <2> QED
    BY <2>1, <2>2, <2>3, <2>4
    DEF Next, RuleStep, vars, RulesCreate, RulesUpdate, RulesDelete, UserDelete,
        UnregisterGet, UnregisterRemove, Dispatch, StartRun, FinishRun, RescheduleGet,
        RescheduleRemove, RescheduleAdd, ReleaseInstance, RegisterBootstrapJobs, Tick, Halt
<1>4. BootsLeft'
  <2>1. ASSUME Stop PROVE BootsLeft'
    BY <2>1 DEF Stop, BootsLeft
  <2>2. ASSUME RegisterBootstrapJobs PROVE BootsLeft'
    BY <2>2 DEF RegisterBootstrapJobs, BootsLeft
  <2>3. ASSUME UNCHANGED <<up, boots>> PROVE BootsLeft'
    BY <2>3 DEF BootsLeft
  <2> QED
    BY <2>1, <2>2, <2>3
    DEF Next, RuleStep, vars, RulesCreate, RulesUpdate, Save, RulesDelete, UserDelete,
        UnregisterGet, UnregisterRemove, Dispatch, StartRun, FinishRun, RescheduleGet,
        RescheduleRemove, RescheduleAdd, ReleaseInstance, SyncGet, SyncRemove, SyncAdd,
        Tick, Halt
<1> QED BY <1>1, <1>2, <1>3, <1>4
-----------------------------------------------------------------------------
\* The jobstore holds one job of an id, as add_job refuses a second.
JobIdsUnique == \A j, k \in jobs : j.rule = k.rule => j = k

\* Only the bootstrap and the two registrations add a job, and none of them
\* beside another job of the rule.
LEMMA JobIdsUniqueStep == TypeInv /\ JobIdsUnique /\ [Next]_vars => JobIdsUnique'
<1> SUFFICES ASSUME TypeInv, JobIdsUnique, [Next]_vars PROVE JobIdsUnique'
  OBVIOUS
<1> USE DEF JobIdsUnique
<1>1. ASSUME NEW r \in Rules, NEW w \in Windows, jobs' = Added(r, w) PROVE JobIdsUnique'
  BY <1>1 DEF Added, JobOf
<1>2. ASSUME NEW r \in Rules, RescheduleAdd(r) PROVE JobIdsUnique'
  <2>1. run[r].next \in Windows
    BY DEF TypeInv, TypeOK, Run
  <2> QED BY <1>1, <1>2, <2>1 DEF RescheduleAdd
<1>3. ASSUME SyncAdd PROVE JobIdsUnique'
  <2>1. http.rule \in Rules /\ http.next \in Windows
    BY <1>3 DEF TypeInv, TypeOK, Sync, SyncAdd, SyncHasRule
  <2> QED BY <1>1, <1>3, <2>1 DEF SyncAdd
<1>4. ASSUME RegisterBootstrapJobs PROVE JobIdsUnique'
  BY <1>4 DEF RegisterBootstrapJobs
<1>5. ASSUME jobs' \subseteq jobs PROVE JobIdsUnique'
  BY <1>5
<1> QED
  BY <1>2, <1>3, <1>4, <1>5
  DEF Next, RuleStep, vars, RulesCreate, RulesUpdate, Save, RulesDelete, UserDelete,
      UnregisterGet, UnregisterRemove, Dispatch, StartRun, FinishRun, RescheduleGet,
      RescheduleRemove, ReleaseInstance, SyncGet, SyncRemove, Stop, Tick, Halt, Removed

\* A run takes its window and its timing in the one step that starts it.
LEMMA RunWindowStep ==
  TypeInv /\ RunWindowOfItsTiming /\ [Next]_vars => RunWindowOfItsTiming'
<1> SUFFICES ASSUME TypeInv, RunWindowOfItsTiming, [Next]_vars
             PROVE  RunWindowOfItsTiming'
  OBVIOUS
<1> USE DEF RunWindowOfItsTiming
<1>0. run \in [Rules -> Run]
  BY DEF TypeInv, TypeOK
<1>1. ASSUME NEW r \in Rules, Dispatch(r) PROVE RunWindowOfItsTiming'
  BY <1>0, <1>1 DEF Dispatch, NoRun
<1>2. ASSUME NEW r \in Rules, StartRun(r) PROVE RunWindowOfItsTiming'
  <2>1. CASE ~Active(r)
    BY <1>0, <1>2, <2>1 DEF StartRun, NoRun
  <2>2. CASE Active(r)
    <3> DEFINE w == TargetWindow(r, run[r].window)
    <3>1. w \in Opens[rule[r]]
      BY <1>0, <2>2, TargetWindowInRange DEF TypeInv, Run
    <3>2. run' = [run EXCEPT ![r] = [pc |-> "booking", window |-> w, timing |-> rule[r],
                                      started |-> now, next |-> 0]]
      BY <1>2, <2>2 DEF StartRun
    <3> HIDE DEF w
    <3> QED BY <1>0, <3>1, <3>2
  <2> QED BY <2>1, <2>2
<1>3. ASSUME NEW r \in Rules, FinishRun(r) PROVE RunWindowOfItsTiming'
  BY <1>0, <1>3 DEF FinishRun, Run
<1>4. ASSUME NEW r \in Rules,
             RescheduleGet(r) \/ RescheduleRemove(r) \/ RescheduleAdd(r)
      PROVE RunWindowOfItsTiming'
  BY <1>0, <1>4 DEF RescheduleGet, RescheduleRemove, RescheduleAdd, Run
<1>5. ASSUME NEW r \in Rules, ReleaseInstance(r) PROVE RunWindowOfItsTiming'
  BY <1>0, <1>5 DEF ReleaseInstance, NoRun
<1>6. ASSUME Stop PROVE RunWindowOfItsTiming'
  BY <1>6 DEF Stop, NoRun
<1>7. ASSUME UNCHANGED run PROVE RunWindowOfItsTiming'
  BY <1>7
<1> QED
  BY <1>1, <1>2, <1>3, <1>4, <1>5, <1>6, <1>7
  DEF Next, RuleStep, vars, RulesCreate, RulesUpdate, Save, RulesDelete, UserDelete,
      UnregisterGet, UnregisterRemove, SyncGet, SyncRemove, SyncAdd,
      RegisterBootstrapJobs, Tick, Halt
-----------------------------------------------------------------------------
LEMMA Invariance == Spec => []IInv
<1>1. Init => IInv
  BY TypeInit DEF Init, IInv, RunWindowOfItsTiming, NoRun
<1>2. IInv /\ [Next]_vars => IInv'
  BY TypeInvStep, RunWindowStep DEF IInv
<1> QED BY <1>1, <1>2, PTL DEF Spec

\* Every reachable state is well typed, whatever the edits, runs and restarts.
THEOREM TypeCorrect == Spec => []TypeOK
BY Invariance, PTL DEF IInv, TypeInv

\* The window a run contests belongs to the timing in its snapshot (book_rule).
THEOREM RunWindows == Spec => []RunWindowOfItsTiming
BY Invariance, PTL DEF IInv

\* Only a deleted rule is unregistered, so that UnregisterRemove takes no active
\* rule's job.
Unregistered == \A r \in Rules : del[r] # "idle" => rule[r] = "deleted"

LEMMA UnregisteredStep == TypeInv /\ Unregistered /\ [Next]_vars => Unregistered'
<1> SUFFICES ASSUME TypeInv, Unregistered, [Next]_vars PROVE Unregistered'
  OBVIOUS
<1> USE DEF Unregistered
<1>0. rule \in [Rules -> Timings \cup {"unborn", "deleted"}]
      /\ del \in [Rules -> {"idle", "get", "remove"}] /\ "deleted" \notin Timings
  BY TimingAssumption DEF TypeInv, TypeOK
<1>1. ASSUME NEW r \in Rules, NEW t \in Timings, RulesCreate(r, t) \/ RulesUpdate(r, t)
      PROVE  Unregistered'
  BY <1>0, <1>1 DEF RulesCreate, RulesUpdate, Save, Active
<1>2. ASSUME NEW r \in Rules, \/ RulesDelete(r) \/ UserDelete(r)
                              \/ UnregisterGet(r) \/ UnregisterRemove(r)
      PROVE  Unregistered'
  BY <1>0, <1>2 DEF RulesDelete, UserDelete, UnregisterGet, UnregisterRemove
<1>3. CASE Stop
  BY <1>3 DEF Stop
<1>4. ASSUME UNCHANGED <<rule, del>> PROVE Unregistered'
  BY <1>4
<1> QED
  BY <1>1, <1>2, <1>3, <1>4
  DEF Next, RuleStep, vars, Dispatch, StartRun, FinishRun, RescheduleGet, RescheduleRemove,
      RescheduleAdd, ReleaseInstance, SyncGet, SyncRemove, SyncAdd, RegisterBootstrapJobs,
      Tick, Halt

\* What may cost an active rule its job (OnlySkippedFiringLosesJob).
SkippedFiring(r) ==
  /\ run[r].pc \in {"remove", "done"} /\ UNCHANGED <<run, http, del>>
  /\ \E j \in JobOf(r) : Due(j)

Answering(r) == up' /\ Active(r)' => AnsweredFor(r)' \/ SkippedFiring(r)

\* What remove_job and add_job leave of a rule's job, and of another rule's.
LEMMA JobsTouched ==
  ASSUME NEW r, NEW s, NEW w
  PROVE  /\ jobs' = Removed(s) /\ s # r => JobOf(r)' = JobOf(r)
         /\ jobs' = Added(s, w) /\ s # r => JobOf(r)' = JobOf(r)
         /\ jobs' = Added(r, w) => JobOf(r)' # {}
<1>1. jobs' = Removed(s) /\ s # r => JobOf(r)' = JobOf(r)
  BY DEF Removed, JobOf
<1>2. jobs' = Added(s, w) /\ s # r => JobOf(r)' = JobOf(r)
  BY DEF Added, JobOf
<1>3. ASSUME jobs' = Added(r, w) PROVE JobOf(r)' # {}
  <2>1. CASE JobOf(r) = {}
    <3>1. [rule |-> r, window |-> w] \in jobs'
      BY <1>3, <2>1 DEF Added
    <3>2. [rule |-> r, window |-> w] \in JobOf(r)'
      BY <3>1 DEF JobOf
    <3> QED BY <3>2
  <2>2. CASE JobOf(r) # {}
    BY <1>3, <2>2 DEF Added, JobOf
  <2> QED BY <2>1, <2>2
<1> QED BY <1>1, <1>2, <1>3

\* Each call of a registration, of a delete or of a run leaves a job or somebody
\* who will add one.
LEMMA AnsweringStep ==
  ASSUME TypeInv, Unregistered, [Next]_vars, NEW r \in Rules, up, Active(r), AnsweredFor(r)
  PROVE  Answering(r)
<1> USE DEF Answering
<1>0. /\ rule \in [Rules -> Timings \cup {"unborn", "deleted"}]
      /\ run \in [Rules -> Run] /\ http \in Sync
      /\ http.pc # "idle" => http.rule \in Rules
      /\ {"unborn", "deleted"} \cap Timings = {}
  BY TimingAssumption DEF TypeInv, TypeOK, SyncHasRule
<1>1. ASSUME UNCHANGED <<run, http>>, JobOf(r)' = JobOf(r) PROVE Answering(r)
  BY <1>1 DEF AnsweredFor
<1>2. ASSUME NEW s \in Rules, \/ RulesDelete(s) \/ UserDelete(s) \/ UnregisterGet(s)
      PROVE  Answering(r)
  BY <1>1, <1>2 DEF RulesDelete, UserDelete, UnregisterGet, JobOf
<1>3. ASSUME NEW s \in Rules, UnregisterRemove(s) PROVE Answering(r)
  <2>1. s # r
    BY <1>0, <1>3 DEF UnregisterRemove, Unregistered, Active
  <2> QED BY <1>1, <1>3, <2>1 DEF UnregisterRemove, Removed, JobOf
<1>4. ASSUME NEW s \in Rules, NEW t \in Timings, RulesCreate(s, t) \/ RulesUpdate(s, t)
      PROVE  Answering(r)
  <2>1. jobs' = jobs /\ run' = run /\ http.pc = "idle"
    BY <1>4 DEF RulesCreate, RulesUpdate, Save
  <2> QED BY <2>1 DEF AnsweredFor, JobOf
<1>5. ASSUME NEW s \in Rules, Dispatch(s) PROVE Answering(r)
  <2>1. PICK j \in JobOf(s) :
          /\ Due(j) /\ jobs' = jobs \ {j}
          /\ run' = IF run[s].pc = "idle"
                    THEN [run EXCEPT ![s] = [NoRun EXCEPT !.pc = "queued", !.window = j.window]]
                    ELSE run
    BY <1>5 DEF Dispatch
  <2>2. UNCHANGED <<http, del>>
    BY <1>5 DEF Dispatch
  <2>3. CASE s # r
    <3>1. JobOf(r)' = JobOf(r) /\ run'[r] = run[r]
      BY <1>0, <2>1, <2>3 DEF JobOf
    <3> QED BY <2>2, <3>1 DEF AnsweredFor
  <2>4. CASE s = r /\ run[r].pc = "idle"
    <3>1. run'[r].pc = "queued"
      BY <1>0, <2>1, <2>4 DEF NoRun
    <3> QED BY <3>1 DEF AnsweredFor
  <2>5. CASE s = r /\ run[r].pc # "idle"
    <3>1. run' = run /\ \E k \in JobOf(r) : Due(k)
      BY <2>1, <2>5
    <3>2. run[r].pc \in {"queued", "booking", "get", "add", "remove", "done"}
      BY <1>0, <2>5 DEF Run
    <3> QED BY <2>2, <3>1, <3>2 DEF AnsweredFor, SkippedFiring
  <2> QED BY <2>3, <2>4, <2>5
<1>6. ASSUME NEW s \in Rules,
             \/ StartRun(s) \/ FinishRun(s) \/ RescheduleGet(s)
             \/ RescheduleRemove(s) \/ RescheduleAdd(s) \/ ReleaseInstance(s)
      PROVE  Answering(r)
  <2>0. http' = http
    BY <1>6 DEF StartRun, FinishRun, RescheduleGet, RescheduleRemove, RescheduleAdd, ReleaseInstance
  <2>1. CASE s # r
    <3>1. run'[r] = run[r]
      BY <1>0, <1>6, <2>1
      DEF StartRun, FinishRun, RescheduleGet, RescheduleRemove, RescheduleAdd, ReleaseInstance
    <3>2. jobs' = jobs \/ jobs' = Removed(s) \/ jobs' = Added(s, run[s].next)
      BY <1>6
      DEF StartRun, FinishRun, RescheduleGet, RescheduleRemove, RescheduleAdd, ReleaseInstance
    <3>3. JobOf(r)' = JobOf(r)
      BY <2>1, <3>2, JobsTouched DEF JobOf
    <3> QED BY <2>0, <3>1, <3>3 DEF AnsweredFor
  <2>2. CASE s = r /\ StartRun(r)
    <3>1. run' = [run EXCEPT ![r] = run'[r]] /\ run'[r].pc = "booking"
      BY <1>0, <2>2 DEF StartRun
    <3> QED BY <3>1 DEF AnsweredFor
  <2>3. CASE s = r /\ FinishRun(r)
    <3>1. run'[r].pc = "get"
      BY <1>0, <2>3 DEF FinishRun, Run
    <3> QED BY <3>1 DEF AnsweredFor
  <2>4. CASE s = r /\ RescheduleGet(r)
    <3>1. run'[r].pc = AfterGet(r) /\ jobs' = jobs
      BY <1>0, <2>4 DEF RescheduleGet, Run
    <3> QED BY <3>1 DEF AnsweredFor, AfterGet, JobOf
  <2>5. CASE s = r /\ RescheduleRemove(r)
    <3>1. run[r].pc = "remove" /\ run'[r].pc = IF JobOf(r) = {} THEN "done" ELSE "add"
      BY <1>0, <2>5 DEF RescheduleRemove, Run
    <3> QED BY <2>0, <3>1 DEF AnsweredFor
  <2>6. CASE s = r /\ RescheduleAdd(r)
    <3>1. JobOf(r)' # {}
      BY <2>6, JobsTouched DEF RescheduleAdd
    <3> QED BY <3>1 DEF AnsweredFor
  <2>7. CASE s = r /\ ReleaseInstance(r)
    <3>1. run[r].pc = "done" /\ jobs' = jobs
      BY <2>7 DEF ReleaseInstance
    <3> QED BY <2>0, <3>1 DEF AnsweredFor, JobOf
  <2> QED BY <1>6, <2>1, <2>2, <2>3, <2>4, <2>5, <2>6, <2>7
<1>7. CASE SyncGet
  <2>1. run' = run /\ jobs' = jobs /\ http.pc = "get"
        /\ http'.rule = http.rule /\ http'.pc = AfterGet(http.rule)
    BY <1>0, <1>7 DEF SyncGet, Sync
  <2> QED BY <2>1 DEF AnsweredFor, AfterGet, JobOf
<1>8. CASE SyncRemove
  <2>1. http.pc = "remove" /\ run' = run /\ jobs' = Removed(http.rule)
        /\ http' = IF JobOf(http.rule) = {} THEN NoSync ELSE [http EXCEPT !.pc = "add"]
    BY <1>8 DEF SyncRemove
  <2>2. CASE JobOf(http.rule) = {}
    <3>1. jobs' = jobs
      BY <2>1, <2>2 DEF Removed
    <3> QED BY <2>1, <3>1 DEF AnsweredFor, JobOf
  <2>3. CASE JobOf(http.rule) # {}
    <3>1. http'.rule = http.rule /\ http'.pc = "add"
      BY <1>0, <2>1, <2>3 DEF Sync
    <3>2. http.rule # r => JobOf(r)' = JobOf(r)
      BY <2>1 DEF Removed, JobOf
    <3> QED BY <2>1, <3>1, <3>2 DEF AnsweredFor
  <2> QED BY <2>2, <2>3
<1>9. CASE SyncAdd
  <2>1. http.pc = "add" /\ run' = run /\ jobs' = Added(http.rule, http.next)
    BY <1>9 DEF SyncAdd
  <2>2. http.rule = r => JobOf(r)' # {}
    BY <2>1, JobsTouched
  <2>3. http.rule # r => JobOf(r)' = JobOf(r)
    BY <2>1, JobsTouched
  <2> QED BY <2>1, <2>2, <2>3 DEF AnsweredFor
<1>10. CASE Stop \/ RegisterBootstrapJobs
  BY <1>10 DEF Stop, RegisterBootstrapJobs
<1>11. CASE Tick \/ Halt \/ UNCHANGED vars
  BY <1>1, <1>11 DEF Tick, Halt, vars, JobOf
<1> QED
  BY <1>2, <1>3, <1>4, <1>5, <1>6, <1>7, <1>8, <1>9, <1>10, <1>11 DEF Next, RuleStep

\* However the jobstore calls of handlers, deletes and runs interleave, they cost
\* no active rule its job; only a firing skipped by max_instances=1 does
\* (register_rule_job, unregister_rule_job).
THEOREM RegistrationsKeepJob == Spec => OnlySkippedFiringLosesJob
<1>1. Init => Unregistered
  BY DEF Init, Unregistered
<1>2. TypeInv /\ Unregistered /\ [Next]_vars =>
        [\A r \in Rules :
           /\ up /\ Active(r) /\ AnsweredFor(r)
           /\ up' /\ Active(r)' /\ ~AnsweredFor(r)'
           => /\ run[r].pc \in {"remove", "done"} /\ UNCHANGED <<run, http, del>>
              /\ \E j \in JobOf(r) : Due(j)]_vars
  BY AnsweringStep DEF Answering, SkippedFiring
<1>3. TypeInv /\ Unregistered /\ [Next]_vars => TypeInv' /\ Unregistered'
  BY TypeInvStep, UnregisteredStep
<1> QED
  BY <1>1, <1>2, <1>3, TypeInit, PTL DEF Spec, OnlySkippedFiringLosesJob

\* After a deletion the rule's job may go but never comes back, and no run that
\* had not read the row before it books or reschedules (book_rule's row check).
THEOREM DeletionIsFinal == Spec => DeletedRuleWindsDown
<1> DEFINE WindsDown(r) ==
      rule[r] = "deleted" /\ run[r].pc \in {"idle", "queued"} /\ http.rule # r
        => /\ JobOf(r)' \subseteq JobOf(r)
           /\ run'[r].pc \in {"idle", "queued"}
<1>1. ASSUME TypeInv, [Next]_vars, NEW r \in Rules,
             rule[r] = "deleted", run[r].pc \in {"idle", "queued"}, http.rule # r
      PROVE  JobOf(r)' \subseteq JobOf(r) /\ run'[r].pc \in {"idle", "queued"}
  <2>0. ~Active(r) /\ run \in [Rules -> Run]
    BY <1>1, TimingAssumption DEF Active, TypeInv, TypeOK
  <2>1. JobOf(r)' \subseteq JobOf(r)
    <3>1. ASSUME NEW s \in Rules, RescheduleAdd(s) PROVE JobOf(r)' \subseteq JobOf(r)
      BY <1>1, <3>1 DEF RescheduleAdd, Added, JobOf
    <3>2. ASSUME SyncAdd PROVE JobOf(r)' \subseteq JobOf(r)
      BY <1>1, <3>2 DEF SyncAdd, Added, JobOf
    <3>3. ASSUME RegisterBootstrapJobs PROVE JobOf(r)' \subseteq JobOf(r)
      BY <2>0, <3>3 DEF RegisterBootstrapJobs, JobOf
    <3>4. ASSUME jobs' \subseteq jobs PROVE JobOf(r)' \subseteq JobOf(r)
      BY <3>4 DEF JobOf
    <3> QED
      BY <1>1, <3>1, <3>2, <3>3, <3>4
      DEF Next, RuleStep, vars, RulesCreate, RulesUpdate, Save, RulesDelete, UserDelete,
          UnregisterGet, UnregisterRemove, Dispatch, StartRun, FinishRun, RescheduleGet,
          RescheduleRemove, ReleaseInstance, SyncGet, SyncRemove, Stop, Tick, Halt, Removed
  <2>2. run'[r].pc \in {"idle", "queued"}
    <3>1. ASSUME NEW s \in Rules, Dispatch(s) PROVE run'[r].pc \in {"idle", "queued"}
      BY <1>1, <2>0, <3>1 DEF Dispatch, NoRun
    <3>2. ASSUME NEW s \in Rules, StartRun(s) PROVE run'[r].pc \in {"idle", "queued"}
      BY <1>1, <2>0, <3>2 DEF StartRun, NoRun
    <3>3. ASSUME NEW s \in Rules,
                 FinishRun(s) \/ RescheduleGet(s) \/ RescheduleRemove(s) \/ RescheduleAdd(s)
          PROVE run'[r].pc \in {"idle", "queued"}
      BY <1>1, <2>0, <3>3 DEF FinishRun, RescheduleGet, RescheduleRemove, RescheduleAdd
    <3>4. ASSUME NEW s \in Rules, ReleaseInstance(s) PROVE run'[r].pc \in {"idle", "queued"}
      BY <1>1, <2>0, <3>4 DEF ReleaseInstance, NoRun
    <3>5. ASSUME Stop PROVE run'[r].pc \in {"idle", "queued"}
      BY <3>5 DEF Stop, NoRun
    <3>6. ASSUME UNCHANGED run PROVE run'[r].pc \in {"idle", "queued"}
      BY <1>1, <3>6
    <3> QED
      BY <1>1, <3>1, <3>2, <3>3, <3>4, <3>5, <3>6
      DEF Next, RuleStep, vars, RulesCreate, RulesUpdate, Save, RulesDelete, UserDelete,
          UnregisterGet, UnregisterRemove, SyncGet, SyncRemove, SyncAdd,
          RegisterBootstrapJobs, Tick, Halt
  <2> QED BY <2>1, <2>2
<1>2. TypeInv /\ [Next]_vars => [\A r \in Rules : WindsDown(r)]_vars
  BY <1>1
<1>3. IInv => TypeInv
  BY DEF IInv
<1> QED BY <1>2, <1>3, Invariance, PTL DEF Spec, DeletedRuleWindsDown
-----------------------------------------------------------------------------
(* The calm behaviours: every rule that is active stays on course. *)

Epoch == boots + edits

\* The window w of rule r was contested.
Ran(r, w) == \E b \in ran : b.rule = r /\ b.window = w

\* Every window before w was contested, none since the last edit or boot is w
\* or later, and the job for w is not overdue.
Pending(r, w) ==
  /\ w \in Opens[rule[r]] /\ since[r] < w /\ now <= w - Lead + MaxLate
  /\ \A v \in Opens[rule[r]] : since[r] < v /\ v < w => Ran(r, v)
  /\ \A b \in ran : b.rule = r /\ b.epoch = Epoch => b.window < w

\* The run contests its window, at the timing of the row.
Contested(r) ==
  /\ run[r].timing = rule[r] /\ run[r].window \in Opens[rule[r]]
  /\ since[r] < run[r].window
  /\ run[r].started <= run[r].window - Lead + MaxLate
  /\ now <= run[r].started + MaxRun
  /\ \A v \in Opens[rule[r]] : since[r] < v /\ v <= run[r].window => Ran(r, v)
  /\ \A b \in ran : b.rule = r /\ b.epoch = Epoch => b.window <= run[r].window

\* Where an active rule is between two of its windows.
Saved(r) ==
  /\ http.rule = r /\ run[r].pc = "idle" /\ since[r] = now
  /\ First(rule[r], now, http.next)
  /\ \A j \in JobOf(r) : ~Due(j)
  /\ http.pc = "remove" => JobOf(r) # {}
  /\ http.pc = "add" => JobOf(r) = {}
  /\ \A b \in ran : b.rule = r => b.epoch # Epoch

Waiting(r) ==
  /\ http.rule # r /\ run[r].pc = "idle"
  /\ \E w \in Windows : JobOf(r) = {[rule |-> r, window |-> w]} /\ Pending(r, w)

Queued(r) ==
  /\ http.rule # r /\ run[r].pc = "queued" /\ JobOf(r) = {}
  /\ Pending(r, run[r].window)

Booking(r) ==
  /\ http.rule # r /\ run[r].pc = "booking" /\ JobOf(r) = {}
  /\ Contested(r)

Rolling(r) ==
  /\ http.rule # r /\ run[r].pc \in {"get", "add"} /\ JobOf(r) = {}
  /\ Pending(r, run[r].next) /\ now < run[r].next - Lead

Rolled(r) ==
  /\ http.rule # r /\ run[r].pc = "done"
  /\ JobOf(r) = {[rule |-> r, window |-> run[r].next]}
  /\ Pending(r, run[r].next) /\ now < run[r].next - Lead

OnCourse(r) == Saved(r) \/ Waiting(r) \/ Queued(r) \/ Booking(r) \/ Rolling(r) \/ Rolled(r)

\* A run is never early, and comes back past its window.
Punctual(r) ==
  /\ run[r].pc = "queued" => run[r].window - Lead <= now
  /\ run[r].pc = "booking" => run[r].window - Lead <= run[r].started
  /\ run[r].pc \in {"get", "remove", "add"} => run[r].window < run[r].next

\* Whatever the runs and the edits do.
Ordered ==
  /\ \A b \in ran : b.epoch <= Epoch
  /\ ~up => http = NoSync /\ jobs = {} /\ \A r \in Rules : run[r] = NoRun
  /\ http.pc = "idle" => http.rule = NoRule
  /\ \A r \in Rules : del[r] # "idle" => rule[r] = "deleted"
  /\ \A r \in Rules : rule[r] = "unborn" =>
       JobOf(r) = {} /\ run[r].pc = "idle" /\ http.rule # r /\ \A b \in ran : b.rule # r

\* The inductive invariant of the calm behaviours.
CalmInv ==
  /\ TypeInv /\ JobIdsUnique /\ Ordered
  /\ calm => \A r \in Rules : Punctual(r)
  /\ calm /\ up => \A r \in Rules : Active(r) => OnCourse(r)

\* What a step of other actors leaves rule r.
Apart(r) ==
  /\ now' = now /\ run'[r] = run[r] /\ rule'[r] = rule[r] /\ since'[r] = since[r]
  /\ JobOf(r)' = JobOf(r)
  /\ http' = http \/ (http.rule # r /\ http'.rule # r)
  /\ {b \in ran' : b.rule = r} = {b \in ran : b.rule = r}
  /\ Epoch' = Epoch \/ \A b \in ran : b.rule = r => b.epoch # Epoch'

LEMMA OpensAreInstants == \A t \in Timings : Opens[t] \subseteq Nat
<1> SUFFICES ASSUME NEW t \in Timings PROVE Opens[t] \subseteq Nat
  OBVIOUS
<1>1. Opens[t] \subseteq 1..2 * MaxTime
  BY TimingAssumption
<1> QED
  BY <1>1, BoundAssumption

LEMMA NextOpenIs ==
  ASSUME NEW t \in Timings, NEW i \in Int, -1 <= i, i <= MaxTime, NEW w, First(t, i, w)
  PROVE  NextOpen(t, i) = w
<1>1. First(t, i, NextOpen(t, i))
  BY NextOpenIsFirst
<1> QED
  BY <1>1, OpensAreInstants DEF First

\* The numbers that the phases compare.
LEMMA Numbers ==
  ASSUME TypeInv
  PROVE  /\ now \in Nat /\ Epoch \in Nat
         /\ {Lead, Offset, Threshold, MaxLate, MaxRun} \subseteq Nat
         /\ \A r \in Rules : /\ since[r] \in Nat /\ run[r].window \in Nat
                             /\ run[r].next \in Nat /\ run[r].started \in Nat
         /\ \A b \in ran : b.window \in Nat /\ b.epoch \in Nat
<1>1. /\ now \in Nat /\ boots \in Nat /\ edits \in Nat
      /\ {Lead, Offset, Threshold, MaxLate, MaxRun} \subseteq Nat /\ Windows \subseteq Nat
  BY BoundAssumption DEF TypeInv, TypeOK, Windows
<1>2. /\ since \in [Rules -> Nat] /\ run \in [Rules -> Run]
      /\ ran \subseteq [rule : Rules, window : Windows, epoch : Nat]
  BY DEF TypeInv, TypeOK
<1>3. \A r \in Rules : run[r].window \in Nat /\ run[r].next \in Nat /\ run[r].started \in Nat
  BY <1>1, <1>2 DEF Run
<1>4. \A b \in ran : b.window \in Nat /\ b.epoch \in Nat
  BY <1>1, <1>2
<1>5. \A r \in Rules : since[r] \in Nat
  BY <1>2
<1>6. Epoch \in Nat
  BY <1>1 DEF Epoch
<1> QED
  BY <1>1, <1>3, <1>4, <1>5, <1>6

LEMMA ApartKeeps ==
  ASSUME NEW r \in Rules, Apart(r)
  PROVE  /\ Punctual(r) => Punctual(r)'
         /\ OnCourse(r) => OnCourse(r)'
         /\ Active(r)' <=> Active(r)
<1> USE DEF Apart
<1>1. Active(r)' <=> Active(r)
  BY DEF Active
<1>2. Punctual(r) => Punctual(r)'
  BY DEF Punctual
<1>3. \A w : Ran(r, w) => Ran(r, w)'
  <2> SUFFICES ASSUME NEW w, NEW b \in ran, b.rule = r, b.window = w PROVE Ran(r, w)'
    BY DEF Ran
  <2>1. b \in ran'
    OBVIOUS
  <2> QED
    BY <2>1 DEF Ran
<1>4. \A b \in ran' : b.rule = r /\ b.epoch = Epoch' => b \in ran /\ b.epoch = Epoch
  OBVIOUS
<1>5. \A w : Pending(r, w) => Pending(r, w)'
  BY <1>3, <1>4 DEF Pending
<1>6. Contested(r) => Contested(r)'
  BY <1>3, <1>4 DEF Contested
<1>7. Saved(r) => Saved(r)'
  BY <1>4 DEF Saved, Due, First
<1>8. /\ Waiting(r) => Waiting(r)'
      /\ Queued(r) => Queued(r)'
      /\ Booking(r) => Booking(r)'
      /\ Rolling(r) => Rolling(r)'
      /\ Rolled(r) => Rolled(r)'
  BY <1>5, <1>6 DEF Waiting, Queued, Booking, Rolling, Rolled
<1> QED
  BY <1>1, <1>2, <1>7, <1>8 DEF OnCourse

\* A step about rule s leaves every other rule where it is.
LEMMA OtherRules ==
  ASSUME TypeInv, Ordered, NEW s \in Rules, RuleStep(s), NEW r \in Rules, r # s
  PROVE  Apart(r)
<1>0. /\ run \in [Rules -> Run] /\ rule \in [Rules -> Timings \cup {"unborn", "deleted"}]
      /\ since \in [Rules -> Nat] /\ boots \in Nat /\ edits \in Nat
      /\ NoRule \notin Rules /\ jobs \subseteq Job
  BY TimingAssumption, BoundAssumption DEF TypeInv, TypeOK
<1>1. ASSUME NEW t \in Timings, Save(s, t), edits' = edits \/ edits' = edits + 1
      PROVE  Apart(r)
  <2>1. /\ now' = now /\ run' = run /\ jobs' = jobs /\ ran' = ran /\ boots' = boots
        /\ rule'[r] = rule[r] /\ since'[r] = since[r]
    BY <1>0, <1>1 DEF Save
  <2>2. http.rule # r /\ http'.rule # r
    BY <1>0, <1>1 DEF Save, Ordered
  <2>3. Epoch' = Epoch \/ \A b \in ran : b.epoch # Epoch'
    <3>1. \A b \in ran : b.epoch \in Nat /\ b.epoch <= boots + edits
      BY Numbers DEF Ordered, Epoch
    <3> QED
      BY <1>0, <1>1, <2>1, <3>1 DEF Epoch
  <2> QED
    BY <2>1, <2>2, <2>3 DEF Apart, JobOf
<1>2. ASSUME NEW t \in Timings, RulesCreate(s, t) \/ RulesUpdate(s, t) PROVE Apart(r)
  BY <1>1, <1>2 DEF RulesCreate, RulesUpdate
<1>3. CASE RulesDelete(s) \/ UserDelete(s) \/ UnregisterGet(s)
  BY <1>0, <1>3 DEF RulesDelete, UserDelete, UnregisterGet, Apart, JobOf, Epoch
<1>4. CASE UnregisterRemove(s)
  BY <1>0, <1>4 DEF UnregisterRemove, Removed, Apart, JobOf, Epoch
<1>5. CASE Dispatch(s)
  BY <1>0, <1>5 DEF Dispatch, Apart, JobOf, Epoch
<1>6. CASE StartRun(s)
  <2>1. /\ UNCHANGED <<now, boots, edits, rule, jobs, http, since>> /\ run'[r] = run[r]
        /\ \/ ran' = ran
           \/ \E b : b.rule = s /\ ran' = ran \cup {b}
    <3>1. CASE ~Active(s)
      BY <1>0, <1>6, <3>1 DEF StartRun
    <3>2. CASE Active(s)
      <4> DEFINE w == TargetWindow(s, run[s].window)
                 b == [rule |-> s, window |-> w, epoch |-> boots + edits]
      <4>1. b.rule = s /\ ran' = ran \cup {b} /\ run'[r] = run[r]
        BY <1>0, <1>6, <3>2 DEF StartRun
      <4> HIDE DEF b
      <4> QED
        BY <1>6, <4>1 DEF StartRun
    <3> QED
      BY <3>1, <3>2
  <2> QED
    BY <2>1 DEF Apart, JobOf, Epoch
<1>7. CASE FinishRun(s) \/ RescheduleGet(s) \/ ReleaseInstance(s)
  BY <1>0, <1>7 DEF FinishRun, RescheduleGet, ReleaseInstance, Apart, JobOf, Epoch
<1>8. CASE RescheduleRemove(s) \/ RescheduleAdd(s)
  BY <1>0, <1>8 DEF RescheduleRemove, RescheduleAdd, Removed, Added, Apart, JobOf, Epoch
<1> QED
  BY <1>2, <1>3, <1>4, <1>5, <1>6, <1>7, <1>8 DEF RuleStep

\* So does the handler that saves rule http.rule.
LEMMA OtherRulesSync ==
  ASSUME TypeInv, Ordered, SyncGet \/ SyncRemove \/ SyncAdd, NEW r \in Rules, r # http.rule
  PROVE  Apart(r)
<1>0. jobs \subseteq Job /\ NoRule \notin Rules /\ http \in Sync
  BY TimingAssumption DEF TypeInv, TypeOK
<1>1. CASE SyncGet
  BY <1>0, <1>1 DEF SyncGet, Sync, Apart, JobOf, Epoch
<1>2. CASE SyncRemove
  BY <1>0, <1>2 DEF SyncRemove, Sync, NoSync, Removed, Apart, JobOf, Epoch
<1>3. CASE SyncAdd
  BY <1>0, <1>3 DEF SyncAdd, Sync, NoSync, Added, Apart, JobOf, Epoch
<1> QED
  BY <1>1, <1>2, <1>3

\* The window a rule's pending job carries is the one its run contests.
LEMMA CarriedWindow ==
  ASSUME TypeInv, NEW r \in Rules, Active(r), run[r].window \in Opens[rule[r]]
  PROVE  TargetWindow(r, run[r].window) = run[r].window
<1>1. rule[r] \in Timings /\ run[r].window \in Windows /\ run[r].window \in Nat
  BY Numbers DEF Active, TypeInv, TypeOK, Run
<1>2. First(rule[r], run[r].window - 1, run[r].window)
  BY <1>1, OpensAreInstants DEF First
<1>3. NextOpen(rule[r], run[r].window - 1) = run[r].window
  BY <1>1, <1>2, NextOpenIs, BoundAssumption DEF Windows
<1> QED
  BY <1>3 DEF TargetWindow

\* A save of a quiet rule puts it into the handler's hands.
LEMMA SaveOnCourse ==
  ASSUME TypeInv, Ordered, NEW r \in Rules, NEW t \in Timings,
         RulesCreate(r, t) \/ (RulesUpdate(r, t) /\ ~EditsBusyRule)
  PROVE  Punctual(r)' /\ Saved(r)'
<1>0. /\ now \in 1..Horizon /\ boots \in Nat /\ edits \in Nat /\ rule \in [Rules -> Timings \cup {"unborn", "deleted"}]
      /\ since \in [Rules -> Nat]
  BY BoundAssumption DEF TypeInv, TypeOK
<1>1. /\ http.pc = "idle" /\ rule'[r] = t /\ since'[r] = now
      /\ http' = [pc |-> "get", rule |-> r, next |-> NextOpen(t, now)]
      /\ UNCHANGED <<now, boots, jobs, run, ran>>
  BY <1>0 DEF RulesCreate, RulesUpdate, Save
<1>2. now <= MaxTime
  <2>1. now \in 0..Horizon + Offset
    BY <1>0, BoundAssumption
  <2>2. PICK w \in Opens[t] : now < w /\ w <= MaxTime
    BY <2>1, TimingAssumption
  <2>3. w \in Nat
    BY OpensAreInstants
  <2> QED
    BY <1>0, <2>2, <2>3, BoundAssumption
<1>3. First(t, now, NextOpen(t, now))
  BY <1>0, <1>2, NextOpenIsFirst
<1>4. run[r].pc = "idle" /\ \A j \in JobOf(r) : ~Due(j)
  <2>1. CASE RulesCreate(r, t)
    BY <2>1 DEF RulesCreate, Ordered
  <2>2. CASE RulesUpdate(r, t) /\ ~EditsBusyRule
    <3>1. edits' # edits
      BY <1>0, <2>2 DEF RulesUpdate
    <3> QED
      BY <1>1, <2>2, <3>1 DEF EditsBusyRule, Quiet
  <2> QED
    BY <2>1, <2>2
<1>5. \A b \in ran : b.rule = r => b.epoch # Epoch'
  <2>1. CASE RulesCreate(r, t)
    BY <2>1 DEF RulesCreate, Ordered
  <2>2. CASE RulesUpdate(r, t)
    <3>1. edits' = edits + 1
      BY <2>2 DEF RulesUpdate
    <3>2. \A b \in ran : b.epoch \in Nat /\ b.epoch <= boots + edits
      BY Numbers DEF Ordered, Epoch
    <3> QED
      BY <1>0, <1>1, <3>1, <3>2 DEF Epoch
  <2> QED
    BY <2>1, <2>2
<1>6. Punctual(r)'
  BY <1>1, <1>4 DEF Punctual
<1>7. \A j \in JobOf(r)' : ~Due(j)'
  BY <1>1, <1>4 DEF JobOf, Due
<1>8. First(rule[r], now, http.next)'
  BY <1>1, <1>3 DEF First
<1> QED
  BY <1>1, <1>4, <1>5, <1>6, <1>7, <1>8 DEF Saved

\* The scheduler takes the one job of a rule that no run is holding.
LEMMA DispatchOnCourse ==
  ASSUME TypeInv, NEW r \in Rules, Punctual(r), Active(r) => OnCourse(r), Dispatch(r)
  PROVE  Punctual(r)' /\ (Active(r) => Queued(r)')
<1>0. run \in [Rules -> Run]
  BY DEF TypeInv, TypeOK
<1>1. PICK j \in JobOf(r) :
        /\ Due(j) /\ jobs' = jobs \ {j}
        /\ run' = IF run[r].pc = "idle"
                  THEN [run EXCEPT ![r] = [NoRun EXCEPT !.pc = "queued", !.window = j.window]]
                  ELSE run
  BY DEF Dispatch
<1>2. UNCHANGED <<now, rule, http, since, ran, boots, edits>>
  BY DEF Dispatch
<1>3. Punctual(r)'
  <2>1. CASE run[r].pc = "idle"
    <3>1. run'[r].pc = "queued" /\ run'[r].window = j.window
      BY <1>0, <1>1, <2>1 DEF NoRun
    <3> QED
      BY <1>1, <1>2, <3>1 DEF Punctual, Due
  <2>2. CASE run[r].pc # "idle"
    BY <1>1, <1>2, <2>2 DEF Punctual
  <2> QED
    BY <2>1, <2>2
<1>4. ASSUME Active(r) PROVE Queued(r)'
  <2>1. CASE Waiting(r)
    <3>1. PICK w \in Windows : JobOf(r) = {[rule |-> r, window |-> w]} /\ Pending(r, w)
      BY <2>1 DEF Waiting
    <3>2. j = [rule |-> r, window |-> w] /\ j.window = w
      BY <3>1
    <3>3. run'[r].pc = "queued" /\ run'[r].window = w
      BY <1>0, <1>1, <2>1, <3>2 DEF Waiting, NoRun
    <3>4. JobOf(r)' = {}
      BY <1>1, <3>1, <3>2 DEF JobOf
    <3>5. Pending(r, w)'
      BY <1>2, <3>1 DEF Pending, Ran, Epoch
    <3> QED
      BY <1>2, <2>1, <3>3, <3>4, <3>5 DEF Queued, Waiting
  <2>2. CASE Saved(r)
    BY <1>1, <2>2 DEF Saved
  <2>3. CASE Queued(r) \/ Booking(r) \/ Rolling(r)
    BY <1>1, <2>3 DEF Queued, Booking, Rolling
  <2>4. CASE Rolled(r)
    <3>1. j.window = run[r].next
      BY <1>1, <2>4 DEF Rolled
    <3>2. run[r].next - Lead <= now /\ now < run[r].next - Lead
      BY <1>1, <2>4, <3>1 DEF Rolled, Due
    <3> QED
      BY <3>2, Numbers
  <2> QED
    BY <1>4, <2>1, <2>2, <2>3, <2>4 DEF OnCourse
<1> QED
  BY <1>3, <1>4

\* A queued run contests the window it carries, however late it starts.
LEMMA StartOnCourse ==
  ASSUME TypeInv, NEW r \in Rules, Punctual(r), Active(r) => OnCourse(r), StartRun(r)
  PROVE  Punctual(r)' /\ (Active(r) => Booking(r)')
<1>0. run \in [Rules -> Run] /\ run[r].pc = "queued"
  BY DEF TypeInv, TypeOK, StartRun
<1>1. UNCHANGED <<now, rule, jobs, http, since, boots, edits>>
  BY DEF StartRun
<1>2. CASE ~Active(r)
  <2>1. run'[r].pc = "idle"
    BY <1>0, <1>2 DEF StartRun, NoRun
  <2> QED
    BY <1>2, <2>1 DEF Punctual
<1>3. CASE Active(r)
  <2> DEFINE w == run[r].window
             b == [rule |-> r, window |-> w, epoch |-> boots + edits]
  <2>1. Queued(r)
    BY <1>0, <1>3 DEF OnCourse, Saved, Waiting, Queued, Booking, Rolling, Rolled
  <2>2. Pending(r, w) /\ w \in Opens[rule[r]]
    BY <2>1 DEF Queued, Pending
  <2>3. TargetWindow(r, w) = w
    BY <1>3, <2>2, CarriedWindow
  <2>4. /\ run'[r] = [pc |-> "booking", window |-> w, timing |-> rule[r],
                      started |-> now, next |-> 0]
        /\ ran' = ran \cup {b}
    BY <1>0, <1>3, <2>3 DEF StartRun
  <2>5. /\ run'[r].pc = "booking" /\ run'[r].window = w /\ run'[r].timing = rule[r]
        /\ run'[r].started = now
    BY <2>4
  <2>6. now \in Nat /\ w \in Nat /\ MaxRun \in Nat /\ Lead \in Nat
    BY Numbers
  <2>7. Punctual(r)'
    BY <1>0, <2>5 DEF Punctual
  <2>8. \A v \in Opens[rule[r]] : since[r] < v /\ v <= w => Ran(r, v)'
    <3> SUFFICES ASSUME NEW v \in Opens[rule[r]], since[r] < v, v <= w PROVE Ran(r, v)'
      OBVIOUS
    <3>1. CASE v = w
      <4>1. b \in ran' /\ b.rule = r /\ b.window = w
        BY <2>4
      <4> QED
        BY <3>1, <4>1 DEF Ran
    <3>2. CASE v # w
      <4>1. v \in Nat
        BY <1>3, OpensAreInstants DEF Active
      <4>2. Ran(r, v)
        BY <2>2, <2>6, <3>2, <4>1 DEF Pending
      <4> QED
        BY <2>4, <4>2 DEF Ran
    <3> QED
      BY <3>1, <3>2
  <2>9. \A c \in ran' : c.rule = r /\ c.epoch = Epoch => c.window <= w
    <3> SUFFICES ASSUME NEW c \in ran', c.rule = r, c.epoch = Epoch PROVE c.window <= w
      OBVIOUS
    <3>1. CASE c \in ran
      BY <2>2, <2>6, <3>1, Numbers DEF Pending
    <3>2. CASE c = b
      BY <2>6, <3>2
    <3> QED
      BY <2>4, <3>1, <3>2
  <2>10. now <= w - Lead + MaxLate /\ since[r] < w
    BY <2>2 DEF Pending
  <2> HIDE DEF w, b
  <2>11. Contested(r)'
    <3>1. now <= now + MaxRun
      BY <2>6
    <3> QED
      BY <1>1, <2>2, <2>5, <2>8, <2>9, <2>10, <3>1 DEF Contested, Epoch
  <2>12. Booking(r)'
    BY <1>1, <2>1, <2>5, <2>11 DEF Booking, Queued, JobOf
  <2> QED
    BY <2>7, <2>12
<1> QED
  BY <1>2, <1>3

\* A run that did not end early re-registers its rule for the next window,
\* while there is time.
LEMMA FinishOnCourse ==
  ASSUME TypeInv, NEW r \in Rules, Punctual(r), Active(r) => OnCourse(r), FinishRun(r),
         ~EndsEarly(r)
  PROVE  Punctual(r)' /\ (Active(r) => Rolling(r)')
<1> DEFINE w == run[r].window
           n == NextOpen(run[r].timing, now + Offset)
<1>0. run \in [Rules -> Run] /\ run[r].pc = "booking" /\ run[r].timing \in Timings
  BY DEF TypeInv, TypeOK, FinishRun, RunTimed
<1>1. UNCHANGED <<now, rule, jobs, http, since, ran, boots, edits>>
  BY DEF FinishRun
<1>2. /\ run'[r].pc = "get" /\ run'[r].next = n /\ run'[r].window = w
      /\ run'[r].timing = run[r].timing
  BY <1>0 DEF FinishRun, Run
<1>3. /\ {now, w, n, run[r].started, Lead, Offset, Threshold, MaxLate, MaxRun} \subseteq Nat
      /\ Threshold <= Offset /\ Lead <= MaxRun /\ Offset <= Lead /\ Lead <= MaxLate
  <2>1. now + Offset \in Int /\ -1 <= now + Offset /\ now + Offset <= Horizon + Offset
    BY Numbers, BoundAssumption DEF TypeInv, TypeOK
  <2>2. n \in Nat
    BY <1>0, <2>1, NextOpenInRange, BoundAssumption DEF Windows
  <2> HIDE DEF n
  <2> QED
    BY <2>2, Numbers, BoundAssumption, CalmAssumption
<1>4. First(run[r].timing, now + Offset, n)
  <2>1. now + Offset \in 0..Horizon + Offset
    BY <1>3, BoundAssumption DEF TypeInv, TypeOK
  <2>2. PICK v \in Opens[run[r].timing] : now + Offset < v /\ v <= MaxTime
    BY <1>0, <2>1, TimingAssumption
  <2>3. v \in Nat
    BY <1>0, <2>2, OpensAreInstants
  <2>4. now + Offset \in Int /\ -1 <= now + Offset /\ now + Offset <= MaxTime
    BY <1>3, <2>2, <2>3, BoundAssumption
  <2> QED
    BY <1>0, <2>4, NextOpenIsFirst
<1> HIDE DEF n, w
<1>5. w < n
  <2>1. ~(now < w - Threshold /\ now < run[r].started + MaxRun)
    BY <1>0, <1>2 DEF EndsEarly, w
  <2>2. w - Lead <= run[r].started
    BY <1>0 DEF Punctual, w
  <2>3. now + Offset < n
    BY <1>4 DEF First
  <2> QED
    BY <1>3, <2>1, <2>2, <2>3
<1>6. Punctual(r)'
  BY <1>2, <1>5 DEF Punctual
<1>7. ASSUME Active(r) PROVE Rolling(r)'
  <2>1. Booking(r)
    BY <1>0, <1>7 DEF OnCourse, Saved, Waiting, Queued, Booking, Rolling, Rolled
  <2>2. Contested(r) /\ rule[r] = run[r].timing /\ w \in Opens[rule[r]] /\ since[r] < w
    BY <2>1 DEF Booking, Contested, w
  <2>3. n \in Opens[rule[r]] /\ now + Offset < n /\ \A v \in Opens[rule[r]] : now + Offset < v => n <= v
    BY <1>4, <2>2 DEF First
  <2>4. now + Lead <= w + MaxLate + MaxRun
    <3>1. run[r].started <= w - Lead + MaxLate /\ now <= run[r].started + MaxRun
      BY <2>2 DEF Contested, w
    <3> QED
      BY <1>3, <3>1
  <2>5. \A v \in Opens[rule[r]] : w < v => w + MaxLate + MaxRun < v
    BY <1>0, <2>2, CalmAssumption
  <2>6. now < n - Lead
    BY <1>3, <1>5, <2>3, <2>4, <2>5
  <2>7. since[r] < n /\ now <= n - Lead + MaxLate
    BY <1>3, <1>5, <2>2, <2>6, Numbers
  <2>8. \A v \in Opens[rule[r]] : since[r] < v /\ v < n => Ran(r, v)
    <3> SUFFICES ASSUME NEW v \in Opens[rule[r]], since[r] < v, v < n PROVE Ran(r, v)
      OBVIOUS
    <3>1. v \in Nat
      BY <1>7, OpensAreInstants DEF Active
    <3>2. v <= w
      BY <1>3, <2>3, <2>4, <2>5, <3>1
    <3> QED
      BY <2>2, <3>2 DEF Contested, w
  <2>9. \A b \in ran : b.rule = r /\ b.epoch = Epoch => b.window < n
    <3> SUFFICES ASSUME NEW b \in ran, b.rule = r, b.epoch = Epoch PROVE b.window < n
      OBVIOUS
    <3>1. b.window <= w /\ b.window \in Nat
      BY <2>2, Numbers DEF Contested, w
    <3> QED
      BY <1>3, <1>5, <3>1
  <2>10. Pending(r, n)
    BY <2>3, <2>7, <2>8, <2>9 DEF Pending
  <2>11. Pending(r, run[r].next)'
    BY <1>1, <1>2, <2>10 DEF Pending, Ran, Epoch
  <2> QED
    BY <1>1, <1>2, <2>1, <2>6, <2>11 DEF Rolling, Booking, JobOf
<1> QED
  BY <1>6, <1>7

\* With no job of the rule in the store, a reschedule is get_job and add_job.
LEMMA RescheduleOnCourse ==
  ASSUME TypeInv, NEW r \in Rules, Punctual(r), Active(r) => OnCourse(r),
         RescheduleGet(r) \/ RescheduleRemove(r) \/ RescheduleAdd(r) \/ ReleaseInstance(r)
  PROVE  Punctual(r)' /\ (Active(r) => OnCourse(r)')
<1>0. run \in [Rules -> Run] /\ run[r].next \in Windows
  BY DEF TypeInv, TypeOK, Run
<1>1. UNCHANGED <<now, rule, http, since, ran, boots, edits>>
  BY DEF RescheduleGet, RescheduleRemove, RescheduleAdd, ReleaseInstance
<1>2. Punctual(r)'
  BY <1>0, <1>1 DEF RescheduleGet, RescheduleRemove, RescheduleAdd, ReleaseInstance,
     AfterGet, Punctual, Run, NoRun
<1>3. ASSUME Active(r), RescheduleGet(r) PROVE OnCourse(r)'
  <2>1. Rolling(r)
    BY <1>3 DEF RescheduleGet, OnCourse, Saved, Waiting, Queued, Booking, Rolling, Rolled
  <2>2. run'[r].pc = "add" /\ run'[r].next = run[r].next /\ jobs' = jobs
    BY <1>0, <1>3, <2>1 DEF RescheduleGet, AfterGet, Rolling, Run
  <2>3. Pending(r, run[r].next)'
    BY <1>1, <2>1, <2>2 DEF Rolling, Pending, Ran, Epoch
  <2> QED
    BY <1>1, <2>1, <2>2, <2>3 DEF Rolling, JobOf, OnCourse
<1>4. ASSUME Active(r), RescheduleRemove(r) PROVE OnCourse(r)'
  BY <1>4 DEF RescheduleRemove, OnCourse, Saved, Waiting, Queued, Booking, Rolling, Rolled
<1>5. ASSUME Active(r), RescheduleAdd(r) PROVE OnCourse(r)'
  <2>1. Rolling(r)
    BY <1>5 DEF RescheduleAdd, OnCourse, Saved, Waiting, Queued, Booking, Rolling, Rolled
  <2>2. run'[r].pc = "done" /\ run'[r].next = run[r].next
    BY <1>0, <1>5 DEF RescheduleAdd, Run
  <2>3. JobOf(r)' = {[rule |-> r, window |-> run[r].next]}
    BY <1>5, <2>1 DEF RescheduleAdd, Rolling, Added, JobOf
  <2>4. Pending(r, run[r].next)'
    BY <1>1, <2>1, <2>2 DEF Rolling, Pending, Ran, Epoch
  <2> QED
    BY <1>1, <2>1, <2>2, <2>3, <2>4 DEF Rolling, Rolled, OnCourse
<1>6. ASSUME Active(r), ReleaseInstance(r) PROVE OnCourse(r)'
  <2>1. Rolled(r)
    BY <1>6 DEF ReleaseInstance, OnCourse, Saved, Waiting, Queued, Booking, Rolling, Rolled
  <2>2. run'[r].pc = "idle" /\ jobs' = jobs
    BY <1>0, <1>6 DEF ReleaseInstance, NoRun
  <2> DEFINE w == run[r].next
  <2>3. w \in Windows /\ JobOf(r)' = {[rule |-> r, window |-> w]} /\ Pending(r, w)
    BY <1>0, <2>1, <2>2 DEF Rolled, JobOf
  <2> HIDE DEF w
  <2>4. PICK v \in Windows : v = w
    BY <2>3
  <2>5. Pending(r, v)'
    BY <1>1, <2>3, <2>4 DEF Pending, Ran, Epoch
  <2> QED
    BY <1>1, <2>1, <2>2, <2>3, <2>4, <2>5 DEF Rolled, Waiting, OnCourse
<1> QED
  BY <1>2, <1>3, <1>4, <1>5, <1>6

\* The handler's registration replaces the job of the old timing.
LEMMA SyncOnCourse ==
  ASSUME TypeInv, Ordered, NEW r \in Rules, Active(r) => OnCourse(r),
         SyncGet \/ SyncRemove \/ SyncAdd, r = http.rule
  PROVE  Active(r) => OnCourse(r)'
<1> SUFFICES ASSUME Active(r) PROVE OnCourse(r)'
  OBVIOUS
<1>0. http \in Sync /\ NoRule \notin Rules /\ rule[r] \in Timings
  BY TimingAssumption DEF TypeInv, TypeOK, Active
<1>1. Saved(r)
  BY DEF OnCourse, Saved, Waiting, Queued, Booking, Rolling, Rolled
<1>2. UNCHANGED <<now, rule, run, since, ran, boots, edits>>
  BY DEF SyncGet, SyncRemove, SyncAdd
<1>3. CASE SyncGet
  <2>1. /\ http'.rule = r /\ http'.next = http.next /\ http'.pc = AfterGet(r) /\ jobs' = jobs
    BY <1>0, <1>3 DEF SyncGet, Sync
  <2> QED
    BY <1>1, <1>2, <2>1 DEF Saved, OnCourse, First, AfterGet, JobOf, Due, Epoch
<1>4. CASE SyncRemove
  <2>1. JobOf(r) # {}
    BY <1>1, <1>4 DEF SyncRemove, Saved
  <2>2. /\ http'.rule = r /\ http'.next = http.next /\ http'.pc = "add"
    BY <1>0, <1>4, <2>1 DEF SyncRemove, Sync
  <2>3. JobOf(r)' = {}
    BY <1>4 DEF SyncRemove, Removed, JobOf
  <2> QED
    BY <1>1, <1>2, <2>2, <2>3 DEF Saved, OnCourse, First, Epoch
<1>5. CASE SyncAdd
  <2> DEFINE w == http.next
  <2>1. w \in Windows /\ First(rule[r], now, w) /\ since[r] = now /\ JobOf(r) = {}
    BY <1>0, <1>1, <1>5 DEF SyncAdd, Saved, Sync
  <2>2. JobOf(r)' = {[rule |-> r, window |-> w]}
    BY <1>5, <2>1 DEF SyncAdd, Added, JobOf
  <2>3. Pending(r, w)
    <3>1. now < w /\ w \in Opens[rule[r]] /\ \A v \in Opens[rule[r]] : now < v => w <= v
      BY <2>1 DEF First
    <3>2. w \in Nat /\ \A v \in Opens[rule[r]] : v \in Nat
      BY <1>0, <3>1, OpensAreInstants
    <3>3. now <= w - Lead + MaxLate
      BY <3>1, <3>2, Numbers, CalmAssumption
    <3>4. \A v \in Opens[rule[r]] : ~(since[r] < v /\ v < w)
      BY <2>1, <3>1, <3>2, Numbers
    <3> QED
      BY <1>1, <2>1, <3>1, <3>3, <3>4 DEF Pending, Saved
  <2> HIDE DEF w
  <2>4. PICK v \in Windows : v = w
    BY <2>1
  <2>5. Pending(r, v)'
    BY <1>2, <2>3, <2>4 DEF Pending, Ran, Epoch
  <2>6. http'.rule # r /\ run'[r].pc = "idle"
    BY <1>0, <1>1, <1>2, <1>5 DEF SyncAdd, NoSync, Saved
  <2> QED
    BY <2>2, <2>4, <2>5, <2>6 DEF Waiting, OnCourse
<1> QED
  BY <1>3, <1>4, <1>5

\* The clock waits for what is due and for what is running.
LEMMA TickOnCourse ==
  ASSUME TypeInv, Ordered, NEW r \in Rules, Punctual(r), Tick
  PROVE  Punctual(r)' /\ (up /\ Active(r) /\ OnCourse(r) => OnCourse(r)')
<1>0. /\ now' = now + 1 /\ now \in Nat /\ NoRule # r
      /\ UNCHANGED <<up, boots, edits, rule, jobs, run, http, del, since, ran>>
  BY Numbers, TimingAssumption DEF Tick
<1>1. Punctual(r)'
  <2>1. run[r].pc = "queued" => run[r].window - Lead <= now + 1
    BY <1>0, Numbers DEF Punctual
  <2> QED
    BY <1>0, <2>1 DEF Punctual
<1>2. ASSUME up, Active(r), OnCourse(r) PROVE OnCourse(r)'
  <2>1. /\ http.pc = "idle" /\ \A j \in jobs : now < j.window - Lead + MaxLate
        /\ \/ run[r].pc = "idle"
           \/ run[r].pc = "queued" /\ now < run[r].window - Lead + MaxLate
           \/ run[r].pc = "booking" /\ now < run[r].started + MaxRun
    BY <1>2 DEF Tick, Prompt
  <2>2. ASSUME NEW w \in Nat, Pending(r, w), now < w - Lead + MaxLate PROVE Pending(r, w)'
    <3>1. now + 1 <= w - Lead + MaxLate
      BY <1>0, <2>2, Numbers
    <3> QED
      BY <1>0, <2>2, <3>1 DEF Pending, Ran, Epoch
  <2>3. CASE Waiting(r)
    <3>1. PICK w \in Windows : JobOf(r) = {[rule |-> r, window |-> w]} /\ Pending(r, w)
      BY <2>3 DEF Waiting
    <3>2. w \in Nat /\ now < w - Lead + MaxLate
      <4>1. [rule |-> r, window |-> w] \in jobs
        BY <3>1 DEF JobOf
      <4> QED
        BY <2>1, <4>1, BoundAssumption DEF Windows
    <3>3. Pending(r, w)' /\ JobOf(r)' = {[rule |-> r, window |-> w]}
      BY <1>0, <2>2, <3>1, <3>2 DEF JobOf
    <3> QED
      BY <1>0, <2>3, <3>3 DEF Waiting, OnCourse
  <2>4. CASE Queued(r)
    <3>1. run[r].window \in Nat /\ now < run[r].window - Lead + MaxLate
      BY <2>1, <2>4, Numbers DEF Queued
    <3>2. Pending(r, run[r].window)'
      BY <1>0, <2>2, <2>4, <3>1 DEF Queued, Pending, Ran, Epoch
    <3> QED
      BY <1>0, <2>4, <3>2 DEF Queued, OnCourse, JobOf
  <2>5. CASE Booking(r)
    <3>1. now + 1 <= run[r].started + MaxRun
      BY <1>0, <2>1, <2>5, Numbers DEF Booking
    <3>2. Contested(r)'
      BY <1>0, <2>5, <3>1 DEF Booking, Contested, Ran, Epoch
    <3> QED
      BY <1>0, <2>5, <3>2 DEF Booking, OnCourse, JobOf
  <2>6. ~Saved(r) /\ ~Rolling(r) /\ ~Rolled(r)
    BY <1>0, <2>1 DEF Saved, Rolling, Rolled, Ordered
  <2> QED
    BY <1>2, <2>3, <2>4, <2>5, <2>6 DEF OnCourse
<1> QED
  BY <1>1, <1>2

\* The bootstrap gives every active rule its job back.
LEMMA BootOnCourse ==
  ASSUME TypeInv, Ordered, NEW r \in Rules, RegisterBootstrapJobs
  PROVE  Active(r) => Waiting(r)'
<1> SUFFICES ASSUME Active(r) PROVE Waiting(r)'
  OBVIOUS
<1> DEFINE w == NextOpen(rule[r], now)
<1>0. /\ jobs' = {[rule |-> s, window |-> NextOpen(rule[s], now)] : s \in {s \in Rules : Active(s)}}
      /\ since' = [s \in Rules |-> now] /\ boots' = boots + 1
      /\ UNCHANGED <<now, edits, rule, run, http, ran>> /\ ~up
  BY DEF RegisterBootstrapJobs
<1>1. http.rule # r /\ run[r].pc = "idle" /\ rule[r] \in Timings
  BY <1>0, TimingAssumption DEF Ordered, NoSync, NoRun, Active
<1>2. now \in Nat /\ boots \in Nat /\ edits \in Nat /\ now \in 1..Horizon
  BY BoundAssumption DEF TypeInv, TypeOK
<1>3. w \in Windows
  BY <1>1, <1>2, NextOpenInRange, BoundAssumption
<1>4. First(rule[r], now, w)
  <2>1. now <= MaxTime
    <3>1. now \in 0..Horizon + Offset
      BY <1>2, BoundAssumption
    <3>2. PICK v \in Opens[rule[r]] : now < v /\ v <= MaxTime
      BY <1>1, <3>1, TimingAssumption
    <3>3. v \in Nat
      BY <1>1, OpensAreInstants
    <3> QED
      BY <1>2, <3>2, <3>3, BoundAssumption
  <2> QED
    BY <1>1, <1>2, <2>1, NextOpenIsFirst
<1>5. JobOf(r)' = {[rule |-> r, window |-> w]}
  BY <1>0 DEF JobOf
<1> HIDE DEF w
<1>6. now < w /\ w \in Opens[rule[r]] /\ \A v \in Opens[rule[r]] : now < v => w <= v
  BY <1>4 DEF First
<1>7. w \in Nat /\ \A v \in Opens[rule[r]] : v \in Nat
  BY <1>1, <1>6, OpensAreInstants
<1>8. now <= w - Lead + MaxLate /\ \A v \in Opens[rule[r]] : ~(now < v /\ v < w)
  BY <1>2, <1>6, <1>7, Numbers, CalmAssumption
<1>9. \A b \in ran : b.epoch # boots + 1 + edits
  BY <1>2, Numbers DEF Ordered, Epoch
<1>10. since'[r] = now
  BY <1>0
<1>11. PICK v \in Windows : v = w
  BY <1>3
<1>12. Pending(r, v)'
  BY <1>0, <1>6, <1>8, <1>9, <1>10, <1>11 DEF Pending, Epoch
<1> QED
  BY <1>0, <1>1, <1>5, <1>11, <1>12 DEF Waiting

\* What holds whatever the runs and the edits do.
LEMMA OrderedStep == TypeInv /\ Ordered /\ [Next]_vars => Ordered'
<1> SUFFICES ASSUME TypeInv, Ordered, [Next]_vars PROVE Ordered'
  OBVIOUS
<1>0. /\ run \in [Rules -> Run] /\ rule \in [Rules -> Timings \cup {"unborn", "deleted"}]
      /\ del \in [Rules -> {"idle", "get", "remove"}] /\ http \in Sync
      /\ boots \in Nat /\ edits \in Nat /\ NoRule \notin Rules
      /\ "unborn" \notin Timings /\ "deleted" \notin Timings
      /\ ran \subseteq [rule : Rules, window : Windows, epoch : Nat]
  BY TimingAssumption, BoundAssumption DEF TypeInv, TypeOK
<1>1. \A b \in ran' : b.epoch <= Epoch'
  <2>1. Epoch \in Nat /\ Epoch' \in Nat /\ Epoch <= Epoch'
    <3>1. /\ boots' = boots \/ boots' = boots + 1
          /\ edits' = edits \/ edits' = edits + 1
      BY DEF Next, RuleStep, vars, RulesCreate, RulesUpdate, Save, RulesDelete, UserDelete,
         UnregisterGet, UnregisterRemove, Dispatch, StartRun, FinishRun, RescheduleGet,
         RescheduleRemove, RescheduleAdd, ReleaseInstance, SyncGet, SyncRemove, SyncAdd,
         Stop, RegisterBootstrapJobs, Tick, Halt
    <3> QED
      BY <1>0, <3>1 DEF Epoch
  <2>2. \A b \in ran' : b \in ran \/ b.epoch = Epoch'
    <3>1. ASSUME NEW r \in Rules, StartRun(r) PROVE \A b \in ran' : b \in ran \/ b.epoch = Epoch'
      <4> DEFINE w == TargetWindow(r, run[r].window)
      <4>1. \/ ran' = ran
            \/ ran' = ran \cup {[rule |-> r, window |-> w, epoch |-> boots + edits]}
        BY <3>1 DEF StartRun
      <4>2. boots' = boots /\ edits' = edits
        BY <3>1 DEF StartRun
      <4> HIDE DEF w
      <4> QED
        BY <4>1, <4>2 DEF Epoch
    <3> QED
      BY <3>1 DEF Next, RuleStep, vars, RulesCreate, RulesUpdate, Save, RulesDelete, UserDelete,
         UnregisterGet, UnregisterRemove, Dispatch, FinishRun, RescheduleGet,
         RescheduleRemove, RescheduleAdd, ReleaseInstance, SyncGet, SyncRemove, SyncAdd,
         Stop, RegisterBootstrapJobs, Tick, Halt
  <2>3. \A b \in ran : b.epoch \in Nat /\ b.epoch <= Epoch
    BY <1>0 DEF Ordered
  <2> QED
    BY <2>1, <2>2, <2>3
<1>2. ~up' => http' = NoSync /\ jobs' = {} /\ \A r \in Rules : run'[r] = NoRun
  <2>1. CASE Stop
    BY <2>1 DEF Stop
  <2>2. CASE RegisterBootstrapJobs
    BY <2>2 DEF RegisterBootstrapJobs
  <2>3. CASE Tick \/ Halt \/ UNCHANGED vars
    BY <2>3 DEF Tick, Halt, vars, Ordered
  <2>4. CASE SyncGet \/ SyncRemove \/ SyncAdd
    BY <2>4 DEF SyncGet, SyncRemove, SyncAdd, Ordered, NoSync
  <2>5. ASSUME NEW r \in Rules, RuleStep(r) PROVE ~up' => http' = NoSync /\ jobs' = {} /\ \A s \in Rules : run'[s] = NoRun
    <3>1. CASE up
      BY <2>5, <3>1 DEF RuleStep, RulesCreate, RulesUpdate, Save, RulesDelete, UserDelete,
         UnregisterGet, UnregisterRemove, Dispatch, StartRun, FinishRun, RescheduleGet,
         RescheduleRemove, RescheduleAdd, ReleaseInstance
    <3>2. CASE ~up
      <4>1. run[r].pc = "idle"
        BY <3>2 DEF Ordered, NoRun
      <4>2. UnregisterGet(r) \/ UnregisterRemove(r)
        BY <2>5, <3>2, <4>1 DEF RuleStep, RulesCreate, RulesUpdate, Save, RulesDelete, UserDelete,
           Dispatch, StartRun, FinishRun, RescheduleGet,
           RescheduleRemove, RescheduleAdd, ReleaseInstance
      <4> QED
        BY <3>2, <4>2 DEF Ordered, UnregisterGet, UnregisterRemove, Removed
    <3> QED
      BY <3>1, <3>2
  <2> QED
    BY <2>1, <2>2, <2>3, <2>4, <2>5 DEF Next
<1>3. http'.pc = "idle" => http'.rule = NoRule
  <2>1. ASSUME NEW r \in Rules, NEW t \in Timings, Save(r, t)
        PROVE  http'.pc = "idle" => http'.rule = NoRule
    BY <2>1 DEF Save
  <2>2. CASE SyncGet \/ SyncRemove \/ SyncAdd
    BY <1>0, <2>2 DEF SyncGet, SyncRemove, SyncAdd, Sync, AfterGet, NoSync
  <2>3. CASE Stop
    BY <2>3 DEF Stop, NoSync
  <2>4. CASE UNCHANGED http
    BY <2>4 DEF Ordered
  <2> QED
    BY <2>1, <2>2, <2>3, <2>4 DEF Next, RuleStep, vars, RulesCreate, RulesUpdate, RulesDelete,
       UserDelete, UnregisterGet, UnregisterRemove, Dispatch, StartRun, FinishRun, RescheduleGet,
       RescheduleRemove, RescheduleAdd, ReleaseInstance, RegisterBootstrapJobs, Tick, Halt
<1>4. ASSUME NEW r \in Rules PROVE del'[r] # "idle" => rule'[r] = "deleted"
  <2>1. ASSUME NEW s \in Rules, NEW t \in Timings, RulesCreate(s, t) \/ RulesUpdate(s, t)
        PROVE  del'[r] # "idle" => rule'[r] = "deleted"
    <3>1. rule[s] # "deleted" /\ rule' = [rule EXCEPT ![s] = t] /\ del' = del
      BY <1>0, <2>1 DEF RulesCreate, RulesUpdate, Save, Active
    <3> QED
      BY <1>0, <3>1 DEF Ordered
  <2>2. ASSUME NEW s \in Rules, RulesDelete(s) \/ UserDelete(s)
        PROVE  del'[r] # "idle" => rule'[r] = "deleted"
    BY <1>0, <2>2 DEF RulesDelete, UserDelete, Ordered
  <2>3. ASSUME NEW s \in Rules, UnregisterGet(s) \/ UnregisterRemove(s)
        PROVE  del'[r] # "idle" => rule'[r] = "deleted"
    BY <1>0, <2>3 DEF UnregisterGet, UnregisterRemove, Ordered
  <2>4. CASE Stop
    BY <1>0, <2>4 DEF Stop, Ordered
  <2>5. CASE UNCHANGED <<del, rule>>
    BY <2>5 DEF Ordered
  <2> QED
    BY <2>1, <2>2, <2>3, <2>4, <2>5 DEF Next, RuleStep, vars, Dispatch, StartRun, FinishRun,
       RescheduleGet, RescheduleRemove, RescheduleAdd, ReleaseInstance, SyncGet, SyncRemove,
       SyncAdd, RegisterBootstrapJobs, Tick, Halt
<1>5. ASSUME NEW r \in Rules, rule'[r] = "unborn"
      PROVE  JobOf(r)' = {} /\ run'[r].pc = "idle" /\ http'.rule # r /\ \A b \in ran' : b.rule # r
  <2> DEFINE Blank == JobOf(r) = {} /\ run[r].pc = "idle" /\ http.rule # r /\ \A b \in ran : b.rule # r
  <2>1. rule[r] = "unborn"
    <3>1. ASSUME NEW s \in Rules, NEW t \in Timings, RulesCreate(s, t) \/ RulesUpdate(s, t)
          PROVE  rule[r] = "unborn"
      BY <1>0, <1>5, <3>1 DEF RulesCreate, RulesUpdate, Save
    <3>2. ASSUME NEW s \in Rules, RulesDelete(s) \/ UserDelete(s)
          PROVE  rule[r] = "unborn"
      BY <1>0, <1>5, <3>2 DEF RulesDelete, UserDelete
    <3>3. CASE UNCHANGED rule
      BY <1>5, <3>3
    <3> QED
      BY <3>1, <3>2, <3>3 DEF Next, RuleStep, vars, UnregisterGet, UnregisterRemove, Dispatch,
         StartRun, FinishRun, RescheduleGet, RescheduleRemove, RescheduleAdd, ReleaseInstance,
         SyncGet, SyncRemove, SyncAdd, Stop, RegisterBootstrapJobs, Tick, Halt
  <2>2. Blank
    BY <2>1 DEF Ordered
  <2>3. ASSUME Apart(r) PROVE Blank'
    <3>1. \A b \in ran' : b.rule = r => b \in ran
      BY <2>3 DEF Apart
    <3> QED
      BY <2>2, <2>3, <3>1 DEF Apart
  <2>4. ASSUME NEW s \in Rules, RuleStep(s) PROVE Blank'
    <3>1. CASE s = r
      <4>1. del[r] = "idle" /\ ~Active(r)
        BY <1>0, <2>1 DEF Ordered, Active
      <4>2. PICK t \in Timings : RulesCreate(r, t)
        BY <2>2, <2>4, <3>1, <4>1 DEF RuleStep, RulesUpdate, RulesDelete, UserDelete,
           UnregisterGet, UnregisterRemove, Dispatch, StartRun, FinishRun, RescheduleGet,
           RescheduleRemove, RescheduleAdd, ReleaseInstance
      <4>3. rule'[r] = t
        BY <1>0, <4>2 DEF RulesCreate, Save
      <4> QED
        BY <1>0, <1>5, <4>3
    <3>2. CASE s # r
      BY <2>3, <2>4, <3>2, OtherRules
    <3> QED
      BY <3>1, <3>2
  <2>5. CASE SyncGet \/ SyncRemove \/ SyncAdd
    BY <2>2, <2>3, <2>5, OtherRulesSync
  <2>6. CASE Stop
    BY <1>0, <2>2, <2>6 DEF Stop, NoRun, NoSync, JobOf
  <2>7. CASE RegisterBootstrapJobs
    <3>1. ~Active(r)
      BY <1>0, <2>1 DEF Active
    <3> QED
      BY <2>2, <2>7, <3>1 DEF RegisterBootstrapJobs, JobOf
  <2>8. CASE Tick \/ Halt \/ UNCHANGED vars
    BY <2>2, <2>8 DEF Tick, Halt, vars, JobOf
  <2> QED
    BY <2>4, <2>5, <2>6, <2>7, <2>8 DEF Next
<1> QED
  BY <1>1, <1>2, <1>3, <1>4, <1>5 DEF Ordered

LEMMA CalmStart == CalmInit => CalmInv
<1> SUFFICES ASSUME CalmInit PROVE CalmInv
  OBVIOUS
<1>1. Init
  BY DEF CalmInit
<1>2. TypeInv /\ JobIdsUnique
  BY <1>1, TypeInit DEF Init, JobIdsUnique
<1>3. Ordered
  BY <1>1, TimingAssumption DEF Init, Ordered, Epoch, JobOf, NoRun, NoSync
<1>4. \A r \in Rules : Punctual(r) /\ ~Active(r)
  BY <1>1, TimingAssumption DEF Init, Punctual, NoRun, Active
<1> QED
  BY <1>2, <1>3, <1>4 DEF CalmInv

LEMMA CalmStep == CalmInv /\ [CalmNext]_<<vars, calm>> => CalmInv'
<1> SUFFICES ASSUME CalmInv, [CalmNext]_<<vars, calm>> PROVE CalmInv'
  OBVIOUS
<1>1. TypeInv /\ JobIdsUnique /\ Ordered /\ [Next]_vars
  BY DEF CalmInv, CalmNext
<1>2. TypeInv' /\ JobIdsUnique' /\ Ordered'
  BY <1>1, TypeInvStep, JobIdsUniqueStep, OrderedStep
<1>3. ASSUME calm', NEW r \in Rules
      PROVE  Punctual(r)' /\ (up' /\ Active(r)' => OnCourse(r)')
  <2>1. calm /\ \/ Next /\ ~EditsBusyRule /\ ~EndsEarly(r)
                \/ UNCHANGED vars
    BY <1>3 DEF CalmNext
  <2>2. Punctual(r) /\ (up /\ Active(r) => OnCourse(r))
    BY <2>1 DEF CalmInv
  <2>3. ASSUME Apart(r), up' = up PROVE Punctual(r)' /\ (up' /\ Active(r)' => OnCourse(r)')
    BY <2>2, <2>3, ApartKeeps
  <2>4. CASE UNCHANGED vars
    BY <2>3, <2>4 DEF vars, Apart, JobOf, Epoch
  <2>5. ASSUME NEW s \in Rules, RuleStep(s), s # r
        PROVE  Punctual(r)' /\ (up' /\ Active(r)' => OnCourse(r)')
    <3>1. up' = up
      BY <2>5 DEF RuleStep, RulesCreate, RulesUpdate, Save, RulesDelete, UserDelete,
         UnregisterGet, UnregisterRemove, Dispatch, StartRun, FinishRun, RescheduleGet,
         RescheduleRemove, RescheduleAdd, ReleaseInstance
    <3> QED
      BY <1>1, <2>3, <2>5, <3>1, OtherRules
  <2>6. CASE RuleStep(r) /\ ~EditsBusyRule /\ ~EndsEarly(r)
    <3>1. ASSUME NEW t \in Timings, RulesCreate(r, t) \/ RulesUpdate(r, t)
          PROVE  Punctual(r)' /\ OnCourse(r)'
      BY <1>1, <2>6, <3>1, SaveOnCourse DEF OnCourse
    <3>2. CASE RulesDelete(r) \/ UserDelete(r)
      <4>1. ~Active(r)'
        BY <1>1, <3>2, TimingAssumption DEF RulesDelete, UserDelete, Active, TypeInv, TypeOK
      <4>2. Punctual(r)'
        BY <2>2, <3>2 DEF RulesDelete, UserDelete, Punctual
      <4> QED
        BY <4>1, <4>2
    <3>3. CASE UnregisterGet(r) \/ UnregisterRemove(r)
      <4>1. rule[r] = "deleted" /\ rule' = rule
        BY <1>1, <3>3 DEF UnregisterGet, UnregisterRemove, Ordered
      <4>2. ~Active(r)'
        BY <4>1, TimingAssumption DEF Active
      <4>3. Punctual(r)'
        BY <2>2, <3>3 DEF UnregisterGet, UnregisterRemove, Punctual
      <4> QED
        BY <4>2, <4>3
    <3>4. CASE \/ Dispatch(r) \/ StartRun(r) \/ FinishRun(r) \/ RescheduleGet(r)
               \/ RescheduleRemove(r) \/ RescheduleAdd(r) \/ ReleaseInstance(r)
      <4>1. up
        <5>1. CASE Dispatch(r)
          BY <5>1 DEF Dispatch
        <5>2. CASE run[r].pc # "idle"
          BY <1>1, <5>2 DEF Ordered, NoRun
        <5> QED
          BY <3>4, <5>1, <5>2 DEF StartRun, FinishRun, RescheduleGet, RescheduleRemove,
             RescheduleAdd, ReleaseInstance
      <4>2. Active(r)' <=> Active(r)
        BY <3>4 DEF Active, Dispatch, StartRun, FinishRun, RescheduleGet, RescheduleRemove,
           RescheduleAdd, ReleaseInstance
      <4>3. Active(r) => OnCourse(r)
        BY <2>2, <4>1
      <4>4. CASE Dispatch(r)
        BY <1>1, <2>2, <4>2, <4>3, <4>4, DispatchOnCourse DEF OnCourse
      <4>5. CASE StartRun(r)
        BY <1>1, <2>2, <4>2, <4>3, <4>5, StartOnCourse DEF OnCourse
      <4>6. CASE FinishRun(r)
        BY <1>1, <2>2, <2>6, <4>2, <4>3, <4>6, FinishOnCourse DEF OnCourse
      <4>7. CASE RescheduleGet(r) \/ RescheduleRemove(r) \/ RescheduleAdd(r) \/ ReleaseInstance(r)
        BY <1>1, <2>2, <4>2, <4>3, <4>7, RescheduleOnCourse
      <4> QED
        BY <3>4, <4>4, <4>5, <4>6, <4>7
    <3> QED
      BY <2>6, <3>1, <3>2, <3>3, <3>4 DEF RuleStep
  <2>7. CASE SyncGet \/ SyncRemove \/ SyncAdd
    <3>1. UNCHANGED <<now, up, rule, run>>
      BY <2>7 DEF SyncGet, SyncRemove, SyncAdd
    <3>2. CASE r # http.rule
      BY <1>1, <2>3, <2>7, <3>1, <3>2, OtherRulesSync
    <3>3. CASE r = http.rule
      <4>1. http.pc # "idle" /\ up
        BY <1>1, <2>7 DEF SyncGet, SyncRemove, SyncAdd, Ordered, NoSync
      <4>2. Active(r) => OnCourse(r)'
        BY <1>1, <2>2, <2>7, <3>3, <4>1, SyncOnCourse
      <4> QED
        BY <2>2, <3>1, <4>2 DEF Punctual, Active
    <3> QED
      BY <3>2, <3>3
  <2>8. CASE Stop
    BY <2>8 DEF Stop, Punctual, NoRun
  <2>9. CASE RegisterBootstrapJobs
    <3>1. Active(r)' => Active(r)
      BY <2>9 DEF RegisterBootstrapJobs, Active
    <3>2. Punctual(r)'
      BY <2>2, <2>9 DEF RegisterBootstrapJobs, Punctual
    <3> QED
      BY <1>1, <2>9, <3>1, <3>2, BootOnCourse DEF OnCourse
  <2>10. CASE Tick
    <3>1. (up' <=> up) /\ (Active(r)' <=> Active(r))
      BY <2>10 DEF Tick, Active
    <3> QED
      BY <1>1, <2>2, <2>10, <3>1, TickOnCourse
  <2> QED
    BY <2>1, <2>4, <2>5, <2>6, <2>7, <2>8, <2>9, <2>10 DEF Next, Halt
<1>4. (calm /\ up => \A r \in Rules : Active(r) => OnCourse(r))'
  BY <1>3
<1>5. (calm => \A r \in Rules : Punctual(r))'
  BY <1>3
<1> QED
  BY <1>2, <1>4, <1>5 DEF CalmInv

LEMMA CalmInvariance == CalmSpec => []CalmInv
  BY CalmStart, CalmStep, PTL DEF CalmSpec

\* Every window of an active rule that passed since the last edit or boot was
\* contested, for any number of rules, edits and restarts (book_rule,
\* _schedule_next, register_rule_bootstrap_jobs).
THEOREM WindowsContested == CalmSpec => []CalmWindowsRun
<1>1. ASSUME CalmInv, calm, up, NEW r \in Rules, Active(r), NEW w \in Opens[rule[r]],
             since[r] < w, w - Lead + MaxLate < now
      PROVE  Ran(r, w)
  <2>1. TypeInv /\ OnCourse(r) /\ rule[r] \in Timings
    BY <1>1 DEF CalmInv, Active
  <2>2. /\ w \in Nat /\ now \in Nat /\ {Lead, MaxLate, MaxRun} \subseteq Nat
        /\ Lead <= MaxLate
    BY <2>1, OpensAreInstants, Numbers, CalmAssumption
  <2>3. ASSUME NEW p \in Nat, Pending(r, p) PROVE Ran(r, w)
    <3>1. now <= p - Lead + MaxLate
      BY <2>3 DEF Pending
    <3>2. w < p
      BY <1>1, <2>2, <3>1
    <3> QED
      BY <1>1, <2>3, <3>2 DEF Pending
  <2>4. CASE Booking(r)
    <3>1. /\ run[r].window \in Opens[rule[r]] /\ now <= run[r].started + MaxRun
          /\ run[r].started <= run[r].window - Lead + MaxLate
      BY <2>4 DEF Booking, Contested
    <3>2. run[r].window < w => run[r].window + MaxLate + MaxRun < w
      BY <2>1, <3>1, CalmAssumption
    <3>3. w <= run[r].window
      BY <1>1, <2>1, <2>2, <3>1, <3>2, Numbers
    <3> QED
      BY <1>1, <2>4, <3>3 DEF Booking, Contested
  <2>5. CASE Saved(r)
    BY <1>1, <2>2, <2>5 DEF Saved
  <2>6. CASE Waiting(r)
    BY <2>3, <2>6, BoundAssumption DEF Waiting, Windows
  <2>7. CASE Queued(r) \/ Rolling(r) \/ Rolled(r)
    BY <2>1, <2>3, <2>7, Numbers DEF Queued, Rolling, Rolled
  <2> QED
    BY <2>1, <2>4, <2>5, <2>6, <2>7 DEF OnCourse
<1>2. CalmInv => CalmWindowsRun
  BY <1>1 DEF CalmWindowsRun, EveryWindowRun, Ran
<1> QED
  BY <1>2, CalmInvariance, PTL

\* Every active rule has its job, or a run that will register it, at its own
\* timing and past the window that fired (register_rule_job, _schedule_next).
THEOREM JobsKept == CalmSpec => []CalmJobKept
<1>1. ASSUME CalmInv, calm, up, NEW r \in Rules, Active(r), run[r].pc = "idle", http.rule # r
      PROVE  JobOf(r) # {} /\ \A j \in JobOf(r) : j.window \in Opens[rule[r]]
  <2>1. Waiting(r)
    BY <1>1 DEF CalmInv, OnCourse, Saved, Waiting, Queued, Booking, Rolling, Rolled
  <2>2. PICK w \in Windows : JobOf(r) = {[rule |-> r, window |-> w]} /\ Pending(r, w)
    BY <2>1 DEF Waiting
  <2> QED
    BY <2>2 DEF Pending
<1>2. CalmInv /\ calm => RescheduleRollsForward
  BY DEF CalmInv, Punctual, RescheduleRollsForward
<1>3. CalmInv => CalmJobKept
  BY <1>1, <1>2 DEF CalmJobKept, OneJobPerActiveRule, JobFollowsRule
<1> QED
  BY <1>3, CalmInvariance, PTL

\* No window is contested twice between two edits or restarts (book_rule).
THEOREM NoWindowTwice == CalmSpec => CalmNoRepeat
<1> DEFINE New(r) == [rule |-> r, window |-> run'[r].window, epoch |-> boots + edits] \notin ran
<1>1. ASSUME CalmInv, calm, [Next]_vars, NEW r \in Rules,
             run[r].pc = "queued", run'[r].pc = "booking"
      PROVE  New(r)
  <2>1. TypeInv /\ Ordered /\ Punctual(r) /\ run \in [Rules -> Run] /\ up
    BY <1>1 DEF CalmInv, TypeInv, TypeOK, Ordered, NoRun
  <2>2. StartRun(r)
    <3>1. ASSUME NEW s \in Rules, RuleStep(s) PROVE StartRun(r)
      <4>1. s = r
        BY <1>1, <2>1, <3>1, OtherRules DEF Apart
      <4> QED
        BY <1>1, <2>1, <3>1, <4>1 DEF RuleStep, RulesCreate, RulesUpdate, Save, RulesDelete,
           UserDelete, UnregisterGet, UnregisterRemove, Dispatch, FinishRun, RescheduleGet,
           RescheduleRemove, RescheduleAdd, ReleaseInstance
    <3>2. CASE Stop
      BY <1>1, <3>2 DEF Stop, NoRun
    <3>3. CASE UNCHANGED run
      BY <1>1, <3>3
    <3> QED
      BY <1>1, <3>1, <3>2, <3>3 DEF Next, vars, SyncGet, SyncRemove, SyncAdd,
         RegisterBootstrapJobs, Tick, Halt
  <2>3. Active(r)
    BY <1>1, <2>1, <2>2 DEF StartRun, NoRun
  <2>4. OnCourse(r) /\ Queued(r)
    BY <1>1, <2>1, <2>3 DEF CalmInv, OnCourse, Saved, Waiting, Queued, Booking, Rolling, Rolled
  <2>5. run[r].window \in Opens[rule[r]] /\ run[r].window \in Nat
    BY <2>1, <2>4, Numbers DEF Queued, Pending
  <2>6. run'[r].window = run[r].window
    BY <1>1, <2>1, <2>2, <2>3, <2>5, CarriedWindow DEF StartRun
  <2>7. \A b \in ran : b.rule = r /\ b.epoch = boots + edits => b.window < run[r].window
    BY <2>4 DEF Queued, Pending, Epoch
  <2> QED
    BY <2>5, <2>6, <2>7
<1>2. CalmInv /\ [Next]_vars =>
        [calm => \A r \in Rules : run[r].pc = "queued" /\ run'[r].pc = "booking" => New(r)]_vars
  BY <1>1
<1>3. [CalmNext]_<<vars, calm>> => [Next]_vars
  BY DEF CalmNext
<1> QED
  BY <1>2, <1>3, CalmInvariance, PTL DEF CalmSpec, CalmNoRepeat

=============================================================================
