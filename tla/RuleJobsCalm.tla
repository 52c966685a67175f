---------------------------- MODULE RuleJobsCalm ----------------------------
(***************************************************************************)
(* RuleJobs with a history variable: calm holds until a run ends before    *)
(* its window is near, or a rule is edited while its job is due or         *)
(* running.  What the scheduler promises of windows and jobs holds of calm *)
(* behaviours only; an early end loses a job, an overlapping edit its      *)
(* timing.                                                                 *)
(***************************************************************************)
EXTENDS RuleJobs

(***************************************************************************)
(* A timing opens once a week; a job that starts late and a run that takes *)
(* its time are through with one window long before the next.  A job may   *)
(* be registered within the lead of its window, and is then late already.  *)
(***************************************************************************)
ASSUME CalmAssumption ==
  /\ Offset <= Lead /\ Lead <= MaxLate
  /\ \A t \in Timings : \A v, w \in Opens[t] : v < w => v + MaxLate + MaxRun < w

VARIABLE calm

\* executor.book returns well before the window of the run.
EndsEarly(r) ==
  /\ run[r].pc = "booking" /\ run'[r].pc = "get"
  /\ now < run[r].window - Threshold /\ now < run[r].started + MaxRun

EditsBusyRule == edits' # edits /\ ~Quiet(http'.rule)

CalmInit == Init /\ calm = TRUE

CalmNext ==
  /\ Next
  /\ calm' = (calm /\ ~EditsBusyRule /\ \A r \in Rules : ~EndsEarly(r))

CalmSpec == CalmInit /\ [][CalmNext]_<<vars, calm>>

-----------------------------------------------------------------------------
\* Every window of a rule is contested, however late the pool starts the job,
\* unless the rule was edited or the worker was down in the meantime.
CalmWindowsRun == calm => EveryWindowRun

\* The scheduler owns one job per active rule, at the timing of the last edit
\* and past the window that just fired, whichever steps of a registration, a
\* run and a restart the edit lands between; while a run is on, the run itself
\* will register it.
CalmJobKept == calm => OneJobPerActiveRule /\ JobFollowsRule /\ RescheduleRollsForward

\* Between two edits or restarts no window is contested twice.
CalmNoRepeat ==
  [][calm => \A r \in Rules : run[r].pc = "queued" /\ run'[r].pc = "booking"
       => [rule |-> r, window |-> run'[r].window, epoch |-> boots + edits] \notin ran]_vars

=============================================================================
