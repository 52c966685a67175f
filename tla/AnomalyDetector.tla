-------------------------- MODULE AnomalyDetector --------------------------
(***************************************************************************)
(* The heartbeat's silent-run detector (heartbeat/anomaly.py,              *)
(* scheduler/anomaly_tick.py): every tick looks for booking windows that   *)
(* passed without an outcome, keeps one open heartbeat_anomaly alert for   *)
(* the account, tells the operator of it in rounds, and closes it window   *)
(* by window.  The executor and the rule routes run beside it.             *)
(***************************************************************************)
EXTENDS Calendar, FiniteSets

CONSTANTS
  Rules,        \* the account's scheduler rules
  TimingOf,     \* what each of them says of time
  Zones,        \* the clock changes considered
  Grace,        \* DEFAULT_GRACE_PERIOD
  Lookback,     \* DEFAULT_LOOKBACK
  Refire,       \* DEFAULT_REFIRE_INTERVAL
  Retention,    \* DEFAULT_RETENTION
  Start,        \* the clock starts here
  Horizon,      \* and stops here
  MaxOutage,    \* the worker is down for at most this long
  MaxEdits,     \* bound on creations and deactivations of rules
  None          \* no alert

ASSUME DetectorAssumption ==
  /\ TimingOf \in [Rules -> Timing]
  /\ Zones \subseteq Zone /\ \A z \in Zones : ChangesWithinDay(z)
  /\ {Grace, Lookback, Refire, Retention, MaxOutage, MaxEdits} \subseteq Nat
  /\ Start \in Nat /\ Horizon \in Nat /\ Start <= Horizon
  /\ Grace < Lookback /\ Lookback <= Retention

VARIABLES
  zone,      \* the operator's zone, constant
  now,       \* the worker's clock
  down,      \* for how long the worker has been down, 0 when it is up
  rule,      \* scheduler_rule: created_at and active, per rule
  outcomes,  \* booking_outcome: which day of a rule, and at which instant
  alert,     \* the open heartbeat_anomaly alert, or None
  tick,      \* the tick under way: what it detected; or the clock waits for it
  edits,     \* creations and deactivations so far
  prompt,    \* history: runs recorded within the grace period of their window
  since,     \* history: when a rule was created
  told,      \* history: windows the operator was told of
  left       \* history: windows that left an alert

vars == <<zone, now, down, rule, outcomes, alert, tick, edits, prompt, since, told, left>>

Times   == 0..Horizon
Window  == [rule : Rules, open : Int, slot : Int]
Alert   == [tracked : SUBSET Window, first : Times, last : Times]
Tick    == [pc : {"due", "detected", "done"}, missed : SUBSET Window]

ASSUME NoneAssumption == None \notin Alert

TypeOK ==
  /\ zone \in Zones
  /\ now \in Start..Horizon
  /\ down \in 0..MaxOutage
  /\ DOMAIN rule = Rules
  /\ \A r \in Rules : rule[r] \in [active : BOOLEAN, created : Times \cup {None}]
  /\ \A o \in outcomes : o.rule \in Rules /\ o.slot \in Int
  /\ alert \in Alert \cup {None}
  /\ alert # None => /\ alert.first <= alert.last /\ alert.last <= now
                     /\ \A w \in alert.tracked : w.open <= now
  /\ tick \in Tick
  /\ told \subseteq Window /\ left \subseteq Window
  /\ edits \in 0..MaxEdits
  /\ since \in [Rules -> Times]

-----------------------------------------------------------------------------
(* Detection. *)

\* _outcome_exists: any outcome of the rule on the operator's day of the slot.
OutcomeExists(r, slot) ==
  \E o \in outcomes : o.rule = r /\ WithinDay(zone, LocalDate(zone, slot), o.slot)

\* The previous opening as the detector derives it: seven times 24 hours
\* before the next one.
LastOpen(r) == NextWindowOpen(zone, TimingOf[r], now) - Week

MissedWindow(r) ==
  [rule |-> r, open |-> LastOpen(r), slot |-> TargetSlot(zone, TimingOf[r], LastOpen(r))]

\* Mutant of Missed: the grace period is forgotten.
MissedAtOnce(w) ==
  /\ rule[w.rule].active /\ rule[w.rule].created <= w.open
  /\ now - Lookback < w.open /\ w.open < now
  /\ ~OutcomeExists(w.rule, w.slot)

Missed(w) ==
  /\ rule[w.rule].active /\ rule[w.rule].created <= w.open
  /\ now - Lookback < w.open /\ w.open < now - Grace
  /\ ~OutcomeExists(w.rule, w.slot)

DetectMissedWindows == {w \in {MissedWindow(r) : r \in Rules} : Missed(w)}

-----------------------------------------------------------------------------
(* The alert: emission and closing, one after the other in one transaction. *)

\* _merge_windows: a window is identified by its rule and its opening.
Merge(recorded, detected) ==
  recorded \cup {w \in detected : \A v \in recorded : v.rule # w.rule \/ v.open # w.open}

\* Mutant of Notified: a round carries what this tick detected, no more.
NotifiedDetected(a, missed) ==
  IF a = None THEN [tracked |-> missed, first |-> now, last |-> now]
  ELSE [a EXCEPT !.tracked = missed, !.last = now]

\* The alert after a round of notifications.
Notified(a, missed) ==
  IF a = None THEN [tracked |-> Merge({}, missed), first |-> now, last |-> now]
  ELSE [a EXCEPT !.tracked = Merge(a.tracked, missed), !.last = now]

\* Mutant of Suppressed: a window not reported yet has to wait, too.
SuppressedByTime(a, missed) == a # None /\ now - a.last < Refire

Suppressed(a, missed) ==
  /\ a # None /\ Merge(a.tracked, missed) = a.tracked
  /\ now - a.last < Refire

Speaks(missed) == missed # {} /\ ~Suppressed(alert, missed)

Emitted(missed) == IF Speaks(missed) THEN Notified(alert, missed) ELSE alert

Kept(a) ==
  {w \in a.tracked : ~OutcomeExists(w.rule, w.slot) /\ w.open >= now - Retention}

\* close_resolved_anomalies: an alert without a readable window waits for its
\* own retention to end.
Closed(a) ==
  IF a = None \/ (a.tracked = {} /\ a.first >= now - Retention) THEN a
  ELSE IF Kept(a) = {} THEN None ELSE [a EXCEPT !.tracked = Kept(a)]

TickDetect ==
  /\ down = 0 /\ tick.pc = "due"
  /\ tick' = [pc |-> "detected", missed |-> DetectMissedWindows]
  /\ UNCHANGED <<zone, now, down, rule, outcomes, alert, edits, prompt, since, told, left>>

TickCommit ==
  LET emitted == Emitted(tick.missed)
      closed  == Closed(emitted)
      Windows(a) == IF a = None THEN {} ELSE a.tracked
  IN  /\ tick.pc = "detected"
      /\ alert' = closed
      /\ told' = IF Speaks(tick.missed) THEN told \cup emitted.tracked ELSE told
      /\ left' = left \cup (Windows(emitted) \ Windows(closed))
      /\ tick' = [pc |-> "done", missed |-> {}]
      /\ UNCHANGED <<zone, now, down, rule, outcomes, edits, prompt, since>>

-----------------------------------------------------------------------------
(* The rest of the worker, and time. *)

\* A run of the executor records its outcome, late ones and re-runs included;
\* a day override may have moved the slot within the day.
Book(r) ==
  \E open \in Openings(zone, TimingOf[r], 0..DayOf(Horizon)), moved \in {0, 1} :
    LET slot == TargetSlot(zone, TimingOf[r], open)
    IN  /\ down = 0 /\ open <= now /\ rule[r].created # None /\ rule[r].created <= open
        /\ ~OutcomeExists(r, slot) /\ WithinDay(zone, LocalDate(zone, slot), slot + moved)
        /\ outcomes' = outcomes \cup {[rule |-> r, slot |-> slot + moved]}
        /\ prompt' = IF now <= open + Grace THEN prompt \cup {<<r, open>>} ELSE prompt
        /\ UNCHANGED <<zone, now, down, rule, alert, tick, edits, since, told, left>>

\* create_rule, and deactivate_rule, after which nothing activates it again.
EditRule(r) ==
  /\ down = 0 /\ edits < MaxEdits /\ edits' = edits + 1
  /\ rule[r].created = None \/ rule[r].active
  /\ rule' = [rule EXCEPT ![r] =
       IF @.created = None THEN [active |-> TRUE, created |-> now]
       ELSE [@ EXCEPT !.active = FALSE]]
  /\ since' = [since EXCEPT ![r] = IF rule'[r].active THEN now ELSE @]
  /\ UNCHANGED <<zone, now, down, outcomes, alert, tick, prompt, told, left>>

\* Many ticks run in a unit of time; one of them at least while the worker is up.
Clock ==
  /\ now < Horizon /\ (down = 0 => tick.pc = "done")
  /\ now' = now + 1
  /\ \/ down' = 0
     \/ down < MaxOutage /\ down' = down + 1
  /\ tick' = [pc |-> "due", missed |-> {}]
  /\ UNCHANGED <<zone, rule, outcomes, alert, edits, prompt, since, told, left>>

\* An alert an older version of the program left without a readable window.
Init ==
  /\ zone \in Zones
  /\ now = Start /\ down = 0
  /\ rule \in [Rules -> {[active |-> TRUE, created |-> 0], [active |-> FALSE, created |-> None]}]
  /\ \E r \in Rules : rule[r].active
  /\ outcomes = {}
  /\ alert \in {None, [tracked |-> {}, first |-> 0, last |-> 0]}
  /\ tick = [pc |-> "due", missed |-> {}]
  /\ edits = 0
  /\ prompt = {} /\ since = [r \in Rules |-> 0]
  /\ told = {} /\ left = {}

Next ==
  \/ TickDetect
  \/ TickCommit
  \/ \E r \in Rules : Book(r)
  \/ \E r \in Rules : EditRule(r)
  \/ Clock

Spec == Init /\ [][Next]_vars

-----------------------------------------------------------------------------
(* Properties. *)

\* The openings of a rule the clock has passed since it started, and those
\* that went by unattended: active throughout, no outcome.
Past(r) == {o \in Openings(zone, TimingOf[r], 0..DayOf(Horizon)) : Start <= o /\ o <= now}

Unattended(r, open) ==
  /\ rule[r].active /\ since[r] <= open
  /\ ~OutcomeExists(r, TargetSlot(zone, TimingOf[r], open))

WasTold(r, open) == \E w \in told : w.rule = r /\ w.open = open

RegularWeek(r, open) == NextWindowOpen(zone, TimingOf[r], open) = open + Week

\* A window nobody contested is reported before it leaves the lookback, even
\* across an outage shorter than the time the detector has for it, whatever
\* rules are created, deactivated or run late.  (The week that follows must have
\* seven days of 24 hours.)  detect_missed_windows.
MissedReported ==
  \A r \in Rules : \A open \in Past(r) :
    (/\ open + Lookback <= now /\ down = 0
     /\ RegularWeek(r, open) /\ Unattended(r, open)) => WasTold(r, open)

\* A run that records its outcome within the grace period is never reported
\* as silent, whichever slot of the day it booked and whatever happens between
\* the detection and the commit of a tick.  detect_missed_windows.
PromptRunNotAlarmed ==
  \A w \in told, p \in prompt :
    w.rule = p[1] =>
      LocalDate(zone, w.slot) # LocalDate(zone, TargetSlot(zone, TimingOf[p[1]], p[2]))

\* What the operator was told stays on the open alert until it is resolved or
\* too old, whatever else is detected, resolved or re-notified meanwhile.
\* emit_anomaly_alerts, close_resolved_anomalies.
ToldIsTracked ==
  \A w \in told :
    ~OutcomeExists(w.rule, w.slot) /\ w.open >= now - Retention =>
      alert # None /\ w \in alert.tracked

\* The alert does not flap: no round of notifications names a window that has
\* left the alert before.  close_resolved_anomalies.
NeverBack ==
  tick.pc = "detected" /\ Speaks(tick.missed) =>
    Emitted(tick.missed).tracked \cap left = {}

\* The open alert is the detector's memory of what it told: nothing told is
\* forgotten while it matters, and nothing forgotten is told again.
AlertRemembers == TypeOK /\ ToldIsTracked /\ NeverBack

=============================================================================
