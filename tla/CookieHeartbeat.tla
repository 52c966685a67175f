--------------------------- MODULE CookieHeartbeat --------------------------
(***************************************************************************)
(* The credential row of a gym account between the two that write it: the  *)
(* hourly heartbeat, which probes the stored cookie, projects its expiry   *)
(* and opens or closes the cookie_expiring alert (heartbeat/probe.py,      *)
(* estimator.py, alerts.py, scheduler/heartbeat_tick.py), and the paste of *)
(* a renewed cookie (cookie/routes.py, gyms/service.py, cookie_store.py).  *)
(*                                                                         *)
(* Each is one transaction at READ COMMITTED.  The probe's request to the  *)
(* gym goes out between its first read of the row and its second.  An      *)
(* update writes the columns whose value differs from the one read.        *)
(***************************************************************************)
EXTENDS Integers

CONSTANTS
  None,             \* a NULL column
  Windows,          \* the instants at which booking windows open
  Ceiling,          \* cookie_projected_ttl_ceiling_days
  LeadTime,         \* _DEFAULT_LEAD_TIME
  RefireInterval,   \* _DEFAULT_REFIRE_INTERVAL
  Horizon,          \* the clock stops here
  MaxCookies        \* bound on the cookies the gym hands out

ASSUME HeartbeatAssumption ==
  /\ None \notin Nat
  /\ {Ceiling, LeadTime, RefireInterval, MaxCookies} \subseteq Nat /\ Horizon \in Nat \ {0}
  /\ Windows \subseteq Nat
  /\ \A i \in 1..Horizon : \E w \in Windows : i < w /\ \A v \in Windows : i < v => w <= v

VARIABLES
  now,      \* the worker's clock
  issued,   \* gym: cookies handed out so far
  live,     \* gym: cookies it accepts
  cred,     \* table cookie_credential: the account's row
  alert,    \* table alert: the latest row of kind cookie_expiring
  tick,     \* the heartbeat tick (max_instances=1)
  paste,    \* the paste handler (async: one at a time)
  source,   \* history: the cookie whose probe wrote the projection
  told,     \* history: the cookie whose probe last emitted the alert
  renewed,  \* history: the cookie of the last paste that committed
  mixed,    \* history: did that paste overlap a tick?
  denied    \* history: the cookies a probe was refused with since that paste

heartbeatVars ==
  <<now, issued, live, cred, alert, tick, paste, source, told, renewed, mixed, denied>>

Cookies  == 1..MaxCookies
Times    == 0..Horizon + Ceiling
Statuses == {"none", "valid", "rejected", "unknown"}
NoCookie == 0

Credential == [cookie : Cookies \cup {NoCookie}, pasted : Times,
               ttl : Times \cup {None}, status : Statuses]

HeartbeatTyped ==
  /\ now \in 1..Horizon
  /\ issued \in 0..MaxCookies /\ live \subseteq 1..issued
  /\ cred \in Credential
  /\ alert \in [open : BOOLEAN, first : Times, last : Times]
  /\ tick \in [pc : {"idle", "probe", "read", "commit"}, at : Times, verdict : Statuses,
               row : Credential]
  /\ paste \in [pc : {"idle", "commit"}, cookie : Cookies \cup {NoCookie}, at : Times,
                row : Credential, closes : Times \cup {None}, mixed : BOOLEAN]
  /\ {source, told, renewed} \subseteq Cookies \cup {NoCookie}
  /\ mixed \in BOOLEAN /\ denied \subseteq Cookies \cup {NoCookie}

NoCredential == [cookie |-> NoCookie, pasted |-> 0, ttl |-> None, status |-> "none"]
NoPaste == [pc |-> "idle", cookie |-> NoCookie, at |-> 0, row |-> NoCredential,
            closes |-> None, mixed |-> FALSE]

HeartbeatInit ==
  /\ now = 1 /\ issued = 0 /\ live = {}
  /\ cred = NoCredential
  /\ alert = [open |-> FALSE, first |-> 0, last |-> 0]
  /\ tick = [pc |-> "idle", at |-> 0, verdict |-> "none", row |-> NoCredential]
  /\ paste = NoPaste
  /\ source = NoCookie /\ told = NoCookie /\ renewed = NoCookie /\ mixed = FALSE
  /\ denied = {}

-----------------------------------------------------------------------------
(* The decisions of a tick. *)

ProjectTtlAnew(verdict, at, previous) ==
  CASE verdict = "rejected" -> at
    [] verdict = "unknown"  -> previous
    [] OTHER                -> at + Ceiling

ProjectTtl(verdict, at, previous) ==
  CASE verdict = "rejected" -> at
    [] verdict = "unknown"  -> previous
    [] OTHER -> IF previous = None \/ at + Ceiling < previous THEN at + Ceiling ELSE previous

NextWindow(at) == CHOOSE w \in Windows : at < w /\ \A v \in Windows : at < v => w <= v

\* A window is near and the cookie is not expected to live to see it.
Threshold(ttl, at) ==
  /\ ttl # None
  /\ ttl < NextWindow(at) /\ NextWindow(at) - at <= LeadTime

\* The columns that changed since the row was read.
Update(row, read, ttl, status) ==
  [row EXCEPT !.ttl    = IF ttl # read.ttl THEN ttl ELSE @,
              !.status = IF status # read.status THEN status ELSE @]

-----------------------------------------------------------------------------
(* run_heartbeat_tick for the account. *)

\* The cookie is read; without one the account is skipped.
LoadCookie ==
  /\ tick.pc = "idle" /\ tick.at < now
  /\ cred.cookie # NoCookie
  /\ tick' = [pc |-> "probe", at |-> now, verdict |-> "none", row |-> cred]
  /\ paste' = [paste EXCEPT !.mixed = paste.pc = "commit"]
  /\ UNCHANGED <<now, issued, live, cred, alert, source, told, renewed, mixed, denied>>

\* The gym answers, or something else does.  The classes are listed for a live
\* cookie only.  A redirection to the login page, a 401 or 403 and any page that
\* is not JSON count as a refusal, whoever sent them and whatever the cookie; a
\* transport error or another status tells nothing.
Validate ==
  /\ tick.pc = "probe"
  /\ \E verdict \in {"valid", "rejected", "unknown"} :
       /\ verdict = "valid" => tick.row.cookie \in live
       /\ tick' = [tick EXCEPT !.pc = "read", !.verdict = verdict]
       /\ denied' = IF verdict = "rejected" THEN denied \cup {tick.row.cookie} ELSE denied
  /\ UNCHANGED <<now, issued, live, cred, alert, paste, source, told, renewed, mixed>>

\* The second read of the row, for the previous projection; the cookie that
\* was probed is the one of the first.
ReadProjection ==
  /\ tick.pc = "read"
  /\ tick' = [tick EXCEPT !.pc = "commit",
                          !.row = [cred EXCEPT !.cookie = tick.row.cookie]]
  /\ UNCHANGED <<now, issued, live, cred, alert, paste, source, told, renewed, mixed, denied>>

Emit(at) ==
  /\ ~alert.open \/ RefireInterval <= at - alert.last
  /\ alert' = IF alert.open THEN [alert EXCEPT !.last = at]
                            ELSE [open |-> TRUE, first |-> at, last |-> at]
  /\ told' = tick.row.cookie

Suppress(at) == alert.open /\ at - alert.last < RefireInterval /\ UNCHANGED <<alert, told>>

Clear == alert' = [alert EXCEPT !.open = FALSE] /\ UNCHANGED told

\* evaluate_cookie_expiring and apply_alert_action, the account having active
\* rules or not.
EvaluateAlert(ttl, at, ruled) ==
  \/ ruled /\ Threshold(ttl, at) /\ (Emit(at) \/ Suppress(at))
  \/ ~(ruled /\ Threshold(ttl, at)) /\ Clear

\* Mutant of TickCommit: the whole row is written back.
TickCommitWholeRow ==
  /\ tick.pc = "commit"
  /\ LET ttl == ProjectTtl(tick.verdict, tick.at, tick.row.ttl) IN
       /\ cred' = [tick.row EXCEPT !.ttl = ttl, !.status = tick.verdict]
       /\ source' = tick.row.cookie
       /\ \E ruled \in BOOLEAN : EvaluateAlert(ttl, tick.at, ruled)
  /\ tick' = [tick EXCEPT !.pc = "idle", !.verdict = "none", !.row = NoCredential]
  /\ UNCHANGED <<now, issued, live, paste, renewed, mixed, denied>>

\* The flush locks the row until the commit: a paste commits before or after.
TickCommit ==
  /\ tick.pc = "commit"
  /\ LET ttl == ProjectTtl(tick.verdict, tick.at, tick.row.ttl) IN
       /\ cred' = Update(cred, tick.row, ttl, tick.verdict)
       /\ source' = IF ttl # tick.row.ttl THEN tick.row.cookie ELSE source
       /\ \E ruled \in BOOLEAN : EvaluateAlert(ttl, tick.at, ruled)
  /\ tick' = [tick EXCEPT !.pc = "idle", !.verdict = "none", !.row = NoCredential]
  /\ UNCHANGED <<now, issued, live, paste, renewed, mixed, denied>>

-----------------------------------------------------------------------------
(* The paste of a validated cookie. *)

\* CookieStore.save and close_open_cookie_expiring read their rows.
PasteRead(c) ==
  /\ paste.pc = "idle"
  /\ \/ c \in live /\ UNCHANGED <<issued, live>>
     \/ c = issued + 1 /\ issued' = c /\ live' = live \cup {c}
  /\ paste' = [pc |-> "commit", cookie |-> c, at |-> now, row |-> cred,
               closes |-> IF alert.open THEN alert.first ELSE None,
               mixed |-> tick.pc # "idle"]
  /\ UNCHANGED <<now, cred, alert, tick, source, told, renewed, mixed, denied>>

\* Mutant of PasteCommit: the projection of the previous cookie is kept.
PasteCommitTtlStays ==
  /\ paste.pc = "commit"
  /\ cred' = [cred EXCEPT !.cookie = paste.cookie, !.pasted = paste.at, !.status = "valid"]
  /\ alert' = IF alert.first = paste.closes THEN [alert EXCEPT !.open = FALSE] ELSE alert
  /\ paste' = NoPaste
  /\ renewed' = paste.cookie /\ mixed' = paste.mixed /\ denied' = {}
  /\ UNCHANGED <<now, issued, live, tick, source, told>>

PasteCommit ==
  /\ paste.pc = "commit"
  /\ cred' = [Update(cred, paste.row, None, "valid")
                EXCEPT !.cookie = paste.cookie, !.pasted = paste.at]
  /\ alert' = IF alert.first = paste.closes THEN [alert EXCEPT !.open = FALSE] ELSE alert
  /\ paste' = NoPaste
  /\ renewed' = paste.cookie /\ mixed' = paste.mixed /\ denied' = {}
  /\ UNCHANGED <<now, issued, live, tick, source, told>>

-----------------------------------------------------------------------------
(* The gym, the process, the clock. *)

Expire(c) ==
  /\ c \in live
  /\ live' = live \ {c}
  /\ UNCHANGED <<now, issued, cred, alert, tick, paste, source, told, renewed, mixed, denied>>

\* An error or a restart of the worker rolls a transaction back.
TickRollback ==
  /\ tick.pc # "idle"
  /\ tick' = [tick EXCEPT !.pc = "idle", !.verdict = "none", !.row = NoCredential]
  /\ UNCHANGED <<now, issued, live, cred, alert, paste, source, told, renewed, mixed, denied>>

PasteRollback ==
  /\ paste.pc # "idle"
  /\ paste' = NoPaste
  /\ UNCHANGED <<now, issued, live, cred, alert, tick, source, told, renewed, mixed, denied>>

Clock ==
  /\ now < Horizon
  /\ now' = now + 1
  /\ UNCHANGED <<issued, live, cred, alert, tick, paste, source, told, renewed, mixed, denied>>

HeartbeatNext ==
  \/ LoadCookie \/ Validate \/ ReadProjection \/ TickCommit
  \/ \E c \in Cookies : PasteRead(c) \/ Expire(c)
  \/ PasteCommit \/ TickRollback \/ PasteRollback \/ Clock

HeartbeatSpec == HeartbeatInit /\ [][HeartbeatNext]_heartbeatVars

-----------------------------------------------------------------------------
(* Properties, whatever overlaps. *)

\* A renewal survives the tick it overlaps: the row holds the cookie of the
\* last paste, whichever transaction commits last.
RenewalSurvives == cred.cookie = renewed

\* Between two pastes a projection is never pushed back beyond the present:
\* once the cookie is suspected to die at an instant, no probe, overlapped
\* paste or restart restores the optimism.
ProjectionNeverGrows ==
  [][cred.ttl # None /\ ~(paste.pc = "commit" /\ paste'.pc = "idle")
       => cred'.ttl # None /\ (cred'.ttl <= cred.ttl \/ cred'.ttl <= now)]_heartbeatVars

-----------------------------------------------------------------------------
(* Properties of a renewal that overlapped no tick. *)

\* A cookie is taken for dead before its ceiling only if a probe of that very
\* cookie, since it was pasted, was answered with a refusal: no failed request,
\* no restart and no refusal of the cookie before it tells against it.
ProjectionHonest ==
  ~mixed /\ cred.ttl # None /\ cred.ttl <= now /\ cred.cookie \notin denied
    => cred.pasted + Ceiling <= now

\* A renewal silences the alert of the cookie it replaces.
RenewalSilences == ~mixed /\ alert.open => told = cred.cookie

\* A fresh paste invalidates any historical projection: a date shown for the
\* cookie comes from a probe of that cookie, or of the same one pasted before.
FreshPasteStartsOver == ~mixed /\ cred.ttl # None => source = cred.cookie

\* A renewal stands: its cookie whatever it overlaps, the silence it brings and
\* the new start of the projection unless it overlapped a tick.
RenewalStands == HeartbeatTyped /\ RenewalSurvives /\ RenewalSilences /\ FreshPasteStartsOver

=============================================================================
