# A TLA+ model of the WodBuster booking scheduler

The program (`src/src/wodbuster_worker`) is one process: a FastAPI web
application and, beside it, an APScheduler with an in-memory jobstore and two
thread pools. For each rule of a user ("crossfit on Mondays at 18:30") a job
fires shortly before the gym publishes the schedule of the class's day, and a
pool thread contests the class with the gym's website. The outcome is persisted
with notifications, which a second loop delivers. Other loops probe the stored
session cookies and look for windows nobody contested. The web pages change the
plan of a day, cancel bookings, bind chats, administer users and read the
athlete's attendance. PostgreSQL (READ COMMITTED) holds everything else.

## 1. Inventory

| Component | State | Operations | Modelled in |
|---|---|---|---|
| Rule jobs (`scheduler/rule_jobs.py`, `scheduler/scheduler.py`) | APScheduler jobstore, running instances | `register_rule_job`, `unregister_rule_job`, `book_rule`, `_schedule_next`, `register_rule_bootstrap_jobs` | `RuleJobs`, `RuleJobsCalm` |
| Rule routes (`rules/routes.py`, `rules/service.py`) | `scheduler_rule` | create, update, delete, `_sync_after_update` | `RuleJobs`, `DayPlan` |
| Booking executor (`booking/executor.py`) | none but the run's locals; the gym's roster | `book`: skips, cookie, alignment, walk of the attempt chain, polling, confirmation, terminal row | `BookingRun`, `BookingExecutor` |
| Admin priority (`booking/priority.py`, the hold in `executor.py`) | none | protected classes of a date, hold of a run | `Priority`, `DayPlan` |
| Outcomes (`booking/outcomes.py`, `notifications/fanout.py`) | `booking_outcome`, `notification_outbox`, `alert` | `persist_outcome` | `Outbox`, `Outcomes` |
| Dispatcher (`notifications/dispatcher.py`, unsubscription) | `notification_outbox`, mail preference | `tick` | `Outbox`, `Dispatcher` |
| The two together | | | `Notifications` |
| Cookie store and heartbeat (`persistence/cookie_store.py`, `cookie/routes.py`, `heartbeat/*`) | `cookie_credential`, `alert` | paste, tick (probe, projection, alert) | `CookieHeartbeat` |
| Calendar arithmetic (`scheduler/clock.py`, `scheduler/rule_jobs.py`) | none | weekday and wall time to instants | `Calendar` |
| Anomaly detector (`heartbeat/anomaly.py`) | `alert` | tick: detect, merge, tell, close | `AnomalyDetector` |
| Overrides, vacations, cancellations (`booking/*`) | `booking_override`, `vacation_window`, `booking_outcome` | save, skip, revert, discard; enable, close; cancel | `Upcoming`, `DayPlan` |
| Upcoming list, countdown (`booking/upcoming.py`, `heartbeat/next_window.py`) | none | what the pages announce | `Upcoming` |
| Gym accounts, discovery (`gyms/*`, `cookie_store.py`) | `gym_account`, `cookie_credential` | discovery, paste for all gyms, key rotation | `GymAccounts` |
| Telegram chat (`telegram_bind.py`, `telegram_webhook.py`) | token store, `telegram_chat_id`, `alert`, `booking_outcome` | mint, `/start`, `/cancel`, `/ack` | `TelegramChat` |
| Sign-in, sessions, admin (`auth/*`, `admin/routes.py`, `bootstrap.py`, `routes/profile.py`) | `operator_profile`, session cookie | sign-up, approval, rejection, ban, deletion, bootstrap, requests | `Accounts` |
| Attendance statistics (`statistics/*`) | `attendance_day`, `attendance_record` | capture of days, figures of the page | `Capture`, `Metrics`, `StatisticsPage` |
| WodBuster client and parsers | none | requests, classification, rosters | helpers of the modules that use them |
| Pages, banners, i18n, logging, telemetry, ciphers, Key Vault, migrations | | | not modelled: wording, I/O, read-only, or run by an operator |

How they interact:

- a **route** commits a rule and then calls three jobstore operations; a **pool
  thread** that ends a run calls the same three; the **scheduler thread** takes
  due jobs out. No lock spans the three calls, so they interleave step by step;
- a **run** reads its rule and the override of its day when it starts, the
  vacations a little later, and commits its row at the end. In between it is a
  sequence of requests to the gym; anything can change at the gym between two of
  them, and any answer may be lost after the gym acted on it;
- a **request** that saves an override, enables a vacation or cancels a booking
  reads tables and clock, talks to the gym and commits last, beside runs and
  other requests;
- all rules of a day open at one instant, so several runs of an account persist
  their **outcomes** at the same time and meet on the partial unique index of
  the `alert` table;
- the **dispatcher** reads what these transactions committed, in the order of
  the identifiers, which is not the order of the commits;
- the **heartbeat** reads a credential, asks the gym, reads it again, writes it
  back; a **paste** of a renewed cookie may commit anywhere in between, and goes
  to every gym the operator is found to have;
- the **detector** reads rules and outcomes, then writes one alert, beside runs
  that are late;
- the **administrators** read a user's row and then write it, beside sign-ins,
  requests and each other; the session lives in the browser, and the response to
  an old request restores it;
- a **page visit** fetches attendance days one by one and persists each, beside
  other visits, changes at the gym and midnight;
- a **restart** empties the jobstore and the token store, kills every thread and
  rolls back every transaction; the tables stay.

What makes each part correct:

- rule jobs: one job per active rule, at the rule's timing; each window
  contested once, also when the job starts late; a deleted rule winds down;
- executor: at most one class booked per run, one row, which tells the truth;
  a substitution is explained; every run ends; administrators' classes are left
  to them for a bounded time;
- outcomes: an open banner is backed by an outcome and the other way round; an
  outcome is lost only with its rule or to a twin; no transaction waits for ever;
- dispatcher: deliveries bounded, "dispatched" means delivered, a row that left
  the queue stays out, the queue drains;
- heartbeat: a renewed cookie is never lost, a projection stays pessimistic but
  declares a cookie dead only on a refusal of that cookie, a renewal silences the
  old alert;
- detector: silence is reported, and only silence; alerts neither lose what was
  told nor flap;
- day plan: what was accepted is what the run does, what the list announced is
  what the run does, table and gym agree, a cancelled class is not booked again;
- accounts: only the admitted are served, mails tell what stands, an
  administrator remains, a sign-in leaves the address a user saved alone;
- gyms and chats: one account per gym, one cookie for all of them, one chat per
  token, commands reach the chat's own operator;
- statistics: a final day is the gym's last word, the history fills, no figure
  takes an unread day for a fact.

`PROJECT.json` lists the hazards, each at its line, with the properties aimed at
it.

## 2. Modules

`RuleJobs` - `rule` is the table, `jobs` the jobstore, `run[r]` the one instance
of the rule's callable, `http` the create/update handler (async, one at a time),
`del[r]` the delete handler (sync, on the thread pool). Each jobstore call
(`get_job`, `remove_job`, `add_job`) is an action; `Removed` and `Added` do what
APScheduler does when the job is gone or its id is taken. Instants are integers
and `Opens[t]` gives the windows of a timing, so weeks need not be equal.
`RuleJobsCalm` adds the history variable `calm`, true until a run ends well
before its window or an edit overlaps a rule that is due or running. Those two
are the behaviours that lose a job or a timing (section 5); what the scheduler
promises of windows and jobs is stated of calm behaviours, and what holds in all
of them (registrations that overlap keep the job, windows of the timing read,
deletion) without it. Its
`CalmAssumption` is what a weekly timing gives: two windows are further apart
than a late start and a run take together.

`BookingRun` is the abstract promise of a run, `BookingExecutor` the run as it
is coded against a gym with its own actions (`Publish`, `Expire`, `OthersTake`,
`OthersLeave`). `plan` is chosen at the start: second shot, skip, override
target, suppressed fallback. `reply` keeps what the booking request answered
until the confirming read. A dead cookie is refused; any answer may be read as a
refusal all the same, because the client takes a 401, a 403 or a page that is not
JSON for one (`client.py:460-471`), also after the gym enrolled the athlete. Such
a run ends as `cookie_invalid`, which therefore leaves open, in `BookingRun` too,
whether the class was booked. `refused` keeps every refusal: by which request, about
which candidate, and whether the cookie was dead. `Tells` bounds what the gym's `Res` field may say;
with `ResLies` it may say anything. `Enrol` lets the gym refuse without a reason.
The hold for protected classes is a wait between finding a class and asking for
it, during which the gym goes on; how long it lasts is `Priority`.

`Outbox` holds what writers and reader of the outbox share. `Outcomes` has one
transaction per run: `Begin` (outcome row and fan-out, mail only if wanted; it
fails if the rule or account the row refers to is gone), `LookUpAlert` (the select), `Flush` (identifiers drawn, alert inserted or
updated, waiting for another uncommitted row of the kind, failing on the unique
index), `Commit`. `DeleteRule` deletes the rule of a run that has not written
yet; `gone` holds these. Once the row is inserted, a deletion waits for the
transaction, by the lock its foreign keys take. A deleted account is its rules
gone and, in `Dispatcher`, its rows dropped; that its alerts go too is left out.
`Dispatcher` is the tick, one row at a time, over Telegram,
mail and banner rows, with secrets that may be missing, a payload that makes the
rendering raise, deletes and an unsubscription between enqueue and delivery.
`Notifications` composes the two over one outbox, with a restart that hits both;
the dispatcher's own specification, fairness and environment included, is checked
as a property of the composition.

`CookieHeartbeat` - one account. `cred` and `alert` are the rows, `tick` and
`paste` the two transactions with what they have read. `Update` writes only the
columns whose new value differs from the one read, as SQLAlchemy does.
`ReadProjection` is the second `SELECT` of the probe. `Validate` may refuse any
cookie, live or dead, as the client does (`client.py:460-471`,
`security/cookie.py:101`), and accepts a live one only. `source`, `told`,
`renewed`, `mixed` (a paste has overlapped a tick) and `denied` (the cookies a
probe was refused with since the last paste) are history.

`Calendar` - weekday and wall time to instants in a zone with one clock change,
as `zoneinfo` does with `fold=0`. `ChangesWithinDay` says that a change moves the
clock within its day, as every change of the default zone does
(`WORKER_TIMEZONE`, `config.py:130`); a zone that skips a whole date is left out.
Used by the detector, the list and the runs of
`DayPlan`. `AnomalyDetector` - a tick reads the clock, detects, and commits later;
`alert` is the one open row with its tracked windows; runs record outcomes beside
it, possibly late; rules come and go; the worker may be down for a while. The
zone is chosen in `Init`.

`Upcoming` has the tables of an account and the pure functions over them: edit
cutoff, covering window, the list with what it offers, the countdown. `Priority`
has what an administrator contests and the walk of a rival that holds back.
`DayPlan` has the actors: `req[q]` is a request under way with what it read,
`run[r]` a run that reads its plan (`started`), checks vacations, and commits.
The run's result is what `BookingRun` promises: an end without a class on record
may leave one at the gym. `seen` keeps the vacations a run found when it looked,
so that a booking is excused (`Overtaken`) only from those enabled since.
`enrolled` is the gym. `edited`
is history: the rules saved while a run of theirs was on. Such a run still
contests what it read, and a rule edited away and back looks unchanged in the
table, so that the row alone cannot tell.

`Accounts` - the sign-in callback step by step (`callback`), the browser's
`session` and the page `request` under way, one open `review` per administrator.
What is decided on a read and written later is two steps, since no lock is held
in between: a review (`OpenReview`, `CloseReview`), the reopening of a rejected
request (`ReadRejected`, `Reopen`), the filling of an empty address
(`ReadLoginEmail`, `StoreLoginEmail`). A write that finds its row gone ends the
callback with an error. `overtaken` is history: who saved a profile since a
sign-in read it. Accounts of one identity are numbered by `life`, so that
a session of a deleted account is told from the next one.

`GymAccounts` - accounts in the order their ids were drawn, cookie and key of
each, discovery that finds only some gyms. `TelegramChat` extends it with the
token store, chats, alerts, bookings and the commands.

`Capture` - `gym` is what the gym's calendar says now, `ledger` and `records` the
tables, `visit[v]` a page visit. `Metrics` classifies the records and derives
streaks, the points estimate and the calendar cells at any instant;
`StatisticsPage` the sections that count the same records apart.

The `MC*` modules give the constants of the TLC runs, and the hypotheses of the
theorems as assumptions, so that TLC confirms that the instances meet them. The
theorems are in `RuleJobsProofs` (which covers `RuleJobsCalm`),
`BookingExecutorProofs`, `AccountsProofs`, `TelegramChatProofs` (with
`GymAccounts`), `NotificationsProofs` (with `Dispatcher`, `Outcomes` and the
cookie they tell of, `CookieHeartbeat`), `AnomalyDetectorProofs`, `DayPlanProofs`
(with `Upcoming`, `Priority` and `Calendar`) and `StatisticsPageProofs` (with
`Capture` and `Metrics`). The operators whose comment says *mutant* are variants of the
definition next to them, with a plausible bug; `PROJECT.json` pairs each with
the property that notices it.

## 3. Runs

| Run | Shows | Bounds |
|---|---|---|
| `rule_jobs` | in any behaviour: registrations of handlers, deletes and runs that overlap leave an active rule its job, a window of the timing that was read, deletion is final; in calm ones: every window contested once, one job per rule, at its timing, past the window that fired | one rule, two timings, a short and a long week; two edits, one restart, lateness up to past the window, horizon of two windows |
| `rule_jobs_lost_job` (violation) | an active rule left without a job | same, no edits |
| `booking_executor` | a run implements `BookingRun`, explains substitutions, believes rosters, disguises no refusal but one of its confirming read, ends | three classes (override, primary, second shot), two polls a loop, one place |
| `notifications` | told only of what was persisted, all of it, in any commit order; banner and outcomes agree; an outcome is lost only with its rule or to a twin; deliveries bounded; all transactions end and all they persisted leaves the queue; `Dispatcher` implemented | three runs, two of which meet on one alert; one Telegram, one mail, one banner row, the last poisoned; two attempts, one restart, secrets all or none |
| `cookie_heartbeat` | renewed cookie survives, projections stay pessimistic and rest on refusals of that cookie, alert silenced | two cookies, a clock from 0 to 4, three windows |
| `anomaly_detector` | silence reported, prompt runs not, alerts track and do not flap | two rules, three days of six hours in quarter hours, five zones (forwards, back, before, between, never), outage of one unit, one edit |
| `day_plan` | accepted is honoured, list and countdown foretell, table agrees with gym, protection and hold | one rule, three timings, two requests at a time and in all, one restart, clock set back in between |
| `accounts` | only the admitted are served, mails true, approvals stay, a saved address stays | one person with two accounts in a row, two administrators, three instants |
| `telegram_chat` | cookies renewed everywhere and readable together, one account per gym, one chat per token, cancellations of one's own | two operators, two gyms, three accounts, two chats, two tokens, two cookies, one key rotation |
| `chat_ack` (violation) | `/ack` silences another operator's alert | same |
| `statistics` | final is the last word, history fills, figures honest about unread days, sections agree | two live days and two past ones, four classes, two visits, one change at the gym, one failure or restart |
| `streak_unread` (violation) | an unread day taken as the end of a streak | same |

Some properties are conjunctions of named parts that make one claim together;
each part has its own definition and comment: `CalmJobKept` (one job, at its
timing, past the window that fired), `OnlyPersistedIsShown` (banner, messages),
`DeliveriesTrue` (bounded, "dispatched" means sent), `RenewalStands` (cookie,
silence, projection), `AlertRemembers` (tracked, not flapping), `RecordsTrue`
(rows and gym, notices, overrides), `PagesForetell` (list, offered edits,
countdown), `PriorityWorks` (what is protected, how long others wait),
`MailsAgree` (decisions, announcements), `GymsTogether` (one account per gym, one
cookie, one key), `LedgerTrue` (final days, month on screen) and
`UnreadIsNotAbsence` (streaks, calendar). The type invariants are first parts of
these, or proved (section 4). The window arithmetic of `Calendar` is compared
with its definition by local wall clock in the assumption `WindowsRight` of
`MCAnomalyDetector`, which TLC evaluates for every zone, rule and instant of the
run, and proved for all of them (section 4).

Why the bounds are enough. Rules share nothing but the scheduler's thread, so one
rule shows every interleaving about it, with one run, one update handler and one
delete; two timings are one edit's worth of difference and the horizon lets a
window open, be re-registered and open again. A chain has at most three
candidates; a poll loop only needs a poll that goes on and a last one. Two
transactions meet on an alert, the third commits without one; the three rows
differ in everything the dispatcher looks at, and the poisoned one has rows
before it. Two cookies are the old and the renewed; the ceiling (3) is longer
than the lead (2) and the horizon (4) longer than both. The detector's two rules
open two hours apart, on either side of each kind of clock change. In `day_plan`
two requests are the most that can disagree on one row, and a third would only
repeat one; the timings move the class to another day and to another hour. One
person suffices in `accounts`, as no handler reads the rows of two. Three
accounts are one operator with two gyms and another with one. Two visits are the
most that can write one day in either order; the four classes cover a trained, a
called-off, a left and a coming class on days read in full, in part or not.

Deadlock is checked for `RuleJobs` and the executor; `CHECK_DEADLOCK FALSE` is
set where the system comes to rest: nothing pending, or the bounds used up.
Symmetry is used over administrators, requests and chats, in runs without
liveness.

### Fairness

- `BookingExecutor`: weak fairness of the run's own `Step`. The pool thread goes
  on; each request has a timeout. The gym owes nothing: it may never publish.
- `Dispatcher`: weak fairness of `Work`; the interval trigger fires every five
  seconds and the thread that handles a row goes on.
- `Outcomes`: weak fairness of each transaction's `Step`. A transaction blocked
  on another's uncommitted row is not enabled, and need not be, until that one
  ends.
- `Capture`: weak fairness of the steps of a visit and of opening the page. A
  reader who stops reading gets no history; nothing in the background reads it.
- The others are checked for safety. What must happen in time is said with the
  clock: `EveryWindowRun` fails if a window passes without a run,
  `MissedReported` if a silent window leaves the lookback untold. The clock does
  not pass what is due: a job starts within `MaxLate`, a run ends within
  `MaxRun`, a request is answered within `MaxAnswer`, a tick is not skipped for
  longer than `MaxOutage`.

## 4. Proofs

`RuleJobsProofs`, for any rules, timings, window sets and bounds:

- `TypeCorrect`, `RunWindows` (invariants), `RegistrationsKeepJob` and
  `DeletionIsFinal` (action properties). `TypeOK` is not inductive: it needs that a run that
  reads its row has a timing (`RunTimed`), that a busy handler has a rule
  (`SyncHasRule`) and that a stopped process has a restart left (`BootsLeft`).
  With them it is `TypeInv`; `IInv` adds the invariants.
  `RunWindowOfItsTiming` follows from `NextOpenIsFirst`, which says what the
  `CHOOSE` of the first window returns.
- `RegistrationsKeepJob`, one case per step of handler, delete and run
  (`Answering`): whoever takes a job out goes on to add one, except a delete, whose
  rule is gone by then (`Unregistered`); who finds the job gone at `remove_job`, or
  another one at `add_job`, ends there, but then somebody else is to add one or
  has. What is left is the firing that is skipped (`SkippedFiring`), the finding of
  section 5.

`BookingExecutorProofs`, for any classes, places and poll limits:

- `TypeCorrect`: the walk stays inside the chain (`Advances` demands a next
  candidate), the poll counters inside their deadlines.
- `Promise`: if `Res` does not lie, `Spec => KeepsPromise`, that is, the run
  implements `BookingRun`. The refinement maps `booked` to itself and `row` to
  the status and class of `outcome`. The inductive invariant carries what the
  code never states: nothing is booked while a candidate is still looked for
  (`NothingYet`, true because only answers that rule out a booking let the walk
  advance); what was read of the booking so far is true (`AnswerTrue`); the row
  about to be written agrees with the roster (`VerdictTrue`); the row is written
  once (`OneRow`). `Inscribe` with an enrolment maps to `Book`, `PersistTerminal`
  to `Record`, the rest stutters.
- `RosterIsAuthority`: without any assumption on `Res`, a row that a roster
  decided is right (`RosterDecides`). `RosterInv` keeps what the answer's roster
  showed true until it is used: nobody but the run enrols its athlete.
- `Substitutions`: `SubstitutionExplained`, from `Remembers` (beyond the first
  candidate the walk always has a reason, and the verdict quotes it) and from
  `ChainOfOverride` (an override target heads the chain and all that follows is
  marked as its fallback).

`AccountsProofs`, for any people, administrators, ban durations and bounds, all
properties of the run, the type invariant and `AnAdminRemains`. The invariant is
that of the tables (`Tables`) and of what a sign-in has read and will write upon
(`SignInReads`):

- `AdminRemains`: a row of `Admins` never changes (`AdminsStay`), because no open
  review targets one (in `Reviews`, part of `Shape`): the guard was evaluated
  when the review was opened and `is_admin` never changes on a live row, so it
  does not matter that the write comes later.
- `Admission`: `EntryApproved` orders, for each person, the account in the
  session and in the request, the last approved one and the one in the table, and
  says that a row that is active is the approved one. With `AccessState` equal to
  "ok" the four are equal. Sign-ins under way carry the same bound.
- `MailsTrue`: needs `NoMailWithoutAddress`, since a decision on an account
  without an address sends nothing and must not leave an older mail standing.
- `ApprovalsStand`: `NoRivalReview` says that no review that could still decide
  is open on an approved account that is not `contested`; a stale one concerns an
  earlier `life`.
- `AddressStays`: a sign-in about to fill an address either still finds none or
  belongs to somebody who saved the profile since it read the row (`SignInReads`);
  the rest by the rows a sign-in and a review may produce (`SignInRow`,
  `ReviewRow`).

`RuleJobsProofs` also proves what `RuleJobsCalm` promises, `WindowsContested`,
`JobsKept` and `NoWindowTwice`. `CalmInv` says where an active rule is between
two of its windows (`OnCourse`: saved, waiting for its job, queued, contesting,
rolling over, rolled over), and in each place that every window so far was
contested and the next one is not overdue (`Pending`, `Contested`). `Punctual`
is what `calm` buys: a run comes back past its window. `Ordered` holds in every
behaviour. A step of another rule leaves `OnCourse` alone (`OtherRules`), which
is what lets the proof treat one rule at a time.

`BookingExecutorProofs.RefusalsTold`: `RefusalNotDisguised`, from `RefusalShows`:
a walk that goes on after a refusal was refused with a cookie that was not dead,
since a dead one lets no class be found or asked for, and only in a confirming
read or in a poll for the override target; the verdict under way says so.

`NotificationsProofs`, for any runs, alerts, channels, secrets, poisoned
payloads and bounds:

- Of `Dispatcher` alone, whoever writes the outbox: `Bounded`, `MarkedIsSent`,
  `StaysQuiet` and the types. `DeliveriesBounded` is not inductive: `Accounted`
  splits it by where the tick stands with the row in hand, `AttemptLeft` keeps a
  pending row below the limit, `OkMeansSent` carries the answer from the send to
  its record.
- Of the composition: `SpecOnlyPersistedIsShown`, `SpecLossExplained`,
  `SpecDeliveriesTrue`, and `SpecRefinesDispatcher`, that the worker is a
  behaviour of `Dispatcher` step by step (its fairness is TLC's). The invariant
  adds that transactions own disjoint identifiers (`NumbersApart`) and that what
  is in the outbox came there by a commit (`RowsBacked`). The refinement is what
  carries `DInv` over.

The cookie, at the end of `NotificationsProofs`, for any windows, ceiling, lead,
interval and bounds: `SpecRenewalStands`, `SpecProjectionHonest`, `SpecProjectionNeverGrows`. What the
properties leave open is who read what when: nothing is dated ahead (`Dated`); a
paste that no tick overlapped has read what stands (`PasteAlone`); a tick not
overlapped works on the cookie in the row (`TickOfRow`); a tick that carries a
refusal was refused with its cookie (`RefusalDenies`); a projection earlier than
the ceiling is of a cookie that was (`EarlyIsDenied`); and between the second read and the commit the projection can
only be reset (`OnlyReset`), which is why the second `SELECT` is needed.

`TelegramChatProofs`, for any operators, gyms, selector pages, chats and bounds:
`SpecGymsTogether`, `SpecTokenBindsOnce`, `SpecCancelReachesOwn`. Identifiers
drawn in the order of the selector page (`PlacesFilled`, from a least number
principle over the pages' positions) give each gym one account; a paste, a
discovery and a key rotation each keep the cookies of an operator together.
`StoreOfMinted` makes a token's history start with its minting, `NoTraceLeft`
that a deleted account is not taken for a later one.

`AnomalyDetectorProofs`, for any rules, timings, zones and limits, with runs and
edits between the detection and the commit of a tick:

- `SpecAlertRemembers`: a window leaves the alert for good (`LeftIsGone`): its
  day has an outcome, or it opened before the retention; the tick under way does
  not have it either (`LeftIsApart`).
- `SpecPromptRunNotAlarmed`: `AlarmsLate` says of what was told, and of what a
  tick holds, that any opening that leads to the same day is past the grace
  period. Hypothesis: clocks are put forward by no less than `Lookback`. The
  lookback is 60 minutes and the change one hour (section 5).
- `SpecMissedReported`: `Patience` is how long a silence may still go untold: the
  grace period, plus the outage under way, or plus the longest one when a tick
  is due. Hypotheses: the grace period (5 minutes), an outage and a tick (one a
  minute) fit in the lookback, and the lookback in a week. A longer outage does
  lose windows, as `anomaly.py` says of its own lookback.
- Both rest on what the week-old derivation of an opening yields (`FirstOpening`,
  `WeekBefore`, `DerivedOpening`).
- `WindowsAreRight`: in any zone whose clock change keeps to one day, the next
  opening computed from an instant is the first of the rule's openings, and the
  class computed from an opening is on its weekday, the days agreed later, at its
  wall time unless the clock skips it (`ShownOrSkipped`).
- `WindowsServeScheduler`: what `RuleJobs` and `RuleJobsCalm` assume of `Opens`:
  there is always a next window, at most nine days ahead (so that a `MaxTime` of
  the horizon and nine days is enough), and windows are more than five days apart
  (the room for a late start and a run that `CalmAssumption` asks for).

`DayPlanProofs`, for any rules, timings, length of day, zone and bounds, with
requests, runs, restarts and a clock set back in between:

- `SpecRecordsTrue`: table and gym agree because a booking that is granted is
  kept (`GrantedIsKept`) and one cancelled is gone (`CancelledIsGone`), both
  stated also of rows that a request has cancelled at the gym and not yet in the
  table (`Taken`). No two requests have taken the same row (`TakenOnce`).
- `SpecVacationClears`: while a vacation is enabled, each booking inside it is on
  its list, done, or excused (`ListIsComplete`); a run that saw a vacation books
  nothing inside it, its second shot and moved class included (`LookedClear`),
  because a vacation covers whole days (`WindowsWhole`).
- `SpecCancelStays`: the day of a cancelled class is behind the rule's next
  opening, job and run (`KeptIsPast`, `KeptBeforeJob`, `KeptBeforeRun`), so that
  later rows are of later days (`KeptApart`). It needs that openings a week
  apart lead to days a week apart across a clock change (`LaterOpening`,
  `DateBefore`).
- `SpecPlanStands`, `SpecAcceptedIsHonoured`: what a run read of the overrides
  stands while it runs (`PlanStands`), because every save still under way is
  past the cutoff by less than the margin (`SaveOnItsDay`).
- `SpecPriorityWorks`: protection is what the administrator's run contests
  (`ProtectionHolds`, from `PlanStands`), and a rival holds back once and for a
  bounded time (`HoldsGiveWayHolds`), by unfolding the walk over a chain, which
  has at most three candidates.
- The last three assume `MaxAnswer <= Margin`: a request is answered within
  the margin before the job fires (`DEFAULT_EDIT_MARGIN_S`, 60 s,
  `overrides.py:34`). A slower one is accepted and not honoured.
- `SpecPagesForetell`: the openings the list and the countdown find, each from
  the one before, are those of the weeks in a row (`OpeningNo`; `RolledIs` shows
  that of any function with the recursive equation, by its least
  counterexample, and so for the one the definition chooses). A run in view
  of its opening contests the first of them (`ContestedIsNext`); its slot, and
  that of every row a run leaves, is on the list or past (`RunsNear`,
  `RowsNear`), so that a row hides a pending entry exactly when its day has an
  outcome (`RowsAhead`). What is offered and what is writable then agree
  (`OffersHold`).
- It assumes `ListReaches`: the list, 14 days and 5 openings per rule
  (`upcoming.py:84-85`), shows the class of every opening of the week ahead, so
  that no booking opens more than 5 days before its class; none opens on the
  day of its class; the job fires no more than a day ahead (30 s, `clock.py:27`).
  The form accepts 0 to 14 days (`forms.py:161`); section 5 says what is lost then.

`StatisticsPageProofs`, for any classes, calendar, months, cap, thresholds,
prices, window lengths and bounds, with visits that overlap and stop short:

- `SpecLedgerTrue`: the inductive invariant `IInv` says that nothing at the gym
  moves on a day that is over (`DayStands`), so that a final row (`FinalHolds`)
  and what a visit fetched of a day that was over when it began (`FetchedHolds`)
  still hold, whichever of two visits writes last; that each day of the month on
  screen is read or on the visit's list (`MonthAhead`, from the cap, which covers
  a month, and from what `NewestFirst` lists); and that a record came with the
  row of its day (`RecordOfDay`).
- `SpecUnreadIsNotAbsence`: where every day read would read the same now,
  training days and breaks of a window are the gym's on the days read
  (`FreshWindow`), and a stretch between two stops is a run of the gym's calendar
  (`StretchIsRun`, by its first day), so that no window overstates one; a
  current run that ends at a day read is the gym's. The calendar follows from
  `FinalHolds` (`CalendarIsHonest`).
- `SpecSectionsAgree`: a sum over cells is shown to be a function of subsets that
  adds up one element at a time (`AddsUp`, `SumIs`), and the size of a set that
  the cells part is such a function (`SumOfParts`). What is left for each section
  is that its bands, cells, months, slots or days are parts: none overlap and
  none of the rows is missed.
- `SpecEstimateBracketsCharge`: a sum of prices is the number of points under
  them (`SumIsSize`), so that sums split and grow with their terms. Each state of
  the page goes back to the list and instant of its record (`Classified`), which
  gives what the price list charges for it under either reading (`Charged`);
  reading by reading, the ends are reached and not exceeded (`ExtremesOfTotals`).
  As in the run, of windows without a cancellation whose instant is unknown.

Other assumptions are those the modules declare (`TimingAssumption`,
`CalmAssumption`, `BoundAssumption`, `ExecutorAssumption`,
`AccountsAssumption`, `RowAssumption`, ...), which TLC evaluates in every run.

What the proofs changed in the models: `RuleJobsCalm` and `Calendar` state what
they assumed of windows and of clock changes; a late run of `AnomalyDetector`
stays on the day of its class; a protection is compared with the run only for
rules not edited during it (an edit away and back again, three requests, was the
counterexample); `Outcomes` states its fan-out by positions, and `Capture` its
descending order of days by rank; `Capture` states that a missing row and a
missing instant are told apart from every row and instant, that its calendar
starts from entries, and that a month has a first and a last day in order; the
sums of `Metrics` are sums of functions.

Only model-checked:

- liveness (`Settles`, `PersistedIsTold`, `HistoryFills`, the fairness in
  `DispatcherKept`): out of the prover's reach, like `ENABLED`;
- the claims the three violation runs refute (section 5).

All other properties of the runs are theorems.

## 5. Where code and documentation part

With a run (quotes in `PROJECT.json`):

- **An active rule can lose its job** (`rule_jobs.py:402`, `:361`). A run that
  ends before its window opens (vacation, skipped day, no cookie, early
  publication) computes the next window from `now + 1 s`, gets the same window
  again, whose run date has passed, and registers a job that is due at once.
  That job either fires again for the same window, or, dispatched before the
  instance is released, is skipped by `max_instances=1` and gone.
- **`/ack` reaches another operator** (`telegram_webhook.py:599`): it hands an
  operator's id to a filter on gym accounts (`heartbeat/alerts.py:236-237`).
- **An unread day ends a streak as a fact** (`metrics.py:680`), against
  `:630-632`.

In the models, and reproducible there by dropping the condition named:

- An edit during a run is undone by the run's own rescheduling
  (`rule_jobs.py:264`): `JobFollowsRule` without `calm`.
- An edit between the dispatch of a job and its read starts the run for an
  opening of the new timing, hours or days ahead (`rule_jobs.py:222-223`):
  `early` in `DayPlan`.
- A cookie refused between two polls is reported as `class_not_visible`
  (`executor.py:753`), although the comment there (`:750-752`) has the caller
  record `cookie_invalid`; the caller ends the run when the poll returns nothing
  (`:541-554`). If the poll was for an override target, the walk goes on
  (`:402-405`) and the refusal is only told as the reason of the substitution. A
  refusal of the confirming read is swallowed (`:704-709`): the row says what the
  booking answer showed, `granted`, `full` or `upstream_unavailable`.
  `RefusalNotDisguised` allows these cases and no other.
- An answer of the gym's that is not JSON reads as a refusal (`client.py:460-471`):
  a run whose request succeeded then records `cookie_invalid` although the class
  is booked (`Inscribe`), and a probe of a live cookie projects it to expire at
  once (`security/cookie.py:101`). `ProjectionHonest` says `denied`, not dead.
- Two first alerts at once lose an outcome (`outcomes.py:267`), and so does the
  deletion of the rule or account of a run under way, by the foreign keys of the
  row (`models.py:342-351`, `outcomes.py:119`), although the class may be booked:
  `LossExplained` says exactly when.
- `auth/routes.py:342-349` says that a sign-in never overwrites an edited address.
  It does when the user saves one between its read and its write (`:354-355`):
  `overtaken` in `OwnAddressStays`.
- A paste that overlaps a tick inherits the projection of the cookie it replaces
  (`probe.py:142`): `FreshPasteStartsOver` without `mixed`.
- `dispatcher.py:198-199` says a row stays pending until the bot token is seeded;
  each tick without it counts as an attempt (`:145`), so it is exhausted after
  `max_attempts` ticks.
- `anomaly.py:155-156` takes the previous window to be exactly seven days before
  the next; in the week of a clock change it is an hour off. `MissedReported` is
  stated of regular weeks. When clocks go forward the derived opening is an hour
  before the real one, and no prompt run is reported only because the lookback
  (60 minutes) is that same hour; a longer one would report every class of that
  week: the hypothesis of `SpecPromptRunNotAlarmed`. When clocks go back, an
  opening in the last hour of a day is derived on the next day, so that a window
  which never was may be reported. That is a report without a run, which
  `PromptRunNotAlarmed` does not speak of.
- Two overlapping reviews of one request: the later write wins, so an approval
  can be undone (`contested` in `Accounts`); a sign-in that reopens the request
  between them writes `pending` over the approval.
- A logout is undone by the response to a request that was under way
  (`EndRequest` in `Accounts`).

Seen while modelling:

- `outcomes.py:251-252` says an open banner describes the most recent event; it
  describes the one committed last (`:264`).
- `cancellation.py:155-158` says that an answer other than "granted" is a soft
  failure seen in the row; "unknown" is recorded as cancelled, everything else
  raises and leaves the row.
- The one-click unsubscription header of the mails (RFC 8058) asks for a `POST`,
  and `/unsubscribe` only answers `GET`.
- `DEVELOPER_GUIDE.md:187` and `:195` have the founder sign in before `bootstrap`
  runs; `bootstrap.py:68` then finds the identity registered and makes nobody an
  administrator. `DEVELOPER_GUIDE.md:265` says `require_session` demands an
  active account; it demands one that exists and is not banned. Only `Seat` sees
  to the former, and the proof of `Admission` needs it.
- The idle timeout of a session never ends one: its middleware runs outside
  `SessionMiddleware` (`app.py:359-362`, `session.py:80-84`).
- The bookings of a banned user's rules go on in the background.
- A rule may book 0 to 14 days ahead (`forms.py:161`). With 0, a day may have an
  outcome that is past and an opening still ahead (left by an early run, of a
  class moved to the morning): the edit is offered and then refused, because the
  list looks at outcomes from now on (`upcoming.py`) and the handler at the whole
  day (`overrides.py`). With 6 or more, the class of the next opening may lie
  beyond the list's 14 days: its run is then not foretold.
- Enabling a vacation twice at once makes two windows. The countdown ignores
  skipped days. A class of today vanishes from the list once its run is due.
- `telegram_chat_id` is not unique: a chat bound by two operators gets no answer
  (`telegram_webhook.py:390`). A token is consumed before the binding commits,
  and a row already enqueued goes to the chat of that time (`dispatcher.py:293`).
- Statistics count yesterday's provisional row, and the record of a class called
  off since, until the day is read again; a removal without a date of its own
  costs nothing in the estimate; the longest streak is exact only over the days
  that were read, which the page does not say.

## 6. Assumptions of the models

PostgreSQL at READ COMMITTED. SQLAlchemy sessions with autoflush off, updates of
changed columns only, and a weak identity map, so that an object nobody holds is
read anew. Async handlers run one at a time on the event loop between two awaits,
sync ones and jobs on thread pools. One worker process. Identifiers are not used
again.

Per module:

- `RuleJobs`: a due job starts within `MaxLate`, a run ends within `MaxRun`, a
  handler takes no time that counts.
- `BookingExecutor`: `Res` is truthful in the run; the theorem
  `RosterIsAuthority` does without. Every account has an `idu` (a NOT NULL
  column). There is no crash: a run that is cut short writes no row, which
  `BookingRun` allows, and what a restart does to the rule's job is in
  `RuleJobs`. A commit that fails on the alert index is in `Outcomes`, so
  `Settles` is about runs whose transaction goes through.
- `Notifications`: the secrets of both channels are seeded together; mail that
  was turned off stays off (only the profile page turns it on again).
- `DayPlan`: the gym refuses to cancel what is not booked; a request is answered
  within `MaxAnswer`, no more than the margin before the job fires; one class per
  day and rule.
- `Accounts`: a transaction that writes whatever it finds is one step; one that
  decides on what it read is two (section 2). Session lifetimes are left out.
- `GymAccounts`, `TelegramChat`: coroutines do not overlap where they do not
  await. Which gym a page shows is left out: no background work reads it.
- `Capture`: coaches call a class off on its own day at the latest; the cap on
  days per visit covers a month on screen.

### Not modelled

- Banners, pages, i18n, logging, telemetry, charts and templates: wording and
  read-only queries.
- HTML parsing: a conversion of text. What a parser decides (roster, states,
  `Res`) is in the modules that use it.
- OAuth exchange, CSRF tokens, signatures of links and sessions, ciphers, Key
  Vault: libraries and I/O. What a rotated key makes of stored cookies is in
  `GymAccounts`.
- The pool of database connections: waiting for one is lateness, bounded by
  `MaxLate`.
- Migrations, infrastructure and scripts: run once by an operator.

## 7. Plan

The calendar lemmas that `DayPlanProofs` and `AnomalyDetectorProofs` both need
are repeated: each states them from what its module assumes of timings and
zones, and the two modules have variables of the same names, so neither can
extend the other. They could be stated once, over `Calendar` alone.
