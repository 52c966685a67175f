--------------------------- MODULE BookingExecutor --------------------------
(***************************************************************************)
(* One run of BookingExecutor.book against the gym's servers               *)
(* (booking/executor.py): the skips, the cookie, the alignment on the      *)
(* publication countdown, the walk of the attempt chain with its polling,  *)
(* the booking request and its confirmation, and the terminal row.         *)
(*                                                                         *)
(* Between any two requests of the run the gym goes on: the schedule is    *)
(* published, other athletes take and leave places, the cookie expires;    *)
(* any answer may be lost, or be taken for a refusal of a cookie that the  *)
(* gym accepts, after the gym acted on the request.                        *)
(***************************************************************************)
EXTENDS Integers, Sequences, FiniteSets

CONSTANTS
  Classes,     \* the classes of the day, a type and a time each
  Primary,     \* the class of the rule
  NoClass,
  MaxAligns,   \* polls before alignment_deadline_s
  MaxPolls,    \* polls before retry_timeout_s
  MaxSeats,    \* places of a class that matter to the run
  ResLies      \* may the Res field contradict what the gym did?

ASSUME ExecutorAssumption ==
  /\ Primary \in Classes
  /\ NoClass \notin Classes
  /\ MaxAligns \in Nat \ {0} /\ MaxPolls \in Nat \ {0} /\ MaxSeats \in Nat
  /\ ResLies \in BOOLEAN

VARIABLES
  published,  \* gym: is the day's schedule public?
  listed,     \* gym: the classes on it
  seats,      \* gym: free places
  accepted,   \* gym: does it accept the cookie of the run?
  booked,     \* gym: the classes the athlete is enrolled in
  plan,       \* the rule's second shot and the override of the day
  pc,         \* where the run stands
  at,         \* position in the attempt chain
  polls,      \* polls of the present loop
  reply,      \* what the booking request answered
  reason,     \* fallback_reason
  verdict,    \* the terminal row about to be written
  outcome,    \* table booking_outcome: the row of this run
  refused     \* history: refusals of the cookie while a class was contested

gym  == <<published, listed, seats, accepted, booked>>
vars == <<published, listed, seats, accepted, booked, plan, pc, at, polls, reply,
          reason, verdict, outcome, refused>>

-----------------------------------------------------------------------------
(* The attempt chain: override target, rule primary, rule second shot. *)

Plan == [second : Classes \cup {NoClass}, skip : BOOLEAN,
         wanted : Classes \cup {NoClass}, suppress : BOOLEAN]

ContestsOverride == ~plan.skip /\ plan.wanted # NoClass
RuleSource       == IF ContestsOverride THEN "override_fallback" ELSE "rule"
Candidate(c, s)  == [class |-> c, source |-> s]

Chain ==
     (IF ContestsOverride THEN <<Candidate(plan.wanted, "override")>> ELSE <<>>)
  \o <<Candidate(Primary, RuleSource)>>
  \o (IF plan.second # NoClass /\ ~plan.suppress
      THEN <<Candidate(plan.second, RuleSource)>> ELSE <<>>)

Class            == Chain[at].class
IsOverrideTarget == Chain[at].source = "override"
IsLast           == at = Len(Chain)

-----------------------------------------------------------------------------
(* What the run reads off an answer. *)

Results == {"granted", "full", "cookie_invalid", "unknown"}
Rosters == {"absent", "out", "full", "in"}

\* An answer read as a refusal (WodBusterAuthError): to which request, about
\* which candidate, and whether the cookie was dead.  A page that is not JSON, a
\* 401 or a 403 passes for a refusal of a cookie that is not (_get).
Refusals == [by : {"poll", "request", "read"}, at : Nat, dead : BOOLEAN]
Refused(by) == refused' = refused \cup {[by |-> by, at |-> at, dead |-> ~accepted]}

\* Mutant of Roster: a class without places counts as full, whoever is in it.
RosterSeatsFirst(c, enrolled, free) ==
  IF free[c] = 0 THEN "full" ELSE IF c \in enrolled THEN "in" ELSE "out"

\* read_target_enrollment of class c: the athlete is on the roster, or is not
\* and the class has no place left, or is not and it has.
Roster(c, enrolled, free) ==
  IF c \in enrolled THEN "in" ELSE IF free[c] = 0 THEN "full" ELSE "out"

RosterNow == Roster(Class, booked, seats)

ByRoster(seen) ==
  CASE seen = "in" -> "granted" [] seen = "full" -> "full" [] OTHER -> "upstream_unavailable"

\* The legacy classifier, when no roster shows the class.
ByRes(res) == IF res \in {"granted", "full"} THEN res ELSE "upstream_unavailable"

NoReply == [res |-> "unknown", first |-> "absent"]
NoVerdict ==
  [status |-> "none", class |-> NoClass, source |-> "rule", requested |-> NoClass,
   reason |-> "none", evidence |-> "none"]

Verdict ==
  [status : {"none", "granted", "full", "class_not_visible", "cookie_invalid",
             "upstream_unavailable", "skipped"},
   class : Classes \cup {NoClass},
   source : {"rule", "override", "override_fallback", "override_skip"},
   requested : Classes \cup {NoClass},
   reason : {"none", "full", "class_not_visible"},
   evidence : {"none", "roster", "res"}]

TypeOK ==
  /\ published \in BOOLEAN /\ accepted \in BOOLEAN /\ refused \subseteq Refusals
  /\ listed \subseteq Classes /\ booked \subseteq Classes
  /\ seats \in [Classes -> 0..MaxSeats]
  /\ plan \in Plan
  /\ pc \in {"start", "cookie", "align", "find", "inscribe", "confirm", "persist", "done"}
  /\ at \in 1..Len(Chain)
  /\ polls \in 0..MaxAligns + MaxPolls
  /\ reply \in [res : Results, first : Rosters]
  /\ reason \in {"none", "full", "class_not_visible"}
  /\ verdict \in Verdict /\ outcome \in Verdict

Init ==
  /\ published \in BOOLEAN /\ accepted \in BOOLEAN /\ refused = {}
  /\ listed \in SUBSET Classes
  /\ seats \in [Classes -> 0..MaxSeats]
  /\ booked = {}
  /\ plan \in Plan
  /\ pc = "start" /\ at = 1 /\ polls = 0
  /\ reply = NoReply /\ reason = "none"
  /\ verdict = NoVerdict /\ outcome = NoVerdict

-----------------------------------------------------------------------------
(* Ends of an attempt. *)

\* A row that needs no attempt: nothing was contested.
Decide(status, class, source) ==
  /\ pc' = "persist"
  /\ verdict' = [NoVerdict EXCEPT !.status = status, !.class = class, !.source = source]
  /\ UNCHANGED <<at, polls, reply, reason>>

AdvancesUnclear(status) ==
  /\ ~IsLast
  /\ status \in {"full", "upstream_unavailable"}

\* _walk_chain: a full candidate, and an override target that never appeared,
\* give way to the next one.
Advances(status) ==
  /\ ~IsLast
  /\ status = "full" \/ (IsOverrideTarget /\ status = "class_not_visible")

\* Mutant of Conclude: only a full override target leaves its reason.
ConcludeUnexplained(status, evidence) ==
  IF Advances(status)
  THEN /\ pc' = "find" /\ at' = at + 1 /\ polls' = 0
       /\ reason' = IF IsOverrideTarget /\ status = "full" THEN status ELSE reason
       /\ reply' = NoReply
       /\ UNCHANGED verdict
  ELSE /\ pc' = "persist"
       /\ verdict' = [NoVerdict EXCEPT !.status = status, !.class = Class,
                        !.source = Chain[at].source, !.reason = reason,
                        !.requested = Chain[1].class]
       /\ UNCHANGED <<at, polls, reply, reason>>

Conclude(status, evidence) ==
  IF Advances(status)
  THEN /\ pc' = "find" /\ at' = at + 1 /\ polls' = 0
       /\ reason' = IF IsOverrideTarget THEN status ELSE reason
       /\ reply' = NoReply
       /\ UNCHANGED verdict
  ELSE /\ pc' = "persist"
       /\ LET fallback == Chain[at].source = "override_fallback" IN
            verdict' = [status |-> status, class |-> Class, source |-> Chain[at].source,
                        requested |-> IF fallback THEN Chain[1].class ELSE NoClass,
                        reason |-> IF fallback THEN reason ELSE "none",
                        evidence |-> evidence]
       /\ UNCHANGED <<at, polls, reply, reason>>

-----------------------------------------------------------------------------
(* The run. *)

\* A vacation covering the day ends the run first, a skipped day second.
CheckSkips ==
  /\ pc = "start"
  /\ \/ Decide("skipped", Primary, "rule")
     \/ plan.skip /\ Decide("skipped", Primary, "override_skip")
     \/ ~plan.skip /\ pc' = "cookie" /\ UNCHANGED <<at, polls, reply, reason, verdict>>
  /\ UNCHANGED <<gym, plan, outcome, refused>>

LoadCookie ==
  /\ pc = "cookie"
  /\ \/ Decide("cookie_invalid", Chain[1].class, Chain[1].source)
     \/ pc' = "align" /\ UNCHANGED <<at, polls, reply, reason, verdict>>
  /\ UNCHANGED <<gym, plan, outcome, refused>>

\* An error, a refusal or an absent countdown ends the alignment, as does a
\* countdown near zero; a positive one is waited for until the deadline.  The
\* countdown may be stuck after publication.
AlignToPublication ==
  /\ pc = "align"
  /\ \/ pc' = "find" /\ polls' = 0
     \/ accepted /\ polls + 1 < MaxAligns /\ pc' = "align" /\ polls' = polls + 1
  /\ UNCHANGED <<gym, plan, at, reply, reason, verdict, outcome, refused>>

\* Mutant of FindSlot: no retry deadline.
FindSlotForever ==
  /\ pc = "find"
  /\ \/ /\ accepted /\ published /\ Class \in listed
        /\ pc' = "inscribe"
        /\ UNCHANGED <<at, polls, reply, reason, verdict, refused>>
     \/ UNCHANGED <<pc, at, polls, reply, reason, verdict, refused>>
  /\ UNCHANGED <<gym, plan, outcome>>

\* One poll of the schedule.  A refused cookie ends the loop as a class that
\* never appeared does.
FindSlot ==
  /\ pc = "find"
  /\ \/ /\ accepted /\ published /\ Class \in listed
        /\ pc' = "inscribe"
        /\ UNCHANGED <<at, polls, reply, reason, verdict, refused>>
     \/ Conclude("class_not_visible", "none") /\ Refused("poll")
     \/ /\ polls + 1 < MaxPolls
        /\ polls' = polls + 1
        /\ UNCHANGED <<pc, at, reply, reason, verdict, refused>>
     \/ /\ polls + 1 = MaxPolls
        /\ Conclude("class_not_visible", "none")
        /\ UNCHANGED refused
  /\ UNCHANGED <<gym, plan, outcome>>

\* The gym enrols the athlete if it accepts the cookie, has a place and sees fit.
Enrol(c, taken) ==
  /\ taken => accepted /\ seats[c] > 0 /\ c \notin booked
  /\ booked' = IF taken THEN booked \cup {c} ELSE booked
  /\ seats' = IF taken THEN [seats EXCEPT ![c] = @ - 1] ELSE seats
  /\ UNCHANGED <<published, listed, accepted>>

\* What Res may say of it.
Tells(res, taken) ==
  \/ ResLies
  \/ /\ res = "granted" => taken
     /\ res \in {"full", "cookie_invalid"} => ~taken

\* What the run makes of a JSON answer to its booking request: it shows the
\* roster from before or after the enrolment, or a view without the class.
Answered(taken) ==
  \E res \in Results, first \in {"absent", RosterNow, Roster(Class, booked', seats')} :
    /\ Tells(res, taken)
    /\ \/ res = "cookie_invalid" /\ Conclude("cookie_invalid", "res")
       \/ res # "cookie_invalid" /\ first = "in" /\ Conclude("granted", "roster")
       \/ /\ res # "cookie_invalid" /\ first # "in"
          /\ pc' = "confirm"
          /\ reply' = [res |-> res, first |-> first]
          /\ UNCHANGED <<at, polls, reason, verdict>>

\* Mutant of Inscribe: a refused cookie passes for a failed request.
InscribeRefusalUnread ==
  /\ pc = "inscribe"
  /\ \E taken \in BOOLEAN :
       /\ Enrol(Class, taken)
       /\ \/ Conclude("upstream_unavailable", "none") /\ Refused("request")
          \/ Conclude("upstream_unavailable", "none") /\ UNCHANGED refused
          \/ accepted /\ Answered(taken) /\ UNCHANGED refused
  /\ UNCHANGED <<plan, outcome>>

\* The gym may have enrolled the athlete whatever becomes of its answer: it is
\* read as a refusal, it is lost or garbled, or it arrives.
Inscribe ==
  /\ pc = "inscribe"
  /\ \E taken \in BOOLEAN :
       /\ Enrol(Class, taken)
       /\ \/ Conclude("cookie_invalid", "none") /\ Refused("request")
          \/ Conclude("upstream_unavailable", "none") /\ UNCHANGED refused
          \/ accepted /\ Answered(taken) /\ UNCHANGED refused
  /\ UNCHANGED <<plan, outcome>>

\* The roster decides where one was read; Res where none shows the class.
Classify(seen) ==
  IF seen = "absent" THEN Conclude(ByRes(reply.res), "res")
                     ELSE Conclude(ByRoster(seen), "roster")

\* One confirming read; when it fails or is refused, what the answer itself
\* showed stands.
Confirm ==
  /\ pc = "confirm"
  /\ \/ accepted /\ (\E seen \in {"absent", RosterNow} : Classify(seen)) /\ UNCHANGED refused
     \/ Classify(reply.first) /\ (Refused("read") \/ UNCHANGED refused)
  /\ UNCHANGED <<gym, plan, outcome>>

PersistTerminal ==
  /\ pc = "persist"
  /\ pc' = "done"
  /\ outcome' = verdict
  /\ UNCHANGED <<gym, plan, at, polls, reply, reason, verdict, refused>>

Step == CheckSkips \/ LoadCookie \/ AlignToPublication \/ FindSlot \/ Inscribe
        \/ Confirm \/ PersistTerminal

-----------------------------------------------------------------------------
(* The gym. *)

run == <<booked, plan, pc, at, polls, reply, reason, verdict, outcome, refused>>

Publish == ~published /\ published' = TRUE /\ UNCHANGED <<listed, seats, accepted, run>>

Expire == accepted /\ accepted' = FALSE /\ UNCHANGED <<published, listed, seats, run>>

OthersTake(c) ==
  /\ published /\ seats[c] > 0
  /\ seats' = [seats EXCEPT ![c] = @ - 1]
  /\ UNCHANGED <<published, listed, accepted, run>>

OthersLeave(c) ==
  /\ published /\ seats[c] + (IF c \in booked THEN 1 ELSE 0) < MaxSeats
  /\ seats' = [seats EXCEPT ![c] = @ + 1]
  /\ UNCHANGED <<published, listed, accepted, run>>

Gym == Publish \/ Expire \/ \E c \in Classes : OthersTake(c) \/ OthersLeave(c)

Next == Step \/ Gym

\* The pool thread that executes the run keeps going; the gym owes nothing.
Spec == Init /\ [][Next]_vars /\ WF_vars(Step)

-----------------------------------------------------------------------------
(* Properties. *)

\* The run keeps the promise of BookingRun: lost answers, stale rosters and
\* second shots never book two classes, nor write a row that contradicts what
\* was booked (as long as Res does not lie where no roster can be read).
BR == INSTANCE BookingRun WITH
        row <- [status |-> outcome.status, class |-> outcome.class]
KeepsPromise == BR!Spec

\* A row that is decided by a roster is right even if Res lies
\* (_resolve_enrollment is the authority).
RosterDecides ==
  outcome.evidence = "roster" =>
    /\ outcome.status = "granted" => outcome.class \in booked
    /\ outcome.status = "full"    => outcome.class \notin booked

\* Whoever asked for another class for one day and got the rule's own reads in
\* the row what was asked for and why it was not honoured.
SubstitutionExplained ==
  /\ ContestsOverride /\ outcome.status \notin {"none", "skipped"}
  /\ outcome.class # plan.wanted
  => /\ outcome.source = "override_fallback"
     /\ outcome.requested = plan.wanted
     /\ outcome.reason # "none"

\* A refusal is not disguised: a row that says granted, full or upstream may
\* follow one only if it answered the confirming read of the row's own class,
\* which had been requested by then (_resolve_enrollment); or if the cookie was
\* not dead and the refusal answered such a read of an earlier candidate that was
\* full, or a poll for the override target, in which case the row says that the
\* class wanted never appeared (_walk_chain).
RefusalNotDisguised ==
  outcome.status \in {"granted", "full", "upstream_unavailable"} =>
    \A x \in refused :
      \/ x.by = "read" /\ (x.at = at \/ ~x.dead)
      \/ /\ ~x.dead /\ x.by = "poll" /\ x.at = 1
         /\ outcome.source = "override_fallback" /\ outcome.reason = "class_not_visible"

\* Every run ends in a row: each loop has a deadline, whatever the gym answers.
Settles == <>(outcome.status # "none")

=============================================================================
