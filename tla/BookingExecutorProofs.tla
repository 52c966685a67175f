------------------------ MODULE BookingExecutorProofs -----------------------
(***************************************************************************)
(* What holds of a booking run for any classes, seats and deadlines: its   *)
(* states are well formed, and it implements BookingRun as long as the Res *)
(* field tells the truth.                                                  *)
(***************************************************************************)
EXTENDS BookingExecutor, SequenceTheorems, TLAPS

Sources   == {"rule", "override", "override_fallback"}
Candidates == [class : Classes, source : Sources]

\* The attempt chain is never empty and names classes of the day
\* (build_attempt_chain).
LEMMA ChainType ==
  ASSUME plan \in Plan
  PROVE  /\ Chain \in Seq(Candidates)
         /\ Len(Chain) \in Nat \ {0}
         /\ \A i \in 1..Len(Chain) : Chain[i] \in Candidates
<1> DEFINE a == IF ContestsOverride THEN <<Candidate(plan.wanted, "override")>> ELSE <<>>
           b == <<Candidate(Primary, RuleSource)>>
           c == IF plan.second # NoClass /\ ~plan.suppress
                THEN <<Candidate(plan.second, RuleSource)>> ELSE <<>>
<1>1. \A k \in Classes : Candidate(k, "override") \in Candidates /\ Candidate(k, RuleSource) \in Candidates
  BY DEF Candidate, RuleSource, Candidates, Sources
<1>2. ContestsOverride => plan.wanted \in Classes
  BY DEF Plan, ContestsOverride
<1>3. plan.second # NoClass => plan.second \in Classes
  BY DEF Plan
<1>4. a \in Seq(Candidates)
  <2>1. CASE ContestsOverride
    BY <1>1, <1>2, <2>1
  <2>2. CASE ~ContestsOverride
    BY <2>2
  <2> QED BY <2>1, <2>2
<1>5. b \in Seq(Candidates) /\ Len(b) = 1
  BY <1>1, ExecutorAssumption
<1>6. c \in Seq(Candidates)
  <2>1. CASE plan.second # NoClass /\ ~plan.suppress
    BY <1>1, <1>3, <2>1
  <2>2. CASE ~(plan.second # NoClass /\ ~plan.suppress)
    BY <2>2
  <2> QED BY <2>1, <2>2
<1> HIDE DEF a, b, c
<1>7. a \o b \in Seq(Candidates) /\ Len(a \o b) = Len(a) + Len(b)
  BY <1>4, <1>5, ConcatProperties, Zenon
<1>8. /\ (a \o b) \o c \in Seq(Candidates)
      /\ Len((a \o b) \o c) = Len(a \o b) + Len(c)
  BY <1>6, <1>7, ConcatProperties, Zenon
<1>9. Chain = (a \o b) \o c
  BY DEF Chain, a, b, c
<1>10. Len(a) \in Nat /\ Len(c) \in Nat
  BY <1>4, <1>6, LenProperties
<1>11. Len(Chain) \in Nat \ {0}
  BY <1>5, <1>7, <1>8, <1>9, <1>10
<1>12. Chain \in Seq(Candidates)
  BY <1>8, <1>9
<1> QED BY <1>11, <1>12, ElementOfSeq

LEMMA ChainKept == ASSUME plan' = plan PROVE Chain' = Chain
BY DEF Chain, ContestsOverride, RuleSource, Candidate

\* The candidate an attempt is about.
LEMMA ClassType ==
  ASSUME TypeOK
  PROVE  /\ Class \in Classes /\ Chain[at].source \in Sources
         /\ Chain[1].class \in Classes /\ Chain[1].source \in Sources
         /\ Len(Chain) \in Nat \ {0}
BY ChainType DEF TypeOK, Class, Candidates

-----------------------------------------------------------------------------
(* Types. *)

\* What an attempt's end may leave behind.
Ended ==
  /\ pc' \in {"find", "persist"}
  /\ at' \in 1..Len(Chain)
  /\ polls' \in 0..MaxAligns + MaxPolls
  /\ reply' \in [res : Results, first : Rosters]
  /\ reason' \in {"none", "full", "class_not_visible"}
  /\ verdict' \in Verdict

LEMMA ConcludeType ==
  ASSUME TypeOK, NEW status, NEW evidence \in {"none", "roster", "res"},
         status \in {"granted", "full", "class_not_visible", "cookie_invalid",
                     "upstream_unavailable"},
         Conclude(status, evidence)
  PROVE  Ended
<1>0. MaxAligns \in Nat /\ MaxPolls \in Nat
  BY ExecutorAssumption
<1>1. CASE Advances(status)
  <2>1. at' = at + 1 /\ at # Len(Chain) /\ polls' = 0 /\ reply' = NoReply /\ pc' = "find"
        /\ verdict' = verdict /\ reason' = IF IsOverrideTarget THEN status ELSE reason
    BY <1>1 DEF Conclude, Advances, IsLast
  <2>2. at' \in 1..Len(Chain)
    BY <2>1, ClassType DEF TypeOK
  <2>3. reason' \in {"none", "full", "class_not_visible"}
    BY <1>1, <2>1 DEF Advances, TypeOK
  <2> QED BY <1>0, <2>1, <2>2, <2>3 DEF Ended, TypeOK, NoReply, Results, Rosters
<1>2. CASE ~Advances(status)
  <2>1. /\ pc' = "persist" /\ at' = at /\ polls' = polls /\ reply' = reply /\ reason' = reason
        /\ LET fallback == Chain[at].source = "override_fallback" IN
             verdict' = [status |-> status, class |-> Class, source |-> Chain[at].source,
                         requested |-> IF fallback THEN Chain[1].class ELSE NoClass,
                         reason |-> IF fallback THEN reason ELSE "none",
                         evidence |-> evidence]
    BY <1>2 DEF Conclude
  <2>2. verdict' \in Verdict
    BY <2>1, ClassType DEF TypeOK, Verdict, Sources
  <2> QED BY <2>1, <2>2 DEF Ended, TypeOK
<1> QED BY <1>1, <1>2

LEMMA DecideType ==
  ASSUME TypeOK, NEW status \in {"skipped", "cookie_invalid"}, NEW class \in Classes,
         NEW source \in {"rule", "override", "override_fallback", "override_skip"},
         Decide(status, class, source)
  PROVE  Ended
BY DEF Decide, Ended, TypeOK, Verdict, NoVerdict

LEMMA RosterType ==
  ASSUME NEW c, NEW enrolled, NEW free
  PROVE  Roster(c, enrolled, free) \in Rosters
BY DEF Roster, Rosters

LEMMA ClassifyEnds ==
  ASSUME NEW seen, Classify(seen)
  PROVE  \E status \in {"granted", "full", "upstream_unavailable"}, e \in {"roster", "res"} :
           Conclude(status, e)
<1>1. ByRes(reply.res) \in {"granted", "full", "upstream_unavailable"}
  BY DEF ByRes
<1>2. ByRoster(seen) \in {"granted", "full", "upstream_unavailable"}
  BY DEF ByRoster
<1> QED BY <1>1, <1>2 DEF Classify

LEMMA TypeInit == Init => TypeOK
<1> SUFFICES ASSUME Init PROVE TypeOK
  OBVIOUS
<1>1. 1 \in 1..Len(Chain)
  BY ChainType DEF Init
<1>2. 0 \in 0..MaxAligns + MaxPolls
  BY ExecutorAssumption
<1>3. NoVerdict \in Verdict /\ NoReply \in [res : Results, first : Rosters]
  BY DEF NoVerdict, Verdict, NoReply, Results, Rosters
<1> QED BY <1>1, <1>2, <1>3 DEF Init, TypeOK

\* A step of the run that ends an attempt, with the gym's seats and roster in
\* their types, keeps TypeOK.
LEMMA EndedType ==
  ASSUME TypeOK, Ended, plan' = plan, outcome' = outcome,
         published' = published, listed' = listed, accepted' = accepted,
         refused' \subseteq Refusals, booked' \subseteq Classes,
         seats' \in [Classes -> 0..MaxSeats]
  PROVE  TypeOK'
<1>1. Chain' = Chain
  BY ChainKept
<1> QED BY <1>1 DEF TypeOK, Ended

\* The gym's answer to a booking request keeps its tables in their types.
LEMMA EnrolType ==
  ASSUME TypeOK, NEW c \in Classes, NEW taken \in BOOLEAN, Enrol(c, taken)
  PROVE  booked' \subseteq Classes /\ seats' \in [Classes -> 0..MaxSeats]
<1>1. seats[c] \in 0..MaxSeats /\ MaxSeats \in Nat
  BY ExecutorAssumption DEF TypeOK
<1>2. CASE taken
  <2>1. seats[c] - 1 \in 0..MaxSeats
    BY <1>1, <1>2 DEF Enrol
  <2> QED BY <1>2, <2>1 DEF Enrol, TypeOK
<1>3. CASE ~taken
  BY <1>3 DEF Enrol, TypeOK
<1> QED BY <1>2, <1>3

\* A refusal, or none, keeps the history in its type.
LEMMA RefusedType ==
  ASSUME TypeOK, NEW by \in {"poll", "request", "read"}, Refused(by)
  PROVE  refused' \subseteq Refusals
<1>1. at \in Nat
  BY ClassType DEF TypeOK
<1>2. (~accepted) \in BOOLEAN
  OBVIOUS
<1>3. [by |-> by, at |-> at, dead |-> ~accepted] \in Refusals
  BY <1>1, <1>2 DEF Refusals
<1> QED BY <1>3 DEF TypeOK, Refused

LEMMA TypeStep == TypeOK /\ [Next]_vars => TypeOK'
<1> SUFFICES ASSUME TypeOK, [Next]_vars PROVE TypeOK'
  OBVIOUS
<1>0. /\ MaxAligns \in Nat \ {0} /\ MaxPolls \in Nat \ {0} /\ MaxSeats \in Nat
      /\ Primary \in Classes
  BY ExecutorAssumption
<1>1. CASE CheckSkips
  <2>1. CASE Ended
    BY <1>1, <2>1, EndedType DEF CheckSkips, gym, TypeOK
  <2>2. CASE ~Ended
    <3>1. pc' = "cookie" /\ UNCHANGED <<at, polls, reply, reason, verdict>>
      BY <1>0, <1>1, <2>2, DecideType DEF CheckSkips
    <3>2. UNCHANGED <<gym, plan, outcome, refused>>
      BY <1>1 DEF CheckSkips
    <3> QED BY <3>1, <3>2, ChainKept DEF gym, TypeOK
  <2> QED BY <2>1, <2>2
<1>2. CASE LoadCookie
  <2>1. CASE Ended
    BY <1>2, <2>1, EndedType DEF LoadCookie, gym, TypeOK
  <2>2. CASE ~Ended
    <3>1. pc' = "align" /\ UNCHANGED <<at, polls, reply, reason, verdict>>
      BY <1>2, <2>2, DecideType, ClassType DEF LoadCookie, Sources
    <3>2. UNCHANGED <<gym, plan, outcome, refused>>
      BY <1>2 DEF LoadCookie
    <3> QED BY <3>1, <3>2, ChainKept DEF gym, TypeOK
  <2> QED BY <2>1, <2>2
<1>3. CASE AlignToPublication
  <2>1. pc' \in {"find", "align"} /\ polls' \in 0..MaxAligns + MaxPolls
    BY <1>0, <1>3 DEF AlignToPublication, TypeOK
  <2>2. UNCHANGED <<gym, plan, at, reply, reason, verdict, outcome, refused>>
    BY <1>3 DEF AlignToPublication
  <2> QED BY <2>1, <2>2, ChainKept DEF gym, TypeOK
<1>4. CASE FindSlot
  <2>0. UNCHANGED <<gym, plan, outcome>> /\ refused' \subseteq Refusals
    BY <1>4, RefusedType DEF FindSlot, TypeOK
  <2>1. CASE Conclude("class_not_visible", "none")
    BY <2>0, <2>1, ConcludeType, EndedType DEF gym, TypeOK
  <2>2. CASE ~Conclude("class_not_visible", "none")
    <3>1. /\ pc' \in {"find", "inscribe"} /\ polls' \in 0..MaxAligns + MaxPolls
          /\ UNCHANGED <<at, reply, reason, verdict>>
      BY <1>0, <1>4, <2>2 DEF FindSlot, TypeOK
    <3> QED BY <2>0, <3>1, ChainKept DEF gym, TypeOK
  <2> QED BY <2>1, <2>2
<1>5. CASE Inscribe
  <2>0. UNCHANGED <<plan, outcome>>
    BY <1>5 DEF Inscribe
  <2>1. refused' \subseteq Refusals
    BY <1>5, RefusedType DEF Inscribe, TypeOK
  <2>2. PICK taken \in BOOLEAN :
          /\ Enrol(Class, taken)
          /\ \/ Conclude("cookie_invalid", "none")
             \/ Conclude("upstream_unavailable", "none")
             \/ Answered(taken)
    BY <1>5 DEF Inscribe
  <2>3. /\ published' = published /\ listed' = listed /\ accepted' = accepted
        /\ booked' \subseteq Classes /\ seats' \in [Classes -> 0..MaxSeats]
    BY <2>2, ClassType, EnrolType DEF Enrol
  <2>4. CASE \E s \in {"granted", "cookie_invalid", "upstream_unavailable"},
                e \in {"none", "roster", "res"} : Conclude(s, e)
    BY <2>0, <2>1, <2>3, <2>4, ConcludeType, EndedType
  <2>5. CASE /\ pc' = "confirm" /\ UNCHANGED <<at, polls, reason, verdict>>
             /\ \E res \in Results, first \in Rosters : reply' = [res |-> res, first |-> first]
    BY <2>0, <2>1, <2>3, <2>5, ChainKept DEF TypeOK
  <2>6. \A first \in {"absent", RosterNow, Roster(Class, booked', seats')} : first \in Rosters
    BY RosterType DEF RosterNow, Rosters
  <2> QED BY <2>2, <2>4, <2>5, <2>6 DEF Answered
<1>6. CASE Confirm
  <2>1. (\E seen : Classify(seen)) /\ refused' \subseteq Refusals
    BY <1>6, RefusedType DEF Confirm, TypeOK
  <2>2. Ended
    BY <2>1, ClassifyEnds, ConcludeType
  <2> QED BY <1>6, <2>1, <2>2, EndedType DEF Confirm, gym, TypeOK
<1>7. CASE PersistTerminal
  BY <1>7, ChainKept DEF PersistTerminal, gym, TypeOK
<1>8. CASE Gym
  <2>0. UNCHANGED run
    BY <1>8 DEF Gym, Publish, Expire, OthersTake, OthersLeave
  <2>1. seats' \in [Classes -> 0..MaxSeats]
    <3>1. ASSUME NEW c \in Classes, OthersTake(c) PROVE seats' \in [Classes -> 0..MaxSeats]
      BY <1>0, <3>1 DEF OthersTake, TypeOK
    <3>2. ASSUME NEW c \in Classes, OthersLeave(c) PROVE seats' \in [Classes -> 0..MaxSeats]
      BY <1>0, <3>2 DEF OthersLeave, TypeOK
    <3> QED BY <1>8, <3>1, <3>2 DEF Gym, Publish, Expire, TypeOK
  <2>2. published' \in BOOLEAN /\ accepted' \in BOOLEAN /\ listed' \subseteq Classes
    BY <1>8 DEF Gym, Publish, Expire, OthersTake, OthersLeave, TypeOK
  <2> QED BY <2>0, <2>1, <2>2, ChainKept DEF run, TypeOK
<1>9. CASE UNCHANGED vars
  BY <1>9, ChainKept DEF vars, TypeOK
<1> QED BY <1>1, <1>2, <1>3, <1>4, <1>5, <1>6, <1>7, <1>8, <1>9 DEF Next, Step

\* Every state of a run, whatever the gym answers, is well formed: in
\* particular the walk never leaves the attempt chain and the retries stay
\* within their deadlines (_walk_chain, _find_slot_with_retry).
THEOREM TypeCorrect == Spec => []TypeOK
<1>1. Init => TypeOK
  BY TypeInit
<1>2. TypeOK /\ [Next]_vars => TypeOK'
  BY TypeStep
<1> QED BY <1>1, <1>2, PTL DEF Spec

-----------------------------------------------------------------------------
(* The promise. *)

\* Row (s, c) agrees with the set b of booked classes: BR!Agrees, of any set.
Truthful(s, c, b) ==
  /\ s = "granted" => b = {c}
  /\ s \in {"upstream_unavailable", "cookie_invalid"} => b \subseteq {c}
  /\ s \in {"full", "class_not_visible", "skipped"} => b = {}

\* Nothing is booked before the request for the present candidate was
\* answered, and whenever the walk moves on to another one.
NothingYet == pc \in {"start", "cookie", "align", "find", "inscribe"} => booked = {}

\* While the answer is being confirmed, at most the present candidate is
\* booked, and what was read of it so far is true.
AnswerTrue ==
  pc = "confirm" =>
    /\ booked \subseteq {Class}
    /\ reply.first # "in"
    /\ reply.first = "full" => booked = {}
    /\ reply.res = "granted" => booked = {Class}
    /\ reply.res = "full" => booked = {}

\* The row about to be written is truthful.
VerdictTrue ==
  pc = "persist" =>
    /\ verdict.class \in Classes /\ verdict.status # "none"
    /\ Truthful(verdict.status, verdict.class, booked)

OneRow == pc # "done" => outcome = NoVerdict

\* The inductive invariant.
IInv == TypeOK /\ NothingYet /\ AnswerTrue /\ VerdictTrue /\ OneRow

\* An attempt whose status agrees with what was booked leaves the run in a
\* state that does.
LEMMA ConcludeKeeps ==
  ASSUME TypeOK, pc # "done", OneRow, plan' = plan, outcome' = outcome,
         NEW status, NEW evidence, Conclude(status, evidence),
         status \in {"granted", "full", "class_not_visible", "cookie_invalid",
                     "upstream_unavailable"},
         Truthful(status, Class, booked')
  PROVE  NothingYet' /\ AnswerTrue' /\ VerdictTrue' /\ OneRow'
<1>1. outcome' = NoVerdict
  BY DEF OneRow
<1>2. CASE Advances(status)
  <2>1. pc' = "find"
    BY <1>2 DEF Conclude
  <2>2. booked' = {}
    BY <1>2 DEF Advances, Truthful
  <2> QED BY <1>1, <2>1, <2>2 DEF NothingYet, AnswerTrue, VerdictTrue, OneRow
<1>3. CASE ~Advances(status)
  <2>1. pc' = "persist" /\ verdict'.status = status /\ verdict'.class = Class
    BY <1>3 DEF Conclude
  <2>2. Class \in Classes
    BY ClassType
  <2> QED BY <1>1, <2>1, <2>2 DEF NothingYet, AnswerTrue, VerdictTrue, OneRow, Truthful
<1> QED BY <1>2, <1>3

LEMMA DecideKeeps ==
  ASSUME TypeOK, pc \in {"start", "cookie"}, NothingYet, OneRow, outcome' = outcome,
         booked' = booked,
         NEW status \in {"skipped", "cookie_invalid"}, NEW class \in Classes, NEW source,
         Decide(status, class, source)
  PROVE  NothingYet' /\ AnswerTrue' /\ VerdictTrue' /\ OneRow'
<1>1. pc' = "persist" /\ verdict'.status = status /\ verdict'.class = class
  BY DEF Decide, NoVerdict
<1>2. booked' = {} /\ outcome' = NoVerdict
  BY DEF NothingYet, OneRow
<1> QED BY <1>1, <1>2 DEF NothingYet, AnswerTrue, VerdictTrue, OneRow, Truthful

\* What a booking request did and what its answer tells of it.
LEMMA AnswerKeeps ==
  ASSUME ~ResLies, TypeOK, booked = {}, NEW taken \in BOOLEAN, Enrol(Class, taken)
  PROVE  /\ booked' = IF taken THEN {Class} ELSE {}
         /\ \A res \in Results : Tells(res, taken) =>
              /\ res = "granted" => booked' = {Class}
              /\ res \in {"full", "cookie_invalid"} => booked' = {}
         /\ \A first \in {"absent", RosterNow, Roster(Class, booked', seats')} :
              /\ first = "in" => booked' = {Class}
              /\ first = "full" => booked' = {}
<1>1. booked' = IF taken THEN {Class} ELSE {}
  BY DEF Enrol
<1>2. RosterNow # "in" /\ (RosterNow = "full" => ~taken)
  BY DEF RosterNow, Roster, Enrol
<1>3. Roster(Class, booked', seats') = "in" => taken
  BY <1>1 DEF Roster
<1>4. Roster(Class, booked', seats') = "full" => ~taken
  BY <1>1 DEF Roster
<1> QED BY <1>1, <1>2, <1>3, <1>4 DEF Tells

\* What is concluded from the roster that was seen, or from Res, agrees with
\* what was booked.
LEMMA ClassifyKeeps ==
  ASSUME IInv, pc = "confirm", plan' = plan, outcome' = outcome, booked' = booked,
         NEW seen \in {"absent", RosterNow, reply.first}, Classify(seen)
  PROVE  NothingYet' /\ AnswerTrue' /\ VerdictTrue' /\ OneRow'
<1>1. booked \subseteq {Class} /\ (Class \in booked => booked = {Class})
  BY DEF IInv, AnswerTrue
<1>2. CASE seen = "absent"
  <2>1. Truthful(ByRes(reply.res), Class, booked')
    BY <1>1 DEF IInv, AnswerTrue, ByRes, Truthful
  <2>2. Conclude(ByRes(reply.res), "res")
    BY <1>2 DEF Classify
  <2>3. ByRes(reply.res) \in {"granted", "full", "upstream_unavailable"}
    BY DEF ByRes
  <2> QED BY <2>1, <2>2, <2>3, ConcludeKeeps DEF IInv
<1>3. CASE seen # "absent"
  <2>1. seen = "in" => booked = {Class}
    BY <1>1 DEF IInv, AnswerTrue, RosterNow, Roster
  <2>2. seen = "full" => booked = {}
    BY <1>1 DEF IInv, AnswerTrue, RosterNow, Roster
  <2>3. Truthful(ByRoster(seen), Class, booked')
    BY <1>1, <2>1, <2>2 DEF ByRoster, Truthful
  <2>4. Conclude(ByRoster(seen), "roster")
    BY <1>3 DEF Classify
  <2>5. ByRoster(seen) \in {"granted", "full", "upstream_unavailable"}
    BY DEF ByRoster
  <2> QED BY <2>3, <2>4, <2>5, ConcludeKeeps DEF IInv
<1> QED BY <1>2, <1>3

LEMMA IInvInit == Init => IInv
BY TypeInit DEF Init, IInv, NothingYet, AnswerTrue, VerdictTrue, OneRow

\* The run's steps up to the booking request book nothing.
LEMMA PreludeKeeps ==
  ASSUME IInv, CheckSkips \/ LoadCookie \/ AlignToPublication \/ FindSlot
  PROVE  NothingYet' /\ AnswerTrue' /\ VerdictTrue' /\ OneRow'
<1>0. Primary \in Classes
  BY ExecutorAssumption
<1>1. CASE CheckSkips
  <2>0. pc = "start" /\ UNCHANGED <<booked, outcome>>
    BY <1>1 DEF CheckSkips, gym
  <2>1. CASE pc' = "cookie"
    BY <2>0, <2>1 DEF IInv, NothingYet, AnswerTrue, VerdictTrue, OneRow
  <2>2. CASE pc' # "cookie"
    <3>1. \E source : Decide("skipped", Primary, source)
      BY <1>1, <2>2 DEF CheckSkips
    <3> QED BY <1>0, <2>0, <3>1, DecideKeeps DEF IInv
  <2> QED BY <2>1, <2>2
<1>2. CASE LoadCookie
  <2>0. pc = "cookie" /\ UNCHANGED <<booked, outcome>>
    BY <1>2 DEF LoadCookie, gym
  <2>1. CASE pc' = "align"
    BY <2>0, <2>1 DEF IInv, NothingYet, AnswerTrue, VerdictTrue, OneRow
  <2>2. CASE pc' # "align"
    <3>1. Decide("cookie_invalid", Chain[1].class, Chain[1].source)
      BY <1>2, <2>2 DEF LoadCookie
    <3>2. Chain[1].class \in Classes
      BY ClassType DEF IInv
    <3> QED BY <2>0, <3>1, <3>2, DecideKeeps DEF IInv
  <2> QED BY <2>1, <2>2
<1>3. CASE AlignToPublication
  <2>1. pc = "align" /\ pc' \in {"find", "align"} /\ UNCHANGED <<booked, outcome>>
    BY <1>3 DEF AlignToPublication, gym
  <2> QED BY <2>1 DEF IInv, NothingYet, AnswerTrue, VerdictTrue, OneRow
<1>4. CASE FindSlot
  <2>0. pc = "find" /\ booked' = {} /\ UNCHANGED <<plan, outcome>>
    BY <1>4 DEF FindSlot, gym, IInv, NothingYet
  <2>1. CASE Conclude("class_not_visible", "none")
    <3>1. Truthful("class_not_visible", Class, booked')
      BY <2>0 DEF Truthful
    <3> QED BY <2>0, <2>1, <3>1, ConcludeKeeps DEF IInv
  <2>2. CASE ~Conclude("class_not_visible", "none")
    <3>1. pc' \in {"find", "inscribe"}
      BY <1>4, <2>0, <2>2 DEF FindSlot
    <3> QED BY <2>0, <3>1 DEF IInv, NothingYet, AnswerTrue, VerdictTrue, OneRow
  <2> QED BY <2>1, <2>2
<1> QED BY <1>1, <1>2, <1>3, <1>4

\* Whatever the gym did with the booking request and answered to it, and even
\* if the answer is lost, the run knows no more than what is true.
LEMMA InscribeKeeps ==
  ASSUME ~ResLies, IInv, Inscribe
  PROVE  NothingYet' /\ AnswerTrue' /\ VerdictTrue' /\ OneRow'
<1>0. pc = "inscribe" /\ booked = {} /\ UNCHANGED <<plan, outcome>>
  BY DEF Inscribe, IInv, NothingYet
<1>1. PICK taken \in BOOLEAN :
        /\ Enrol(Class, taken)
        /\ \/ Conclude("cookie_invalid", "none")
           \/ Conclude("upstream_unavailable", "none")
           \/ Answered(taken)
  BY DEF Inscribe
<1>2. booked' = IF taken THEN {Class} ELSE {}
  BY <1>0, <1>1, AnswerKeeps DEF IInv
<1>3. CASE Conclude("upstream_unavailable", "none")
  <2>1. Truthful("upstream_unavailable", Class, booked')
    BY <1>2 DEF Truthful
  <2> QED BY <1>0, <1>3, <2>1, ConcludeKeeps DEF IInv
<1>4. CASE Conclude("cookie_invalid", "none")
  <2>1. Truthful("cookie_invalid", Class, booked')
    BY <1>2 DEF Truthful
  <2> QED BY <1>0, <1>4, <2>1, ConcludeKeeps DEF IInv
<1>5. ASSUME NEW res \in Results, NEW first \in {"absent", RosterNow, Roster(Class, booked', seats')},
             Tells(res, taken),
             \/ res = "cookie_invalid" /\ Conclude("cookie_invalid", "res")
             \/ res # "cookie_invalid" /\ first = "in" /\ Conclude("granted", "roster")
             \/ /\ res # "cookie_invalid" /\ first # "in"
                /\ pc' = "confirm"
                /\ reply' = [res |-> res, first |-> first]
                /\ UNCHANGED <<at, polls, reason, verdict>>
      PROVE  NothingYet' /\ AnswerTrue' /\ VerdictTrue' /\ OneRow'
  <2>1. /\ res = "granted" => booked' = {Class}
        /\ res \in {"full", "cookie_invalid"} => booked' = {}
        /\ first = "in" => booked' = {Class}
        /\ first = "full" => booked' = {}
    BY <1>0, <1>1, <1>5, AnswerKeeps DEF IInv
  <2>2. CASE res = "cookie_invalid" /\ Conclude("cookie_invalid", "res")
    <3>1. Truthful("cookie_invalid", Class, booked')
      BY <2>1, <2>2 DEF Truthful
    <3> QED BY <1>0, <2>2, <3>1, ConcludeKeeps DEF IInv
  <2>3. CASE first = "in" /\ Conclude("granted", "roster")
    <3>1. Truthful("granted", Class, booked')
      BY <2>1, <2>3 DEF Truthful
    <3> QED BY <1>0, <2>3, <3>1, ConcludeKeeps DEF IInv
  <2>4. CASE /\ first # "in" /\ pc' = "confirm"
             /\ reply' = [res |-> res, first |-> first]
             /\ UNCHANGED <<at, polls, reason, verdict>>
    <3>1. Class' = Class
      BY <1>0, <2>4, ChainKept DEF Class
    <3>2. reply'.res = res /\ reply'.first = first
      BY <2>4
    <3>3. outcome' = NoVerdict
      BY <1>0 DEF IInv, OneRow
    <3> QED BY <1>2, <2>1, <2>4, <3>1, <3>2, <3>3
            DEF NothingYet, AnswerTrue, VerdictTrue, OneRow
  <2> QED BY <1>5, <2>2, <2>3, <2>4
<1> QED BY <1>1, <1>3, <1>4, <1>5 DEF Answered

LEMMA IInvStep == ASSUME ~ResLies PROVE IInv /\ [Next]_vars => IInv'
<1> SUFFICES ASSUME IInv, [Next]_vars PROVE IInv'
  OBVIOUS
<1>0. TypeOK'
  BY TypeStep DEF IInv
<1>1. CASE CheckSkips \/ LoadCookie \/ AlignToPublication \/ FindSlot
  BY <1>0, <1>1, PreludeKeeps DEF IInv
<1>2. CASE Inscribe
  BY <1>0, <1>2, InscribeKeeps DEF IInv
<1>3. CASE Confirm
  <2>1. pc = "confirm" /\ UNCHANGED <<plan, outcome, booked>>
    BY <1>3 DEF Confirm, gym
  <2>2. \E seen \in {"absent", RosterNow, reply.first} : Classify(seen)
    BY <1>3 DEF Confirm
  <2> QED BY <1>0, <2>1, <2>2, ClassifyKeeps DEF IInv
<1>4. CASE PersistTerminal
  BY <1>0, <1>4 DEF PersistTerminal, IInv, NothingYet, AnswerTrue, VerdictTrue, OneRow
<1>5. CASE Gym \/ UNCHANGED vars
  <2>1. UNCHANGED <<booked, plan, pc, at, reply, verdict, outcome>>
    BY <1>5 DEF Gym, Publish, Expire, OthersTake, OthersLeave, run, vars, gym
  <2>2. Class' = Class
    BY <2>1, ChainKept DEF Class
  <2> QED BY <1>0, <2>1, <2>2 DEF IInv, NothingYet, AnswerTrue, VerdictTrue, OneRow
<1> QED BY <1>1, <1>2, <1>3, <1>4, <1>5 DEF Next, Step

LEMMA PromiseInit == Init => BR!Init
BY DEF Init, NoVerdict, BR!Init, BR!NoRow

\* A booking request the gym grants is the abstract booking, the terminal row
\* the abstract record; everything else stutters.
LEMMA PromiseStep == IInv /\ [Next]_vars => [BR!Next]_(BR!vars)
<1> SUFFICES ASSUME IInv, [Next]_vars PROVE [BR!Next]_(BR!vars)
  OBVIOUS
<1>1. ASSUME UNCHANGED <<booked, outcome>> PROVE [BR!Next]_(BR!vars)
  BY <1>1 DEF BR!vars
<1>2. CASE Inscribe
  <2>1. pc = "inscribe" /\ booked = {} /\ outcome' = outcome /\ outcome = NoVerdict
    BY <1>2 DEF Inscribe, IInv, NothingYet, OneRow
  <2>2. Class \in Classes
    BY ClassType DEF IInv
  <2>3. booked' = {} \/ booked' = {Class}
    BY <1>2, <2>1 DEF Inscribe, gym, Enrol
  <2>4. CASE booked' = {}
    BY <1>1, <2>1, <2>4
  <2>5. CASE booked' = {Class}
    <3>1. BR!Book(Class)
      BY <2>1, <2>5 DEF BR!Book, BR!NoRow, NoVerdict
    <3> QED BY <2>2, <3>1 DEF BR!Next
  <2> QED BY <2>3, <2>4, <2>5
<1>3. CASE PersistTerminal
  <2>1. pc = "persist" /\ outcome = NoVerdict /\ outcome' = verdict /\ booked' = booked
    BY <1>3 DEF PersistTerminal, gym, IInv, OneRow
  <2>2. /\ verdict.class \in Classes /\ verdict.status # "none"
        /\ Truthful(verdict.status, verdict.class, booked)
    BY <2>1 DEF IInv, VerdictTrue
  <2>3. verdict.status \in BR!Statuses
    BY <2>2 DEF IInv, TypeOK, Verdict, BR!Statuses
  <2>4. BR!Record(verdict.status, verdict.class)
    BY <2>1, <2>2 DEF Truthful, BR!Record, BR!Agrees, BR!NoRow, NoVerdict
  <2> QED BY <2>2, <2>3, <2>4 DEF BR!Next
<1>4. CASE CheckSkips \/ LoadCookie \/ AlignToPublication \/ FindSlot \/ Confirm
  BY <1>1, <1>4 DEF CheckSkips, LoadCookie, AlignToPublication, FindSlot, Confirm, gym
<1>5. CASE Gym \/ UNCHANGED vars
  BY <1>1, <1>5 DEF Gym, Publish, Expire, OthersTake, OthersLeave, run, vars, gym
<1> QED BY <1>2, <1>3, <1>4, <1>5 DEF Next, Step

\* Whatever the gym's servers do between the requests of a run and however
\* many classes, places and polls there are, the run books at most one class
\* and writes one row that tells the truth about it, provided Res does not lie
\* where no roster shows the class (BookingExecutor.book implements BookingRun).
THEOREM Promise == ASSUME ~ResLies PROVE Spec => KeepsPromise
<1>1. Init => IInv
  BY IInvInit
<1>2. IInv /\ [Next]_vars => IInv'
  BY IInvStep
<1>3. Init => BR!Init
  BY PromiseInit
<1>4. IInv /\ [Next]_vars => [BR!Next]_(BR!vars)
  BY PromiseStep
<1> QED BY <1>1, <1>2, <1>3, <1>4, PTL DEF Spec, KeepsPromise, BR!Spec

-----------------------------------------------------------------------------
(* The roster decides, even if Res lies. *)

\* A verdict or row v that a roster decided agrees with that roster.
RosterTrue(v, b) ==
  v.evidence = "roster" =>
    /\ v.status = "granted" => v.class \in b
    /\ v.status = "full"    => v.class \notin b

\* What the answer's roster showed is still true while it is being confirmed.
ShownTrue == pc = "confirm" => reply.first # "in" /\ (reply.first = "full" => Class \notin booked)

RosterInv ==
  /\ TypeOK /\ OneRow /\ ShownTrue
  /\ pc = "persist" => RosterTrue(verdict, booked)
  /\ RosterTrue(outcome, booked)

\* An attempt that is not decided by a roster, or as the roster has it.
LEMMA ConcludeByRoster ==
  ASSUME TypeOK, NEW status, NEW evidence, Conclude(status, evidence),
         evidence = "roster" =>
           /\ status = "granted" => Class \in booked'
           /\ status = "full"    => Class \notin booked'
  PROVE  pc' # "confirm" /\ pc' # "done" /\ (pc' = "persist" => RosterTrue(verdict', booked'))
<1>1. CASE Advances(status)
  BY <1>1 DEF Conclude
<1>2. CASE ~Advances(status)
  <2>1. /\ pc' = "persist" /\ verdict'.status = status /\ verdict'.class = Class
        /\ verdict'.evidence = evidence
    BY <1>2 DEF Conclude
  <2> QED BY <2>1 DEF RosterTrue
<1> QED BY <1>1, <1>2

LEMMA RosterInvInit == Init => RosterInv
BY TypeInit DEF Init, RosterInv, OneRow, ShownTrue, RosterTrue, NoVerdict

LEMMA RosterInvStep == RosterInv /\ [Next]_vars => RosterInv'
<1> SUFFICES ASSUME RosterInv, [Next]_vars PROVE RosterInv'
  OBVIOUS
<1>0. TypeOK' /\ TypeOK
  BY TypeStep DEF RosterInv
<1>a. ASSUME pc # "done", outcome' = outcome, pc' # "confirm", pc' # "done",
             pc' = "persist" => RosterTrue(verdict', booked')
      PROVE  RosterInv'
  <2>1. outcome' = NoVerdict
    BY <1>a DEF RosterInv, OneRow
  <2> QED BY <1>0, <1>a, <2>1 DEF RosterInv, OneRow, ShownTrue, RosterTrue, NoVerdict
<1>1. CASE CheckSkips \/ LoadCookie
  <2>1. pc # "done" /\ outcome' = outcome
    BY <1>1 DEF CheckSkips, LoadCookie
  <2>2. pc' \in {"cookie", "align"} \/ \E s, c, o : Decide(s, c, o)
    BY <1>1 DEF CheckSkips, LoadCookie
  <2>3. pc' \in {"cookie", "align"} \/ (pc' = "persist" /\ verdict'.evidence = "none")
    BY <2>2 DEF Decide, NoVerdict
  <2> QED BY <1>a, <2>1, <2>3 DEF RosterTrue
<1>2. CASE AlignToPublication
  <2>1. pc # "done" /\ outcome' = outcome /\ pc' \in {"find", "align"}
    BY <1>2 DEF AlignToPublication
  <2> QED BY <1>a, <2>1
<1>3. CASE FindSlot
  <2>1. pc = "find" /\ outcome' = outcome
    BY <1>3 DEF FindSlot
  <2>2. CASE Conclude("class_not_visible", "none")
    BY <1>0, <1>a, <2>1, <2>2, ConcludeByRoster
  <2>3. CASE ~Conclude("class_not_visible", "none")
    <3>1. pc' \in {"find", "inscribe"}
      BY <1>3, <2>1, <2>3 DEF FindSlot
    <3> QED BY <1>a, <2>1, <3>1
  <2> QED BY <2>2, <2>3
<1>4. CASE Inscribe
  <2>1. pc = "inscribe" /\ outcome' = outcome /\ plan' = plan
    BY <1>4 DEF Inscribe
  <2>2. CASE \E s : Conclude(s, "none") \/ Conclude(s, "res")
    BY <1>0, <1>a, <2>1, <2>2, ConcludeByRoster
  <2>3. ASSUME NEW taken \in BOOLEAN, Enrol(Class, taken), NEW res \in Results,
               NEW first \in {"absent", RosterNow, Roster(Class, booked', seats')},
               \/ first = "in" /\ Conclude("granted", "roster")
               \/ /\ first # "in"
                  /\ pc' = "confirm"
                  /\ reply' = [res |-> res, first |-> first]
                  /\ UNCHANGED <<at, polls, reason, verdict>>
        PROVE  RosterInv'
    <3>1. first = "in" => Class \in booked'
      BY <2>3 DEF Enrol, RosterNow, Roster
    <3>2. first = "full" => Class \notin booked'
      BY <2>3 DEF Enrol, RosterNow, Roster
    <3>3. CASE first = "in" /\ Conclude("granted", "roster")
      BY <1>0, <1>a, <2>1, <3>1, <3>3, ConcludeByRoster
    <3>4. CASE first # "in" /\ pc' = "confirm" /\ reply' = [res |-> res, first |-> first]
               /\ UNCHANGED <<at, polls, reason, verdict>>
      <4>1. Class' = Class
        BY <2>1, <3>4, ChainKept DEF Class
      <4>2. reply'.first = first
        BY <3>4
      <4>3. outcome' = NoVerdict
        BY <2>1 DEF RosterInv, OneRow
      <4> QED BY <1>0, <3>2, <3>4, <4>1, <4>2, <4>3
              DEF RosterInv, OneRow, ShownTrue, RosterTrue, NoVerdict
    <3> QED BY <2>3, <3>3, <3>4
  <2> QED BY <1>4, <2>2, <2>3 DEF Inscribe, Answered
<1>5. CASE Confirm
  <2>1. pc = "confirm" /\ outcome' = outcome /\ booked' = booked
    BY <1>5 DEF Confirm, gym
  <2>2. PICK seen \in {"absent", RosterNow, reply.first} : Classify(seen)
    BY <1>5 DEF Confirm
  <2>3. seen = "in" => Class \in booked
    BY <2>1 DEF RosterInv, ShownTrue, RosterNow, Roster
  <2>4. seen = "full" => Class \notin booked
    BY <2>1 DEF RosterInv, ShownTrue, RosterNow, Roster
  <2>5. CASE seen = "absent"
    <3>1. Conclude(ByRes(reply.res), "res")
      BY <2>2, <2>5 DEF Classify
    <3> QED BY <1>0, <1>a, <2>1, <3>1, ConcludeByRoster
  <2>6. CASE seen # "absent"
    <3>1. Conclude(ByRoster(seen), "roster")
      BY <2>2, <2>6 DEF Classify
    <3>2. /\ ByRoster(seen) = "granted" => Class \in booked'
          /\ ByRoster(seen) = "full" => Class \notin booked'
      BY <2>1, <2>3, <2>4 DEF ByRoster
    <3> QED BY <1>0, <1>a, <2>1, <3>1, <3>2, ConcludeByRoster
  <2> QED BY <2>5, <2>6
<1>6. CASE PersistTerminal
  BY <1>0, <1>6 DEF PersistTerminal, RosterInv, OneRow, ShownTrue, gym
<1>7. CASE Gym \/ UNCHANGED vars
  <2>1. UNCHANGED <<booked, plan, pc, at, reply, verdict, outcome>>
    BY <1>7 DEF Gym, Publish, Expire, OthersTake, OthersLeave, run, vars, gym
  <2>2. Class' = Class
    BY <2>1, ChainKept DEF Class
  <2> QED BY <1>0, <2>1, <2>2 DEF RosterInv, OneRow, ShownTrue
<1> QED BY <1>1, <1>2, <1>3, <1>4, <1>5, <1>6, <1>7 DEF Next, Step

\* A row decided by a roster is right even if the Res field lies, and stays
\* right whatever places others take or leave (_resolve_enrollment).
THEOREM RosterIsAuthority == Spec => []RosterDecides
<1>1. RosterInv => RosterDecides
  BY DEF RosterInv, RosterTrue, RosterDecides
<1> QED BY <1>1, RosterInvInit, RosterInvStep, PTL DEF Spec

-----------------------------------------------------------------------------
(* Substitutions. *)

\* A contested override heads the chain, and what follows it is its fallback.
LEMMA ChainOfOverride ==
  ASSUME plan \in Plan, ContestsOverride
  PROVE  /\ Chain[1].class = plan.wanted /\ Chain[1].source = "override"
         /\ \A i \in 2..Len(Chain) : Chain[i].source = "override_fallback"
<1> DEFINE a == <<Candidate(plan.wanted, "override")>>
           b == <<Candidate(Primary, RuleSource)>>
           c == IF plan.second # NoClass /\ ~plan.suppress
                THEN <<Candidate(plan.second, RuleSource)>> ELSE <<>>
<1>1. RuleSource = "override_fallback"
  BY DEF RuleSource
<1>2. Chain = (a \o b) \o c
  BY DEF Chain
<1>3. a = <<[class |-> plan.wanted, source |-> "override"]>>
  BY DEF Candidate
<1>4. b = <<[class |-> Primary, source |-> "override_fallback"]>>
  BY <1>1 DEF Candidate
<1>5. a \in Seq(Candidates) /\ Len(a) = 1 /\ b \in Seq(Candidates) /\ Len(b) = 1
  BY <1>3, <1>4, ExecutorAssumption DEF ContestsOverride, Plan, Candidates, Sources
<1>6. c \in Seq(Candidates) /\ Len(c) \in 0..1 /\ \A i \in 1..Len(c) : c[i].source = "override_fallback"
  <2>1. CASE plan.second # NoClass /\ ~plan.suppress
    <3>1. c = <<[class |-> plan.second, source |-> "override_fallback"]>>
      BY <1>1, <2>1 DEF Candidate
    <3>2. plan.second \in Classes
      BY <2>1 DEF Plan
    <3> HIDE DEF c
    <3>3. c \in Seq(Candidates) /\ Len(c) = 1 /\ c[1].source = "override_fallback"
      BY <3>1, <3>2 DEF Candidates, Sources
    <3> QED BY <3>3
  <2>2. CASE ~(plan.second # NoClass /\ ~plan.suppress)
    <3>1. c = <<>>
      BY <2>2
    <3> HIDE DEF c
    <3> QED BY <3>1
  <2> QED BY <2>1, <2>2
<1>7. a[1].class = plan.wanted /\ a[1].source = "override" /\ b[1].source = "override_fallback"
  BY <1>3, <1>4
<1> HIDE DEF a, b, c
<1>8. /\ a \o b \in Seq(Candidates) /\ Len(a \o b) = 2
      /\ (a \o b)[1] = a[1] /\ (a \o b)[2] = b[1]
  BY <1>5, ConcatProperties
<1>9. /\ Len((a \o b) \o c) = 2 + Len(c)
      /\ \A i \in 1..2 + Len(c) : ((a \o b) \o c)[i] = IF i <= 2 THEN (a \o b)[i] ELSE c[i - 2]
  BY <1>6, <1>8, ConcatProperties
<1>10. Len(Chain) = 2 + Len(c) /\ Chain[1] = a[1] /\ Chain[2] = b[1]
       /\ \A i \in 3..2 + Len(c) : Chain[i] = c[i - 2]
  BY <1>2, <1>6, <1>8, <1>9
<1>11. \A i \in 2..Len(Chain) : i = 2 \/ (i \in 3..2 + Len(c) /\ i - 2 \in 1..Len(c))
  BY <1>6, <1>10
<1> QED BY <1>6, <1>7, <1>10, <1>11

\* What SubstitutionExplained asks of a verdict or row v.
Explains(v) ==
  v.status \notin {"none", "skipped"} /\ v.class # plan.wanted
  => /\ v.source = "override_fallback" /\ v.requested = plan.wanted
     /\ v.reason # "none"

\* The walk left the override target for a reason that it remembers.
Remembers ==
  ContestsOverride =>
    /\ at > 1 => reason # "none"
    /\ pc = "persist" => Explains(verdict)
    /\ Explains(outcome)

LEMMA ConcludeExplains ==
  ASSUME TypeOK, Remembers, plan' = plan, outcome' = outcome,
         NEW status, NEW evidence, Conclude(status, evidence)
  PROVE  Remembers'
<1> SUFFICES ASSUME ContestsOverride' PROVE /\ at' > 1 => reason' # "none"
                                            /\ pc' = "persist" => Explains(verdict)'
                                            /\ Explains(outcome)'
  BY DEF Remembers
<1>0. ContestsOverride /\ at \in 1..Len(Chain) /\ Len(Chain) \in Nat \ {0}
  BY ClassType DEF ContestsOverride, TypeOK
<1>1. /\ Chain[1].class = plan.wanted /\ Chain[1].source = "override"
      /\ \A i \in 2..Len(Chain) : Chain[i].source = "override_fallback"
  BY <1>0, ChainOfOverride DEF TypeOK
<1>2. Explains(outcome)'
  BY <1>0 DEF Remembers, Explains
<1>3. at > 1 => at \in 2..Len(Chain) /\ reason # "none"
  BY <1>0 DEF Remembers
<1>4. at = 1 \/ at > 1
  BY <1>0
<1>5. CASE Advances(status)
  <2>1. pc' = "find" /\ reason' = IF IsOverrideTarget THEN status ELSE reason
    BY <1>5 DEF Conclude
  <2>2. status # "none"
    BY <1>5 DEF Advances
  <2>3. reason' # "none"
    BY <1>1, <1>3, <1>4, <2>1, <2>2 DEF IsOverrideTarget
  <2> QED BY <1>2, <2>1, <2>3
<1>6. CASE ~Advances(status)
  <2>1. /\ at' = at /\ reason' = reason
        /\ verdict'.class = Class /\ verdict'.source = Chain[at].source
        /\ Chain[at].source = "override_fallback" =>
             verdict'.requested = Chain[1].class /\ verdict'.reason = reason
    BY <1>6 DEF Conclude
  <2>2. CASE at = 1
    BY <1>1, <1>2, <2>1, <2>2 DEF Explains, Class
  <2>3. CASE at > 1
    BY <1>1, <1>2, <1>3, <2>1, <2>3 DEF Explains
  <2> QED BY <1>4, <2>2, <2>3
<1> QED BY <1>5, <1>6

LEMMA RemembersInit == Init => Remembers
BY DEF Init, Remembers, Explains, NoVerdict

LEMMA RemembersStep == TypeOK /\ Remembers /\ [Next]_vars => Remembers'
<1> SUFFICES ASSUME TypeOK, Remembers, [Next]_vars PROVE Remembers'
  OBVIOUS
<1>0. plan' = plan
  BY DEF Next, Step, CheckSkips, LoadCookie, AlignToPublication, FindSlot, Inscribe, Confirm,
         PersistTerminal, Gym, Publish, Expire, OthersTake, OthersLeave, run, vars
<1>a. ASSUME UNCHANGED <<at, reason, outcome>>,
             pc' = "persist" /\ ContestsOverride => Explains(verdict)'
      PROVE  Remembers'
  BY <1>0, <1>a DEF Remembers, Explains, ContestsOverride
<1>1. CASE CheckSkips
  <2>1. UNCHANGED <<at, reason, outcome>>
    BY <1>1 DEF CheckSkips, Decide
  <2>2. pc' = "persist" => verdict'.status = "skipped"
    BY <1>1 DEF CheckSkips, Decide, NoVerdict
  <2> QED BY <1>a, <2>1, <2>2 DEF Explains
<1>2. CASE LoadCookie
  <2>1. UNCHANGED <<at, reason, outcome>>
    BY <1>2 DEF LoadCookie, Decide
  <2>2. pc' = "persist" => verdict'.class = Chain[1].class
    BY <1>2 DEF LoadCookie, Decide, NoVerdict
  <2>3. ContestsOverride => Chain[1].class = plan.wanted
    BY ChainOfOverride DEF TypeOK
  <2> QED BY <1>0, <1>a, <2>1, <2>2, <2>3 DEF Explains
<1>3. CASE AlignToPublication
  <2>1. UNCHANGED <<at, reason, outcome>> /\ pc' # "persist"
    BY <1>3 DEF AlignToPublication
  <2> QED BY <1>a, <2>1
<1>4. CASE FindSlot
  <2>0. outcome' = outcome
    BY <1>4 DEF FindSlot
  <2>1. CASE Conclude("class_not_visible", "none")
    BY <1>0, <2>0, <2>1, ConcludeExplains
  <2>2. CASE ~Conclude("class_not_visible", "none")
    <3>1. UNCHANGED <<at, reason>> /\ pc' # "persist"
      BY <1>4, <2>2 DEF FindSlot
    <3> QED BY <1>a, <2>0, <3>1
  <2> QED BY <2>1, <2>2
<1>5. CASE Inscribe
  <2>0. outcome' = outcome
    BY <1>5 DEF Inscribe
  <2>1. CASE \E s, e : Conclude(s, e)
    BY <1>0, <2>0, <2>1, ConcludeExplains
  <2>2. CASE ~\E s, e : Conclude(s, e)
    <3>1. UNCHANGED <<at, reason>> /\ pc' # "persist"
      BY <1>5, <2>2 DEF Inscribe, Answered
    <3> QED BY <1>a, <2>0, <3>1
  <2> QED BY <2>1, <2>2
<1>6. CASE Confirm
  <2>1. outcome' = outcome /\ \E s, e : Conclude(s, e)
    BY <1>6 DEF Confirm, Classify
  <2> QED BY <1>0, <2>1, ConcludeExplains
<1>7. CASE PersistTerminal
  BY <1>0, <1>7 DEF PersistTerminal, Remembers, Explains, ContestsOverride
<1>8. CASE Gym \/ UNCHANGED vars
  <2>1. UNCHANGED <<pc, at, reason, verdict, outcome>>
    BY <1>8 DEF Gym, Publish, Expire, OthersTake, OthersLeave, run, vars
  <2> QED BY <1>0, <2>1 DEF Remembers, Explains, ContestsOverride
<1> QED BY <1>1, <1>2, <1>3, <1>4, <1>5, <1>6, <1>7, <1>8 DEF Next, Step

\* Whatever the gym answers, a user who wanted another class for the day and
\* got one of the rule's reads in the row what was asked for and why it was
\* not honoured (_walk_chain, INV-008).
THEOREM Substitutions == Spec => []SubstitutionExplained
<1>1. Remembers => SubstitutionExplained
  BY DEF Remembers, Explains, SubstitutionExplained
<1>2. TypeOK /\ Remembers /\ [Next]_vars => TypeOK' /\ Remembers'
  BY TypeStep, RemembersStep
<1> QED BY <1>1, <1>2, TypeInit, RemembersInit, PTL DEF Spec

-----------------------------------------------------------------------------
(* The refused cookie. *)

Settled == {"granted", "full", "upstream_unavailable"}

\* A refusal of a poll for the override target: the walk went on and remembers.
Forgiven(x) ==
  /\ x.by = "poll" /\ x.at = 1
  /\ ContestsOverride /\ at > 1 /\ reason = "class_not_visible"

\* What RefusalNotDisguised asks of a verdict or row v.
TellsRefusals(v) ==
  v.status \in Settled =>
    \A x \in refused :
      \/ x.by = "read" /\ (x.at = at \/ ~x.dead)
      \/ /\ ~x.dead /\ x.by = "poll" /\ x.at = 1
         /\ v.source = "override_fallback" /\ v.reason = "class_not_visible"

NoneDead == \A x \in refused : ~x.dead

\* A dead cookie stays dead, so that after its refusal no later candidate is
\* requested; before the row, only confirming reads and polls for the override
\* target were refused.
RefusalShows ==
  /\ pc # "done" => outcome = NoVerdict
  /\ NoneDead \/ (~accepted /\ pc \in {"find", "persist", "done"})
  /\ pc \notin {"persist", "done"} => \A x \in refused : x.by = "read" \/ Forgiven(x)
  /\ pc = "persist" => TellsRefusals(verdict)
  /\ pc = "done" => TellsRefusals(outcome)

\* Only the head of a chain can be the target of an override.
LEMMA OverrideFirst ==
  ASSUME plan \in Plan, NEW i \in 1..Len(Chain), Chain[i].source = "override"
  PROVE  i = 1 /\ ContestsOverride
<1>1. CASE ContestsOverride
  <2>1. Len(Chain) \in Nat
    BY ChainType
  <2>2. i = 1 \/ i \in 2..Len(Chain)
    BY <2>1
  <2> QED BY <1>1, <2>2, ChainOfOverride
<1>2. CASE ~ContestsOverride
  <2> DEFINE a == <<[class |-> Primary, source |-> "rule"]>>
             b == IF plan.second # NoClass /\ ~plan.suppress
                  THEN <<[class |-> plan.second, source |-> "rule"]>> ELSE <<>>
             Plain == [class : Classes, source : {"rule"}]
  <2>1. Chain = (<<>> \o a) \o b
    BY <1>2 DEF Chain, Candidate, RuleSource
  <2>2. a \in Seq(Plain)
    BY ExecutorAssumption
  <2>3. b \in Seq(Plain)
    <3>1. CASE plan.second # NoClass /\ ~plan.suppress
      BY <3>1 DEF Plan
    <3>2. CASE ~(plan.second # NoClass /\ ~plan.suppress)
      BY <3>2
    <3> QED BY <3>1, <3>2
  <2> HIDE DEF a, b
  <2>4. <<>> \o a \in Seq(Plain)
    BY <2>2
  <2>5. Chain \in Seq(Plain)
    BY <2>1, <2>3, <2>4, ConcatProperties
  <2>6. Chain[i] \in Plain
    BY <2>5, ElementOfSeq
  <2>7. Chain[i].source = "rule"
    BY <2>6
  <2> QED BY <2>7
<1> QED BY <1>1, <1>2

\* The end of an attempt tells of its own refusal and keeps what it remembers
\* of earlier ones.
LEMMA ConcludeShows ==
  ASSUME TypeOK, pc # "done", RefusalShows, UNCHANGED <<plan, outcome, accepted>>,
         NEW status, NEW evidence, Conclude(status, evidence),
         pc \notin {"persist", "done"},
         status \in Settled => NoneDead,
         \/ UNCHANGED refused
         \/ Refused("read")
         \/ Refused("poll") /\ status = "class_not_visible"
         \/ Refused("request") /\ status = "cookie_invalid"
  PROVE  RefusalShows'
<1> DEFINE new(by) == [by |-> by, at |-> at, dead |-> ~accepted]
<1>0. /\ at \in 1..Len(Chain) /\ Len(Chain) \in Nat /\ plan \in Plan
      /\ ContestsOverride' = ContestsOverride
  BY ClassType DEF TypeOK, ContestsOverride
<1>1. IsOverrideTarget => at = 1 /\ ContestsOverride
  BY <1>0, OverrideFirst DEF IsOverrideTarget
<1>2. ContestsOverride /\ at > 1 => Chain[at].source = "override_fallback"
  <2>1. at > 1 => at \in 2..Len(Chain)
    BY <1>0
  <2> QED BY <1>0, <2>1, ChainOfOverride
<1>3. \A x \in refused : x.by = "read" \/ Forgiven(x)
  BY DEF RefusalShows
<1>4. \A x \in refused' :
        \/ x \in refused
        \/ x = new("read")
        \/ x = new("poll") /\ status = "class_not_visible"
        \/ x = new("request") /\ status = "cookie_invalid"
  BY DEF Refused
<1>5. NoneDead' \/ ~accepted'
  <2>1. CASE accepted
    <3>1. NoneDead
      BY <2>1 DEF RefusalShows
    <3>2. \A by : ~new(by).dead
      BY <2>1
    <3> QED BY <1>4, <3>1, <3>2 DEF NoneDead
  <2> QED BY <2>1
<1>6. CASE Advances(status)
  <2>1. /\ pc' = "find" /\ at' = at + 1
        /\ reason' = IF IsOverrideTarget THEN status ELSE reason
        /\ status \in {"full", "class_not_visible"}
        /\ status = "class_not_visible" => IsOverrideTarget
    BY <1>6 DEF Conclude, Advances
  <2>2. ASSUME NEW x \in refused' PROVE x.by = "read" \/ Forgiven(x)'
    <3>1. CASE x \in refused
      BY <1>0, <1>1, <1>3, <2>1, <3>1 DEF Forgiven
    <3>2. CASE x = new("read")
      BY <3>2
    <3>3. CASE x = new("poll") /\ status = "class_not_visible"
      BY <1>0, <1>1, <2>1, <3>3 DEF Forgiven
    <3> QED BY <1>4, <2>1, <2>2, <3>1, <3>2, <3>3
  <2> QED BY <1>5, <2>1, <2>2 DEF RefusalShows
<1>7. CASE ~Advances(status)
  <2>1. /\ pc' = "persist" /\ at' = at /\ reason' = reason
        /\ verdict'.status = status /\ verdict'.source = Chain[at].source
        /\ Chain[at].source = "override_fallback" => verdict'.reason = reason
    BY <1>7 DEF Conclude
  <2>2. ASSUME status \in Settled, NEW x \in refused'
        PROVE  \/ x.by = "read" /\ (x.at = at' \/ ~x.dead)
               \/ /\ ~x.dead /\ x.by = "poll" /\ x.at = 1
                  /\ verdict'.source = "override_fallback"
                  /\ verdict'.reason = "class_not_visible"
    <3>1. CASE x \in refused
      <4>1. ~x.dead
        BY <2>2, <3>1 DEF NoneDead
      <4> QED BY <1>2, <1>3, <2>1, <3>1, <4>1 DEF Forgiven
    <3>2. CASE x = new("read")
      BY <2>1, <3>2
    <3> QED BY <1>4, <2>2, <3>1, <3>2 DEF Settled
  <2>3. TellsRefusals(verdict)'
    BY <2>1, <2>2 DEF TellsRefusals
  <2> QED BY <1>5, <2>1, <2>3 DEF RefusalShows
<1> QED BY <1>6, <1>7

LEMMA RefusalInit == Init => RefusalShows
BY DEF Init, RefusalShows, NoneDead

LEMMA RefusalStep == TypeOK /\ RefusalShows /\ [Next]_vars => RefusalShows'
<1> SUFFICES ASSUME TypeOK, RefusalShows, [Next]_vars PROVE RefusalShows'
  OBVIOUS
<1>a. ASSUME pc \notin {"persist", "done"}, pc' \notin {"persist", "done"},
             UNCHANGED <<plan, at, reason, outcome, accepted, refused>>,
             NoneDead \/ pc' = "find"
      PROVE  RefusalShows'
  BY <1>a DEF RefusalShows, NoneDead, Forgiven, ContestsOverride
<1>1. ASSUME CheckSkips \/ LoadCookie PROVE RefusalShows'
  <2>1. /\ pc \in {"start", "cookie"}
        /\ UNCHANGED <<plan, at, reason, outcome, accepted, refused>>
    BY <1>1 DEF CheckSkips, LoadCookie, Decide, gym
  <2>2. NoneDead
    BY <2>1 DEF RefusalShows
  <2>3. CASE pc' \in {"cookie", "align"}
    BY <1>a, <2>1, <2>2, <2>3
  <2>4. CASE pc' \notin {"cookie", "align"}
    <3>1. pc' = "persist" /\ verdict'.status \in {"skipped", "cookie_invalid"}
      BY <1>1, <2>4 DEF CheckSkips, LoadCookie, Decide, NoVerdict
    <3>2. TellsRefusals(verdict)'
      BY <3>1 DEF TellsRefusals, Settled
    <3> QED BY <2>1, <2>2, <3>1, <3>2 DEF RefusalShows, NoneDead
  <2> QED BY <2>3, <2>4
<1>2. CASE AlignToPublication
  BY <1>2, <1>a DEF AlignToPublication, gym, RefusalShows
<1>3. CASE FindSlot
  <2>1. pc = "find" /\ UNCHANGED <<plan, outcome, accepted>>
    BY <1>3 DEF FindSlot, gym
  <2>2. CASE /\ Conclude("class_not_visible", "none")
             /\ Refused("poll") \/ UNCHANGED refused
    BY <2>1, <2>2, ConcludeShows DEF Settled
  <2>3. CASE accepted /\ pc' = "inscribe" /\ UNCHANGED <<at, polls, reply, reason, verdict, refused>>
    <3>1. NoneDead
      BY <2>3 DEF RefusalShows
    <3> QED BY <1>a, <2>1, <2>3, <3>1
  <2>4. CASE UNCHANGED <<pc, at, reply, reason, verdict, refused>>
    BY <1>a, <2>1, <2>4
  <2> QED
    BY <1>3, <2>2, <2>3, <2>4 DEF FindSlot
<1>4. CASE Inscribe
  <2>1. pc = "inscribe" /\ UNCHANGED <<plan, outcome, accepted>>
    BY <1>4 DEF Inscribe, Enrol
  <2>2. NoneDead
    BY <2>1 DEF RefusalShows
  <2>3. CASE Conclude("cookie_invalid", "none") /\ Refused("request")
    BY <2>1, <2>2, <2>3, ConcludeShows
  <2>4. CASE (\E s, e : Conclude(s, e)) /\ UNCHANGED refused
    BY <2>1, <2>2, <2>4, ConcludeShows
  <2>5. CASE pc' = "confirm" /\ UNCHANGED <<at, polls, reason, verdict, refused>>
    BY <1>a, <2>1, <2>2, <2>5
  <2> QED
    BY <1>4, <2>3, <2>4, <2>5 DEF Inscribe, Answered
<1>5. CASE Confirm
  <2>1. pc = "confirm" /\ UNCHANGED <<plan, outcome, accepted>>
    BY <1>5 DEF Confirm, gym
  <2>2. NoneDead
    BY <2>1 DEF RefusalShows
  <2>3. (\E s, e : Conclude(s, e)) /\ (Refused("read") \/ UNCHANGED refused)
    BY <1>5 DEF Confirm, Classify
  <2> QED
    BY <2>1, <2>2, <2>3, ConcludeShows
<1>6. CASE PersistTerminal
  <2>1. TellsRefusals(outcome)'
    BY <1>6 DEF PersistTerminal, RefusalShows, TellsRefusals
  <2> QED
    BY <1>6, <2>1 DEF PersistTerminal, gym, RefusalShows, NoneDead
<1>7. CASE Gym \/ UNCHANGED vars
  <2>1. UNCHANGED <<plan, pc, at, reason, verdict, outcome, refused>> /\ (~accepted => ~accepted')
    BY <1>7 DEF Gym, Publish, Expire, OthersTake, OthersLeave, run, vars
  <2> QED
    BY <2>1 DEF RefusalShows, NoneDead, Forgiven, ContestsOverride, TellsRefusals
<1> QED
  BY <1>1, <1>2, <1>3, <1>4, <1>5, <1>6, <1>7 DEF Next, Step

\* For any classes and deadlines, and even if Res lies, a refusal of the cookie
\* shows in the row, unless it was met where the run does without the answer
\* (_find_slot_with_retry, _attempt, _resolve_enrollment).
THEOREM RefusalsTold == Spec => []RefusalNotDisguised
<1>1. TypeOK /\ RefusalShows => RefusalNotDisguised
  <2> SUFFICES ASSUME RefusalShows PROVE RefusalNotDisguised
    OBVIOUS
  <2>1. CASE pc = "done"
    BY <2>1 DEF RefusalShows, TellsRefusals, RefusalNotDisguised, Settled
  <2>2. CASE pc # "done"
    BY <2>2 DEF RefusalShows, RefusalNotDisguised, NoVerdict
  <2> QED BY <2>1, <2>2
<1>2. TypeOK /\ RefusalShows /\ [Next]_vars => TypeOK' /\ RefusalShows'
  BY TypeStep, RefusalStep
<1> QED
  BY <1>1, <1>2, TypeInit, RefusalInit, PTL DEF Spec

=============================================================================
