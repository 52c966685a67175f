------------------------- MODULE NotificationsProofs ------------------------
(***************************************************************************)
(* Proofs that the outcome transactions, the dispatcher and the restarts   *)
(* keep what Notifications promises, and that the whole is a behaviour of  *)
(* Dispatcher, for any runs, alerts, channels and bounds.  First what the  *)
(* dispatcher keeps on its own, whoever writes the outbox; last, that the  *)
(* heartbeat keeps what CookieHeartbeat promises of a cookie and of the    *)
(* alert that it notifies, for any windows, ceiling, lead time, interval   *)
(* and bounds, with pastes and ticks that overlap in any order.            *)
(***************************************************************************)
EXTENDS Notifications, CookieHeartbeat, TLAPS

-----------------------------------------------------------------------------
(* The dispatcher. *)

\* A tick holds a row from the moment it is taken to the commit of its attempt.
Holds(i) == pc \in {"send", "record"} /\ i = current

HeldRow ==
  /\ pc \in {"idle", "next"} => current = NoId
  /\ pc \in {"send", "record"} => /\ current \in Ids
                                  /\ outbox[current].state \in {"pending", "deleted"}
  /\ pc = "record" => answer # "none"

\* A row that is still pending has an attempt left.
AttemptLeft ==
  \A i \in Ids : outbox[i].state = "pending" => outbox[i].attempts < MaxAttempts

\* DeliveriesBounded, split by where the tick stands with the row: the delivery
\* that is not recorded yet is the one of the row in hand.
Accounted ==
  \A i \in Ids :
    sent[i] <= outbox[i].attempts + restarts
               + (IF Holds(i) THEN (IF pc = "record" THEN 1 ELSE 0)
                  ELSE IF outbox[i].state = "deleted" THEN 1 ELSE 0)

\* An answer "ok" is not recorded yet, but the message is out.
OkMeansSent ==
  pc = "record" /\ answer = "ok" /\ outbox[current].kind \in Sender!Wired =>
    sent[current] > 0 \/ Sender!Unwanted(current)

DInv ==
  /\ Sender!TypeOK /\ HeldRow /\ AttemptLeft /\ Accounted /\ OkMeansSent
  /\ Sender!DispatchedMeansSent

LEMMA InitDInv == ASSUME Sender!Init PROVE DInv
  BY DispatcherAssumption DEF Sender!Init, DInv, Sender!TypeOK, HeldRow, AttemptLeft, Accounted,
                              Holds, OkMeansSent, Sender!DispatchedMeansSent, Sender!Row,
                              Sender!NoRow, Sender!Kinds, Sender!States, Sender!Wired

LEMMA WritersStep == ASSUME DInv, Sender!Writers PROVE DInv'
<1> USE DispatcherAssumption DEF DInv
<1>1. ASSUME NEW rows \in SUBSET Ids, NEW kind \in [rows -> Sender!Kinds],
             Sender!Enqueue(rows, kind)
      PROVE  DInv'
  <2>1. \A i \in Ids : \/ outbox'[i] = outbox[i]
                       \/ /\ outbox[i].state = "none" /\ outbox'[i].state = "pending"
                          /\ outbox'[i].attempts = 0 /\ outbox[i].attempts = 0
                          /\ outbox'[i].kind \in Sender!Kinds
    BY <1>1 DEF Sender!Enqueue, Sender!NewRow, Sender!NoRow
  <2>2. Sender!TypeOK'
    BY <1>1 DEF Sender!Enqueue, Sender!NewRow, Sender!TypeOK, Sender!Row, Sender!States
  <2>3. HeldRow' /\ AttemptLeft'
    BY <1>1, <2>1 DEF Sender!Enqueue, HeldRow, AttemptLeft
  <2>4. Accounted'
    BY <1>1, <2>1 DEF Sender!Enqueue, Accounted, Holds
  <2>5. OkMeansSent' /\ Sender!DispatchedMeansSent'
    BY <1>1, <2>1 DEF Sender!Enqueue, HeldRow, OkMeansSent, Sender!DispatchedMeansSent,
                      Sender!Unwanted
  <2> QED
    BY <2>2, <2>3, <2>4, <2>5
<1>2. ASSUME NEW i \in Ids, Sender!DeleteRow(i) PROVE DInv'
  <2>1. /\ \A j \in Ids : /\ outbox'[j].kind = outbox[j].kind
                          /\ outbox'[j].attempts = outbox[j].attempts
                          /\ outbox'[j].state = IF j = i THEN "deleted" ELSE outbox[j].state
        /\ outbox' \in [Ids -> Sender!Row(0..MaxAttempts)]
    BY <1>2 DEF Sender!DeleteRow, Sender!TypeOK, Sender!Row, Sender!States
  <2>2. Sender!TypeOK'
    BY <1>2, <2>1 DEF Sender!DeleteRow, Sender!TypeOK
  <2>3. HeldRow' /\ AttemptLeft'
    BY <1>2, <2>1 DEF Sender!DeleteRow, HeldRow, AttemptLeft
  <2>4. Accounted'
    BY <1>2, <2>1 DEF Sender!DeleteRow, Accounted, Holds, Sender!TypeOK, Sender!Row
  <2>5. OkMeansSent' /\ Sender!DispatchedMeansSent'
    BY <1>2, <2>1 DEF Sender!DeleteRow, HeldRow, OkMeansSent, Sender!DispatchedMeansSent,
                      Sender!Unwanted
  <2> QED
    BY <2>2, <2>3, <2>4, <2>5
<1>3. CASE Sender!Unsubscribe
  BY <1>3 DEF Sender!Unsubscribe, Sender!TypeOK, HeldRow, AttemptLeft, Accounted, Holds,
              OkMeansSent, Sender!DispatchedMeansSent, Sender!Unwanted
<1> QED
  BY <1>1, <1>2, <1>3 DEF Sender!Writers

LEMMA TickStep == ASSUME DInv, Sender!Work \/ Sender!Restart PROVE DInv'
<1> USE DispatcherAssumption DEF DInv
<1>1. CASE Sender!LoadPendingIds \/ Sender!EndTick
  BY <1>1 DEF Sender!LoadPendingIds, Sender!EndTick, Sender!TypeOK, HeldRow, AttemptLeft,
              Accounted, Holds, OkMeansSent, Sender!DispatchedMeansSent, Sender!Unwanted
<1>2. CASE Sender!TakeRow
  <2>1. PICK i \in batch : /\ batch' = batch \ {i}
                           /\ IF outbox[i].state = "pending" THEN pc' = "send" /\ current' = i
                                                             ELSE UNCHANGED <<pc, current>>
    BY <1>2 DEF Sender!TakeRow
  <2>2. pc = "next" /\ UNCHANGED <<outbox, wanted, answer, configured, restarts, sent>>
    BY <1>2 DEF Sender!TakeRow
  <2>3. Sender!TypeOK' /\ HeldRow' /\ AttemptLeft'
    BY <2>1, <2>2 DEF Sender!TypeOK, HeldRow, AttemptLeft
  <2>4. Accounted'
    BY <2>1, <2>2 DEF Sender!TypeOK, Accounted, Holds
  <2>5. OkMeansSent' /\ Sender!DispatchedMeansSent'
    BY <2>1, <2>2 DEF OkMeansSent, Sender!DispatchedMeansSent, Sender!Unwanted
  <2> QED
    BY <2>3, <2>4, <2>5
<1>3. ASSUME Sender!Abort, pc \in {"send", "record"}, pc = "send" \/ outbox[current].state = "deleted"
      PROVE  DInv'
  <2>1. Sender!TypeOK' /\ HeldRow' /\ AttemptLeft'
    BY <1>3 DEF Sender!Abort, Sender!TypeOK, HeldRow, AttemptLeft
  <2>2. Accounted'
    BY <1>3 DEF Sender!Abort, HeldRow, Accounted, Holds, Sender!TypeOK, Sender!Row
  <2>3. OkMeansSent' /\ Sender!DispatchedMeansSent'
    BY <1>3 DEF Sender!Abort, OkMeansSent, Sender!DispatchedMeansSent, Sender!Unwanted
  <2> QED
    BY <2>1, <2>2, <2>3
<1>4. ASSUME Sender!SendRow, ~Sender!Abort PROVE DInv'
  <2> DEFINE Sends(a, out) ==
        /\ Sender!Answered(a) /\ sent' = [sent EXCEPT ![current] = @ + out]
        /\ a = "ok" /\ outbox[current].kind \in Sender!Wired => out = 1 \/ Sender!Unwanted(current)
  <2>1. PICK a \in {"ok", "transient", "permanent"}, out \in {0, 1} : Sends(a, out)
    <3>1. sent = [sent EXCEPT ![current] = @ + 0]
      BY <1>4 DEF Sender!SendRow, HeldRow, Sender!TypeOK
    <3>2. CASE /\ Sender!Answered("ok") /\ UNCHANGED sent
               /\ outbox[current].kind \notin Sender!Wired \/ Sender!Unwanted(current)
      <4>1. Sends("ok", 0)
        BY <3>1, <3>2
      <4> QED
        BY <4>1
    <3>3. CASE Sender!Answered("transient") /\ UNCHANGED sent
      <4>1. Sends("transient", 0)
        BY <3>1, <3>3
      <4> QED
        BY <4>1
    <3>4. ASSUME NEW d \in Sender!Deliveries, Sender!Answered(d.answer),
                 sent' = [sent EXCEPT ![current] = @ + d.out]
          PROVE  \E a \in {"ok", "transient", "permanent"}, out \in {0, 1} : Sends(a, out)
      <4>1. /\ d.answer \in {"ok", "transient", "permanent"} /\ d.out \in {0, 1}
            /\ d.answer = "ok" => d.out = 1
        BY DEF Sender!Deliveries
      <4>2. Sends(d.answer, d.out)
        BY <3>4, <4>1
      <4> QED
        BY <4>1, <4>2
    <3>5. "banner" \notin Sender!Wired
      BY DEF Sender!Wired
    <3> HIDE DEF Sends
    <3> QED
      BY <1>4, <3>2, <3>3, <3>4, <3>5 DEF Sender!SendRow
  <2>2. pc = "send" /\ current \in Ids /\ sent' \in [Ids -> Nat]
    BY <1>4, <2>1 DEF Sender!SendRow, HeldRow, Sender!TypeOK
  <2>3. Sender!TypeOK' /\ HeldRow' /\ AttemptLeft'
    BY <2>1, <2>2 DEF Sender!Answered, Sender!TypeOK, HeldRow, AttemptLeft
  <2>4. Accounted'
    BY <2>1, <2>2 DEF Sender!Answered, Accounted, Holds, Sender!TypeOK, Sender!Row
  <2>5. OkMeansSent' /\ Sender!DispatchedMeansSent'
    BY <2>1, <2>2 DEF Sender!Answered, OkMeansSent, Sender!DispatchedMeansSent, Sender!Unwanted,
                      Sender!TypeOK
  <2> QED
    BY <2>3, <2>4, <2>5
<1>5. ASSUME Sender!RecordAttempt, outbox[current].state # "deleted" PROVE DInv'
  <2> DEFINE n == outbox[current].attempts + 1
             row == [kind |-> outbox[current].kind, attempts |-> n, state |-> Sender!StateAfter(answer, n)]
  <2>1. /\ pc = "record" /\ outbox' = [outbox EXCEPT ![current] = row]
        /\ pc' = "next" /\ current' = NoId /\ answer' = "none"
        /\ UNCHANGED <<wanted, batch, configured, restarts, sent>>
    BY <1>5 DEF Sender!RecordAttempt
  <2>2. /\ current \in Ids /\ outbox[current].state = "pending" /\ n \in 1..MaxAttempts
        /\ outbox[current] \in Sender!Row(0..MaxAttempts)
    BY <1>5, <2>1 DEF HeldRow, AttemptLeft, Sender!TypeOK, Sender!Row
  <2>3. /\ row.kind = outbox[current].kind /\ row.attempts = n
        /\ row.state \in {"dispatched", "exhausted", "pending"}
        /\ row.state = "dispatched" => answer = "ok"
        /\ row.state = "pending" => n < MaxAttempts
        /\ row \in Sender!Row(0..MaxAttempts)
    <3>1. /\ Sender!StateAfter(answer, n) \in {"dispatched", "exhausted", "pending"}
          /\ Sender!StateAfter(answer, n) = "dispatched" => answer = "ok"
          /\ Sender!StateAfter(answer, n) = "pending" => n < MaxAttempts
      BY <2>2 DEF Sender!StateAfter
    <3> QED
      BY <2>2, <3>1 DEF Sender!Row, Sender!States
  <2> HIDE DEF row
  <2>4. outbox'[current] = row /\ \A i \in Ids \ {current} : outbox'[i] = outbox[i]
    BY <2>1, <2>2 DEF Sender!TypeOK
  <2>5. Sender!TypeOK' /\ HeldRow' /\ AttemptLeft'
    BY <2>1, <2>2, <2>3, <2>4 DEF Sender!TypeOK, HeldRow, AttemptLeft
  <2>6. Accounted'
    BY <2>1, <2>2, <2>3, <2>4 DEF Accounted, Holds, Sender!TypeOK, Sender!Row
  <2>7. OkMeansSent' /\ Sender!DispatchedMeansSent'
    BY <2>1, <2>2, <2>3, <2>4 DEF OkMeansSent, Sender!DispatchedMeansSent, Sender!Unwanted
  <2> QED
    BY <2>5, <2>6, <2>7
<1>6. CASE Sender!Restart
  <2>1. Sender!TypeOK' /\ HeldRow' /\ AttemptLeft'
    BY <1>6 DEF Sender!Restart, Sender!TypeOK, HeldRow, AttemptLeft
  <2>2. Accounted'
    BY <1>6 DEF Sender!Restart, HeldRow, Accounted, Holds, Sender!TypeOK, Sender!Row
  <2>3. OkMeansSent' /\ Sender!DispatchedMeansSent'
    BY <1>6 DEF Sender!Restart, OkMeansSent, Sender!DispatchedMeansSent, Sender!Unwanted
  <2> QED
    BY <2>1, <2>2, <2>3
<1> QED
  BY <1>1, <1>2, <1>3, <1>4, <1>5, <1>6 DEF Sender!Work, Sender!SendRow, Sender!RecordAttempt

\* A step of the dispatcher's specification keeps its invariant.
LEMMA SenderStep == ASSUME DInv, [Sender!Next]_(Sender!vars) PROVE DInv'
<1>1. CASE UNCHANGED Sender!vars
  BY <1>1 DEF Sender!vars, DInv, Sender!TypeOK, HeldRow, AttemptLeft, Accounted, Holds,
              OkMeansSent, Sender!DispatchedMeansSent, Sender!Unwanted
<1> QED
  BY <1>1, WritersStep, TickStep DEF Sender!Next

LEMMA DInvInvariant == Sender!Spec => []DInv
  BY InitDInv, SenderStep, PTL DEF Sender!Spec

\* Every variable of the dispatcher keeps its type; in particular no attempt
\* goes beyond max_attempts (notifications/dispatcher.py, _record_attempt).
THEOREM TypeCorrect == Sender!Spec => []Sender!TypeOK
<1>1. DInv => Sender!TypeOK
  BY DEF DInv
<1> QED
  BY <1>1, DInvInvariant, PTL

\* The delivery that no attempt records is that of the row in hand, of a row
\* deleted under the tick, or one a restart cut off.
LEMMA DInvBounds == ASSUME DInv PROVE Sender!DeliveriesBounded
<1> SUFFICES ASSUME NEW i \in Ids
             PROVE  sent[i] <= outbox[i].attempts + restarts
                      + (IF outbox[i].state = "deleted" \/ i = current THEN 1 ELSE 0)
  BY DEF Sender!DeliveriesBounded
<1>1. /\ sent[i] \in Nat /\ outbox[i].attempts \in Nat /\ restarts \in Nat
      /\ i = current => Holds(i)
  BY DispatcherAssumption DEF DInv, Sender!TypeOK, Sender!Row, HeldRow, Holds
<1> QED
  BY <1>1 DEF DInv, Accounted, Holds

\* A row is delivered at most once per recorded attempt, once more per restart
\* of the worker, and once more for the row in hand or deleted under it.
THEOREM Bounded == Sender!Spec => []Sender!DeliveriesBounded
<1>1. DInv => Sender!DeliveriesBounded
  BY DInvBounds
<1> QED
  BY <1>1, DInvInvariant, PTL

\* A row marked as dispatched has reached its channel, mail turned off aside.
THEOREM MarkedIsSent == Sender!Spec => []Sender!DispatchedMeansSent
<1>1. DInv => Sender!DispatchedMeansSent
  BY DEF DInv
<1> QED
  BY <1>1, DInvInvariant, PTL

\* A row that has left the queue is not taken nor sent by a batch that was
\* loaded while it was pending.
THEOREM StaysQuiet == Sender!Spec => Sender!SettledStaysQuiet
<1>1. ASSUME DInv, [Sender!Next]_(Sender!vars)
      PROVE  [\A i \in Ids : Sender!Settled(outbox[i]) /\ i # current =>
                current' # i /\ sent'[i] = sent[i]]_(Sender!vars)
  <2> SUFFICES ASSUME Sender!Next, NEW i \in Ids, Sender!Settled(outbox[i]), i # current
               PROVE  current' # i /\ sent'[i] = sent[i]
    BY <1>1
  <2>1. current' = current \/ current' = NoId \/ outbox[current'].state = "pending"
    BY DEF Sender!Next, Sender!Work, Sender!Writers, Sender!LoadPendingIds, Sender!TakeRow,
           Sender!EndTick, Sender!SendRow, Sender!Abort, Sender!Answered, Sender!RecordAttempt,
           Sender!Restart, Sender!Enqueue, Sender!DeleteRow, Sender!Unsubscribe
  <2>2. sent' = sent \/ \E k : sent' = [sent EXCEPT ![current] = k]
    BY DEF Sender!Next, Sender!Work, Sender!Writers, Sender!LoadPendingIds, Sender!TakeRow,
           Sender!EndTick, Sender!SendRow, Sender!Abort, Sender!Answered, Sender!RecordAttempt,
           Sender!Restart, Sender!Enqueue, Sender!DeleteRow, Sender!Unsubscribe
  <2> QED
    BY <1>1, <2>1, <2>2, DispatcherAssumption DEF DInv, Sender!TypeOK, Sender!Settled
<1> QED
  BY <1>1, DInvInvariant, PTL DEF Sender!Spec, Sender!SettledStaysQuiet

-----------------------------------------------------------------------------
(* The worker. *)

\* The rows of a transaction are numbered once it is flushed.
Numbered == {r \in Runs : tx[r].pc \in {"flushed", "committed"}}

\* No two transactions are given one identifier, and none is given twice.
NumbersApart ==
  /\ \A r \in Numbered : /\ RowsOf(r) \subseteq Ids
                         /\ tx[r].base + Len(tx[r].channels) <= lastId
  /\ \A r, s \in Numbered : r # s => RowsOf(r) \cap RowsOf(s) = {}

\* What is in the outbox or left it came there by a commit.
RowsBacked ==
  \A i \in Ids : outbox[i] # NoRow \/ sent[i] > 0 => \E r \in Committed : i \in RowsOf(r)

IInv ==
  /\ DInv
  /\ TypeOK /\ NumbersApart /\ RowsBacked /\ BannerBacked /\ LossExplained

-----------------------------------------------------------------------------
(* What the dispatcher keeps, in the words of this module. *)

\* Outcomes and Dispatcher mean the same rows.
LEMMA SameRows ==
  /\ Sender!NoRow = NoRow
  /\ \A k : Sender!NewRow(k) = NewRow(k)
  /\ Sender!Wired = Wired /\ Sender!Kinds = Kinds
  BY DEF Sender!NoRow, NoRow, Sender!NewRow, NewRow, Sender!Wired, Wired, Sender!Kinds, Kinds

LEMMA SenderTypes ==
  ASSUME DInv
  PROVE  /\ outbox \in [Ids -> Row(Nat)] /\ wanted \in BOOLEAN
         /\ sent \in [Ids -> Nat] /\ restarts \in Nat
<1>1. Sender!TypeOK
  BY DEF DInv
<1>2. \A n : n \in 0..MaxAttempts => n \in Nat
  OBVIOUS
<1>3. Sender!Row(0..MaxAttempts) \subseteq Row(Nat)
  BY <1>2 DEF Sender!Row, Row, Sender!Kinds, Kinds, Sender!Wired, Wired, Sender!States, States
<1>4. outbox \in [Ids -> Sender!Row(0..MaxAttempts)]
  BY <1>1 DEF Sender!TypeOK
<1>5. outbox \in [Ids -> Row(Nat)]
  BY <1>3, <1>4
<1>6. wanted \in BOOLEAN /\ sent \in [Ids -> Nat] /\ restarts \in 0..MaxRestarts
  BY <1>1 DEF Sender!TypeOK
<1> QED
  BY <1>5, <1>6

LEMMA SenderTypesNext ==
  ASSUME DInv'
  PROVE  /\ outbox' \in [Ids -> Row(Nat)] /\ wanted' \in BOOLEAN
         /\ sent' \in [Ids -> Nat] /\ restarts' \in Nat
<1>1. Sender!TypeOK'
  BY DEF DInv
<1>2. \A n : n \in 0..MaxAttempts => n \in Nat
  OBVIOUS
<1>3. Sender!Row(0..MaxAttempts) \subseteq Row(Nat)
  BY <1>2 DEF Sender!Row, Row, Sender!Kinds, Kinds, Sender!Wired, Wired, Sender!States, States
<1>4. outbox' \in [Ids -> Sender!Row(0..MaxAttempts)]
  BY <1>1 DEF Sender!TypeOK
<1>5. outbox' \in [Ids -> Row(Nat)]
  BY <1>3, <1>4
<1>6. wanted' \in BOOLEAN /\ sent' \in [Ids -> Nat] /\ restarts' \in 0..MaxRestarts
  BY <1>1 DEF Sender!TypeOK
<1> QED
  BY <1>5, <1>6

\* A tick writes and sends rows that were in the outbox, and no other.
LEMMA WorkOnRows ==
  ASSUME DInv, Sender!Work
  PROVE  /\ \A i \in Ids : outbox'[i] # NoRow \/ sent'[i] > 0 => outbox[i] # NoRow \/ sent[i] > 0
         /\ restarts' = restarts
<1>1. /\ outbox \in [Ids -> Row(Nat)] /\ sent \in [Ids -> Nat]
  BY SenderTypes
<1>2. pc \in {"send", "record"} => current \in Ids /\ outbox[current] # NoRow
  BY DEF DInv, HeldRow, NoRow
<1>3. CASE Sender!LoadPendingIds \/ Sender!TakeRow \/ Sender!EndTick
  BY <1>3 DEF Sender!LoadPendingIds, Sender!TakeRow, Sender!EndTick
<1>4. CASE Sender!SendRow
  <2>1. pc = "send" /\ UNCHANGED <<outbox, restarts>>
    BY <1>4 DEF Sender!SendRow, Sender!Answered, Sender!Abort
  <2>2. \A i \in Ids : i # current => sent'[i] = sent[i]
    BY <1>1, <1>4 DEF Sender!SendRow, Sender!Abort
  <2> QED
    BY <1>2, <2>1, <2>2
<1>5. CASE Sender!RecordAttempt
  <2>1. pc = "record" /\ UNCHANGED <<sent, restarts>>
    BY <1>5 DEF Sender!RecordAttempt, Sender!Abort
  <2>2. \A i \in Ids : i # current => outbox'[i] = outbox[i]
    BY <1>1, <1>5 DEF Sender!RecordAttempt, Sender!Abort
  <2> QED
    BY <1>2, <2>1, <2>2
<1> QED
  BY <1>3, <1>4, <1>5 DEF Sender!Work

-----------------------------------------------------------------------------
(* The transactions. *)

\* What an outcome enqueues is a sequence of kinds.
LEMMA FanoutType == ASSUME NEW r \in Runs PROVE Fanout(r) \in Seq(Kinds)
<1>1. \A kind \in Kinds : RowOf(r, kind) \in Seq(Kinds)
  BY DEF RowOf
<1>2. "banner" \in Kinds /\ "email" \in Kinds /\ "telegram" \in Kinds
  BY DEF Kinds, Wired
<1>3. (IF wanted THEN RowOf(r, "email") ELSE <<>>) \in Seq(Kinds)
  BY <1>1, <1>2
<1> HIDE DEF RowOf
<1> QED
  BY <1>1, <1>2, <1>3 DEF Fanout

LEMMA TxType ==
  ASSUME TypeOK, NEW r \in Runs
  PROVE  /\ tx[r].base \in Nat /\ tx[r].channels \in Seq(Kinds)
         /\ Len(tx[r].channels) \in Nat /\ lastId \in Nat
<1>1. tx[r] \in Tx
  BY DEF TypeOK
<1>2. tx[r].base \in Nat /\ tx[r].channels \in Seq(Kinds)
  BY <1>1 DEF Tx
<1> QED
  BY <1>2, OutcomesAssumption DEF TypeOK

\* Numbers once given stay apart when no transaction is numbered anew.
LEMMA NumbersFrame ==
  ASSUME TypeOK, NumbersApart, lastId' \in Nat, lastId <= lastId',
         \A r \in Numbered' : r \in Numbered /\ tx'[r].base = tx[r].base
                                            /\ tx'[r].channels = tx[r].channels
  PROVE  NumbersApart'
<1>1. \A r \in Numbered' : r \in Runs /\ RowsOf(r)' = RowsOf(r)
  BY DEF RowsOf, Numbered
<1>2. ASSUME NEW r \in Numbered' PROVE tx'[r].base + Len(tx'[r].channels) <= lastId'
  <2>1. tx[r].base + Len(tx[r].channels) <= lastId
    BY <1>2 DEF NumbersApart
  <2> QED
    BY <1>1, <1>2, <2>1, TxType
<1>3. \A r \in Numbered' : RowsOf(r)' \subseteq Ids
  BY <1>1 DEF NumbersApart
<1>4. \A r, q \in Numbered' : r # q => RowsOf(r)' \cap RowsOf(q)' = {}
  BY <1>1 DEF NumbersApart
<1> QED
  BY <1>2, <1>3, <1>4 DEF NumbersApart

\* What was committed remains so, with its rows.
CommittedStay ==
  \A r \in Committed : r \in Committed' /\ tx'[r].base = tx[r].base
                                       /\ tx'[r].channels = tx[r].channels

LEMMA RowsFrame ==
  ASSUME RowsBacked, CommittedStay,
         \A i \in Ids : outbox'[i] # NoRow \/ sent'[i] > 0 => outbox[i] # NoRow \/ sent[i] > 0
  PROVE  RowsBacked'
<1>1. \A r \in Committed : r \in Committed' /\ RowsOf(r)' = RowsOf(r)
  BY DEF CommittedStay, RowsOf
<1> QED
  BY <1>1 DEF RowsBacked

\* The alerts stand while no transaction commits.
LEMMA BannerFrame ==
  ASSUME BannerBacked, CommittedStay, Committed' = Committed, UNCHANGED alerts
  PROVE  BannerBacked'
  BY DEF BannerBacked, HasAlert, AlertKinds

\* The part of the invariant that only transactions and their loss disturb.
TxInv == TypeOK /\ NumbersApart /\ RowsBacked /\ BannerBacked /\ LossExplained

LEMMA BeginKeeps ==
  ASSUME IInv, NEW r \in Runs, Begin(r), UNCHANGED sender
  PROVE  TxInv'
<1> USE DEF IInv
<1>1. tx[r].pc = "new" /\ UNCHANGED <<lastId, alerts, outbox, wanted, gone, sent, restarts>>
  BY DEF Begin, sender
<1>2. Fanout(r) \in Seq(Kinds)
  BY FanoutType
<1>3. /\ tx' \in [Runs -> Tx] /\ tx'[r].pc \in {"begun", "lost"}
      /\ tx'[r].pc = "lost" => r \in gone
      /\ \A q \in Runs : q # r => tx'[q] = tx[q]
  <2>1. CASE r \in gone
    BY <2>1 DEF Begin, TypeOK, Tx
  <2>2. CASE r \notin gone
    BY <1>2, <2>2 DEF Begin, TypeOK, Tx
  <2> QED
    BY <2>1, <2>2
<1>4. TypeOK'
  BY <1>1, <1>3 DEF TypeOK
<1>5. Numbered' = Numbered /\ Committed' = Committed /\ r \notin Numbered /\ CommittedStay
  BY <1>1, <1>3 DEF Numbered, Committed, CommittedStay
<1>6. NumbersApart'
  BY <1>1, <1>3, <1>5, TxType, NumbersFrame DEF Numbered
<1>7. RowsBacked' /\ BannerBacked'
  BY <1>1, <1>5, RowsFrame, BannerFrame
<1>8. LossExplained'
  BY <1>1, <1>3, <1>5 DEF LossExplained, HasAlert
<1> QED
  BY <1>4, <1>6, <1>7, <1>8 DEF TxInv

LEMMA LookUpAlertKeeps ==
  ASSUME IInv, NEW r \in Runs, LookUpAlert(r), UNCHANGED sender
  PROVE  TxInv'
<1> USE DEF IInv
<1>1. /\ tx[r].pc = "begun"
      /\ tx' = [tx EXCEPT ![r].pc = "looked",
                          ![r].existing = HasAlert(r) /\ alerts[AlertOf[r]] # NoRun]
      /\ UNCHANGED <<lastId, alerts, outbox, wanted, gone, sent, restarts>>
  BY DEF LookUpAlert, sender
<1>2. (HasAlert(r) /\ alerts[AlertOf[r]] # NoRun) \in BOOLEAN
  OBVIOUS
<1>3. /\ tx' \in [Runs -> Tx] /\ tx'[r].pc = "looked"
      /\ \A q \in Runs : q # r => tx'[q] = tx[q]
  BY <1>1, <1>2 DEF TypeOK, Tx
<1>4. TypeOK'
  BY <1>1, <1>3 DEF TypeOK
<1>5. Numbered' = Numbered /\ Committed' = Committed /\ r \notin Numbered /\ CommittedStay
  BY <1>1, <1>3 DEF Numbered, Committed, CommittedStay
<1>6. NumbersApart'
  BY <1>1, <1>3, <1>5, TxType, NumbersFrame DEF Numbered
<1>7. RowsBacked' /\ BannerBacked'
  BY <1>1, <1>5, RowsFrame, BannerFrame
<1>8. LossExplained'
  BY <1>1, <1>3, <1>5 DEF LossExplained, HasAlert
<1> QED
  BY <1>4, <1>6, <1>7, <1>8 DEF TxInv

\* The flush draws identifiers beyond all that were drawn, or finds the alert
\* of a transaction that committed after the look-up and is rolled back.
LEMMA FlushKeeps ==
  ASSUME IInv, NEW r \in Runs, Flush(r), UNCHANGED sender
  PROVE  TxInv'
<1> USE DEF IInv
<1> DEFINE n == Len(tx[r].channels)
<1>1. /\ tx[r].pc = "looked" /\ lastId' = lastId + n /\ lastId + 1..lastId + n \subseteq Ids
      /\ UNCHANGED <<alerts, outbox, wanted, gone, sent, restarts>>
  BY DEF Flush, Drawable, sender
<1>2. n \in Nat /\ lastId \in Nat
  BY TxType
<1>3. lastId' \in {0} \cup Ids /\ lastId' \in Nat /\ lastId <= lastId'
  <2>1. CASE n = 0
    BY <1>1, <1>2, <2>1 DEF TypeOK
  <2>2. CASE n # 0
    <3>1. lastId + n \in lastId + 1..lastId + n
      BY <1>2, <2>2
    <3> QED
      BY <1>1, <1>2, <3>1
  <2> QED
    BY <2>1, <2>2
<1>4. CASE /\ tx' = [tx EXCEPT ![r].pc = "lost"] /\ HasAlert(r)
           /\ alerts[AlertOf[r]] # NoRun
  <2>1. /\ tx' \in [Runs -> Tx] /\ tx'[r].pc = "lost"
        /\ \A q \in Runs : q # r => tx'[q] = tx[q]
    BY <1>4 DEF TypeOK, Tx
  <2>2. TypeOK'
    BY <1>1, <1>3, <2>1 DEF TypeOK
  <2>3. Numbered' = Numbered /\ Committed' = Committed /\ r \notin Numbered /\ CommittedStay
    BY <1>1, <2>1 DEF Numbered, Committed, CommittedStay
  <2>4. NumbersApart'
    BY <1>3, <2>1, <2>3, NumbersFrame DEF Numbered
  <2>5. RowsBacked' /\ BannerBacked'
    BY <1>1, <2>3, RowsFrame, BannerFrame
  <2>6. \E q \in Committed : AlertOf[q] = AlertOf[r]
    BY <1>4 DEF BannerBacked, AlertKinds, HasAlert
  <2>7. LossExplained'
    BY <1>1, <1>4, <2>1, <2>3, <2>6 DEF LossExplained, HasAlert
  <2> QED
    BY <2>2, <2>4, <2>5, <2>7 DEF TxInv
<1>5. CASE tx' = [tx EXCEPT ![r].pc = "flushed", ![r].base = lastId]
  <2>1. /\ tx' \in [Runs -> Tx] /\ tx'[r].pc = "flushed" /\ tx'[r].base = lastId
        /\ tx'[r].channels = tx[r].channels
        /\ \A q \in Runs : q # r => tx'[q] = tx[q]
    BY <1>2, <1>5 DEF TypeOK, Tx
  <2>2. TypeOK'
    BY <1>1, <1>3, <2>1 DEF TypeOK
  <2>3. Numbered' = Numbered \cup {r} /\ Committed' = Committed /\ r \notin Numbered /\ CommittedStay
    BY <1>1, <2>1 DEF Numbered, Committed, CommittedStay
  <2>4. RowsOf(r)' = lastId + 1..lastId + n
    BY <2>1 DEF RowsOf
  <2>5. ASSUME NEW q \in Numbered
        PROVE  /\ RowsOf(q)' = RowsOf(q) /\ RowsOf(q) \subseteq Ids
               /\ tx'[q].base + Len(tx'[q].channels) <= lastId'
               /\ RowsOf(q) \cap (lastId + 1..lastId + n) = {}
    <3>1. q \in Runs /\ q # r /\ tx'[q] = tx[q]
      BY <2>1, <2>3 DEF Numbered
    <3>2. tx[q].base \in Nat /\ Len(tx[q].channels) \in Nat
      BY <3>1, TxType
    <3>3. RowsOf(q) \subseteq Ids /\ tx[q].base + Len(tx[q].channels) <= lastId
      BY DEF NumbersApart
    <3>4. RowsOf(q)' = RowsOf(q)
      BY <3>1 DEF RowsOf
    <3>5. tx[q].base + Len(tx[q].channels) <= lastId'
      BY <1>2, <1>3, <3>2, <3>3
    <3>6. ASSUME NEW i \in RowsOf(q), i \in lastId + 1..lastId + n PROVE FALSE
      <4>1. i \in Int /\ i <= tx[q].base + Len(tx[q].channels)
        <5>1. \A b, l \in Nat : \A j \in b + 1..b + l : j \in Int /\ j <= b + l
          OBVIOUS
        <5>2. i \in tx[q].base + 1..tx[q].base + Len(tx[q].channels)
          BY DEF RowsOf
        <5> QED
          BY <3>2, <5>1, <5>2
      <4>2. lastId + 1 <= i
        BY <1>2, <3>6
      <4> QED
        BY <1>2, <3>2, <3>3, <4>1, <4>2
    <3> QED
      BY <3>1, <3>3, <3>4, <3>5, <3>6
  <2>6. NumbersApart'
    <3>1. ASSUME NEW q \in Numbered'
          PROVE  RowsOf(q)' \subseteq Ids /\ tx'[q].base + Len(tx'[q].channels) <= lastId'
      <4>1. CASE q = r
        BY <1>1, <1>2, <2>1, <2>4, <4>1
      <4>2. CASE q # r
        BY <2>3, <2>5, <4>2
      <4> QED
        BY <4>1, <4>2
    <3>2. \A p, q \in Numbered' : p # q => RowsOf(p)' \cap RowsOf(q)' = {}
      <4>1. \A p, q \in Numbered : p # q => RowsOf(p)' \cap RowsOf(q)' = {}
        BY <2>5 DEF NumbersApart
      <4>2. \A q \in Numbered : RowsOf(q)' \cap RowsOf(r)' = {}
        BY <2>4, <2>5
      <4> QED
        BY <2>3, <4>1, <4>2
    <3> QED
      BY <3>1, <3>2 DEF NumbersApart
  <2>7. RowsBacked' /\ BannerBacked'
    BY <1>1, <2>3, RowsFrame, BannerFrame
  <2>8. LossExplained'
    BY <1>1, <2>1, <2>3 DEF LossExplained, HasAlert
  <2> QED
    BY <2>2, <2>6, <2>7, <2>8 DEF TxInv
<1> QED
  BY <1>4, <1>5 DEF Flush

\* The rows that a commit writes were free, so that it is an enqueueing of the
\* dispatcher's environment.
LEMMA CommitEnqueues ==
  ASSUME IInv, NEW r \in Runs, Commit(r), UNCHANGED sender
  PROVE  \/ /\ RowsOf(r) \in (SUBSET Ids) \ {{}} /\ ChannelOf(r) \in [RowsOf(r) -> Kinds]
            /\ Sender!Enqueue(RowsOf(r), ChannelOf(r))
         \/ UNCHANGED Sender!vars
<1> USE DEF IInv
<1>1. /\ tx[r].pc = "flushed" /\ UNCHANGED <<wanted, sender>>
      /\ outbox' = [i \in Ids |-> IF i \in RowsOf(r) THEN NewRow(ChannelOf(r)[i]) ELSE outbox[i]]
  BY DEF Commit
<1>2. outbox \in [Ids -> Row(Nat)]
  BY SenderTypes
<1>3. CASE RowsOf(r) = {}
  <2>1. outbox' = outbox
    BY <1>1, <1>2, <1>3
  <2> QED
    BY <1>1, <2>1 DEF sender, Sender!vars
<1>4. CASE RowsOf(r) # {}
  <2>1. r \in Numbered /\ r \notin Committed /\ Committed \subseteq Numbered
    BY <1>1 DEF Numbered, Committed
  <2>2. RowsOf(r) \subseteq Ids
    BY <2>1 DEF NumbersApart
  <2>3. \A i \in RowsOf(r) : outbox[i] = NoRow
    BY <2>1, <2>2 DEF NumbersApart, RowsBacked
  <2>4. ASSUME NEW i \in RowsOf(r) PROVE ChannelOf(r)[i] \in Kinds
    <3>1. /\ tx[r].base \in Nat /\ tx[r].channels \in Seq(Kinds) /\ Len(tx[r].channels) \in Nat
      BY TxType
    <3>2. i - tx[r].base \in 1..Len(tx[r].channels)
      BY <3>1 DEF RowsOf
    <3> QED
      BY <3>1, <3>2 DEF ChannelOf
  <2>5. ChannelOf(r) \in [RowsOf(r) -> Kinds]
    <3>1. ChannelOf(r) = [i \in RowsOf(r) |-> ChannelOf(r)[i]]
      BY DEF ChannelOf
    <3> QED
      BY <2>4, <3>1
  <2>6. Sender!Enqueue(RowsOf(r), ChannelOf(r))
    BY <1>1, <2>3, SameRows DEF Sender!Enqueue, sender
  <2> QED
    BY <1>4, <2>2, <2>5, <2>6
<1> QED
  BY <1>3, <1>4

LEMMA CommitKeeps ==
  ASSUME IInv, NEW r \in Runs, Commit(r), UNCHANGED sender, DInv'
  PROVE  TxInv'
<1> USE DEF IInv
<1>1. /\ tx[r].pc = "flushed" /\ UNCHANGED <<lastId, wanted, gone, sent, restarts>>
      /\ tx' = [tx EXCEPT ![r].pc = "committed"]
      /\ alerts' = IF HasAlert(r) THEN [alerts EXCEPT ![AlertOf[r]] = r] ELSE alerts
      /\ outbox' = [i \in Ids |-> IF i \in RowsOf(r) THEN NewRow(ChannelOf(r)[i]) ELSE outbox[i]]
  BY DEF Commit, sender
<1>2. /\ tx' \in [Runs -> Tx] /\ tx'[r].pc = "committed"
      /\ tx'[r].base = tx[r].base /\ tx'[r].channels = tx[r].channels
      /\ \A q \in Runs : q # r => tx'[q] = tx[q]
  BY <1>1 DEF TypeOK, Tx
<1>3. HasAlert(r) => AlertOf[r] \in AlertKinds
  BY DEF HasAlert, AlertKinds
<1>4. /\ alerts' \in [AlertKinds -> Runs \cup {NoRun}]
      /\ HasAlert(r) => alerts'[AlertOf[r]] = r
      /\ \A k \in AlertKinds : alerts'[k] = alerts[k] \/ (alerts'[k] = r /\ HasAlert(r) /\ k = AlertOf[r])
  BY <1>1, <1>3 DEF TypeOK
<1>5. TypeOK'
  BY <1>1, <1>2, <1>4, SenderTypesNext DEF TypeOK
<1>6. /\ Numbered' = Numbered /\ r \in Numbered /\ Committed' = Committed \cup {r}
      /\ CommittedStay /\ \A q \in Runs : RowsOf(q)' = RowsOf(q)
  BY <1>1, <1>2 DEF Numbered, Committed, CommittedStay, RowsOf
<1>7. NumbersApart'
  BY <1>1, <1>2, <1>6, TxType, NumbersFrame DEF Numbered
<1>8. RowsBacked'
  <2> SUFFICES ASSUME NEW i \in Ids, outbox'[i] # NoRow \/ sent'[i] > 0
               PROVE  \E q \in Committed' : i \in RowsOf(q)'
    BY DEF RowsBacked
  <2>1. i \in RowsOf(r) \/ outbox[i] # NoRow \/ sent[i] > 0
    BY <1>1
  <2> QED
    BY <1>6, <2>1 DEF RowsBacked, Committed
<1>9. BannerBacked'
  <2>1. ASSUME NEW k \in AlertKinds, alerts'[k] # NoRun
        PROVE  alerts'[k] \in Committed' /\ AlertOf[alerts'[k]] = k
    BY <1>4, <1>6, <2>1 DEF BannerBacked
  <2>2. ASSUME NEW q \in Committed', HasAlert(q) PROVE alerts'[AlertOf[q]] # NoRun
    <3>1. q \in Runs /\ AlertOf[q] \in AlertKinds
      BY <2>2 DEF Committed, HasAlert, AlertKinds
    <3>2. r # NoRun
      BY OutcomesAssumption
    <3>3. q = r \/ alerts[AlertOf[q]] # NoRun
      BY <1>6, <2>2 DEF BannerBacked
    <3> QED
      BY <1>4, <2>2, <3>1, <3>2, <3>3
  <2> QED
    BY <2>1, <2>2 DEF BannerBacked, HasAlert, AlertKinds
<1>10. LossExplained'
  BY <1>1, <1>2, <1>6 DEF LossExplained, HasAlert
<1> QED
  BY <1>5, <1>7, <1>8, <1>9, <1>10 DEF TxInv

-----------------------------------------------------------------------------
(* The rest of the worker. *)

\* A step of the rest that leaves the transactions alone and adds no row.
LEMMA WritersFrame ==
  ASSUME IInv, DInv', UNCHANGED writers, restarts' = restarts,
         \A i \in Ids : outbox'[i] # NoRow \/ sent'[i] > 0 => outbox[i] # NoRow \/ sent[i] > 0
  PROVE  TxInv'
<1> USE DEF IInv
<1>1. UNCHANGED <<tx, lastId, alerts, gone>>
  BY DEF writers
<1>2. TypeOK'
  BY <1>1, SenderTypesNext DEF TypeOK
<1>3. Numbered' = Numbered /\ Committed' = Committed /\ CommittedStay
  BY <1>1 DEF Numbered, Committed, CommittedStay
<1>4. NumbersApart'
  BY <1>1, <1>3 DEF NumbersApart, RowsOf
<1>5. RowsBacked' /\ BannerBacked'
  BY <1>1, <1>3, RowsFrame, BannerFrame
<1>6. LossExplained'
  BY <1>1, <1>3 DEF LossExplained, HasAlert
<1> QED
  BY <1>2, <1>4, <1>5, <1>6 DEF TxInv

LEMMA RestartKeeps ==
  ASSUME IInv, Restart, DInv'
  PROVE  TxInv'
<1> USE DEF IInv
<1>1. /\ tx' = [r \in Runs |-> IF tx[r].pc \in {"new", "committed"} THEN tx[r]
                               ELSE [tx[r] EXCEPT !.pc = "lost"]]
      /\ UNCHANGED <<lastId, alerts, outbox, wanted, gone>>
  BY DEF Restart, Stop
<1>2. sent' = sent /\ restarts' = restarts + 1
  BY DEF Restart, Sender!Restart
<1>3. ASSUME NEW r \in Runs
      PROVE  /\ tx'[r] \in Tx /\ (tx'[r].pc = "committed" <=> tx[r].pc = "committed")
             /\ tx'[r].pc # "flushed"
             /\ tx'[r].base = tx[r].base /\ tx'[r].channels = tx[r].channels
  <2>1. tx[r] \in Tx
    BY DEF TypeOK
  <2>2. CASE tx[r].pc \in {"new", "committed"}
    BY <1>1, <2>1, <2>2
  <2>3. CASE tx[r].pc \notin {"new", "committed"}
    BY <1>1, <2>1, <2>3 DEF Tx
  <2> QED
    BY <2>2, <2>3
<1>4. tx' \in [Runs -> Tx]
  BY <1>1, <1>3
<1>5. TypeOK'
  BY <1>1, <1>4, SenderTypesNext DEF TypeOK
<1>6. /\ Numbered' \subseteq Numbered /\ Committed' = Committed /\ CommittedStay
      /\ Numbered' \subseteq Runs
  BY <1>3 DEF Numbered, Committed, CommittedStay
<1>7. NumbersApart'
  <2>1. lastId \in Nat /\ lastId' = lastId /\ lastId <= lastId
    BY <1>1, OutcomesAssumption DEF TypeOK
  <2> QED
    BY <1>3, <1>6, <2>1, NumbersFrame
<1>8. RowsBacked' /\ BannerBacked'
  BY <1>1, <1>2, <1>6, RowsFrame, BannerFrame
<1>9. LossExplained'
  <2>1. restarts' # 0
    BY <1>2, SenderTypes
  <2> QED
    BY <2>1 DEF LossExplained
<1> QED
  BY <1>5, <1>7, <1>8, <1>9 DEF TxInv

\* A rule is deleted under a run that has not written yet.
LEMMA DeleteKeeps ==
  ASSUME IInv, NEW r \in Runs, Delete(r), DInv'
  PROVE  TxInv'
<1> USE DEF IInv
<1>1. UNCHANGED <<tx, lastId, alerts, outbox, wanted, sent, restarts>> /\ gone' = gone \cup {r}
  BY DEF Delete, DeleteRule, sender
<1>2. TypeOK'
  BY <1>1, SenderTypesNext DEF TypeOK
<1>3. Numbered' = Numbered /\ Committed' = Committed /\ CommittedStay
  BY <1>1 DEF Numbered, Committed, CommittedStay
<1>4. NumbersApart'
  BY <1>1, <1>3 DEF NumbersApart, RowsOf
<1>5. RowsBacked' /\ BannerBacked'
  BY <1>1, <1>3, RowsFrame, BannerFrame
<1>6. LossExplained'
  BY <1>1, <1>3 DEF LossExplained, HasAlert
<1> QED
  BY <1>2, <1>4, <1>5, <1>6 DEF TxInv

LEMMA IInvFromParts == DInv' /\ TxInv' => IInv'
  BY DEF IInv, TxInv

-----------------------------------------------------------------------------
(* The theorems. *)

\* Every step of the worker is one of the dispatcher's specification, or leaves
\* the dispatcher and its table alone.
LEMMA StepRefines ==
  ASSUME IInv, [WorkerNext]_workerVars
  PROVE  [Sender!Next]_(Sender!vars)
<1>1. CASE Tick
  BY <1>1 DEF Tick, Sender!Next
<1>2. CASE Restart
  BY <1>2 DEF Restart, Sender!Next
<1>3. CASE Drop
  BY <1>3 DEF Drop, Sender!Next, Sender!Writers
<1>4. CASE TurnMailOff
  BY <1>4 DEF TurnMailOff, Sender!Next, Sender!Writers
<1>5. ASSUME NEW r \in Runs, Persist(r) PROVE [Sender!Next]_(Sender!vars)
  <2>1. CASE Begin(r) \/ LookUpAlert(r) \/ Flush(r)
    BY <1>5, <2>1 DEF Persist, Begin, LookUpAlert, Flush, sender, Sender!vars
  <2>2. CASE Commit(r)
    BY <1>5, <2>2, CommitEnqueues, SameRows DEF Persist, Sender!Next, Sender!Writers
  <2> QED
    BY <1>5, <2>1, <2>2 DEF Persist, Step
<1>6. ASSUME NEW r \in Runs, Delete(r) PROVE [Sender!Next]_(Sender!vars)
  BY <1>6 DEF Delete, DeleteRule, sender, Sender!vars
<1>7. CASE UNCHANGED workerVars
  BY <1>7 DEF workerVars, sender, Sender!vars
<1> QED
  BY <1>1, <1>2, <1>3, <1>4, <1>5, <1>6, <1>7 DEF WorkerNext

LEMMA InitIInv == WorkerInit => IInv
<1> SUFFICES ASSUME WorkerInit PROVE IInv
  OBVIOUS
<1>1. DInv
  BY InitDInv DEF WorkerInit
<1>2. Init
  BY DEF WorkerInit
<1>3. TypeOK
  <2>1. <<>> \in Seq(Kinds)
    OBVIOUS
  <2>2. [pc |-> "new", base |-> 0, existing |-> FALSE, channels |-> <<>>] \in Tx
    BY <2>1 DEF Tx
  <2> QED
    BY <1>1, <1>2, <2>2, SenderTypes DEF Init, TypeOK
<1>4. \A r \in Runs : tx[r].pc = "new"
  BY <1>2 DEF Init
<1>5. Numbered = {} /\ Committed = {} /\ NumbersApart
  BY <1>4 DEF Numbered, Committed, NumbersApart
<1>6. \A i \in Ids : outbox[i] = NoRow /\ sent[i] = 0
  BY <1>2 DEF WorkerInit, Init, Sender!Init
<1>7. RowsBacked
  BY <1>6 DEF RowsBacked
<1>8. BannerBacked /\ LossExplained
  BY <1>2, <1>4, <1>5 DEF BannerBacked, LossExplained, Init
<1> QED
  BY <1>1, <1>3, <1>5, <1>7, <1>8 DEF IInv

\* The invariant is inductive.
LEMMA IInvIsInductive == IInv /\ [WorkerNext]_workerVars => IInv'
<1> SUFFICES ASSUME IInv, [WorkerNext]_workerVars PROVE IInv'
  OBVIOUS
<1>0. DInv /\ DInv'
  BY StepRefines, SenderStep DEF IInv
<1>1. CASE Tick
  BY <1>0, <1>1, WorkOnRows, WritersFrame, IInvFromParts DEF Tick
<1>2. CASE Restart
  BY <1>0, <1>2, RestartKeeps, IInvFromParts
<1>3. CASE Drop
  <2>1. PICK i \in Ids : Sender!DeleteRow(i)
    BY <1>3 DEF Drop
  <2>2. \A j \in Ids : outbox'[j] # NoRow => outbox[j] # NoRow
    BY <1>0, <2>1, SenderTypes DEF Sender!DeleteRow, NoRow
  <2>3. UNCHANGED <<sent, restarts>> /\ UNCHANGED writers
    BY <1>3, <2>1 DEF Drop, Sender!DeleteRow
  <2> QED
    BY <1>0, <2>2, <2>3, WritersFrame, IInvFromParts
<1>4. CASE TurnMailOff
  <2>1. UNCHANGED <<outbox, sent, restarts>> /\ UNCHANGED writers
    BY <1>4 DEF TurnMailOff, Sender!Unsubscribe
  <2> QED
    BY <1>0, <2>1, WritersFrame, IInvFromParts
<1>5. ASSUME NEW r \in Runs, Persist(r) PROVE IInv'
  BY <1>0, <1>5, BeginKeeps, LookUpAlertKeeps, FlushKeeps, CommitKeeps, IInvFromParts
     DEF Persist, Step
<1>6. ASSUME NEW r \in Runs, Delete(r) PROVE IInv'
  BY <1>0, <1>6, DeleteKeeps, IInvFromParts
<1>7. CASE UNCHANGED workerVars
  <2>1. UNCHANGED <<outbox, sent, restarts>> /\ UNCHANGED writers
    BY <1>7 DEF workerVars, sender
  <2> QED
    BY <1>0, <2>1, WritersFrame, IInvFromParts
<1> QED
  BY <1>1, <1>2, <1>3, <1>4, <1>5, <1>6, <1>7 DEF WorkerNext

\* IInv holds in every reachable state.
THEOREM SpecIInv == WorkerSpec => []IInv
  BY InitIInv, IInvIsInductive, PTL DEF WorkerSpec

\* The outcome transactions, their conflicts and the restarts are an
\* environment the dispatcher is specified for: the worker implements it, its
\* fairness aside (booking/outcomes.py against notifications/dispatcher.py).
THEOREM SpecRefinesDispatcher == WorkerSpec => Sender!Init /\ [][Sender!Next]_(Sender!vars)
<1>1. WorkerInit => Sender!Init
  BY DEF WorkerInit
<1>2. IInv /\ [WorkerNext]_workerVars => [Sender!Next]_(Sender!vars)
  BY StepRefines
<1> QED
  BY <1>1, <1>2, SpecIInv, PTL DEF WorkerSpec

\* What the operator is shown, as banner or as message, is an outcome in the
\* database (persist_outcome, _open_or_refresh_alert).
THEOREM SpecOnlyPersistedIsShown == WorkerSpec => []OnlyPersistedIsShown
<1>1. IInv => OnlyPersistedIsShown
  BY DEF IInv, RowsBacked, OnlyPersistedIsShown, ToldOnlyOfPersisted
<1> QED
  BY <1>1, SpecIInv, PTL

\* Short of a restart, an outcome is lost only if its rule went before it was
\* written, or to another of the same kind that is persisted (the two
\* IntegrityErrors of _persist_terminal).
THEOREM SpecLossExplained == WorkerSpec => []LossExplained
<1>1. IInv => LossExplained
  BY DEF IInv
<1> QED
  BY <1>1, SpecIInv, PTL

\* Deliveries stay within attempts and restarts, and what is marked as
\* dispatched reached its channel, for rows written by transactions that
\* overlap (_record_attempt).
THEOREM SpecDeliveriesTrue == WorkerSpec => []DeliveriesTrue
<1>1. IInv => DeliveriesTrue
  BY DInvBounds DEF IInv, DInv, DeliveriesTrue
<1> QED
  BY <1>1, SpecIInv, PTL

-----------------------------------------------------------------------------
(* The heartbeat of a cookie, whose alert is one of the notifications. *)

\* No instant written down lies ahead of the clock, and every cookie named is
\* one that the gym has handed out.
Dated ==
  /\ cred.pasted <= now /\ tick.at <= now /\ paste.at <= now
  /\ cred.cookie <= issued /\ tick.row.cookie <= issued /\ paste.cookie <= issued

\* A paste not marked as mixed has the tables to itself: no tick is under way,
\* and what it read of them stands.
PasteAlone ==
  paste.pc = "commit" /\ ~paste.mixed =>
    /\ tick.pc = "idle"
    /\ paste.row = cred
    /\ paste.closes = IF alert.open THEN alert.first ELSE None

\* Unless the last paste overlapped it, a tick works on the cookie in the row.
TickOfRow ==
  ~mixed /\ tick.pc # "idle" => tick.row.cookie = cred.cookie /\ cred.pasted <= tick.at

\* Unless the last paste overlapped it, the refusal a tick works on is on record.
RefusalDenies ==
  ~mixed /\ tick.pc \in {"read", "commit"} /\ tick.verdict = "rejected"
    => tick.row.cookie \in denied

\* A projection before the ceiling of the paste is of a cookie that was refused.
EarlyIsDenied ==
  ~mixed /\ cred.ttl # None => cred.cookie \in denied \/ cred.pasted + Ceiling <= cred.ttl

\* Between the second read of a tick and its commit a paste may reset the
\* projection, and nothing else changes it.
OnlyReset == tick.pc = "commit" => cred.ttl \in {tick.row.ttl, None}

HInv ==
  /\ HeartbeatTyped /\ Dated /\ PasteAlone /\ TickOfRow /\ RefusalDenies /\ EarlyIsDenied
  /\ OnlyReset
  /\ RenewalSurvives /\ RenewalSilences /\ FreshPasteStartsOver

LEMMA InitHInv == HeartbeatInit => HInv
<1> SUFFICES ASSUME HeartbeatInit PROVE HInv
  OBVIOUS
<1> USE HeartbeatAssumption
<1>1. NoCredential \in Credential
  BY DEF NoCredential, Credential, NoCookie, Cookies, Times, Statuses
<1>a. 0 \in Times /\ "none" \in Statuses
  BY DEF Times, Statuses
<1>b. NoPaste \in [pc : {"idle", "commit"}, cookie : Cookies \cup {NoCookie}, at : Times,
                  row : Credential, closes : Times \cup {None}, mixed : BOOLEAN]
  BY <1>1, <1>a DEF NoPaste, NoCookie
<1>2. HeartbeatTyped
  <2>1. now \in 1..Horizon /\ issued \in 0..MaxCookies /\ live \subseteq 1..issued
    BY DEF HeartbeatInit
  <2>2. /\ {source, told, renewed} \subseteq Cookies \cup {NoCookie} /\ mixed \in BOOLEAN
        /\ denied \subseteq Cookies \cup {NoCookie}
    BY DEF HeartbeatInit
  <2> QED
    BY <1>1, <1>a, <1>b, <2>1, <2>2 DEF HeartbeatInit, HeartbeatTyped
<1>3. Dated /\ PasteAlone /\ TickOfRow /\ RefusalDenies /\ EarlyIsDenied /\ OnlyReset
  BY DEF HeartbeatInit, NoCredential, NoPaste, NoCookie, Dated, PasteAlone, TickOfRow,
         RefusalDenies,
         EarlyIsDenied, OnlyReset
<1>4. RenewalSurvives /\ RenewalSilences /\ FreshPasteStartsOver
  BY DEF HeartbeatInit, NoCredential, NoCookie, RenewalSurvives, RenewalSilences,
         FreshPasteStartsOver
<1> QED
  BY <1>2, <1>3, <1>4 DEF HInv

-----------------------------------------------------------------------------
(* What a tick and a paste write. *)

\* A projection is an instant: the probe's own, the previous one, or the ceiling
\* from the probe.
LEMMA ProjectTtlType ==
  ASSUME HeartbeatTyped, Dated
  PROVE  ProjectTtl(tick.verdict, tick.at, tick.row.ttl) \in Times \cup {None}
<1> DEFINE ttl == ProjectTtl(tick.verdict, tick.at, tick.row.ttl)
<1>1. tick.at \in Times /\ tick.row.ttl \in Times \cup {None}
  BY DEF HeartbeatTyped, Credential
<1>2. tick.at + Ceiling \in Times
  BY <1>1, HeartbeatAssumption DEF HeartbeatTyped, Dated, Times
<1>3. ttl \in {tick.at, tick.row.ttl, tick.at + Ceiling}
  BY Zenon DEF ProjectTtl
<1> QED
  BY <1>1, <1>2, <1>3

\* A projection changes in one of two ways: to the instant of the refusal, or
\* to the ceiling from a probe that found the cookie alive, and then to an
\* earlier instant than before.
LEMMA ProjectTtlChanges ==
  ASSUME HeartbeatTyped, NEW verdict \in Statuses, NEW at \in Times, NEW previous \in Times \cup {None},
         ProjectTtl(verdict, at, previous) # previous
  PROVE  \/ verdict = "rejected" /\ ProjectTtl(verdict, at, previous) = at
         \/ /\ ProjectTtl(verdict, at, previous) = at + Ceiling
            /\ previous = None \/ at + Ceiling < previous
<1>1. CASE verdict = "rejected"
  BY <1>1 DEF ProjectTtl
<1>2. CASE verdict = "unknown"
  BY <1>2 DEF ProjectTtl
<1>3. CASE verdict # "rejected" /\ verdict # "unknown"
  BY <1>3 DEF ProjectTtl
<1> QED
  BY <1>1, <1>2, <1>3

\* What a tick leaves of the alert: it stands as it was, was told by this tick,
\* or is closed.
LEMMA EvaluateAlertEffect ==
  ASSUME HeartbeatTyped, tick.row \in Credential, tick.at \in Times,
         NEW ttl, NEW ruled, EvaluateAlert(ttl, tick.at, ruled)
  PROVE  /\ alert' \in [open : BOOLEAN, first : Times, last : Times]
         /\ told' \in Cookies \cup {NoCookie}
         /\ \/ alert' = alert /\ told' = told
            \/ told' = tick.row.cookie
            \/ ~alert'.open
<1> USE DEF HeartbeatTyped, Credential
<1>1. CASE Emit(tick.at)
  BY <1>1 DEF Emit
<1>2. CASE Suppress(tick.at)
  BY <1>2 DEF Suppress
<1>3. CASE Clear
  BY <1>3 DEF Clear
<1> QED
  BY <1>1, <1>2, <1>3 DEF EvaluateAlert

-----------------------------------------------------------------------------
(* The heartbeat tick. *)

LEMMA LoadCookieKeeps ==
  ASSUME HInv, LoadCookie
  PROVE  HInv'
<1> USE HeartbeatAssumption
<1> USE DEF HInv, LoadCookie
<1>1. cred \in Credential /\ now \in Times
  BY DEF HeartbeatTyped, Times
<1>2. /\ tick' \in [pc : {"idle", "probe", "read", "commit"}, at : Times, verdict : Statuses,
                    row : Credential]
      /\ tick'.pc = "probe" /\ tick'.at = now /\ tick'.row = cred
  BY <1>1 DEF Statuses
<1>3. /\ paste' \in [pc : {"idle", "commit"}, cookie : Cookies \cup {NoCookie}, at : Times,
                     row : Credential, closes : Times \cup {None}, mixed : BOOLEAN]
      /\ paste'.pc = paste.pc /\ paste'.mixed = (paste.pc = "commit")
      /\ paste'.cookie = paste.cookie /\ paste'.at = paste.at
  BY DEF HeartbeatTyped
<1>4. HeartbeatTyped'
  BY <1>2, <1>3 DEF HeartbeatTyped
<1>5. Dated'
  BY <1>2, <1>3 DEF Dated, HeartbeatTyped
<1>6. PasteAlone'
  BY <1>3 DEF PasteAlone
<1>7. TickOfRow' /\ RefusalDenies' /\ OnlyReset'
  BY <1>2 DEF TickOfRow, RefusalDenies, OnlyReset, Dated
<1>8. EarlyIsDenied' /\ RenewalSurvives' /\ RenewalSilences' /\ FreshPasteStartsOver'
  BY DEF EarlyIsDenied, RenewalSurvives, RenewalSilences, FreshPasteStartsOver
<1> QED
  BY <1>4, <1>5, <1>6, <1>7, <1>8

LEMMA ValidateKeeps ==
  ASSUME HInv, Validate
  PROVE  HInv'
<1> USE HeartbeatAssumption
<1> USE DEF HInv, Validate
<1>1. /\ tick' \in [pc : {"idle", "probe", "read", "commit"}, at : Times, verdict : Statuses,
                    row : Credential]
      /\ tick'.pc = "read" /\ tick'.at = tick.at /\ tick'.row = tick.row
      /\ tick'.verdict = "rejected" => tick.row.cookie \in denied'
      /\ denied \subseteq denied' /\ denied' \subseteq denied \cup {tick.row.cookie}
  BY DEF HeartbeatTyped, Statuses
<1>2. tick.row.cookie \in Cookies \cup {NoCookie}
  BY DEF HeartbeatTyped, Credential
<1>3. HeartbeatTyped'
  BY <1>1, <1>2 DEF HeartbeatTyped
<1>4. Dated' /\ TickOfRow' /\ RefusalDenies' /\ OnlyReset' /\ PasteAlone'
  BY <1>1 DEF Dated, TickOfRow, RefusalDenies, OnlyReset, PasteAlone
<1>5. EarlyIsDenied' /\ RenewalSurvives' /\ RenewalSilences' /\ FreshPasteStartsOver'
  BY <1>1 DEF EarlyIsDenied, RenewalSurvives, RenewalSilences, FreshPasteStartsOver
<1> QED
  BY <1>3, <1>4, <1>5

LEMMA ReadProjectionKeeps ==
  ASSUME HInv, ReadProjection
  PROVE  HInv'
<1> USE HeartbeatAssumption
<1> USE DEF HInv, ReadProjection
<1>1. [cred EXCEPT !.cookie = tick.row.cookie] \in Credential
  BY DEF HeartbeatTyped, Credential
<1>2. /\ tick' \in [pc : {"idle", "probe", "read", "commit"}, at : Times, verdict : Statuses,
                    row : Credential]
      /\ tick'.pc = "commit" /\ tick'.at = tick.at /\ tick'.verdict = tick.verdict
      /\ tick'.row.cookie = tick.row.cookie /\ tick'.row.ttl = cred.ttl
  BY <1>1 DEF HeartbeatTyped, Credential
<1>3. HeartbeatTyped'
  BY <1>2 DEF HeartbeatTyped
<1>4. Dated' /\ TickOfRow' /\ RefusalDenies' /\ OnlyReset' /\ PasteAlone'
  BY <1>2 DEF Dated, TickOfRow, RefusalDenies, OnlyReset, PasteAlone
<1>5. EarlyIsDenied' /\ RenewalSurvives' /\ RenewalSilences' /\ FreshPasteStartsOver'
  BY DEF EarlyIsDenied, RenewalSurvives, RenewalSilences, FreshPasteStartsOver
<1> QED
  BY <1>3, <1>4, <1>5

\* The write of a tick: the probed cookie is the one in the row unless a paste
\* came between, and then no more than the reset projection is at stake.
LEMMA TickCommitKeeps ==
  ASSUME HInv, TickCommit
  PROVE  HInv'
<1> USE HeartbeatAssumption
<1> DEFINE ttl == ProjectTtl(tick.verdict, tick.at, tick.row.ttl)
<1>0. HeartbeatTyped /\ Dated
  BY DEF HInv
<1>1. /\ tick.row \in Credential /\ tick.at \in Times /\ tick.verdict \in Statuses
      /\ cred \in Credential /\ ttl \in Times \cup {None} /\ tick.row.ttl \in Times \cup {None}
  BY <1>0, ProjectTtlType DEF HeartbeatTyped, Credential
<1>2. /\ cred' = Update(cred, tick.row, ttl, tick.verdict)
      /\ source' = IF ttl # tick.row.ttl THEN tick.row.cookie ELSE source
      /\ \E ruled \in BOOLEAN : EvaluateAlert(ttl, tick.at, ruled)
  BY Zenon DEF TickCommit
<1> HIDE DEF ttl
<1>3. /\ cred' \in Credential /\ cred'.cookie = cred.cookie /\ cred'.pasted = cred.pasted
      /\ cred'.ttl = IF ttl # tick.row.ttl THEN ttl ELSE cred.ttl
  BY <1>1, <1>2 DEF Update, Credential
<1>4. /\ tick' \in [pc : {"idle", "probe", "read", "commit"}, at : Times, verdict : Statuses,
                    row : Credential]
      /\ tick'.pc = "idle" /\ tick'.at = tick.at /\ tick'.row = NoCredential
  <2>1. NoCredential \in Credential /\ "none" \in Statuses
    BY DEF NoCredential, Credential, NoCookie, Cookies, Times, Statuses
  <2> QED
    BY <1>0, <2>1 DEF TickCommit, HeartbeatTyped
<1>5. /\ alert' \in [open : BOOLEAN, first : Times, last : Times]
      /\ told' \in Cookies \cup {NoCookie}
      /\ \/ alert' = alert /\ told' = told
         \/ told' = tick.row.cookie
         \/ ~alert'.open
  BY <1>0, <1>1, <1>2, EvaluateAlertEffect
<1>6. UNCHANGED <<now, issued, live, paste, renewed, mixed, denied>> /\ tick.pc = "commit"
  BY DEF TickCommit
<1>7. HeartbeatTyped'
  <2>1. source' \in Cookies \cup {NoCookie}
    BY <1>0, <1>1, <1>2 DEF HeartbeatTyped, Credential
  <2> QED
    BY <1>0, <1>3, <1>4, <1>5, <1>6, <2>1 DEF HeartbeatTyped
<1>8. Dated'
  BY <1>0, <1>3, <1>4, <1>6 DEF Dated, HeartbeatTyped, NoCredential, NoCookie
<1>9. PasteAlone' /\ TickOfRow' /\ RefusalDenies' /\ OnlyReset'
  BY <1>4, <1>6 DEF HInv, PasteAlone, TickOfRow, RefusalDenies, OnlyReset
<1>10. ~mixed => tick.row.cookie = cred.cookie /\ cred.pasted <= tick.at
  BY <1>6 DEF HInv, TickOfRow
<1>11. EarlyIsDenied'
  <2>1. CASE ttl = tick.row.ttl
    BY <1>3, <1>6, <2>1 DEF HInv, EarlyIsDenied
  <2>2. CASE ttl # tick.row.ttl
    <3>1. \/ tick.verdict = "rejected"
          \/ ttl = tick.at + Ceiling
      BY <1>0, <1>1, <2>2, ProjectTtlChanges DEF ttl
    <3>2. ~mixed /\ tick.verdict = "rejected" => tick.row.cookie \in denied
      BY <1>6 DEF HInv, RefusalDenies
    <3>3. cred.pasted \in Nat /\ tick.at \in Nat /\ Ceiling \in Nat
      BY <1>1 DEF Credential, Times
    <3> QED
      BY <1>3, <1>6, <1>10, <2>2, <3>1, <3>2, <3>3 DEF EarlyIsDenied
  <2> QED
    BY <2>1, <2>2
<1>12. RenewalSurvives'
  BY <1>3, <1>6 DEF HInv, RenewalSurvives
<1>13. RenewalSilences'
  BY <1>3, <1>5, <1>6, <1>10 DEF HInv, RenewalSilences
<1>14. FreshPasteStartsOver'
  BY <1>2, <1>3, <1>6, <1>10 DEF HInv, FreshPasteStartsOver
<1> QED
  BY <1>7, <1>8, <1>9, <1>11, <1>12, <1>13, <1>14 DEF HInv

-----------------------------------------------------------------------------
(* The paste. *)

LEMMA PasteReadKeeps ==
  ASSUME HInv, NEW c \in Cookies, PasteRead(c)
  PROVE  HInv'
<1> USE HeartbeatAssumption
<1> USE DEF HInv, PasteRead
<1>1. /\ issued' \in 0..MaxCookies /\ issued <= issued' /\ c <= issued'
      /\ live' \subseteq 1..issued'
  <2>1. issued \in 0..MaxCookies /\ live \subseteq 1..issued /\ c \in 1..MaxCookies /\ MaxCookies \in Nat
    BY DEF HeartbeatTyped, Cookies
  <2>2. CASE c \in live /\ UNCHANGED <<issued, live>>
    BY <2>1, <2>2
  <2>3. CASE c = issued + 1 /\ issued' = c /\ live' = live \cup {c}
    <3>1. 1..issued \subseteq 1..c /\ c \in 1..c
      BY <2>1, <2>3
    <3> QED
      BY <2>1, <2>3, <3>1
  <2> QED
    BY <2>2, <2>3
<1>2. now \in Times /\ alert.first \in Times /\ cred \in Credential
  BY DEF HeartbeatTyped, Times
<1>3. /\ paste' \in [pc : {"idle", "commit"}, cookie : Cookies \cup {NoCookie}, at : Times,
                     row : Credential, closes : Times \cup {None}, mixed : BOOLEAN]
      /\ paste'.pc = "commit" /\ paste'.cookie = c /\ paste'.at = now /\ paste'.row = cred
      /\ paste'.closes = IF alert.open THEN alert.first ELSE None
      /\ paste'.mixed = (tick.pc # "idle")
  BY <1>2
<1>4. /\ issued \in Int /\ issued' \in Int /\ cred.cookie \in Int /\ tick.row.cookie \in Int
      /\ cred.cookie <= issued /\ tick.row.cookie <= issued
  BY DEF HeartbeatTyped, Dated, Credential, Cookies, NoCookie
<1>5. HeartbeatTyped'
  BY <1>1, <1>3 DEF HeartbeatTyped
<1>6. Dated'
  BY <1>1, <1>3, <1>4 DEF Dated, HeartbeatTyped
<1>7. PasteAlone'
  BY <1>3 DEF PasteAlone
<1>8. TickOfRow' /\ RefusalDenies' /\ OnlyReset' /\ EarlyIsDenied'
  BY DEF TickOfRow, RefusalDenies, OnlyReset, EarlyIsDenied
<1>9. RenewalSurvives' /\ RenewalSilences' /\ FreshPasteStartsOver'
  BY DEF RenewalSurvives, RenewalSilences, FreshPasteStartsOver
<1> QED
  BY <1>5, <1>6, <1>7, <1>8, <1>9

\* A paste to itself sees the row and the alert it will write over: it resets
\* the projection and closes the alert.
LEMMA PasteCommitKeeps ==
  ASSUME HInv, PasteCommit
  PROVE  HInv'
<1> USE HeartbeatAssumption
<1> DEFINE written == Update(cred, paste.row, None, "valid")
<1>0. HeartbeatTyped /\ Dated
  BY DEF HInv
<1>1. /\ cred \in Credential /\ paste.row \in Credential /\ "valid" \in Statuses
      /\ paste.cookie \in Cookies \cup {NoCookie} /\ paste.at \in Times
  BY <1>0 DEF HeartbeatTyped, Statuses
<1>2. /\ written \in Credential
      /\ written.ttl = IF None # paste.row.ttl THEN None ELSE cred.ttl
  <2>1. None \in Times \cup {None}
    OBVIOUS
  <2> QED
    BY <1>1, <2>1 DEF Update, Credential
<1>3. cred' = [written EXCEPT !.cookie = paste.cookie, !.pasted = paste.at]
  BY DEF PasteCommit
<1> HIDE DEF written
<1>4. /\ cred' \in Credential /\ cred'.cookie = paste.cookie /\ cred'.pasted = paste.at
      /\ cred'.ttl = IF None # paste.row.ttl THEN None ELSE cred.ttl
  BY <1>1, <1>2, <1>3 DEF Credential
<1>5. /\ alert' \in [open : BOOLEAN, first : Times, last : Times]
      /\ alert.first = paste.closes => ~alert'.open
      /\ alert.first # paste.closes => alert' = alert
  BY <1>0 DEF PasteCommit, HeartbeatTyped
<1>6. /\ UNCHANGED <<now, issued, live, tick, source, told>>
      /\ paste.pc = "commit" /\ paste' = NoPaste
      /\ renewed' = paste.cookie /\ mixed' = paste.mixed /\ denied' = {}
  BY DEF PasteCommit
<1>7. ~mixed' => /\ tick.pc = "idle"
                 /\ paste.row = cred
                 /\ paste.closes = IF alert.open THEN alert.first ELSE None
  BY <1>6 DEF HInv, PasteAlone
<1>8. ~mixed' => cred'.ttl = None /\ ~alert'.open
  BY <1>4, <1>5, <1>7
<1>9. NoPaste \in [pc : {"idle", "commit"}, cookie : Cookies \cup {NoCookie}, at : Times,
                   row : Credential, closes : Times \cup {None}, mixed : BOOLEAN]
  BY DEF NoPaste, NoCredential, Credential, NoCookie, Cookies, Times, Statuses
<1>10. HeartbeatTyped'
  BY <1>0, <1>1, <1>4, <1>5, <1>6, <1>9 DEF HeartbeatTyped
<1>11. Dated'
  BY <1>0, <1>4, <1>6 DEF Dated, HeartbeatTyped, NoPaste, NoCookie
<1>12. PasteAlone'
  BY <1>6 DEF PasteAlone, NoPaste
<1>13. TickOfRow' /\ RefusalDenies' /\ EarlyIsDenied'
  BY <1>6, <1>7, <1>8 DEF HInv, TickOfRow, RefusalDenies, EarlyIsDenied
<1>14. OnlyReset'
  BY <1>4, <1>6 DEF HInv, OnlyReset
<1>15. RenewalSurvives' /\ RenewalSilences' /\ FreshPasteStartsOver'
  BY <1>4, <1>6, <1>8 DEF RenewalSurvives, RenewalSilences, FreshPasteStartsOver
<1> QED
  BY <1>10, <1>11, <1>12, <1>13, <1>14, <1>15 DEF HInv

-----------------------------------------------------------------------------
(* The gym, the process, the clock. *)

LEMMA ExpireKeeps ==
  ASSUME HInv, NEW c \in Cookies, Expire(c)
  PROVE  HInv'
<1> USE DEF HInv, Expire
<1>1. HeartbeatTyped' /\ Dated'
  BY DEF HeartbeatTyped, Dated
<1>2. PasteAlone' /\ TickOfRow' /\ RefusalDenies' /\ EarlyIsDenied' /\ OnlyReset'
  BY DEF PasteAlone, TickOfRow, RefusalDenies, EarlyIsDenied, OnlyReset
<1>3. RenewalSurvives' /\ RenewalSilences' /\ FreshPasteStartsOver'
  BY DEF RenewalSurvives, RenewalSilences, FreshPasteStartsOver
<1> QED
  BY <1>1, <1>2, <1>3

LEMMA TickRollbackKeeps ==
  ASSUME HInv, TickRollback
  PROVE  HInv'
<1> USE HeartbeatAssumption
<1> USE DEF HInv, TickRollback
<1>1. NoCredential \in Credential /\ "none" \in Statuses
  BY DEF NoCredential, Credential, NoCookie, Cookies, Times, Statuses
<1>2. /\ tick' \in [pc : {"idle", "probe", "read", "commit"}, at : Times, verdict : Statuses,
                    row : Credential]
      /\ tick'.pc = "idle" /\ tick'.at = tick.at /\ tick'.row = NoCredential
  BY <1>1 DEF HeartbeatTyped
<1>3. HeartbeatTyped'
  BY <1>2 DEF HeartbeatTyped
<1>4. Dated'
  BY <1>2 DEF Dated, HeartbeatTyped, NoCredential, NoCookie
<1>5. PasteAlone' /\ TickOfRow' /\ RefusalDenies' /\ EarlyIsDenied' /\ OnlyReset'
  BY <1>2 DEF PasteAlone, TickOfRow, RefusalDenies, EarlyIsDenied, OnlyReset
<1>6. RenewalSurvives' /\ RenewalSilences' /\ FreshPasteStartsOver'
  BY DEF RenewalSurvives, RenewalSilences, FreshPasteStartsOver
<1> QED
  BY <1>3, <1>4, <1>5, <1>6

LEMMA PasteRollbackKeeps ==
  ASSUME HInv, PasteRollback
  PROVE  HInv'
<1> USE HeartbeatAssumption
<1> USE DEF HInv, PasteRollback
<1>1. NoPaste \in [pc : {"idle", "commit"}, cookie : Cookies \cup {NoCookie}, at : Times,
                   row : Credential, closes : Times \cup {None}, mixed : BOOLEAN]
  BY DEF NoPaste, NoCredential, Credential, NoCookie, Cookies, Times, Statuses
<1>2. HeartbeatTyped'
  BY <1>1 DEF HeartbeatTyped
<1>3. Dated' /\ PasteAlone'
  BY DEF Dated, PasteAlone, HeartbeatTyped, NoPaste, NoCookie
<1>4. TickOfRow' /\ RefusalDenies' /\ EarlyIsDenied' /\ OnlyReset'
  BY DEF TickOfRow, RefusalDenies, EarlyIsDenied, OnlyReset
<1>5. RenewalSurvives' /\ RenewalSilences' /\ FreshPasteStartsOver'
  BY DEF RenewalSurvives, RenewalSilences, FreshPasteStartsOver
<1> QED
  BY <1>2, <1>3, <1>4, <1>5

LEMMA ClockKeeps ==
  ASSUME HInv, Clock
  PROVE  HInv'
<1> USE HeartbeatAssumption
<1> USE DEF HInv, Clock
<1>1. HeartbeatTyped'
  BY DEF HeartbeatTyped
<1>2. now \in Nat /\ cred.pasted \in Nat /\ tick.at \in Nat /\ paste.at \in Nat
  BY DEF HeartbeatTyped, Credential, Times
<1>3. Dated'
  BY <1>2 DEF Dated
<1>4. PasteAlone' /\ TickOfRow' /\ RefusalDenies' /\ EarlyIsDenied' /\ OnlyReset'
  BY DEF PasteAlone, TickOfRow, RefusalDenies, EarlyIsDenied, OnlyReset
<1>5. RenewalSurvives' /\ RenewalSilences' /\ FreshPasteStartsOver'
  BY DEF RenewalSurvives, RenewalSilences, FreshPasteStartsOver
<1> QED
  BY <1>1, <1>3, <1>4, <1>5

\* The invariant is inductive.
LEMMA HInvIsInductive == HInv /\ [HeartbeatNext]_heartbeatVars => HInv'
<1> SUFFICES ASSUME HInv, [HeartbeatNext]_heartbeatVars PROVE HInv'
  OBVIOUS
<1>1. CASE LoadCookie
  BY <1>1, LoadCookieKeeps
<1>2. CASE Validate
  BY <1>2, ValidateKeeps
<1>3. CASE ReadProjection
  BY <1>3, ReadProjectionKeeps
<1>4. CASE TickCommit
  BY <1>4, TickCommitKeeps
<1>5. CASE \E c \in Cookies : PasteRead(c) \/ Expire(c)
  BY <1>5, PasteReadKeeps, ExpireKeeps
<1>6. CASE PasteCommit
  BY <1>6, PasteCommitKeeps
<1>7. CASE TickRollback
  BY <1>7, TickRollbackKeeps
<1>8. CASE PasteRollback
  BY <1>8, PasteRollbackKeeps
<1>9. CASE Clock
  BY <1>9, ClockKeeps
<1>10. CASE UNCHANGED heartbeatVars
  BY <1>10 DEF heartbeatVars, HInv, HeartbeatTyped, Dated, PasteAlone, TickOfRow,
               RefusalDenies, EarlyIsDenied, OnlyReset, RenewalSurvives, RenewalSilences, FreshPasteStartsOver
<1> QED
  BY <1>1, <1>2, <1>3, <1>4, <1>5, <1>6, <1>7, <1>8, <1>9, <1>10 DEF HeartbeatNext

\* HInv holds in every reachable state.
THEOREM SpecHeartbeatInv == HeartbeatSpec => []HInv
  BY InitHInv, HInvIsInductive, PTL DEF HeartbeatSpec

\* A renewal stands (CookieStore.save against write_projection): the row holds
\* the pasted cookie whichever transaction commits last, and unless the paste
\* overlapped a tick the alert of the cookie before is closed and its
\* projection forgotten.
THEOREM SpecRenewalStands == HeartbeatSpec => []RenewalStands
<1>1. HInv => RenewalStands
  BY DEF HInv, RenewalStands
<1> QED
  BY <1>1, SpecHeartbeatInv, PTL

\* A cookie is taken for dead before its ceiling only if a probe of that very
\* cookie, since it was pasted, was refused (project_ttl, _authenticated_get): a
\* projection that has passed stands a ceiling after the paste otherwise.
THEOREM SpecProjectionHonest == HeartbeatSpec => []ProjectionHonest
<1>1. ASSUME HInv PROVE ProjectionHonest
  <2> SUFFICES ASSUME ~mixed, cred.ttl # None, cred.ttl <= now, cred.cookie \notin denied
               PROVE  cred.pasted + Ceiling <= now
    BY DEF ProjectionHonest
  <2>1. cred.pasted + Ceiling <= cred.ttl
    BY <1>1 DEF HInv, EarlyIsDenied
  <2>2. /\ cred.ttl \in Int /\ now \in Int /\ cred.pasted \in Int /\ Ceiling \in Int
    BY <1>1, HeartbeatAssumption DEF HInv, HeartbeatTyped, Credential, Times
  <2> QED
    BY <2>1, <2>2
<1> QED
  BY <1>1, SpecHeartbeatInv, PTL

\* Between two pastes no tick pushes a projection back beyond the present
\* (project_ttl keeps the earlier of two, write_projection).
THEOREM SpecProjectionNeverGrows == HeartbeatSpec => ProjectionNeverGrows
<1> DEFINE NeverGrows ==
      cred.ttl # None /\ ~(paste.pc = "commit" /\ paste'.pc = "idle")
        => cred'.ttl # None /\ (cred'.ttl <= cred.ttl \/ cred'.ttl <= now)
<1>1. ASSUME HInv, [HeartbeatNext]_heartbeatVars PROVE [NeverGrows]_heartbeatVars
  <2> USE HeartbeatAssumption
  <2> SUFFICES ASSUME cred.ttl # None, ~(paste.pc = "commit" /\ paste'.pc = "idle")
               PROVE  cred'.ttl # None /\ (cred'.ttl <= cred.ttl \/ cred'.ttl <= now)
    OBVIOUS
  <2>0. HeartbeatTyped /\ Dated /\ OnlyReset
    BY <1>1 DEF HInv
  <2>1. cred.ttl \in Int /\ cred.ttl <= cred.ttl
    BY <2>0 DEF HeartbeatTyped, Credential, Times
  <2>2. CASE TickCommit
    <3> DEFINE ttl == ProjectTtl(tick.verdict, tick.at, tick.row.ttl)
    <3>1. /\ tick.row \in Credential /\ tick.at \in Times /\ tick.verdict \in Statuses
          /\ cred \in Credential /\ ttl \in Times \cup {None}
          /\ tick.row.ttl \in Times \cup {None}
      BY <2>0, ProjectTtlType DEF HeartbeatTyped, Credential
    <3>2. cred' = Update(cred, tick.row, ttl, tick.verdict)
      BY <2>2, Zenon DEF TickCommit
    <3> HIDE DEF ttl
    <3>3. cred'.ttl = IF ttl # tick.row.ttl THEN ttl ELSE cred.ttl
      BY <3>1, <3>2 DEF Update, Credential
    <3>4. cred.ttl = tick.row.ttl /\ tick.at <= now
      BY <2>0, <2>2 DEF TickCommit, OnlyReset, Dated
    <3>5. CASE ttl = tick.row.ttl
      BY <2>1, <3>3, <3>5
    <3>6. CASE ttl # tick.row.ttl
      <4>1. \/ ttl = tick.at
            \/ ttl = tick.at + Ceiling /\ tick.at + Ceiling < tick.row.ttl
        BY <2>0, <3>1, <3>4, <3>6, ProjectTtlChanges DEF ttl
      <4>2. tick.at \in Nat /\ None \notin Nat /\ Ceiling \in Nat
        BY <3>1 DEF Times
      <4> QED
        BY <2>1, <3>3, <3>4, <3>6, <4>1, <4>2
    <3> QED
      BY <3>5, <3>6
  <2>3. CASE PasteCommit
    BY <2>3 DEF PasteCommit, NoPaste
  <2>4. CASE cred' = cred
    BY <2>1, <2>4
  <2> QED
    BY <1>1, <2>2, <2>3, <2>4 DEF HeartbeatNext, heartbeatVars, LoadCookie, Validate,
       ReadProjection, PasteRead, Expire, TickRollback, PasteRollback, Clock
<1> QED
  BY <1>1, SpecHeartbeatInv, PTL DEF HeartbeatSpec, ProjectionNeverGrows
=============================================================================
