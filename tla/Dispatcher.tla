------------------------------ MODULE Dispatcher ----------------------------
(***************************************************************************)
(* The notification dispatcher (notifications/dispatcher.py): a tick loads *)
(* the identifiers of the pending outbox rows and handles them one by one, *)
(* each in a transaction of its own: send, then record the attempt.        *)
(*                                                                         *)
(* The answer of the channel may be lost after delivery, the worker may    *)
(* stop between a delivery and its record, the row may be deleted with its *)
(* user meanwhile, the user may turn mail off, and a payload may make the  *)
(* rendering raise.                                                        *)
(***************************************************************************)
EXTENDS Outbox, FiniteSets

CONSTANTS
  Ids,           \* identifiers of outbox rows, in the order they were drawn
  NoId,
  MaxAttempts,   \* max_attempts
  Seeded,        \* channels whose secrets may be seeded when a process starts
  MaxRestarts,   \* bound on restarts of the worker
  Poison         \* rows whose handling raises an unexpected exception

VARIABLES
  outbox,      \* table notification_outbox
  wanted,      \* does the operator want mail of the rows' category?
  pc,          \* where the tick stands
  batch,       \* identifiers it has still to handle
  current,     \* the row it handles
  answer,      \* what came of the send
  configured,  \* the channels this process has the secrets of
  restarts,    \* restarts so far
  sent         \* history: deliveries of each row

vars == <<outbox, wanted, pc, batch, current, answer, configured, restarts, sent>>

TypeOK ==
  /\ outbox \in [Ids -> Row(0..MaxAttempts)]
  /\ pc \in {"idle", "next", "send", "record"}
  /\ batch \subseteq Ids
  /\ current \in Ids \cup {NoId}
  /\ answer \in {"none", "ok", "transient", "permanent"}
  /\ wanted \in BOOLEAN
  /\ configured \in Seeded
  /\ restarts \in 0..MaxRestarts
  /\ sent \in [Ids -> Nat]

Init ==
  /\ outbox = [i \in Ids |-> NoRow]
  /\ pc = "idle" /\ batch = {} /\ current = NoId /\ answer = "none"
  /\ wanted = TRUE /\ configured \in Seeded /\ restarts = 0
  /\ sent = [i \in Ids |-> 0]

-----------------------------------------------------------------------------
(* The writers of the outbox and the rest of the database. *)

\* A transaction commits rows of its own.
Enqueue(rows, kind) ==
  /\ \A i \in rows : outbox[i] = NoRow
  /\ outbox' = [i \in Ids |-> IF i \in rows THEN NewRow(kind[i]) ELSE outbox[i]]
  /\ UNCHANGED <<wanted, pc, batch, current, answer, configured, restarts, sent>>

\* The rows go with the user they belong to.
DeleteRow(i) ==
  /\ outbox[i].state \notin {"none", "deleted"}
  /\ outbox' = [outbox EXCEPT ![i].state = "deleted"]
  /\ UNCHANGED <<wanted, pc, batch, current, answer, configured, restarts, sent>>

\* The link of a mail turns mail off for good; the preference can be turned on
\* again on the profile page only.
Unsubscribe ==
  /\ wanted
  /\ wanted' = FALSE
  /\ UNCHANGED <<outbox, pc, batch, current, answer, configured, restarts, sent>>

-----------------------------------------------------------------------------
(* The tick. *)

\* Mutant of LoadPendingIds: the tick stops at a gap in the identifiers.
LoadPendingIdsToGap ==
  /\ pc = "idle"
  /\ batch' = {i \in Ids : /\ outbox[i].state = "pending"
                           /\ \A j \in Ids : j < i => outbox[j] # NoRow}
  /\ batch' # {}
  /\ pc' = "next"
  /\ UNCHANGED <<outbox, wanted, current, answer, configured, restarts, sent>>

LoadPendingIds ==
  /\ pc = "idle"
  /\ batch' = {i \in Ids : outbox[i].state = "pending"}
  /\ batch' # {}
  /\ pc' = "next"
  /\ UNCHANGED <<outbox, wanted, current, answer, configured, restarts, sent>>

\* The oldest row of the batch, unless a delete came first.
TakeRow ==
  /\ pc = "next"
  /\ \E i \in batch :
       /\ \A j \in batch : i <= j
       /\ batch' = batch \ {i}
       /\ IF outbox[i].state = "pending" THEN pc' = "send" /\ current' = i
                                         ELSE UNCHANGED <<pc, current>>
  /\ UNCHANGED <<outbox, wanted, answer, configured, restarts, sent>>

EndTick ==
  /\ pc = "next" /\ batch = {}
  /\ pc' = "idle"
  /\ UNCHANGED <<outbox, wanted, batch, current, answer, configured, restarts, sent>>

\* An exception no handler expects leaves the row as it is and ends the tick.
Abort ==
  /\ pc' = "idle" /\ batch' = {} /\ current' = NoId /\ answer' = "none"
  /\ UNCHANGED <<outbox, wanted, configured, restarts, sent>>

Answered(a) ==
  /\ pc' = "record" /\ answer' = a
  /\ UNCHANGED <<outbox, wanted, batch, current, configured, restarts>>

\* What a sender reports, and whether the message is out: an answer that was
\* lost counts as transient.
Deliveries ==
  {[answer |-> "ok", out |-> 1]} \cup [answer : {"transient", "permanent"}, out : {0}]
  \cup {[answer |-> "transient", out |-> 1]}

\* Mail the recipient turned off is dropped and counts as sent.
Unwanted(i) == outbox[i].kind = "email" /\ ~wanted

\* Mutant of SendRow: without its secret a send is skipped, not failed.
SendRowQuietly ==
  /\ pc = "send" /\ current \notin Poison
  /\ outbox[current].kind \notin configured
  /\ Answered("ok") /\ UNCHANGED sent

\* _dispatch_telegram, _dispatch_email and the banner's empty delivery.
SendRow ==
  /\ pc = "send"
  /\ \/ outbox[current].kind = "banner"
        /\ Answered("ok") /\ UNCHANGED sent
     \/ outbox[current].kind \in Wired \ configured
        /\ Answered("transient") /\ UNCHANGED sent
     \/ outbox[current].kind \in configured /\ Unwanted(current)
        /\ Answered("ok") /\ UNCHANGED sent
     \/ outbox[current].kind \in configured /\ ~Unwanted(current) /\ current \in Poison
        /\ Abort
     \/ /\ outbox[current].kind \in configured /\ ~Unwanted(current) /\ current \notin Poison
        /\ \E d \in Deliveries :
             Answered(d.answer) /\ sent' = [sent EXCEPT ![current] = @ + d.out]

\* The state an answer leaves the row in after its n-th attempt.
StateAfter(a, n) ==
  IF a = "ok" THEN "dispatched"
  ELSE IF a = "permanent" \/ n >= MaxAttempts THEN "exhausted"
  ELSE "pending"

\* The commit of the attempt; the update of a deleted row raises.
RecordAttempt ==
  /\ pc = "record"
  /\ IF outbox[current].state = "deleted"
     THEN Abort
     ELSE LET n == outbox[current].attempts + 1 IN
          /\ outbox' = [outbox EXCEPT ![current] =
                          [kind |-> outbox[current].kind, attempts |-> n,
                           state |-> StateAfter(answer, n)]]
          /\ pc' = "next" /\ current' = NoId /\ answer' = "none"
          /\ UNCHANGED <<wanted, batch, configured, restarts, sent>>

Work == LoadPendingIds \/ TakeRow \/ EndTick \/ SendRow \/ RecordAttempt

\* The worker stops and comes back, perhaps with more secrets seeded.
Restart ==
  /\ restarts < MaxRestarts
  /\ restarts' = restarts + 1
  /\ pc' = "idle" /\ batch' = {} /\ current' = NoId /\ answer' = "none"
  /\ configured' \in {c \in Seeded : configured \subseteq c}
  /\ UNCHANGED <<outbox, wanted, sent>>

Writers ==
  \/ \E rows \in (SUBSET Ids) \ {{}} : \E kind \in [rows -> Kinds] : Enqueue(rows, kind)
  \/ \E i \in Ids : DeleteRow(i)
  \/ Unsubscribe

Next == Work \/ Restart \/ Writers

\* The interval trigger keeps the ticks coming.
Spec == Init /\ [][Next]_vars /\ WF_vars(Work)

-----------------------------------------------------------------------------
(* Properties. *)

\* Lost answers aside, only a restart delivers a row more often than its
\* attempts say, once per restart; no attempt goes beyond the limit.
DeliveriesBounded ==
  \A i \in Ids :
    sent[i] <= outbox[i].attempts + restarts
               + (IF outbox[i].state = "deleted" \/ i = current THEN 1 ELSE 0)

\* A row marked as dispatched and not exhausted was delivered, unless it is mail
\* the operator has turned off.
DispatchedMeansSent ==
  \A i \in Ids :
    outbox[i].kind \in Wired /\ outbox[i].state = "dispatched" =>
      sent[i] > 0 \/ Unwanted(i)

\* No delivery is started for a row that has left the queue, whatever deleted
\* it after the batch was loaded.
SettledStaysQuiet ==
  [][\A i \in Ids : Settled(outbox[i]) /\ i # current => current' # i /\ sent'[i] = sent[i]]_vars

=============================================================================
