---------------------------- MODULE Notifications ---------------------------
(***************************************************************************)
(* From a booking run's outcome to the operator's phone: the transactions  *)
(* of Outcomes write the outbox that the ticks of Dispatcher drain, and a  *)
(* restart of the worker hits both.                                        *)
(***************************************************************************)
EXTENDS Outcomes

CONSTANTS NoId, MaxAttempts, MaxRestarts, Seeded, Poison

ASSUME DispatcherAssumption ==
  /\ IsFiniteSet(Ids) /\ NoId \notin Ids
  /\ MaxAttempts \in Nat \ {0} /\ MaxRestarts \in Nat
  /\ Poison \subseteq Ids
  /\ Seeded \subseteq SUBSET Wired

VARIABLES pc, batch, current, answer, configured, restarts, sent

Sender == INSTANCE Dispatcher

writers    == <<tx, lastId, alerts, gone>>
sender     == <<pc, batch, current, answer, configured, restarts, sent>>
workerVars == <<writers, outbox, wanted, sender>>

WorkerInit == Init /\ Sender!Init

Persist(r) == Step(r) /\ UNCHANGED sender
Tick       == Sender!Work /\ UNCHANGED writers
Restart    == Stop /\ Sender!Restart

\* The operator's account goes, and the row with it.
Drop       == (\E i \in Ids : Sender!DeleteRow(i)) /\ UNCHANGED writers

\* The operator turns mail off between an outcome and its delivery.
TurnMailOff == Sender!Unsubscribe /\ UNCHANGED writers

\* The operator or an administrator deletes what an outcome would refer to.
Delete(r) == DeleteRule(r) /\ UNCHANGED sender

WorkerNext ==
  \/ Tick \/ Restart \/ Drop \/ TurnMailOff
  \/ \E r \in Runs : Persist(r) \/ Delete(r)

WorkerSpec == /\ WorkerInit /\ [][WorkerNext]_workerVars
              /\ WF_workerVars(Tick) /\ \A r \in Runs : WF_workerVars(Persist(r))

-----------------------------------------------------------------------------
(* Properties. *)

\* The outcome transactions and the restarts are an environment the dispatcher
\* is specified for: its guarantees carry over.
DispatcherKept == Sender!Spec

\* Short of a restart, an outcome is lost only if its rule was deleted before it
\* was written, or to another run of the account that opened the same alert
\* between this one's look-up and its commit; that one is persisted.
LossExplained ==
  \A r \in Runs : tx[r].pc = "lost" /\ restarts = 0 =>
    \/ r \in gone
    \/ HasAlert(r) /\ \E s \in Committed : AlertOf[s] = AlertOf[r]

\* The operator is never told of an outcome that was not persisted, be it
\* rolled back by a conflict on the alert or by a restart.
ToldOnlyOfPersisted ==
  \A i \in Ids : sent[i] > 0 => \E r \in Committed : i \in RowsOf(r)

\* What the operator is shown, as banner or as message, is an outcome in the
\* database, in whatever order transactions overlap, conflict and commit.
OnlyPersistedIsShown == TypeOK /\ BannerBacked /\ ToldOnlyOfPersisted

\* Every transaction ends, and every row of an outcome it persisted leaves the
\* queue, whatever the order in which the identifiers were drawn and the
\* transactions committed, unless a row before it makes every tick raise.
PersistedIsTold ==
  \A r \in Runs :
    <>[](\/ tx[r].pc = "lost"
         \/ /\ tx[r].pc = "committed"
            /\ \A i \in RowsOf(r) : Settled(outbox[i]) \/ \E j \in Poison : j <= i)

\* Deliveries of a row stay within its recorded attempts and the restarts, and a
\* row marked as dispatched reached its channel unless it is mail turned off,
\* for rows written by transactions that commit out of order.
DeliveriesTrue == Sender!DeliveriesBounded /\ Sender!DispatchedMeansSent

=============================================================================
