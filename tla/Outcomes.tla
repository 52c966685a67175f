------------------------------- MODULE Outcomes -----------------------------
(***************************************************************************)
(* The transactions in which concurrent booking runs of one gym account    *)
(* persist their outcomes (booking/outcomes.py, _persist_terminal): the    *)
(* outcome row, its notification rows and the account's open alert.        *)
(*                                                                         *)
(* All rules whose window opens at one instant end at about the same time, *)
(* each on a pool thread and a database session of its own.  The database  *)
(* is at READ COMMITTED: a select sees what is committed, an insert of a   *)
(* second open alert of one kind waits for the first transaction and then  *)
(* fails on the partial unique index, an update waits and then overwrites. *)
(* A run reads its rule minutes before it writes; the operator may delete  *)
(* the rule, or an administrator the account, in between.                  *)
(***************************************************************************)
EXTENDS Outbox, Sequences, FiniteSets

CONSTANTS
  Runs,       \* booking runs of the account
  NoRun,
  AlertOf,    \* AlertOf[r]: the kind of alert the outcome of r raises
  NoAlert,    \* it raises none
  Ids,        \* bound on the identifiers of outbox rows
  Channels    \* Channels[r]: the kinds of rows the outcome of r may enqueue

ASSUME OutcomesAssumption ==
  /\ NoRun \notin Runs /\ IsFiniteSet(Runs)
  /\ DOMAIN AlertOf = Runs
  /\ DOMAIN Channels = Runs /\ \A r \in Runs : Channels[r] \subseteq Kinds
  /\ Ids \subseteq Nat

VARIABLES
  tx,        \* the transaction of each run
  lastId,    \* the identifier sequence of the outbox
  alerts,    \* table alert: the run each kind's open row describes
  outbox,    \* table notification_outbox
  wanted,    \* does the operator want mail of the outcomes' category?
  gone       \* runs whose rule was deleted, alone or with its account, before they wrote

vars == <<tx, lastId, alerts, outbox, wanted, gone>>

AlertKinds == {AlertOf[r] : r \in Runs} \ {NoAlert}

Tx == [pc : {"new", "begun", "looked", "flushed", "committed", "lost"},
       base : Nat, existing : BOOLEAN, channels : Seq(Kinds)]

TypeOK ==
  /\ tx \in [Runs -> Tx]
  /\ lastId \in {0} \cup Ids
  /\ alerts \in [AlertKinds -> Runs \cup {NoRun}]
  /\ outbox \in [Ids -> Row(Nat)]
  /\ wanted \in BOOLEAN
  /\ gone \subseteq Runs

Init ==
  /\ tx = [r \in Runs |-> [pc |-> "new", base |-> 0, existing |-> FALSE, channels |-> <<>>]]
  /\ lastId = 0
  /\ alerts = [k \in AlertKinds |-> NoRun]
  /\ outbox = [i \in Ids |-> NoRow]
  /\ wanted = TRUE
  /\ gone = {}

Committed    == {r \in Runs : tx[r].pc = "committed"}
HasAlert(r)  == AlertOf[r] # NoAlert
RowsOf(r)    == tx[r].base + 1..tx[r].base + Len(tx[r].channels)
ChannelOf(r) == [i \in RowsOf(r) |-> tx[r].channels[i - tx[r].base]]

\* The transactions that hold the index entry or the row of r's alert.
Holders(r) == {s \in Runs \ {r} : tx[s].pc = "flushed" /\ AlertOf[s] = AlertOf[r]}

-----------------------------------------------------------------------------
\* The rows the outcome of r enqueues, in this order, mail only if it is wanted.
RowOf(r, kind) == IF kind \in Channels[r] THEN <<kind>> ELSE <<>>

Fanout(r) ==
  RowOf(r, "banner") \o (IF wanted THEN RowOf(r, "email") ELSE <<>>) \o RowOf(r, "telegram")

\* The identifiers that a flush of r draws are within the bound.
Drawable(r) == lastId + 1..lastId + Len(tx[r].channels) \subseteq Ids

\* The outcome row is inserted and its notification rows are added to the
\* session.  The insert refers to the rule and to the account: without them it
\* fails, and the run ends with the error.
Begin(r) ==
  /\ tx[r].pc = "new"
  /\ tx' = IF r \in gone THEN [tx EXCEPT ![r].pc = "lost"]
           ELSE [tx EXCEPT ![r].pc = "begun", ![r].channels = Fanout(r)]
  /\ UNCHANGED <<lastId, alerts, outbox, wanted, gone>>

\* _open_or_refresh_alert's select.
LookUpAlert(r) ==
  /\ tx[r].pc = "begun"
  /\ tx' = [tx EXCEPT ![r].pc = "looked",
                      ![r].existing = HasAlert(r) /\ alerts[AlertOf[r]] # NoRun]
  /\ UNCHANGED <<lastId, alerts, outbox, wanted, gone>>

FlushNumbered(r) ==
  /\ tx[r].pc = "looked" /\ Drawable(r)
  /\ HasAlert(r) => Holders(r) = {}
  /\ tx' = [tx EXCEPT ![r].pc = "flushed",
                      ![r].base = Cardinality({i \in Ids : outbox[i] # NoRow})]
  /\ UNCHANGED <<lastId, alerts, outbox, wanted, gone>>

FlushVisible(r) ==
  /\ tx[r].pc = "looked" /\ Drawable(r)
  /\ HasAlert(r) => Holders(r) = {}
  /\ lastId' = lastId + Len(tx[r].channels)
  /\ tx' = [tx EXCEPT ![r].pc = "flushed", ![r].base = lastId]
  /\ outbox' = [i \in Ids |-> IF i \in lastId + 1..lastId + Len(tx[r].channels)
                              THEN NewRow(tx[r].channels[i - lastId]) ELSE outbox[i]]
  /\ UNCHANGED <<alerts, wanted, gone>>

\* Mutant of Flush: the insert does not wait for the transaction before it.
FlushAtOnce(r) ==
  /\ tx[r].pc = "looked" /\ Drawable(r)
  /\ lastId' = lastId + Len(tx[r].channels)
  /\ IF HasAlert(r) /\ ~tx[r].existing /\ (alerts[AlertOf[r]] # NoRun \/ Holders(r) # {})
     THEN tx' = [tx EXCEPT ![r].pc = "lost"]
     ELSE tx' = [tx EXCEPT ![r].pc = "flushed", ![r].base = lastId]
  /\ UNCHANGED <<alerts, outbox, wanted, gone>>

\* The commit flushes the pending rows: identifiers are drawn, the alert row
\* is inserted or updated.  IntegrityError rolls the transaction back.
Flush(r) ==
  /\ tx[r].pc = "looked" /\ Drawable(r)
  /\ HasAlert(r) => Holders(r) = {}
  /\ lastId' = lastId + Len(tx[r].channels)
  /\ IF HasAlert(r) /\ ~tx[r].existing /\ alerts[AlertOf[r]] # NoRun
     THEN tx' = [tx EXCEPT ![r].pc = "lost"]
     ELSE tx' = [tx EXCEPT ![r].pc = "flushed", ![r].base = lastId]
  /\ UNCHANGED <<alerts, outbox, wanted, gone>>

Commit(r) ==
  /\ tx[r].pc = "flushed"
  /\ tx' = [tx EXCEPT ![r].pc = "committed"]
  /\ alerts' = IF HasAlert(r) THEN [alerts EXCEPT ![AlertOf[r]] = r] ELSE alerts
  /\ outbox' = [i \in Ids |-> IF i \in RowsOf(r) THEN NewRow(ChannelOf(r)[i]) ELSE outbox[i]]
  /\ UNCHANGED <<lastId, wanted, gone>>

Step(r) == Begin(r) \/ LookUpAlert(r) \/ Flush(r) \/ Commit(r)

\* The worker stops: what is not committed is gone.
Stop ==
  /\ tx' = [r \in Runs |-> IF tx[r].pc \in {"new", "committed"} THEN tx[r]
                           ELSE [tx[r] EXCEPT !.pc = "lost"]]
  /\ UNCHANGED <<lastId, alerts, outbox, wanted, gone>>

\* The rule goes while its run is still under way.  Once the run has inserted its
\* row a deletion waits for the transaction to end, and then clears the row's
\* reference or, deleting the account, takes the row with it.
DeleteRule(r) ==
  /\ tx[r].pc = "new" /\ r \notin gone
  /\ gone' = gone \cup {r}
  /\ UNCHANGED <<tx, lastId, alerts, outbox, wanted>>

Next == \E r \in Runs : Step(r) \/ DeleteRule(r)

Spec == Init /\ [][Next]_vars /\ \A r \in Runs : WF_vars(Step(r))

-----------------------------------------------------------------------------
(* Properties. *)

\* The banner is never ahead of the outcomes nor behind them: an open alert
\* describes a committed outcome of its kind, and a committed outcome that
\* calls for an alert finds one open.
BannerBacked ==
  /\ \A k \in AlertKinds : alerts[k] # NoRun => alerts[k] \in Committed /\ AlertOf[alerts[k]] = k
  /\ \A r \in Committed : HasAlert(r) => alerts[AlertOf[r]] # NoRun

=============================================================================
