-------------------------------- MODULE Outbox ------------------------------
(***************************************************************************)
(* The rows of table notification_outbox, shared by the writers of         *)
(* outcomes and the dispatcher.  A row is pending until dispatched_at is   *)
(* set; the payload of a row given up on says exhausted.                   *)
(***************************************************************************)
EXTENDS Naturals

Wired  == {"telegram", "email"}   \* kinds with a delivery of their own
Kinds  == {"banner"} \cup Wired
States == {"none", "pending", "dispatched", "exhausted", "deleted"}

Row(attempts) == [kind : Kinds \cup {"none"}, attempts : attempts, state : States]

NoRow     == [kind |-> "none", attempts |-> 0, state |-> "none"]
NewRow(k) == [kind |-> k, attempts |-> 0, state |-> "pending"]

Settled(row) == row.state \in {"dispatched", "exhausted", "deleted"}

=============================================================================
