------------------------------ MODULE BookingRun ----------------------------
(***************************************************************************)
(* What one booking run promises its user, whatever the gym's servers do:  *)
(* at most one class gets booked, one row closes the run, and the row      *)
(* tells the truth about the booking.  Only upstream_unavailable and       *)
(* cookie_invalid, which rest on no answer of the gym's that was read,     *)
(* leave open whether the class they name was booked.                      *)
(***************************************************************************)
CONSTANTS Classes, NoClass

VARIABLES
  booked,   \* classes the run has booked at the gym
  row       \* the booking_outcome row, its status and class

vars == <<booked, row>>

NoRow == [status |-> "none", class |-> NoClass]

Statuses == {"granted", "full", "class_not_visible", "cookie_invalid",
             "upstream_unavailable", "skipped"}

\* Row (s, c) agrees with what was booked.
Agrees(s, c) ==
  /\ s = "granted" => booked = {c}
  /\ s \in {"upstream_unavailable", "cookie_invalid"} => booked \subseteq {c}
  /\ s \in {"full", "class_not_visible", "skipped"} => booked = {}

Init == booked = {} /\ row = NoRow

Book(c) ==
  /\ row = NoRow /\ booked = {}
  /\ booked' = {c}
  /\ UNCHANGED row

Record(s, c) ==
  /\ row = NoRow
  /\ Agrees(s, c)
  /\ row' = [status |-> s, class |-> c]
  /\ UNCHANGED booked

Next == \E c \in Classes : Book(c) \/ \E s \in Statuses : Record(s, c)

Spec == Init /\ [][Next]_vars

=============================================================================
