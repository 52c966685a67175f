------------------------ MODULE MCBookingExecutor ---------------------------
(***************************************************************************)
(* Instance of BookingExecutor for TLC: the rule's class, a class that may *)
(* be its second shot or the override of the day, and one that may be the  *)
(* other of the two.                                                       *)
(***************************************************************************)
EXTENDS BookingExecutor

CONSTANTS crossfit, yoga, open

=============================================================================
