-------------------------- MODULE MCCookieHeartbeat -------------------------
(***************************************************************************)
(* Instance of CookieHeartbeat for TLC.                                    *)
(***************************************************************************)
EXTENDS CookieHeartbeat

=============================================================================
