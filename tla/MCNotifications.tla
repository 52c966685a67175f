--------------------------- MODULE MCNotifications --------------------------
(***************************************************************************)
(* Instance of Notifications for TLC: two rules of an account without a    *)
(* valid cookie, whose outcomes go to the phone and the mailbox, and one   *)
(* that books its class and only leaves a banner.                          *)
(***************************************************************************)
EXTENDS Notifications

CONSTANTS early, late, third, cookieInvalid

MCAlertOf  == [r \in Runs |-> IF r = third THEN NoAlert ELSE cookieInvalid]
MCChannels == [r \in Runs |-> IF r = third THEN {"banner"}
                              ELSE IF r = late THEN {"email"} ELSE {"telegram"}]
MCSeeded   == {{}, Wired}
MCIds      == 1..Cardinality(Runs)

=============================================================================
