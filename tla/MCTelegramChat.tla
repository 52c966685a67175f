---------------------------- MODULE MCTelegramChat --------------------------
(***************************************************************************)
(* Instance of TelegramChat for TLC.                                       *)
(***************************************************************************)
EXTENDS TelegramChat, TLC

\* Two gyms, one of them linked twice, and a link elsewhere.
MCLinks    == <<2, 0, 1, 2>>
MCSymmetry == Permutations(Chats)

=============================================================================
