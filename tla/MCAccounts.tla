----------------------------- MODULE MCAccounts ----------------------------
(* An instance of Accounts: one person beside two administrators. *)
EXTENDS Accounts, TLC

CONSTANTS guest, ann, ben

MCSymmetry == Permutations({ann, ben})
====
