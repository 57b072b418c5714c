----------------------------- MODULE MCAccounts -----------------------------
(* Two emails and a tenant beside the superuser's; a user may register the *)
(* very name the superuser is to have, or the one with a 1 behind it.      *)
EXTENDS Accounts, TLC

CONSTANTS root, root1, root2

MCCandidates == <<root, root1, root2>>

MCSymmetry ==
    Permutations(Id) \cup Permutations(Email) \cup Permutations(Tenant)
    \cup Permutations(Request)
=============================================================================
