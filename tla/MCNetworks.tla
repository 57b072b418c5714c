----------------------------- MODULE MCNetworks -----------------------------
(* Networks on a few addresses: a block, one inside of it, one outside.    *)
EXTENDS Networks, TLC

CONSTANTS half, inside, outside

MCBlock == half :> 0 .. 1 @@ inside :> {1} @@ outside :> {2}

MCSymmetry == Permutations(Id) \cup Permutations(Name) \cup Permutations(Tenant)
              \cup Permutations(Request)
=============================================================================
