--------------------------- MODULE MCBillingClock ---------------------------
(* A few seconds of one instance, and connections that are all alike.      *)
EXTENDS BillingClock, TLC

MCSymmetry == Permutations(Conn)
=============================================================================
