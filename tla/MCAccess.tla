------------------------------ MODULE MCAccess ------------------------------
(* Two calls, two nonces and one API key of one wallet. *)
EXTENDS AccessProperties, TLC
CONSTANTS c1, c2, k1
Symmetry == Permutations({c1, c2})
=============================================================================
