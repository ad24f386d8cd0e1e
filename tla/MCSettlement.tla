---------------------------- MODULE MCSettlement ----------------------------
(* Instances of Settlement for TLC. *)
EXTENDS SettlementProperties, TLC
CONSTANTS p1, p2

PaymentSymmetry == Permutations({p1, p2})
=============================================================================
