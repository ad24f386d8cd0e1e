----------------------------- MODULE MCOffRamp -----------------------------
(* Instances of OffRamp for TLC. *)
EXTENDS OffRampProperties
CONSTANTS t1, t2, s1, s2

AnyTarget == [s \in Submits |-> Txs]
=============================================================================
