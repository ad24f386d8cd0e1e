--------------------- MODULE NonCustodialSwapProperties ---------------------
(* What is claimed of non-custodial swaps. *)
EXTENDS NonCustodialSwap

Landed(p) == {a \in Swaps : chain[p][a] = "landed"}

(* A payment is swapped once, and otherwise only by swaps whose            *)
(* confirmation was given up or whose record the database refused: an      *)
(* attempt that is known to have landed is the last one.                   *)
OneSwapBeyondDoubt == \A p \in Payments : Cardinality(Landed(p) \ doubt[p]) <= 1

(* COMPLETED with a swap means that this swap is on chain; FAILED, that    *)
(* none is but those the call lost sight of.                               *)
StatusAgreesWithChain ==
  \A p \in Payments :
    /\ status[p] = "COMPLETED" /\ p \notin SameToken
         => tx[p] \in Swaps /\ chain[p][tx[p]] = "landed"
    /\ status[p] = "FAILED" => Landed(p) \subseteq doubt[p]

(* "After all retries fail: mark FAILED" (nonCustodialSwap.service.ts): a  *)
(* payment whose processing begins ends COMPLETED or FAILED, unless a      *)
(* write was refused or the process died.                                  *)
SwapEnds ==
  \A p \in Payments :
    pc[p] # "start"
      ~> status[p] \in {"COMPLETED", "FAILED"} \/ faults > 0 \/ crashes > 0
=============================================================================
