--------------------------- MODULE OffRampPromise ---------------------------
(***************************************************************************)
(* What the off-ramp promises about one transaction, with no mechanism in  *)
(* it: the transaction is created waiting for a signature, is launched at  *)
(* most once and never waits for a signature again, and a fiat order is    *)
(* placed for it at most once, only after the launch, and resolved at most *)
(* once.  Launched means that it no longer waits to be signed, by whatever *)
(* way it stopped waiting; it is not promised that somebody signed it.     *)
(***************************************************************************)
CONSTANT Txs
VARIABLES stage,  \* [Txs -> {"absent", "unsigned", "launched"}]
          payout  \* [Txs -> {"none", "pending", "paid", "failed"}]

pvars == <<stage, payout>>

Init ==
  /\ stage = [t \in Txs |-> "absent"]
  /\ payout = [t \in Txs |-> "none"]

Create(t) ==
  /\ stage[t] = "absent"
  /\ stage' = [stage EXCEPT ![t] = "unsigned"]
  /\ UNCHANGED payout

Launch(t) ==
  /\ stage[t] = "unsigned"
  /\ stage' = [stage EXCEPT ![t] = "launched"]
  /\ UNCHANGED payout

\* The provider may settle an order in the answer to the request itself.
Place(t, result) ==
  /\ stage[t] = "launched"
  /\ payout[t] = "none"
  /\ payout' = [payout EXCEPT ![t] = result]
  /\ UNCHANGED stage

Resolve(t, result) ==
  /\ payout[t] = "pending"
  /\ payout' = [payout EXCEPT ![t] = result]
  /\ UNCHANGED stage

Next ==
  \E t \in Txs :
    \/ Create(t)
    \/ Launch(t)
    \/ \E result \in {"pending", "paid"} : Place(t, result)
    \/ \E result \in {"paid", "failed"} : Resolve(t, result)

Spec == Init /\ [][Next]_pvars
=============================================================================
