------------------------- MODULE SettlementPromise -------------------------
(***************************************************************************)
(* What settlement promises about a merchant's payments, with no calls,    *)
(* rows or jobs in it: only what has been earned is paid out, only what    *)
(* has been paid out is booked as settled, and nothing is ever taken back. *)
(***************************************************************************)
CONSTANT Payments
VARIABLES earned, paidOut, booked

pvars == <<earned, paidOut, booked>>

Init == earned = {} /\ paidOut = {} /\ booked = {}

Earn(p) ==
  /\ earned' = earned \cup {p}
  /\ UNCHANGED <<paidOut, booked>>

PayOut(S) ==
  /\ S \subseteq earned
  /\ paidOut' = paidOut \cup S
  /\ UNCHANGED <<earned, booked>>

Book(S) ==
  /\ S \subseteq paidOut
  /\ booked' = booked \cup S
  /\ UNCHANGED <<earned, paidOut>>

Next ==
  \/ \E p \in Payments : Earn(p)
  \/ \E S \in SUBSET Payments : PayOut(S) \/ Book(S)

Spec == Init /\ [][Next]_pvars
=============================================================================
