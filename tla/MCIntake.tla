------------------------------ MODULE MCIntake ------------------------------
(* The checkout page: one session, two wallets, the page's requests and    *)
(* its confirmation, one delivery of the feed.  The feed: two intents and  *)
(* two deliveries of three transfers, one of a wrong amount and one in     *)
(* another token; the other router has two deliveries, of a transfer that  *)
(* names an intent or of one that names nothing.                           *)
EXTENDS IntakeProperties

CONSTANTS p1, p2, s1, w1, w2, t1, t2, t3

MCSender == [t \in {t1, t2, t3} |-> w1]
MCReference == [t \in {t1, t2, t3} |-> IF t = t1 THEN p1 ELSE None]
MCPageSender == [t \in {t1} |-> w1]
MCPageReference == [t \in {t1} |-> None]
=============================================================================
