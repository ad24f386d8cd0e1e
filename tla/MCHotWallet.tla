---------------------------- MODULE MCHotWallet ----------------------------
(* One payment, and one key for both requests and the process call.        *)
EXTENDS HotWalletProperties

CONSTANT k1

MCKey == [c \in Requests \cup Processes |-> k1]
=============================================================================
