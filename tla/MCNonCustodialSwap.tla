------------------------- MODULE MCNonCustodialSwap -------------------------
(* A payment that comes with the customer's swap and whose other swaps the *)
(* gas wallet can sign, and one in the merchant's own token.               *)
EXTENDS NonCustodialSwapProperties
CONSTANTS p1, p2
=============================================================================
