-------------------------- MODULE AccessProperties --------------------------
(* What is claimed of signing in and of API keys. *)
EXTENDS Access

(* "Invalidate nonce (single-use only)" (consumerAuth.service.ts): a nonce *)
(* signs in once, and once more for each database call that failed, unless *)
(* it was read again before it was deleted.                                *)
NonceOpensOnce ==
  \A n \in Nonces \ shared : opened[n] <= 1 + faults

(* A wallet's sign-ins all name one account, unless a database call failed *)
(* or two of them overlapped.                                              *)
OneIdentity == ids = Ids => faults > 0 \/ together

(* "API key has been permanently revoked" (apikey.service.ts): a revoked   *)
(* named key is in none of the stores a request is checked against, and a  *)
(* restart does not bring it back, unless a database call failed.          *)
NamedKeyStaysRevoked ==
  \A k \in revoked :
    /\ namedDb[k] # "absent" \/ namedMem[k] # "absent"
    /\ Accepted(k) \/ AcceptedAtCheckout(k)
    => faults > 0

(* The same of a primary key, which requireApiKey's cache may still know   *)
(* for an hour and createSession then refuses, and which a profile update  *)
(* that had read it before puts back.                                      *)
PrimaryKeyStaysRevoked ==
  \A k \in revoked \ held :
    /\ AcceptedAtCheckout(k) => faults > 0
    /\ Accepted(k) => faults > 0 \/ k \in cache
=============================================================================
