---------------------------- MODULE IntakeProofs ----------------------------
(***************************************************************************)
(* Proofs about Intake, for every number of intents, sessions, wallets,    *)
(* transfers, requests, deliveries and crashes, whatever the senders, the  *)
(* references and the amounts of the transfers.                            *)
(***************************************************************************)
EXTENDS IntakeProperties, TLAPS

(* A visit works for a wallet that holds a token for its session. *)
VisitInv(v) ==
  /\ pc[v] \in {"idle", "expire", "persist", "remember", "quote"}
  /\ pc[v] \in {"persist", "remember", "quote"} => <<on[v], by[v]>> \in tokens

(* A delivery confirms an intent only with a transfer of its amount, and   *)
(* completes one that names a transfer.                                    *)
CallInv(c) ==
  /\ pc[c] # "idle" => by[c] \in Transfers
  /\ pc[c] \in {"confirm", "complete"} => on[c] \in Intents /\ by[c] \in Exact
  /\ pc[c] = "complete" => txHash[on[c]] # None

(* A delivery that writes works on a row of the router it came through. *)
RefInv(r) ==
  /\ pc[r] \in {"idle", "lookup", "write", "done", "dead"}
  /\ pc[r] = "idle" => on[r] = None
  /\ pc[r] # "idle" => by[r] \in Transfers /\ router = "webhooks"
  /\ pc[r] = "write" => on[r] \in Rows

(* A signature is remembered before anything is done about it, so that one *)
(* delivery of it alone is looked up.                                      *)
Acts(r) == pc[r] = "lookup" \/ on[r] # None
OnceInv ==
  crashes = 0 =>
    \A q \in RefHooks :
      /\ pc[q] # "idle" => by[q] \in seen
      /\ \A r \in RefHooks : Acts(q) /\ Acts(r) /\ by[q] = by[r] => q = r

(* What an intent names as its payment is a transfer of its amount. *)
PaidInv ==
  router = "helius" =>
    \A p \in Intents :
      /\ txHash[p] \in Exact \cup {None}
      /\ payment[p] \in {"CONFIRMED", "COMPLETED"} => txHash[p] # None

(* The row and the memory name wallets with a token. *)
ProvenInv ==
  \A s \in Sessions : /\ customer[s] # None => <<s, customer[s]>> \in tokens
                      /\ proven[s] # None => <<s, proven[s]>> \in tokens

IInv ==
  /\ TypeOK
  /\ \A v \in Visits : VisitInv(v)
  /\ \A c \in Calls : CallInv(c)
  /\ \A r \in RefHooks : RefInv(r)
  /\ OnceInv /\ PaidInv /\ ProvenInv
-----------------------------------------------------------------------------
(* Facts about the names. *)
LEMMA Names ==
  /\ Intents \cap Calls = {} /\ Intents \cap RefHooks = {}
  /\ Intents \cap Visits = {}
  /\ RefHooks \cap Calls = {} /\ Visits \cap Calls = {} /\ RefHooks \cap Visits = {}
  /\ ExpiryJob \notin Rows \cup RefHooks \cup Visits
  /\ None \notin Intents \cup Sessions \cup Wallets \cup Transfers
  /\ Exact \subseteq Transfers /\ Intents \subseteq Rows /\ Calls \subseteq Rows
  /\ FeedHooks \subseteq Calls /\ Confirms \subseteq Calls
  /\ Rows \subseteq Procs /\ RefHooks \subseteq Procs /\ Visits \subseteq Procs
  /\ ExpiryJob \in Procs /\ MaxCrashes \in Nat
BY IntakeAssumption DEF Rows, Calls, Procs

(* Where a handler may be. *)
Stages ==
  {"idle", "persist", "remember", "expire", "quote", "check", "session",
   "match", "confirm", "complete", "credit", "fail", "done", "dead",
   "sCheck", "sConfirm", "sPayment", "sCredit", "skipped", "write", "reset",
   "update", "tell", "sessions", "lookup"}

(* The types of the groups of variables. *)
PayType ==
  /\ payment \in [Rows -> PaymentStatus \cup {"ABSENT"}]
  /\ txHash \in [Rows -> Transfers \cup {None}]
  /\ told \subseteq Intents
SessType ==
  /\ session \in [Sessions -> SessionStatus \cup {"ABSENT"}]
  /\ customer \in [Sessions -> Wallets \cup {None}]
MemType ==
  /\ nonces \subseteq Sessions \X Wallets
  /\ proven \in [Sessions -> Wallets \cup {None}]
  /\ tokens \subseteq Sessions \X Wallets
  /\ seen \subseteq Transfers
CallType ==
  /\ pc \in [Procs -> Stages]
  /\ on \in [Procs -> Rows \cup Sessions \cup {None}]
  /\ by \in [Procs -> Transfers \cup Wallets \cup {None}]
RestType ==
  /\ overdue \subseteq Intents \cup Sessions /\ listed \subseteq Intents
  /\ credits \in [Transfers -> SUBSET Calls]
RunType == router \in {"webhooks", "helius"} /\ crashes \in Nat

LEMMA Types ==
  TypeOK <=> PayType /\ SessType /\ MemType /\ CallType /\ RestType /\ RunType
BY DEF TypeOK, PayType, SessType, MemType, CallType, RestType, RunType, Stages

LEMMA TypesNext ==
  ASSUME PayType', SessType', MemType', CallType', RestType', RunType'
  PROVE  TypeOK'
BY DEF TypeOK, PayType, SessType, MemType, CallType, RestType, RunType, Stages

LEMMA IInvTypes ==
  ASSUME IInv
  PROVE  PayType /\ SessType /\ MemType /\ CallType /\ RestType /\ RunType
BY Types DEF IInv

(* It holds initially. *)
LEMMA InitIInv == Init => IInv
<1> SUFFICES ASSUME Init PROVE IInv
  OBVIOUS
<1> USE DEF Init
<1>1. TypeOK
  BY DEF TypeOK, PaymentStatus, SessionStatus
<1>2. \A c \in Procs : pc[c] = "idle" /\ on[c] = None
  OBVIOUS
<1>3. (\A v \in Visits : VisitInv(v)) /\ (\A c \in Calls : CallInv(c))
  BY <1>2, Names DEF VisitInv, CallInv
<1>4. (\A r \in RefHooks : RefInv(r)) /\ OnceInv
  BY <1>2, Names DEF RefInv, OnceInv, Acts
<1>5. PaidInv /\ ProvenInv
  BY Names DEF PaidInv, ProvenInv
<1>6. QED
  BY <1>1, <1>3, <1>4, <1>5 DEF IInv
-----------------------------------------------------------------------------
(* A step that is at most c's, and takes back no token, no signature and   *)
(* no payment's transfer.                                                  *)
Local(c) ==
  /\ \A d \in Procs \ {c} : pc'[d] = pc[d] /\ on'[d] = on[d] /\ by'[d] = by[d]
  /\ tokens \subseteq tokens' /\ seen \subseteq seen'
  /\ \A p \in Intents : txHash[p] # None => txHash'[p] # None
  /\ UNCHANGED runVars

(* It leaves what is true of the other handlers true. *)
LEMMA LocalKeeps ==
  ASSUME IInv, TypeOK', PaidInv', ProvenInv', NEW c \in Procs, Local(c),
         c \in Visits => VisitInv(c)', c \in Calls => CallInv(c)',
         c \in RefHooks => RefInv(c)' /\ OnceInv'
  PROVE  IInv'
<1>1. \A v \in Visits : VisitInv(v)'
  <2>1. ASSUME NEW v \in Visits, v # c PROVE VisitInv(v)'
    <3>1. pc'[v] = pc[v] /\ on'[v] = on[v] /\ by'[v] = by[v] /\ tokens \subseteq tokens'
      BY <2>1, Names DEF Local
    <3>2. VisitInv(v)
      BY DEF IInv
    <3>3. QED
      BY <3>1, <3>2 DEF VisitInv
  <2>2. QED
    BY <2>1
<1>2. \A d \in Calls : CallInv(d)'
  <2>1. ASSUME NEW d \in Calls, d # c PROVE CallInv(d)'
    <3>1. /\ pc'[d] = pc[d] /\ on'[d] = on[d] /\ by'[d] = by[d]
          /\ \A p \in Intents : txHash[p] # None => txHash'[p] # None
      BY <2>1, Names DEF Local
    <3>2. CallInv(d)
      BY DEF IInv
    <3>3. QED
      BY <3>1, <3>2 DEF CallInv
  <2>2. QED
    BY <2>1
<1>3. \A r \in RefHooks : RefInv(r)'
  <2>1. ASSUME NEW r \in RefHooks, r # c PROVE RefInv(r)'
    <3>1. pc'[r] = pc[r] /\ on'[r] = on[r] /\ by'[r] = by[r] /\ router' = router
      BY <2>1, Names DEF Local, runVars
    <3>2. RefInv(r)
      BY DEF IInv
    <3>3. QED
      BY <3>1, <3>2 DEF RefInv
  <2>2. QED
    BY <2>1
<1>4. OnceInv'
  <2>1. CASE c \notin RefHooks
    <3>1. /\ \A r \in RefHooks : pc'[r] = pc[r] /\ on'[r] = on[r] /\ by'[r] = by[r]
          /\ seen \subseteq seen' /\ crashes' = crashes
      BY <2>1, Names DEF Local, runVars
    <3>2. OnceInv
      BY DEF IInv
    <3>3. QED
      BY <3>1, <3>2 DEF OnceInv, Acts
  <2>2. QED
    BY <2>1
<1>5. QED
  BY <1>1, <1>2, <1>3, <1>4 DEF IInv

(* A step that is no handler's: a request that is served at once, or the   *)
(* passage of time.                                                        *)
LEMMA AsideKeeps ==
  ASSUME IInv, TypeOK', PaidInv', ProvenInv', UNCHANGED callVars,
         tokens' = tokens, seen' = seen, txHash' = txHash, UNCHANGED runVars
  PROVE  IInv'
<1>1. Local(ExpiryJob)
  BY DEF Local, callVars
<1>2. ExpiryJob \in Procs /\ ExpiryJob \notin Visits \cup Calls \cup RefHooks
  BY Names
<1>3. QED
  BY <1>1, <1>2, LocalKeeps

(* A step that writes no payment, or no session and nothing of memory. *)
LEMMA PaidSame ==
  ASSUME PaidInv, UNCHANGED <<payment, txHash, router>>
  PROVE  PaidInv'
BY DEF PaidInv

LEMMA ProvenSame ==
  ASSUME ProvenInv, UNCHANGED <<customer, proven>>, tokens \subseteq tokens'
  PROVE  ProvenInv'
BY DEF ProvenInv
-----------------------------------------------------------------------------
(* The three ways a handler moves. *)
LEMMA GoesMoves ==
  ASSUME CallType, NEW c \in Procs, NEW from, NEW to \in Stages, Goes(c, from, to)
  PROVE  /\ pc' \in [Procs -> Stages] /\ pc[c] = from /\ pc'[c] = to
         /\ \A d \in Procs \ {c} : pc'[d] = pc[d]
BY DEF CallType, Goes

LEMMA MovesMoves ==
  ASSUME CallType, NEW c \in Procs, NEW from, NEW to \in Stages, Moves(c, from, to)
  PROVE  /\ CallType' /\ pc[c] = from /\ pc'[c] = to /\ on' = on /\ by' = by
         /\ \A d \in Procs \ {c} :
              pc'[d] = pc[d] /\ on'[d] = on[d] /\ by'[d] = by[d]
BY GoesMoves DEF CallType, Moves

LEMMA StartsMoves ==
  ASSUME CallType, NEW c \in Procs, NEW to \in Stages,
         NEW x \in Rows \cup Sessions \cup {None},
         NEW y \in Transfers \cup Wallets \cup {None}, Starts(c, to, x, y)
  PROVE  /\ CallType' /\ pc[c] = "idle" /\ pc'[c] = to /\ on'[c] = x /\ by'[c] = y
         /\ \A d \in Procs \ {c} :
              pc'[d] = pc[d] /\ on'[d] = on[d] /\ by'[d] = by[d]
BY GoesMoves DEF CallType, Starts

LEMMA EndsMoves ==
  ASSUME CallType, NEW c \in Procs, NEW from, Ends(c, from)
  PROVE  /\ CallType' /\ pc[c] = from /\ pc'[c] = "idle"
         /\ \A d \in Procs \ {c} :
              pc'[d] = pc[d] /\ on'[d] = on[d] /\ by'[d] = by[d]
<1>1. "idle" \in Stages
  BY DEF Stages
<1>2. QED
  BY <1>1, GoesMoves DEF CallType, Ends
-----------------------------------------------------------------------------
(* A handler reads and decides, and writes nothing. *)
Alone(c) ==
  \A d \in Procs \ {c} : pc'[d] = pc[d] /\ on'[d] = on[d] /\ by'[d] = by[d]

LEMMA ReadKeeps ==
  ASSUME IInv, NEW c \in Procs, CallType', Alone(c),
         UNCHANGED <<payVars, overdue, sessVars, memVars, listed, credits, runVars>>,
         c \in Visits => VisitInv(c)', c \in Calls => CallInv(c)',
         c \in RefHooks => RefInv(c)' /\ OnceInv'
  PROVE  IInv'
<1>1. UNCHANGED <<payment, txHash, told, session, customer, nonces, proven, tokens,
                  seen, router, crashes>>
  BY DEF payVars, sessVars, memVars, runVars
<1>2. /\ PayType /\ SessType /\ MemType /\ RestType /\ RunType
      /\ PaidInv /\ ProvenInv
  BY IInvTypes DEF IInv
<1>3. TypeOK'
  BY <1>1, <1>2, TypesNext DEF PayType, SessType, MemType, RestType, RunType
<1>4. PaidInv' /\ ProvenInv'
  BY <1>1, <1>2, PaidSame, ProvenSame
<1>5. Local(c)
  BY <1>1 DEF Local, Alone, runVars
<1>6. QED
  BY <1>3, <1>4, <1>5, LocalKeeps

(* The merchant's requests and retries. *)
LEMMA CreateInv ==
  ASSUME IInv, \/ \E p \in Intents : createPayment(p)
               \/ \E s \in Sessions : createCheckoutSession(s)
  PROVE  IInv'
<1>1. /\ PayType /\ SessType /\ MemType /\ CallType /\ RestType /\ RunType
      /\ PaidInv /\ ProvenInv
  BY IInvTypes DEF IInv
<1>2. ASSUME NEW p \in Intents, createPayment(p) PROVE IInv'
  <2>1. /\ payment' = [payment EXCEPT ![p] = "PENDING"]
        /\ UNCHANGED <<txHash, told, overdue, sessVars, memVars, callVars, listed,
                       credits, runVars>>
    BY <1>2 DEF createPayment, SetPayment
  <2>2. UNCHANGED <<txHash, customer, proven, tokens, seen, router>>
    BY <2>1 DEF sessVars, memVars, runVars
  <2>3. PayType' /\ SessType' /\ MemType' /\ CallType' /\ RestType' /\ RunType'
    BY <1>1, <2>1 DEF PayType, SessType, MemType, CallType, RestType, RunType,
       sessVars, memVars, callVars, runVars, PaymentStatus
  <2>4. \A q \in Intents : payment'[q] \in {payment[q], "PENDING"}
    BY <1>1, <2>1, Names DEF PayType
  <2>5. PaidInv' /\ ProvenInv'
    BY <1>1, <2>2, <2>4, ProvenSame DEF PaidInv
  <2>6. QED
    BY <2>1, <2>2, <2>3, <2>5, TypesNext, AsideKeeps
<1>3. ASSUME NEW s \in Sessions, createCheckoutSession(s) PROVE IInv'
  <2>1. /\ session' = [session EXCEPT ![s] = "PENDING"]
        /\ UNCHANGED <<payVars, overdue, customer, memVars, callVars, listed,
                       credits, runVars>>
    BY <1>3 DEF createCheckoutSession, SetSession
  <2>2. UNCHANGED <<payment, txHash, told, customer, proven, tokens, seen, router>>
    BY <2>1 DEF payVars, memVars, runVars
  <2>3. PayType' /\ SessType' /\ MemType' /\ CallType' /\ RestType' /\ RunType'
    BY <1>1, <2>1, <2>2 DEF PayType, SessType, MemType, CallType, RestType, RunType,
       memVars, callVars, runVars, SessionStatus
  <2>4. PaidInv' /\ ProvenInv'
    BY <1>1, <2>2, PaidSame, ProvenSame
  <2>5. QED
    BY <2>1, <2>2, <2>3, <2>4, TypesNext, AsideKeeps
<1>4. QED
  BY <1>2, <1>3

LEMMA RetryInv ==
  ASSUME IInv, NEW p \in Intents, RetryRead(p) \/ RetryReset(p)
  PROVE  IInv'
<1>1. /\ PayType /\ SessType /\ MemType /\ CallType /\ RestType /\ RunType
      /\ PaidInv /\ ProvenInv
      /\ p \in Procs /\ p \notin Visits \cup Calls \cup RefHooks
  BY IInvTypes, Names DEF IInv
<1>2. CASE RetryRead(p)
  <2>1. "reset" \in Stages /\ Moves(p, "idle", "reset")
    BY <1>2 DEF RetryRead, Stages
  <2>2. CallType' /\ Alone(p)
    BY <1>1, <2>1, MovesMoves DEF Alone
  <2>3. QED
    BY <1>1, <1>2, <2>2, ReadKeeps DEF RetryRead
<1>3. CASE RetryReset(p)
  <2>1. /\ Moves(p, "reset", "done") /\ payment' = [payment EXCEPT ![p] = "PENDING"]
        /\ UNCHANGED <<txHash, told, overdue, sessVars, memVars, listed, credits,
                       runVars>>
    BY <1>3 DEF RetryReset, SetPayment
  <2>2. UNCHANGED <<customer, proven, tokens, seen, router>>
    BY <2>1 DEF sessVars, memVars, runVars
  <2>3. "done" \in Stages
    BY DEF Stages
  <2>4. CallType' /\ Alone(p)
    BY <1>1, <2>1, <2>3, MovesMoves DEF Alone
  <2>5. PayType' /\ SessType' /\ MemType' /\ RestType' /\ RunType'
    BY <1>1, <2>1 DEF PayType, SessType, MemType, RestType, RunType,
       sessVars, memVars, runVars, PaymentStatus
  <2>6. \A q \in Intents : payment'[q] \in {payment[q], "PENDING"}
    BY <1>1, <2>1, Names DEF PayType
  <2>7. PaidInv' /\ ProvenInv'
    BY <1>1, <2>1, <2>2, <2>6, ProvenSame DEF PaidInv
  <2>8. Local(p)
    BY <2>1, <2>2, <2>4 DEF Local, Alone
  <2>9. QED
    BY <1>1, <2>4, <2>5, <2>7, <2>8, TypesNext, LocalKeeps
<1>4. QED
  BY <1>2, <1>3

(* What takes place at once, or of itself. *)
LEMMA AsideInv ==
  ASSUME IInv,
         \/ \E s \in Sessions, w \in Wallets :
              createCheckoutNonce(s, w) \/ NonceExpires(s, w)
         \/ \E x \in Intents \cup Sessions : TimePasses(x)
  PROVE  IInv'
<1>1. /\ PayType /\ SessType /\ MemType /\ CallType /\ RestType /\ RunType
      /\ PaidInv /\ ProvenInv
  BY IInvTypes DEF IInv
<1>2. ASSUME UNCHANGED <<payVars, sessVars, proven, tokens, seen, callVars, listed,
                         credits, runVars>>,
             nonces' \subseteq Sessions \X Wallets,
             overdue' \subseteq Intents \cup Sessions
      PROVE  IInv'
  <2>1. UNCHANGED <<payment, txHash, told, customer, proven, tokens, seen, router>>
    BY <1>2 DEF payVars, sessVars, runVars
  <2>2. PayType' /\ SessType' /\ MemType' /\ CallType' /\ RestType' /\ RunType'
    BY <1>1, <1>2, <2>1 DEF PayType, SessType, MemType, CallType, RestType, RunType,
       sessVars, callVars, runVars
  <2>3. PaidInv' /\ ProvenInv'
    BY <1>1, <2>1, PaidSame, ProvenSame
  <2>4. QED
    BY <1>2, <2>1, <2>2, <2>3, TypesNext, AsideKeeps
<1>3. ASSUME NEW s \in Sessions, NEW w \in Wallets,
             createCheckoutNonce(s, w) \/ NonceExpires(s, w)
      PROVE  IInv'
  <2>1. nonces' \in {nonces \cup {<<s, w>>}, nonces \ {<<s, w>>}}
    BY <1>3 DEF createCheckoutNonce, NonceExpires
  <2>2. nonces' \subseteq Sessions \X Wallets
    BY <1>1, <2>1 DEF MemType
  <2>3. QED
    BY <1>1, <1>2, <1>3, <2>2 DEF createCheckoutNonce, NonceExpires, RestType
<1>4. ASSUME NEW x \in Intents \cup Sessions, TimePasses(x) PROVE IInv'
  BY <1>1, <1>2, <1>4 DEF TimePasses, memVars, RestType, MemType
<1>5. QED
  BY <1>3, <1>4
-----------------------------------------------------------------------------
(* What a visit writes leaves the payments alone. *)
LEMMA VisitKeeps ==
  ASSUME IInv, NEW v \in Visits, CallType', Alone(v), VisitInv(v)', ProvenInv',
         SessType', MemType', tokens \subseteq tokens', seen' = seen,
         UNCHANGED <<payVars, overdue, listed, credits, runVars>>
  PROVE  IInv'
<1>1. PayType /\ RestType /\ RunType /\ PaidInv
  BY IInvTypes DEF IInv
<1>2. UNCHANGED <<payment, txHash, told, router, crashes>>
  BY DEF payVars, runVars
<1>3. TypeOK'
  BY <1>1, <1>2, TypesNext DEF PayType, RestType, RunType
<1>4. PaidInv'
  BY <1>1, <1>2, PaidSame
<1>5. Local(v)
  BY <1>2 DEF Local, Alone, runVars
<1>6. v \in Procs /\ v \notin Calls \cup RefHooks
  BY Names
<1>7. QED
  BY <1>3, <1>4, <1>5, <1>6, LocalKeeps

(* What a visit may find: the wallet it is for has a token. *)
LEMMA ProofFound ==
  ASSUME IInv, NEW s \in Sessions, NEW w \in Wallets, Authenticated(s, w)
  PROVE  <<s, w>> \in tokens
BY Names DEF Authenticated, IInv, ProvenInv

LEMMA VisitReads ==
  ASSUME IInv, NEW v \in Visits, NEW s \in Sessions,
         View(v, s) \/ \E w \in Wallets : ExecuteRead(v, s, w)
  PROVE  IInv'
<1>1. /\ CallType /\ v \in Procs /\ v \notin Calls \cup RefHooks
      /\ "expire" \in Stages /\ "quote" \in Stages
  BY IInvTypes, Names DEF Stages
<1>2. CASE View(v, s)
  <2>1. Starts(v, "expire", s, None)
    BY <1>2 DEF View
  <2>2. CallType' /\ Alone(v) /\ pc'[v] = "expire"
    BY <1>1, <2>1, StartsMoves DEF Alone
  <2>3. VisitInv(v)'
    BY <2>2 DEF VisitInv
  <2>4. QED
    BY <1>1, <1>2, <2>2, <2>3, ReadKeeps DEF View
<1>3. ASSUME NEW w \in Wallets, ExecuteRead(v, s, w) PROVE IInv'
  <2>1. PICK to \in {"quote", "expire"} : Starts(v, to, s, w)
    BY <1>3 DEF ExecuteRead
  <2>2. to \in Stages
    BY <1>1
  <2>3. CallType' /\ Alone(v) /\ pc'[v] = to /\ on'[v] = s /\ by'[v] = w
    BY <1>1, <2>1, <2>2, StartsMoves DEF Alone
  <2>4. <<s, w>> \in tokens' /\ UNCHANGED <<payVars, overdue, sessVars, memVars,
                                           listed, credits, runVars>>
    BY <1>3, ProofFound DEF ExecuteRead, memVars
  <2>5. VisitInv(v)'
    BY <2>3, <2>4 DEF VisitInv
  <2>6. QED
    BY <1>1, <2>3, <2>4, <2>5, ReadKeeps
<1>4. QED
  BY <1>2, <1>3

LEMMA VerifyProofInv ==
  ASSUME IInv, NEW v \in Visits, NEW s \in Sessions, NEW w \in Wallets,
         VerifyProof(v, s, w)
  PROVE  IInv'
<1>1. /\ CallType /\ SessType /\ MemType /\ ProvenInv /\ v \in Procs
      /\ "persist" \in Stages
  BY IInvTypes, Names DEF IInv, Stages
<1>2. /\ Starts(v, "persist", s, w)
      /\ nonces' = nonces \ {<<s, w>>} /\ tokens' = tokens \cup {<<s, w>>}
      /\ UNCHANGED <<payVars, overdue, sessVars, proven, seen, listed, credits,
                     runVars>>
  BY DEF VerifyProof
<1>3. CallType' /\ Alone(v) /\ pc'[v] = "persist" /\ on'[v] = s /\ by'[v] = w
  BY <1>1, <1>2, StartsMoves DEF Alone
<1>4. VisitInv(v)'
  BY <1>2, <1>3 DEF VisitInv
<1>5. ProvenInv'
  BY <1>1, <1>2, ProvenSame DEF sessVars
<1>6. SessType' /\ MemType'
  BY <1>1, <1>2 DEF SessType, MemType, sessVars
<1>7. QED
  BY <1>2, <1>3, <1>4, <1>5, <1>6, VisitKeeps

LEMMA PageStepInv ==
  ASSUME IInv, NEW v \in Visits, PageStep(v)
  PROVE  IInv'
<1>1. /\ CallType /\ SessType /\ MemType /\ ProvenInv /\ VisitInv(v) /\ v \in Procs
      /\ "remember" \in Stages
  BY IInvTypes, Names DEF IInv, Stages
<1>2. pc[v] \in {"persist", "remember", "quote"} =>
        /\ <<on[v], by[v]>> \in tokens
        /\ on[v] \in Sessions /\ by[v] \in Wallets
  BY <1>1 DEF VisitInv, MemType
<1>3. ASSUME NEW from, Ends(v, from)
      PROVE  CallType' /\ Alone(v) /\ VisitInv(v)' /\ pc[v] = from
  <2>1. CallType' /\ Alone(v) /\ pc[v] = from /\ pc'[v] = "idle"
    BY <1>1, <1>3, EndsMoves DEF Alone
  <2>2. QED
    BY <2>1 DEF VisitInv
<1>4. CASE ExpireSeen(v)
  <2>1. CallType' /\ Alone(v) /\ VisitInv(v)'
    BY <1>3, <1>4 DEF ExpireSeen
  <2>2. /\ session' \in {session, [session EXCEPT ![on[v]] = "EXPIRED"]}
        /\ UNCHANGED <<payVars, overdue, customer, memVars, listed, credits, runVars>>
    BY <1>4 DEF ExpireSeen, SetSession
  <2>3. SessType' /\ MemType' /\ ProvenInv'
    BY <1>1, <2>2, ProvenSame DEF SessType, MemType, memVars, SessionStatus
  <2>4. QED
    BY <2>1, <2>2, <2>3, VisitKeeps DEF memVars
<1>5. CASE VerifyPersist(v)
  <2>1. /\ Moves(v, "persist", "remember")
        /\ customer' \in {customer, [customer EXCEPT ![on[v]] = by[v]]}
        /\ UNCHANGED <<payVars, overdue, session, memVars, listed, credits, runVars>>
    BY <1>5 DEF VerifyPersist
  <2>2. /\ CallType' /\ Alone(v) /\ pc[v] = "persist" /\ pc'[v] = "remember"
        /\ on' = on /\ by' = by
    BY <1>1, <2>1, MovesMoves DEF Alone
  <2>3. UNCHANGED <<nonces, proven, tokens, seen>>
    BY <2>1 DEF memVars
  <2>4. VisitInv(v)'
    BY <1>2, <2>2, <2>3 DEF VisitInv
  <2>5. SessType' /\ MemType'
    BY <1>1, <1>2, <2>1, <2>2, <2>3 DEF SessType, MemType
  <2>6. ProvenInv'
    BY <1>1, <1>2, <2>1, <2>2, <2>3 DEF ProvenInv, SessType
  <2>7. QED
    BY <2>1, <2>2, <2>3, <2>4, <2>5, <2>6, VisitKeeps
<1>6. CASE VerifyRemember(v)
  <2>1. /\ Ends(v, "remember") /\ proven' = [proven EXCEPT ![on[v]] = by[v]]
        /\ UNCHANGED <<payVars, overdue, sessVars, nonces, tokens, seen, listed,
                       credits, runVars>>
    BY <1>6 DEF VerifyRemember
  <2>2. CallType' /\ Alone(v) /\ VisitInv(v)' /\ pc[v] = "remember"
    BY <1>3, <2>1
  <2>3. UNCHANGED <<session, customer>>
    BY <2>1 DEF sessVars
  <2>4. SessType' /\ MemType'
    BY <1>1, <1>2, <2>1, <2>2, <2>3 DEF SessType, MemType
  <2>5. ProvenInv'
    BY <1>1, <1>2, <2>1, <2>2, <2>3 DEF ProvenInv, MemType
  <2>6. QED
    BY <2>1, <2>2, <2>4, <2>5, VisitKeeps
<1>7. CASE ExecuteWrite(v)
  <2>1. /\ Ends(v, "quote")
        /\ \/ /\ \E st \in {"SWAPPING", "AWAITING_PAYMENT"} :
                   session' = [session EXCEPT ![on[v]] = st]
              /\ customer' = [customer EXCEPT ![on[v]] = by[v]]
           \/ session' = session /\ customer' = customer
        /\ UNCHANGED <<payVars, overdue, memVars, listed, credits, runVars>>
    BY <1>7 DEF ExecuteWrite, SetSession, sessVars
  <2>2. CallType' /\ Alone(v) /\ VisitInv(v)' /\ pc[v] = "quote"
    BY <1>3, <2>1
  <2>3. UNCHANGED <<nonces, proven, tokens, seen>>
    BY <2>1 DEF memVars
  <2>4. SessType' /\ MemType'
    BY <1>1, <1>2, <2>1, <2>2, <2>3 DEF SessType, MemType, SessionStatus
  <2>5. ProvenInv'
    BY <1>1, <1>2, <2>1, <2>2, <2>3 DEF ProvenInv, SessType
  <2>6. QED
    BY <2>1, <2>2, <2>3, <2>4, <2>5, VisitKeeps
<1>8. QED
  BY <1>4, <1>5, <1>6, <1>7 DEF PageStep
-----------------------------------------------------------------------------
(* A confirmation or a delivery of the feed reads. *)
LEMMA CallReads ==
  ASSUME IInv, NEW c \in Calls,
         \/ ConfirmRead(c)
         \/ c \in Confirms /\ \E s \in Sessions, t \in Transfers : PageConfirm(c, s, t)
         \/ c \in FeedHooks /\ \E t \in Transfers : FeedDelivered(c, t)
         \/ c \in FeedHooks /\ (FeedSession(c) \/ FeedMatch(c) \/ FeedThrows(c))
  PROVE  IInv'
<1>1. /\ CallType /\ CallInv(c) /\ c \in Procs /\ c \notin Visits \cup RefHooks
      /\ {"done", "sConfirm", "sCheck", "session", "match", "confirm", "fail"}
           \subseteq Stages
  BY IInvTypes, Names DEF IInv, Stages
<1>2. ASSUME CallType', Alone(c), CallInv(c)',
             UNCHANGED <<payVars, overdue, sessVars, memVars, listed, credits, runVars>>
      PROVE  IInv'
  BY <1>1, <1>2, ReadKeeps
<1>3. CASE ConfirmRead(c)
  <2>1. PICK to \in {"done", "sConfirm", "match"} : Moves(c, "sCheck", to)
    BY <1>3 DEF ConfirmRead, AfterLookup
  <2>2. to \in Stages
    BY <1>1
  <2>3. CallType' /\ Alone(c) /\ pc[c] = "sCheck" /\ pc'[c] = to /\ by' = by
    BY <1>1, <2>1, <2>2, MovesMoves DEF Alone
  <2>4. CallInv(c)'
    BY <1>1, <2>3 DEF CallInv
  <2>5. QED
    BY <1>2, <1>3, <2>3, <2>4 DEF ConfirmRead
<1>4. ASSUME NEW s \in Sessions, NEW t \in Transfers, PageConfirm(c, s, t)
      PROVE  IInv'
  <2>1. PICK to \in {"done", "sConfirm"} : Starts(c, to, s, t)
    BY <1>4 DEF PageConfirm, AfterLookup
  <2>2. to \in Stages
    BY <1>1
  <2>3. CallType' /\ Alone(c) /\ pc'[c] = to /\ by'[c] = t
    BY <1>1, <2>1, <2>2, StartsMoves DEF Alone
  <2>4. CallInv(c)'
    BY <2>3 DEF CallInv
  <2>5. QED
    BY <1>2, <1>4, <2>3, <2>4 DEF PageConfirm
<1>5. ASSUME NEW t \in Transfers, FeedDelivered(c, t) PROVE IInv'
  <2>1. PICK to \in {"done", "session"} : Starts(c, to, None, t)
    BY <1>5 DEF FeedDelivered
  <2>2. to \in Stages
    BY <1>1
  <2>3. CallType' /\ Alone(c) /\ pc'[c] = to /\ by'[c] = t
    BY <1>1, <2>1, <2>2, StartsMoves DEF Alone
  <2>4. CallInv(c)'
    BY <2>3 DEF CallInv
  <2>5. QED
    BY <1>2, <1>5, <2>3, <2>4 DEF FeedDelivered
<1>6. CASE FeedSession(c)
  <2>1. CASE \E s \in Awaiting(Sender[by[c]]) :
               Goes(c, "session", "sCheck") /\ on' = [on EXCEPT ![c] = s] /\ by' = by
    <3>1. PICK s \in Sessions :
            Goes(c, "session", "sCheck") /\ on' = [on EXCEPT ![c] = s] /\ by' = by
      BY <2>1 DEF Awaiting
    <3>2. /\ pc' \in [Procs -> Stages] /\ pc[c] = "session" /\ pc'[c] = "sCheck"
          /\ \A d \in Procs \ {c} : pc'[d] = pc[d]
      BY <1>1, <3>1, GoesMoves
    <3>3. CallType' /\ Alone(c)
      BY <1>1, <3>1, <3>2 DEF CallType, Alone
    <3>4. CallInv(c)'
      BY <1>1, <3>1, <3>2 DEF CallInv
    <3>5. QED
      BY <1>2, <1>6, <3>3, <3>4 DEF FeedSession
  <2>2. CASE Moves(c, "session", "match")
    <3>1. /\ CallType' /\ Alone(c) /\ pc[c] = "session" /\ pc'[c] = "match" /\ by' = by
      BY <1>1, <2>2, MovesMoves DEF Alone
    <3>2. CallInv(c)'
      BY <1>1, <3>1 DEF CallInv
    <3>3. QED
      BY <1>2, <1>6, <3>1, <3>2 DEF FeedSession
  <2>3. QED
    BY <1>6, <2>1, <2>2 DEF FeedSession
<1>7. CASE FeedMatch(c)
  <2>1. CASE \E p \in Pending :
               /\ Goes(c, "match", IF by[c] \in Exact THEN "confirm" ELSE "fail")
               /\ on' = [on EXCEPT ![c] = p] /\ by' = by
    <3>1. PICK p \in Intents :
            /\ Goes(c, "match", IF by[c] \in Exact THEN "confirm" ELSE "fail")
            /\ on' = [on EXCEPT ![c] = p] /\ by' = by
      BY <2>1 DEF Pending
    <3>2. PICK to \in {"confirm", "fail"} :
            Goes(c, "match", to) /\ (to = "confirm" => by[c] \in Exact)
      BY <3>1
    <3>3. to \in Stages
      BY <1>1
    <3>4. /\ pc' \in [Procs -> Stages] /\ pc[c] = "match" /\ pc'[c] = to
          /\ \A d \in Procs \ {c} : pc'[d] = pc[d]
      BY <1>1, <3>2, <3>3, GoesMoves
    <3>5. CallType' /\ Alone(c) /\ on'[c] = p
      BY <1>1, <3>1, <3>4, Names DEF CallType, Alone
    <3>6. CallInv(c)'
      BY <1>1, <3>1, <3>2, <3>4, <3>5 DEF CallInv
    <3>7. QED
      BY <1>2, <1>7, <3>5, <3>6 DEF FeedMatch
  <2>2. CASE Moves(c, "match", "done")
    <3>1. /\ CallType' /\ Alone(c) /\ pc[c] = "match" /\ pc'[c] = "done" /\ by' = by
      BY <1>1, <2>2, MovesMoves DEF Alone
    <3>2. CallInv(c)'
      BY <1>1, <3>1 DEF CallInv
    <3>3. QED
      BY <1>2, <1>7, <3>1, <3>2 DEF FeedMatch
  <2>3. QED
    BY <1>7, <2>1, <2>2 DEF FeedMatch
<1>8. CASE FeedThrows(c)
  <2>1. /\ pc[c] \in {"session", "match", "confirm", "fail", "complete", "credit"}
        /\ Moves(c, pc[c], "done")
        /\ UNCHANGED <<payVars, overdue, sessVars, memVars, listed, credits, runVars>>
    BY <1>8 DEF FeedThrows
  <2>2. CallType' /\ Alone(c) /\ pc'[c] = "done" /\ by' = by
    BY <1>1, <2>1, MovesMoves DEF Alone
  <2>3. CallInv(c)'
    BY <1>1, <2>1, <2>2 DEF CallInv
  <2>4. QED
    BY <1>2, <2>1, <2>2, <2>3
<1>9. QED
  BY <1>3, <1>4, <1>5, <1>6, <1>7, <1>8

(* A confirmation or a delivery of the feed writes. *)
LEMMA CallKeeps ==
  ASSUME IInv, NEW c \in Calls, CallType', Alone(c), CallInv(c)', PaidInv',
         PayType', SessType', RestType',
         \A p \in Intents : txHash[p] # None => txHash'[p] # None,
         UNCHANGED <<customer, memVars, runVars>>
  PROVE  IInv'
<1>1. MemType /\ RunType /\ ProvenInv /\ c \in Procs /\ c \notin Visits \cup RefHooks
  BY IInvTypes, Names DEF IInv
<1>2. UNCHANGED <<nonces, proven, tokens, seen, router, crashes>>
  BY DEF memVars, runVars
<1>3. TypeOK'
  BY <1>1, <1>2, TypesNext DEF MemType, RunType
<1>4. ProvenInv'
  BY <1>1, <1>2, ProvenSame
<1>5. Local(c)
  BY <1>2 DEF Local, Alone, runVars
<1>6. QED
  BY <1>1, <1>3, <1>4, <1>5, LocalKeeps

LEMMA CallWrites ==
  ASSUME IInv, NEW c \in Calls,
         \/ ConfirmSession(c) \/ ConfirmPayment(c) \/ ConfirmCredit(c)
         \/ FeedFail(c) \/ FeedConfirm(c) \/ FeedComplete(c)
         \/ c \in FeedHooks /\ FeedCredit(c)
  PROVE  IInv'
<1>1. /\ PayType /\ SessType /\ CallType /\ RestType /\ CallInv(c) /\ PaidInv
      /\ c \in Procs /\ c \notin Intents
      /\ {"done", "sPayment", "sCredit", "complete", "credit"} \subseteq Stages
  BY IInvTypes, Names DEF IInv, Stages
<1>2. ASSUME NEW from \in Stages \ {"idle"}, NEW to \in Stages \ {"idle", "confirm", "complete"},
             Moves(c, from, to)
      PROVE  /\ CallType' /\ Alone(c) /\ CallInv(c)' /\ pc[c] = from /\ on' = on
             /\ by' = by /\ by[c] \in Transfers
  <2>1. /\ CallType' /\ Alone(c) /\ pc[c] = from /\ pc'[c] = to /\ on' = on /\ by' = by
    BY <1>1, <1>2, MovesMoves DEF Alone
  <2>2. QED
    BY <1>1, <1>2, <2>1 DEF CallInv
<1>3. CASE ConfirmSession(c)
  <2>1. PICK to \in {"sPayment", "done"} :
          /\ Moves(c, "sConfirm", to)
          /\ session' \in {session, [session EXCEPT ![on[c]] = "COMPLETED"]}
          /\ UNCHANGED <<payVars, overdue, customer, memVars, listed, credits, runVars>>
    BY <1>3 DEF ConfirmSession, SetSession
  <2>2. "sConfirm" \in Stages \ {"idle"}
        /\ to \in Stages \ {"idle", "confirm", "complete"}
    BY DEF Stages
  <2>3. CallType' /\ Alone(c) /\ CallInv(c)'
    BY <1>2, <2>1, <2>2
  <2>4. UNCHANGED <<payment, txHash, told, router>>
    BY <2>1 DEF payVars, runVars
  <2>5. PayType' /\ SessType' /\ RestType' /\ PaidInv'
    BY <1>1, <2>1, <2>4, PaidSame DEF PayType, SessType, RestType, SessionStatus
  <2>6. QED
    BY <2>1, <2>3, <2>4, <2>5, CallKeeps
<1>4. CASE ConfirmPayment(c)
  <2>1. PICK to \in {"sCredit", "skipped"} :
          /\ Moves(c, "sPayment", to)
          /\ payment' \in {payment, [payment EXCEPT ![c] = "COMPLETED"]}
          /\ txHash' \in {txHash, [txHash EXCEPT ![c] = by[c]]}
          /\ UNCHANGED <<told, overdue, sessVars, memVars, listed, credits, runVars>>
    BY <1>4 DEF ConfirmPayment, SetPayment
  <2>2. "sPayment" \in Stages \ {"idle"}
        /\ to \in Stages \ {"idle", "confirm", "complete"}
    BY DEF Stages
  <2>3. CallType' /\ Alone(c) /\ CallInv(c)' /\ by[c] \in Transfers
    BY <1>2, <2>1, <2>2
  <2>4. \A p \in Intents : payment'[p] = payment[p] /\ txHash'[p] = txHash[p]
    BY <1>1, <2>1, Names DEF PayType
  <2>5. PayType' /\ SessType' /\ RestType'
    BY <1>1, <2>1, <2>3 DEF PayType, SessType, RestType, PaymentStatus, sessVars
  <2>6. PaidInv'
    BY <1>1, <2>1, <2>4 DEF PaidInv, runVars
  <2>7. QED
    BY <2>1, <2>3, <2>4, <2>5, <2>6, CallKeeps DEF sessVars
<1>5. CASE ConfirmCredit(c) \/ (c \in FeedHooks /\ FeedCredit(c))
  <2>1. PICK from \in {"sCredit", "credit"} :
          /\ Moves(c, from, "done")
          /\ credits' \in {credits, [credits EXCEPT ![by[c]] = @ \cup {c}]}
          /\ UNCHANGED <<payVars, overdue, sessVars, memVars, listed, runVars>>
    BY <1>5 DEF ConfirmCredit, FeedCredit
  <2>2. from \in Stages \ {"idle"}
        /\ "done" \in Stages \ {"idle", "confirm", "complete"}
    BY DEF Stages
  <2>3. CallType' /\ Alone(c) /\ CallInv(c)'
    BY <1>2, <2>1, <2>2
  <2>4. UNCHANGED <<payment, txHash, told, session, customer, router>>
    BY <2>1 DEF payVars, sessVars, runVars
  <2>5. PayType' /\ SessType' /\ RestType' /\ PaidInv'
    BY <1>1, <2>1, <2>4, PaidSame DEF PayType, SessType, RestType
  <2>6. QED
    BY <2>1, <2>3, <2>4, <2>5, CallKeeps
<1>6. CASE FeedFail(c)
  <2>1. /\ Moves(c, "fail", "done") /\ payment' = [payment EXCEPT ![on[c]] = "FAILED"]
        /\ UNCHANGED <<txHash, told, overdue, sessVars, memVars, listed, credits,
                       runVars>>
    BY <1>6 DEF FeedFail, SetPayment
  <2>2. "fail" \in Stages \ {"idle"}
        /\ "done" \in Stages \ {"idle", "confirm", "complete"}
    BY DEF Stages
  <2>3. CallType' /\ Alone(c) /\ CallInv(c)'
    BY <1>2, <2>1, <2>2
  <2>4. \A p \in Intents : payment'[p] \in {payment[p], "FAILED"}
    BY <1>1, <2>1, Names DEF PayType
  <2>5. PayType' /\ SessType' /\ RestType'
    BY <1>1, <2>1 DEF PayType, SessType, RestType, PaymentStatus, sessVars
  <2>6. PaidInv'
    BY <1>1, <2>1, <2>4 DEF PaidInv, runVars
  <2>7. QED
    BY <2>1, <2>3, <2>5, <2>6, CallKeeps DEF sessVars
<1>7. CASE FeedConfirm(c)
  <2>1. /\ payment' = [payment EXCEPT ![on[c]] = "CONFIRMED"]
        /\ txHash' = [txHash EXCEPT ![on[c]] = by[c]]
        /\ UNCHANGED <<told, overdue, sessVars, memVars, listed, credits, runVars>>
    BY <1>7 DEF FeedConfirm, SetPayment
  <2>2. PICK to \in {"complete", "done"} : Moves(c, "confirm", to)
    BY <1>7 DEF FeedConfirm
  <2>3. to \in Stages
    BY <1>1
  <2>4. /\ CallType' /\ Alone(c) /\ pc[c] = "confirm" /\ pc'[c] = to
        /\ on' = on /\ by' = by
    BY <1>1, <2>2, <2>3, MovesMoves DEF Alone
  <2>5. on[c] \in Intents /\ by[c] \in Exact /\ by[c] \in Transfers /\ by[c] # None
    BY <1>1, <2>4, Names DEF CallInv
  <2>6. /\ txHash'[on[c]] = by[c]
        /\ \A p \in Intents \ {on[c]} : payment'[p] = payment[p] /\ txHash'[p] = txHash[p]
    BY <1>1, <2>1, <2>5, Names DEF PayType
  <2>7. CallInv(c)'
    BY <2>4, <2>5, <2>6 DEF CallInv
  <2>8. PayType' /\ SessType' /\ RestType'
    BY <1>1, <2>1, <2>5 DEF PayType, SessType, RestType, PaymentStatus, sessVars
  <2>9. PaidInv'
    BY <1>1, <2>1, <2>5, <2>6 DEF PaidInv, runVars
  <2>10. \A p \in Intents : txHash[p] # None => txHash'[p] # None
    BY <2>5, <2>6
  <2>11. QED
    BY <2>1, <2>4, <2>7, <2>8, <2>9, <2>10, CallKeeps DEF sessVars
<1>8. CASE FeedComplete(c)
  <2>1. /\ Moves(c, "complete", "credit")
        /\ payment' = [payment EXCEPT ![on[c]] = "COMPLETED"]
        /\ UNCHANGED <<txHash, told, overdue, sessVars, memVars, listed, credits,
                       runVars>>
    BY <1>8 DEF FeedComplete, SetPayment
  <2>2. "complete" \in Stages \ {"idle"}
        /\ "credit" \in Stages \ {"idle", "confirm", "complete"}
    BY DEF Stages
  <2>3. CallType' /\ Alone(c) /\ CallInv(c)' /\ pc[c] = "complete"
    BY <1>2, <2>1, <2>2
  <2>4. on[c] \in Intents /\ txHash[on[c]] # None
    BY <1>1, <2>3 DEF CallInv
  <2>5. \A p \in Intents \ {on[c]} : payment'[p] = payment[p]
    BY <1>1, <2>1, Names DEF PayType
  <2>6. PayType' /\ SessType' /\ RestType'
    BY <1>1, <2>1 DEF PayType, SessType, RestType, PaymentStatus, sessVars
  <2>7. PaidInv'
    BY <1>1, <2>1, <2>4, <2>5 DEF PaidInv, runVars
  <2>8. QED
    BY <2>1, <2>3, <2>6, <2>7, CallKeeps DEF sessVars
<1>9. QED
  BY <1>3, <1>4, <1>5, <1>6, <1>7, <1>8
-----------------------------------------------------------------------------
(* The other router's deliveries. *)
LEMMA RefSeenInv ==
  ASSUME IInv, NEW r \in RefHooks, NEW t \in Transfers, RefSeen(r, t)
  PROVE  IInv'
<1>1. /\ PayType /\ SessType /\ MemType /\ CallType /\ RestType /\ RunType
      /\ PaidInv /\ ProvenInv /\ OnceInv /\ RefInv(r)
      /\ r \in Procs /\ r \notin Visits \cup Calls
      /\ "done" \in Stages /\ "lookup" \in Stages
  BY IInvTypes, Names DEF IInv, Stages
<1>2. /\ router = "webhooks" /\ seen' = seen \cup {t}
      /\ UNCHANGED <<payVars, overdue, sessVars, nonces, proven, tokens, listed,
                     credits, runVars>>
  BY DEF RefSeen
<1>3. PICK to \in {"done", "lookup"} :
        Starts(r, to, None, t) /\ (to = "lookup" => t \notin seen)
  BY DEF RefSeen
<1>4. to \in Stages
  BY <1>1
<1>5. /\ CallType' /\ Alone(r) /\ pc[r] = "idle" /\ pc'[r] = to
      /\ on'[r] = None /\ by'[r] = t
  BY <1>1, <1>3, <1>4, StartsMoves DEF Alone
<1>6. UNCHANGED <<payment, txHash, told, session, customer, router, crashes>>
  BY <1>2 DEF payVars, sessVars, runVars
<1>7. TypeOK'
  <2>1. PayType' /\ SessType' /\ MemType' /\ RestType' /\ RunType'
    BY <1>1, <1>2, <1>6 DEF PayType, SessType, MemType, RestType, RunType
  <2>2. QED
    BY <1>5, <2>1, TypesNext
<1>8. PaidInv' /\ ProvenInv'
  BY <1>1, <1>2, <1>6, PaidSame, ProvenSame
<1>9. RefInv(r)'
  BY <1>2, <1>5, <1>6 DEF RefInv
<1>10. OnceInv'
  <2> SUFFICES ASSUME crashes' = 0 PROVE OnceInv'
    BY DEF OnceInv
  <2>1. /\ \A q \in RefHooks : pc[q] # "idle" => by[q] \in seen
        /\ \A q, p \in RefHooks : Acts(q) /\ Acts(p) /\ by[q] = by[p] => q = p
    BY <1>1, <1>6 DEF OnceInv
  <2>2. \A q \in RefHooks \ {r} :
          pc'[q] = pc[q] /\ on'[q] = on[q] /\ by'[q] = by[q] /\ (Acts(q)' <=> Acts(q))
    BY <1>5, Names DEF Alone, Acts
  <2>3. \A q \in RefHooks : Acts(q) => pc[q] # "idle"
    BY DEF Acts, RefInv, IInv
  <2>4. Acts(r)' => t \notin seen
    BY <1>3, <1>5 DEF Acts
  <2>5. \A q \in RefHooks \ {r} : Acts(r)' /\ Acts(q)' => by'[q] # by'[r]
    BY <1>5, <2>1, <2>2, <2>3, <2>4
  <2>6. \A q \in RefHooks : pc'[q] # "idle" => by'[q] \in seen'
    BY <1>2, <1>5, <2>1, <2>2
  <2>7. QED
    BY <2>1, <2>2, <2>5, <2>6 DEF OnceInv
<1>11. Local(r)
  BY <1>2, <1>5, <1>6 DEF Local, Alone
<1>12. QED
  BY <1>1, <1>7, <1>8, <1>9, <1>10, <1>11, LocalKeeps

(* A delivery that goes on, remains the one that acts if it was. *)
LEMMA OnceStays ==
  ASSUME OnceInv, NEW r \in RefHooks, r \in Procs, Alone(r), Acts(r)' => Acts(r),
         pc[r] # "idle", by' = by, seen' = seen, crashes' = crashes
  PROVE  OnceInv'
<1>1. \A q \in RefHooks \ {r} : pc'[q] = pc[q] /\ (Acts(q)' => Acts(q))
  BY Names DEF Alone, Acts
<1>2. \A q \in RefHooks : (Acts(q)' => Acts(q)) /\ (pc'[q] # "idle" => pc[q] # "idle")
  BY <1>1
<1>3. QED
  BY <1>2 DEF OnceInv

LEMMA RefStepInv ==
  ASSUME IInv, NEW r \in RefHooks, RefStep(r)
  PROVE  IInv'
<1>1. /\ PayType /\ SessType /\ MemType /\ CallType /\ RestType /\ RunType
      /\ PaidInv /\ ProvenInv /\ OnceInv /\ RefInv(r)
      /\ r \in Procs /\ r \notin Visits \cup Calls
      /\ "done" \in Stages /\ "write" \in Stages
  BY IInvTypes, Names DEF IInv, Stages
<1>2. CASE RefLookup(r)
  <2>1. UNCHANGED <<payVars, overdue, sessVars, memVars, listed, credits, runVars>>
    BY <1>2 DEF RefLookup
  <2>2. UNCHANGED <<seen, router, crashes>>
    BY <2>1 DEF memVars, runVars
  <2>3. ASSUME CallType', Alone(r), pc[r] = "lookup", by' = by, RefInv(r)'
        PROVE  IInv'
    <3>1. Acts(r) /\ pc[r] # "idle"
      BY <2>3 DEF Acts
    <3>2. OnceInv'
      BY <1>1, <2>2, <2>3, <3>1, OnceStays
    <3>3. QED
      BY <1>1, <2>1, <2>3, <3>2, ReadKeeps
  <2>4. CASE \E p \in Named(by[r]) :
               Goes(r, "lookup", "write") /\ on' = [on EXCEPT ![r] = p] /\ by' = by
    <3>1. PICK p \in Rows :
            Goes(r, "lookup", "write") /\ on' = [on EXCEPT ![r] = p] /\ by' = by
      BY <2>4 DEF Named
    <3>2. /\ pc' \in [Procs -> Stages] /\ pc[r] = "lookup" /\ pc'[r] = "write"
          /\ \A d \in Procs \ {r} : pc'[d] = pc[d]
      BY <1>1, <3>1, GoesMoves
    <3>3. CallType' /\ Alone(r) /\ on'[r] = p
      BY <1>1, <3>1, <3>2 DEF CallType, Alone
    <3>4. RefInv(r)'
      BY <1>1, <2>2, <3>1, <3>2, <3>3 DEF RefInv
    <3>5. QED
      BY <2>3, <3>1, <3>2, <3>3, <3>4
  <2>5. CASE Moves(r, "lookup", "done")
    <3>1. CallType' /\ Alone(r) /\ pc[r] = "lookup" /\ pc'[r] = "done" /\ by' = by
      BY <1>1, <2>5, MovesMoves DEF Alone
    <3>2. RefInv(r)'
      BY <1>1, <2>2, <3>1 DEF RefInv
    <3>3. QED
      BY <2>3, <3>1, <3>2
  <2>6. QED
    BY <1>2, <2>4, <2>5 DEF RefLookup
<1>3. CASE RefWrite(r)
  <2>1. /\ Moves(r, "write", "done")
        /\ \/ /\ payment' = [payment EXCEPT ![on[r]] = "CONFIRMED"]
              /\ txHash' = [txHash EXCEPT ![on[r]] = by[r]]
           \/ payment' = payment /\ txHash' = txHash
        /\ UNCHANGED <<told, overdue, sessVars, memVars, listed, credits, runVars>>
    BY <1>3 DEF RefWrite, SetPayment
  <2>2. UNCHANGED <<customer, proven, tokens, seen, router, crashes>>
    BY <2>1 DEF sessVars, memVars, runVars
  <2>3. /\ CallType' /\ Alone(r) /\ pc[r] = "write" /\ pc'[r] = "done"
        /\ on' = on /\ by' = by
    BY <1>1, <2>1, MovesMoves DEF Alone
  <2>4. by[r] \in Transfers /\ by[r] # None /\ router = "webhooks" /\ on[r] \in Rows
    BY <1>1, <2>3, Names DEF RefInv
  <2>5. PayType' /\ SessType' /\ MemType' /\ RestType' /\ RunType'
    BY <1>1, <2>1, <2>4 DEF PayType, SessType, MemType, RestType, RunType,
       PaymentStatus, sessVars, memVars, runVars
  <2>6. PaidInv' /\ ProvenInv'
    BY <1>1, <2>2, <2>4, ProvenSame DEF PaidInv
  <2>7. RefInv(r)'
    BY <1>1, <2>2, <2>3 DEF RefInv
  <2>8. OnceInv'
    <3>1. Acts(r)' => Acts(r)
      BY <2>3 DEF Acts
    <3>2. QED
      BY <1>1, <2>2, <2>3, <3>1, OnceStays
  <2>9. \A p \in Intents : txHash[p] # None => txHash'[p] # None
    BY <1>1, <2>1, <2>4, Names DEF PayType
  <2>10. Local(r)
    BY <2>1, <2>2, <2>3, <2>9 DEF Local, Alone
  <2>11. QED
    BY <1>1, <2>3, <2>5, <2>6, <2>7, <2>8, <2>10, TypesNext, LocalKeeps
<1>4. QED
  BY <1>2, <1>3 DEF RefStep

(* The hourly job has nothing of its own to keep. *)
LEMMA JobStepInv ==
  ASSUME IInv, JobStep
  PROVE  IInv'
<1>1. /\ PayType /\ SessType /\ MemType /\ CallType /\ RestType /\ RunType
      /\ PaidInv /\ ProvenInv
      /\ ExpiryJob \in Procs /\ ExpiryJob \notin Visits \cup Calls \cup RefHooks
  BY IInvTypes, Names DEF IInv
<1>2. CallType' /\ Alone(ExpiryJob)
  <2>1. PICK from, to \in {"idle", "update", "tell", "sessions"} :
          Moves(ExpiryJob, from, to)
    BY DEF JobStep, JobScan, JobExpire, JobTell, JobSessions
  <2>2. to \in Stages
    BY DEF Stages
  <2>3. QED
    BY <1>1, <2>1, <2>2, MovesMoves DEF Alone
<1>3. /\ \/ payment' = payment
         \/ payment' = [p \in Rows |-> IF p \in Due THEN "EXPIRED" ELSE payment[p]]
      /\ \/ session' = session
         \/ session' = [s \in Sessions |->
                          IF Open(s) /\ s \in overdue THEN "EXPIRED" ELSE session[s]]
      /\ listed' \subseteq Intents /\ told' \subseteq Intents
      /\ UNCHANGED <<txHash, overdue, customer, memVars, credits, runVars>>
  <2>1. Due \subseteq Intents
    BY DEF Due
  <2>2. CASE JobScan
    BY <1>1, <2>1, <2>2 DEF JobScan, payVars, sessVars, PayType
  <2>3. CASE JobExpire
    BY <1>1, <2>3 DEF JobExpire, sessVars, PayType, RestType
  <2>4. CASE JobTell
    BY <1>1, <2>4 DEF JobTell, sessVars, PayType, RestType
  <2>5. CASE JobSessions
    BY <1>1, <2>5 DEF JobSessions, payVars, PayType
  <2>6. QED
    BY <2>2, <2>3, <2>4, <2>5 DEF JobStep
<1>4. PayType' /\ SessType'
  <2>1. payment' \in [Rows -> PaymentStatus \cup {"ABSENT"}]
    BY <1>1, <1>3 DEF PayType, PaymentStatus
  <2>2. session' \in [Sessions -> SessionStatus \cup {"ABSENT"}]
    BY <1>1, <1>3 DEF SessType, SessionStatus
  <2>3. QED
    BY <1>1, <1>3, <2>1, <2>2 DEF PayType, SessType
<1>5. UNCHANGED <<nonces, proven, tokens, seen, router, crashes>>
  BY <1>3 DEF memVars, runVars
<1>6. MemType' /\ RestType' /\ RunType'
  BY <1>1, <1>3, <1>5 DEF MemType, RestType, RunType
<1>7. \A p \in Intents : payment'[p] \in {payment[p], "EXPIRED"}
  BY <1>1, <1>3, Names
<1>8. PaidInv' /\ ProvenInv'
  BY <1>1, <1>3, <1>5, <1>7, ProvenSame DEF PaidInv
<1>9. Local(ExpiryJob)
  BY <1>2, <1>3, <1>5 DEF Local, Alone
<1>10. QED
  BY <1>1, <1>2, <1>4, <1>6, <1>8, <1>9, TypesNext, LocalKeeps

(* A restart forgets the visits, the challenges, the verified wallets and  *)
(* the signatures; the tokens and the rows remain.                         *)
LEMMA CrashInv ==
  ASSUME IInv, Crash
  PROVE  IInv'
<1>1. /\ PayType /\ SessType /\ MemType /\ CallType /\ RestType /\ RunType
      /\ PaidInv /\ ProvenInv
  BY IInvTypes DEF IInv
<1>2. /\ crashes' = crashes + 1
      /\ pc' = [c \in Procs |-> IF c \in Visits \cup {ExpiryJob} THEN "idle"
                                ELSE IF Running(c) THEN "dead" ELSE pc[c]]
      /\ on' = [c \in Procs |-> IF c \in Visits THEN None ELSE on[c]]
      /\ by' = [c \in Procs |-> IF c \in Visits THEN None ELSE by[c]]
      /\ nonces' = {} /\ seen' = {} /\ proven' = [s \in Sessions |-> None]
      /\ listed' = {}
      /\ UNCHANGED <<payVars, overdue, sessVars, tokens, credits, router>>
  BY DEF Crash
<1>3. UNCHANGED <<payment, txHash, told, session, customer>>
  BY <1>2 DEF payVars, sessVars
<1>4. TypeOK'
  <2>1. PayType' /\ SessType' /\ MemType' /\ RestType' /\ RunType'
    BY <1>1, <1>2, <1>3 DEF PayType, SessType, MemType, RestType, RunType
  <2>2. CallType'
    BY <1>1, <1>2 DEF CallType, Stages
  <2>3. QED
    BY <2>1, <2>2, TypesNext
<1>5. \A v \in Visits : VisitInv(v)'
  BY <1>2, Names DEF VisitInv
<1>6. \A d \in Procs \ (Visits \cup {ExpiryJob}) :
        /\ on'[d] = on[d] /\ by'[d] = by[d]
        /\ pc'[d] = "idle" => pc[d] = "idle"
        /\ pc'[d] \in {"idle", "done", "skipped", "dead"}
        /\ pc[d] = "idle" => pc'[d] = "idle"
  BY <1>1, <1>2 DEF Running
<1>7. ASSUME NEW c \in Calls PROVE CallInv(c)'
  <2>1. c \in Procs \ (Visits \cup {ExpiryJob}) /\ CallInv(c)
    BY Names DEF IInv
  <2>2. QED
    BY <1>6, <2>1 DEF CallInv
<1>8. ASSUME NEW r \in RefHooks PROVE RefInv(r)'
  <2>1. r \in Procs \ (Visits \cup {ExpiryJob}) /\ RefInv(r)
    BY Names DEF IInv
  <2>2. QED
    BY <1>2, <1>6, <2>1 DEF RefInv
<1>9. OnceInv'
  <2>1. \A x \in Nat : x + 1 # 0
    OBVIOUS
  <2>2. QED
    BY <1>1, <1>2, <2>1 DEF OnceInv, RunType
<1>10. PaidInv' /\ ProvenInv'
  BY <1>1, <1>2, <1>3 DEF PaidInv, ProvenInv
<1>11. QED
  BY <1>4, <1>5, <1>7, <1>8, <1>9, <1>10 DEF IInv
-----------------------------------------------------------------------------
(* Every step keeps the invariant. *)
LEMMA NextIInv == IInv /\ [Next]_vars => IInv'
<1> SUFFICES ASSUME IInv, [Next]_vars PROVE IInv'
  OBVIOUS
<1>1. ASSUME MerchantRequests PROVE IInv'
  BY <1>1, CreateInv, RetryInv DEF MerchantRequests
<1>2. ASSUME PageRequests PROVE IInv'
  <2>1. ASSUME NEW s \in Sessions, NEW c \in Confirms, NEW t \in Transfers,
               PageConfirm(c, s, t)
        PROVE  IInv'
    BY <2>1, CallReads, Names
  <2>2. QED
    BY <1>2, <2>1, AsideInv, VisitReads, VerifyProofInv DEF PageRequests
<1>3. ASSUME Reports PROVE IInv'
  <2>1. ASSUME NEW t \in Transfers, NEW f \in FeedHooks, FeedDelivered(f, t)
        PROVE  IInv'
    BY <2>1, CallReads, Names
  <2>2. QED
    BY <1>3, <2>1, RefSeenInv DEF Reports
<1>4. ASSUME Clock PROVE IInv'
  BY <1>4, AsideInv DEF Clock
<1>5. ASSUME NEW p \in Intents, RetryReset(p) PROVE IInv'
  BY <1>5, RetryInv
<1>6. ASSUME NEW v \in Visits, PageStep(v) PROVE IInv'
  BY <1>6, PageStepInv
<1>7. ASSUME NEW c \in Calls, ConfirmStep(c) PROVE IInv'
  BY <1>7, CallReads, CallWrites DEF ConfirmStep
<1>8. ASSUME NEW f \in FeedHooks, FeedStep(f) PROVE IInv'
  <2>1. f \in Calls
    BY Names
  <2>2. QED
    BY <1>8, <2>1, CallReads, CallWrites DEF FeedStep
<1>9. ASSUME NEW r \in RefHooks, RefStep(r) PROVE IInv'
  BY <1>9, RefStepInv
<1>10. ASSUME JobStep PROVE IInv'
  BY <1>10, JobStepInv
<1>11. ASSUME Crash PROVE IInv'
  BY <1>11, CrashInv
<1>12. ASSUME UNCHANGED vars PROVE IInv'
  <2>1. UNCHANGED <<payVars, overdue, sessVars, memVars, callVars, listed, credits,
                    runVars>>
    BY <1>12 DEF vars
  <2>2. UNCHANGED <<payment, txHash, told, session, customer, nonces, proven, tokens,
                    seen, pc, on, by, router, crashes>>
    BY <2>1 DEF payVars, sessVars, memVars, callVars, runVars
  <2>3. TypeOK'
    BY <2>1, <2>2, IInvTypes, TypesNext
       DEF PayType, SessType, MemType, CallType, RestType, RunType
  <2>4. PaidInv' /\ ProvenInv'
    BY <2>2, PaidSame, ProvenSame DEF IInv
  <2>5. QED
    BY <2>1, <2>2, <2>3, <2>4, AsideKeeps
<1>13. QED
  BY <1>1, <1>2, <1>3, <1>4, <1>5, <1>6, <1>7, <1>8, <1>9, <1>10, <1>11, <1>12
     DEF Next

(* Every reachable state satisfies the inductive invariant. *)
THEOREM Invariance == Spec => []IInv
BY InitIInv, NextIInv, PTL DEF Spec

(* The rows of payments and sessions, the copies in memory and the         *)
(* requests under way always hold what they may hold; so no handler writes *)
(* a wallet where a transfer belongs, or to a row of another kind.         *)
THEOREM TypeCorrect == Spec => []TypeOK
<1>1. IInv => TypeOK
  BY DEF IInv
<1>2. QED
  BY <1>1, Invariance, PTL

(* The wallet verifyCheckoutSignature and executeCheckoutPayment bind to a *)
(* session has proved itself to that session: however many visits overlap, *)
(* and although a restart forgets the verified wallets.                    *)
THEOREM CustomerIsProven == Spec => []PaidByProvenCustomer
<1>1. IInv => PaidByProvenCustomer
  BY DEF IInv, ProvenInv, PaidByProvenCustomer
<1>2. QED
  BY <1>1, Invariance, PTL

(* processHeliusWebhook confirms and completes an intent only with a       *)
(* transfer of its amount, whichever deliveries, retries and expiry runs   *)
(* come between the match and the writes.                                  *)
THEOREM IntentIsPaidInFull == Spec => []PaidInFull
<1>1. IInv => PaidInFull
  BY DEF IInv, PaidInv, PaidInFull
<1>2. QED
  BY <1>1, Invariance, PTL

(* Of the deliveries of one signature to handleHeliusWebhook one alone     *)
(* comes to write, until a restart forgets processedTxHashes.              *)
THEOREM ReportIsActedOnOnce == Spec => []ReportActedOnOnce
<1>1. ASSUME IInv, NEW q \in RefHooks, NEW r \in RefHooks, q # r, by[q] = by[r],
             on[q] # None, on[r] # None
      PROVE  crashes > 0
  <2>1. Acts(q) /\ Acts(r) /\ crashes \in Nat
    BY <1>1, IInvTypes DEF Acts, RunType
  <2>2. crashes # 0
    BY <1>1, <2>1 DEF IInv, OnceInv
  <2>3. QED
    BY <2>1, <2>2
<1>2. IInv => ReportActedOnOnce
  BY <1>1 DEF ReportActedOnOnce
<1>3. QED
  BY <1>2, Invariance, PTL
=============================================================================
