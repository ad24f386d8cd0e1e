---------------------------- MODULE AccessProofs ----------------------------
(***************************************************************************)
(* Proofs about Access, for every number of calls, keys, nonces, database  *)
(* calls that fail and crashes.                                            *)
(***************************************************************************)
EXTENDS AccessProperties, FiniteSetTheorems, TLAPS

(* The sign-ins with nonce n that have still to delete it, and those that  *)
(* have and are about to open a session.                                   *)
Deleting(n) == {c \in Calls : pc[c] = "delete" /\ got[c] = n}
Opening(n) == {c \in Calls : pc[c] \in {"find", "create"} /\ got[c] = n}

(* What the nonce has opened, and will. *)
Spent(n) == opened[n] + Cardinality(Opening(n))

InDb(n) == nonceDb # None /\ nonceDb.nonce = n
Available(n) == n \in returned /\ (n = nonceMem \/ InDb(n))

(* A nonce that is being made has not been handed out, and by one call.    *)
IssueInv ==
  /\ \A c \in Calls : pc[c] = "issue" => got[c] \in (1..issued) \ returned
  /\ \A c, d \in Calls :
       pc[c] = "issue" /\ pc[d] = "issue" /\ got[c] = got[d] => c = d

(* A nonce that is still to be found or to be deleted has been spent once  *)
(* less than it may have been.  A merchant's sign-in deletes the row it    *)
(* has read; that it read none while there was one is a failure.           *)
NonceInv(n) ==
  /\ IsFiniteSet(Opening(n))
  /\ n \notin returned => opened[n] = 0
  /\ n \notin shared =>
       /\ \A c, d \in Deleting(n) : c = d
       /\ Spent(n) <= 1 + faults
       /\ Available(n) \/ Deleting(n) # {} => Spent(n) <= faults
       /\ \A c \in Deleting(n) :
            /\ ~Merchant => n # nonceMem
            /\ Merchant /\ InDb(n) /\ nonceDb.id # found[c]
                 => Spent(n) + 1 <= faults

(* As long as nothing failed and no two sign-ins overlapped there is one   *)
(* identity, the row's, and an account is not made twice.                  *)
IdentityInv ==
  faults = 0 /\ ~together =>
    /\ ids \subseteq {"row"} /\ byWallet \in {"row", None}
    /\ \A c, d \in Calls : pc[c] \in Past /\ pc[d] \in Past => c = d
    /\ \A c \in Calls : pc[c] = "create" => ~account

Named(k) == namedDb[k] # "absent" \/ namedMem[k] # "absent"
RowsKey(k) ==
  k = primaryDb \/ k = secrets["row"] \/ k = byId["row"] \/ k = profile
LocalsKey(k) == k = secrets["local"] \/ k = byId["local"]
Cached(k) == k \in cache \/ k \in filling

(* A key is a named one or a primary one, and of one account. *)
KindInv(k) ==
  /\ ~(RowsKey(k) /\ LocalsKey(k))
  /\ Named(k) => ~RowsKey(k) /\ ~LocalsKey(k) /\ ~Cached(k)
  /\ namedDb[k] # "absent" /\ namedMem[k] = "absent" => k \notin quick

(* As long as nothing failed the memory knows the account's primary key,   *)
(* and a revoked key is nowhere.                                           *)
KeyInv ==
  faults = 0 =>
    /\ secrets["row"] \in {None, primaryDb}
    /\ primaryDb \in quick => secrets["row"] = primaryDb
    /\ \A k \in revoked \ held :
         ~AcceptedAtCheckout(k) /\ k # profile
    /\ \A k \in revoked : Named(k) => ~AcceptedAtCheckout(k)

IInv ==
  /\ TypeOK /\ IssueInv /\ \A n \in Nonces : NonceInv(n)
  /\ IdentityInv /\ (\A k \in Keys : KindInv(k)) /\ KeyInv
-----------------------------------------------------------------------------
(* The values that mark an absence are none of the others. *)
LEMMA Distinct ==
  /\ None \notin Keys /\ "absent" \notin Keys /\ None # "absent"
  /\ None \notin Nonces /\ None \notin Ids /\ None \notin Row
  /\ Nonces \subseteq Nat \ {0} /\ MaxNonces \in Nat \ {0}
  /\ MaxFaults \in Nat /\ MaxCrashes \in Nat
BY AccessAssumption DEF Row, Nonces

(* The types of the groups of variables. *)
NonceType ==
  /\ nonceDb \in Row \cup {None} /\ nonceMem \in Nonces \cup {None}
  /\ issued \in 0..MaxNonces
  /\ returned \subseteq 1..issued /\ expired \subseteq 1..issued
CallType ==
  /\ pc \in [Calls -> {"idle", "issue", "discard", "delete", "find", "create"}]
  /\ got \in [Calls -> Nonces \cup {None}]
  /\ found \in [Calls -> Nonces \cup {None}]
PastType == \A c \in Calls : pc[c] \in Past => got[c] \in returned
AccountType ==
  /\ account \in BOOLEAN /\ byWallet \in Ids \cup {None}
  /\ byId \in [Ids -> Keys \cup {None, "absent"}]
KeyType ==
  /\ primaryDb \in Keys \cup {None} /\ secrets \in [Ids -> Keys \cup {None}]
  /\ quick \subseteq Keys
  /\ namedDb \in [Keys -> Marks] /\ namedMem \in [Keys -> Marks]
  /\ cache \subseteq Keys /\ filling \subseteq Keys
  /\ profile \in Keys \cup {None, "absent"}
  /\ revoked \subseteq Keys /\ held \subseteq revoked
SignType ==
  /\ opened \in [Nonces -> Nat] /\ ids \subseteq Ids
  /\ shared \subseteq Nonces /\ together \in BOOLEAN
CountType == faults \in 0..MaxFaults /\ crashes \in 0..MaxCrashes

LEMMA Types ==
  TypeOK <=> /\ role \in {"merchant", "consumer"}
             /\ NonceType /\ CallType /\ PastType /\ AccountType /\ KeyType
             /\ SignType /\ CountType
BY DEF TypeOK, NonceType, CallType, PastType, AccountType, KeyType, SignType,
       CountType

LEMMA TypesNext ==
  ASSUME role' = role, TypeOK, NonceType', CallType', PastType', AccountType',
         KeyType', SignType', CountType'
  PROVE  TypeOK'
BY DEF TypeOK, NonceType, CallType, PastType, AccountType, KeyType, SignType,
       CountType

(* It holds initially. *)
LEMMA InitIInv == Init => IInv
<1> SUFFICES ASSUME Init PROVE IInv
  OBVIOUS
<1> USE Distinct DEF Init
<1>1. TypeOK
  <2>1. role \in {"merchant", "consumer"} /\ account \in BOOLEAN
    OBVIOUS
  <2>2. NonceType /\ CallType /\ PastType
    BY DEF NonceType, CallType, PastType, Past
  <2>3. AccountType /\ CountType
    BY <2>1 DEF AccountType, CountType
  <2>4. KeyType
    BY DEF KeyType, Marks
  <2>5. SignType
    BY DEF SignType
  <2>6. QED
    BY <2>1, <2>2, <2>3, <2>4, <2>5, Types
<1>2. IssueInv
  BY DEF IssueInv
<1>3. ASSUME NEW n \in Nonces PROVE NonceInv(n)
  <2>1. Opening(n) = {} /\ Deleting(n) = {} /\ ~Available(n) /\ opened[n] = 0
    BY DEF Opening, Deleting, Available
  <2>2. IsFiniteSet(Opening(n)) /\ Spent(n) = 0
    BY <2>1, FS_EmptySet DEF Spent
  <2>3. QED
    BY <2>1, <2>2 DEF NonceInv
<1>4. IdentityInv
  BY DEF IdentityInv, Past
<1>5. \A k \in Keys : KindInv(k)
  BY DEF KindInv, Named, RowsKey, LocalsKey, Cached, Ids
<1>6. KeyInv
  BY DEF KeyInv, Ids
<1>7. QED
  BY <1>1, <1>2, <1>3, <1>4, <1>5, <1>6 DEF IInv
-----------------------------------------------------------------------------
(* Database calls that fail are counted. *)
LEMMA AnswersCount ==
  ASSUME CountType, NEW ok \in BOOLEAN, Answers(ok)
  PROVE  /\ faults' \in 0..MaxFaults /\ faults' >= faults
         /\ (ok => faults' = faults) /\ (~ok => faults' = faults + 1)
BY Distinct DEF Answers, CountType

(* A step of the sign-in or nonce request c. *)
Others(c) ==
  \A d \in Calls \ {c} :
    pc'[d] = pc[d] /\ got'[d] = got[d] /\ found'[d] = found[d]

(* What a step of c does to the calls that have a nonce. *)
LEMMA OpeningMoves ==
  ASSUME NEW c \in Calls, NEW n \in Nonces, Others(c), IsFiniteSet(Opening(n))
  PROVE  /\ IsFiniteSet(Opening(n)') /\ Cardinality(Opening(n)) \in Nat
         /\ (c \in Opening(n)' <=> c \in Opening(n)) =>
              Cardinality(Opening(n)') = Cardinality(Opening(n))
         /\ c \in Opening(n)' /\ c \notin Opening(n) =>
              Cardinality(Opening(n)') = Cardinality(Opening(n)) + 1
         /\ c \notin Opening(n)' /\ c \in Opening(n) =>
              Cardinality(Opening(n)') = Cardinality(Opening(n)) - 1
<1>1. /\ c \in Opening(n)' => Opening(n)' = Opening(n) \cup {c}
      /\ c \notin Opening(n)' => Opening(n)' = Opening(n) \ {c}
  BY DEF Opening, Others
<1>2. /\ IsFiniteSet(Opening(n) \cup {c})
      /\ c \notin Opening(n) =>
           Cardinality(Opening(n) \cup {c}) = Cardinality(Opening(n)) + 1
  BY FS_AddElement
<1>3. /\ IsFiniteSet(Opening(n) \ {c})
      /\ c \in Opening(n) =>
           Cardinality(Opening(n) \ {c}) = Cardinality(Opening(n)) - 1
  BY FS_RemoveElement
<1>4. Cardinality(Opening(n)) \in Nat
  BY FS_CardinalityType
<1>5. CASE c \in Opening(n)'
  <2>1. c \in Opening(n) => Opening(n) \cup {c} = Opening(n)
    OBVIOUS
  <2>2. QED
    BY <1>1, <1>2, <1>4, <1>5, <2>1
<1>6. CASE c \notin Opening(n)'
  <2>1. c \notin Opening(n) => Opening(n) \ {c} = Opening(n)
    OBVIOUS
  <2>2. QED
    BY <1>1, <1>3, <1>4, <1>6, <2>1
<1>7. QED
  BY <1>5, <1>6

(* What is spent of a nonce is a number. *)
LEMMA SpentType ==
  ASSUME SignType, NEW n \in Nonces, IsFiniteSet(Opening(n))
  PROVE  Spent(n) \in Nat /\ opened[n] \in Nat
BY FS_CardinalityType DEF Spent, SignType

(* A step that spends nothing of a nonce, and neither hands it out nor     *)
(* lets a sign-in take it up.                                              *)
Spares(n) ==
  /\ n \notin shared' => n \notin shared
  /\ n \notin returned' => opened'[n] = 0
  /\ Deleting(n)' \subseteq Deleting(n)
  /\ \A c \in Deleting(n)' : found'[c] = found[c]
  /\ Available(n)' => Available(n)
  /\ Deleting(n)' # {} =>
       /\ n = nonceMem' => n = nonceMem
       /\ InDb(n)' => InDb(n) /\ nonceDb'.id = nonceDb.id

LEMMA SparedInv ==
  ASSUME TypeOK, NEW n \in Nonces, NonceInv(n), role' = role, Spares(n),
         faults' \in Nat, faults' >= faults,
         IsFiniteSet(Opening(n)'), Spent(n)' \in Nat, Spent(n)' <= Spent(n)
  PROVE  NonceInv(n)'
<1>1. Spent(n) \in Nat /\ faults \in Nat /\ (Merchant' <=> Merchant)
  BY SpentType, Types, Distinct DEF NonceInv, CountType, Merchant
<1>2. ASSUME n \notin shared'
      PROVE  /\ \A c, d \in Deleting(n)' : c = d
             /\ Spent(n)' <= 1 + faults'
             /\ Available(n)' \/ Deleting(n)' # {} => Spent(n)' <= faults'
  BY <1>1, <1>2 DEF NonceInv, Spares
<1>3. ASSUME n \notin shared', NEW c \in Deleting(n)'
      PROVE  /\ ~Merchant' => n # nonceMem'
             /\ Merchant' /\ InDb(n)' /\ nonceDb'.id # found'[c]
                  => Spent(n)' + 1 <= faults'
  <2>1. n \notin shared /\ c \in Deleting(n) /\ found'[c] = found[c]
    BY <1>3 DEF Spares
  <2>2. Merchant /\ InDb(n) /\ nonceDb.id # found[c] => Spent(n) + 1 <= faults
    BY <2>1 DEF NonceInv
  <2>3. ~Merchant => n # nonceMem
    BY <2>1 DEF NonceInv
  <2>4. /\ n = nonceMem' => n = nonceMem
        /\ InDb(n)' => InDb(n) /\ nonceDb'.id = nonceDb.id
    BY <1>3 DEF Spares
  <2>5. QED
    BY <1>1, <2>1, <2>2, <2>3, <2>4
<1>4. QED
  BY <1>2, <1>3 DEF NonceInv, Spares

(* The nonces a step of c does not concern keep what is spent of them. *)
LEMMA ApartInv ==
  ASSUME TypeOK, NEW n \in Nonces, NonceInv(n), NEW c \in Calls, Others(c),
         role' = role, faults' \in Nat, faults' >= faults, Spares(n),
         opened'[n] = opened[n], c \in Opening(n)' <=> c \in Opening(n)
  PROVE  NonceInv(n)'
<1>1. IsFiniteSet(Opening(n))
  BY DEF NonceInv
<1>2. IsFiniteSet(Opening(n)') /\ Cardinality(Opening(n)') = Cardinality(Opening(n))
  BY <1>1, OpeningMoves
<1>3. Spent(n) \in Nat /\ Spent(n)' = Spent(n)
  BY <1>1, <1>2, SpentType, Types DEF Spent
<1>4. QED
  BY <1>2, <1>3, SparedInv

(* Of a step that leaves the calls and the nonces alone. *)
LEMMA AsideInv ==
  ASSUME TypeOK, NEW n \in Nonces, NonceInv(n), role' = role,
         faults' \in Nat, faults' >= faults,
         UNCHANGED <<nonceDb, nonceMem, returned, callVars, signVars>>
  PROVE  NonceInv(n)'
<1>1. /\ Opening(n)' = Opening(n) /\ Deleting(n)' = Deleting(n)
      /\ Available(n)' = Available(n) /\ InDb(n)' = InDb(n)
      /\ Spent(n)' = Spent(n)
  BY DEF Opening, Deleting, Available, InDb, Spent, callVars, signVars
<1>2. IsFiniteSet(Opening(n)) /\ Spent(n) \in Nat
  BY SpentType, Types DEF NonceInv
<1>3. Spares(n)
  BY <1>1 DEF Spares, NonceInv, callVars, signVars
<1>4. QED
  BY <1>1, <1>2, <1>3, SparedInv
-----------------------------------------------------------------------------
(* What a request for a nonce or a sign-in does to the calls. *)
LEMMA CallMoves ==
  ASSUME CallType, NEW c \in Calls, NEW from,
         NEW to \in {"idle", "issue", "discard", "delete", "find", "create"},
         Goes(c, from, to), NEW n \in Nonces \cup {None},
         NEW i \in Nonces \cup {None},
         got' = got \/ got' = [got EXCEPT ![c] = n],
         found' = found \/ found' = [found EXCEPT ![c] = i]
  PROVE  /\ CallType' /\ Others(c) /\ pc[c] = from /\ pc'[c] = to
         /\ got'[c] \in {got[c], n}
         /\ got' # got => got'[c] = n
         /\ found' # found => found'[c] = i
BY DEF CallType, Goes, Others

(* The account and the sessions are another matter than the nonces. *)
LEMMA NonceStartInv ==
  ASSUME IInv, NEW c \in Calls, NEW ok \in BOOLEAN, NonceStart(c, ok)
  PROVE  TypeOK' /\ IssueInv' /\ (\A n \in Nonces : NonceInv(n)') /\ IdentityInv'
<1> DEFINE m == issued + 1
<1>1. /\ TypeOK /\ IssueInv /\ NonceType /\ CallType /\ PastType /\ CountType
      /\ \A n \in Nonces : NonceInv(n)
      /\ IdentityInv
  BY Types DEF IInv
<1>2. /\ m \in Nonces /\ issued \in Nat /\ issued < MaxNonces
      /\ \A n \in returned : n \in Nat /\ n # m
      /\ issued' = m /\ UNCHANGED <<role, returned, expired, accountVars, keyVars,
                                    signVars, crashes>>
  BY <1>1, Distinct DEF NonceStart, NonceType, Nonces
<1>3. /\ CallType' /\ Others(c) /\ pc[c] = "idle" /\ pc'[c] = "issue"
      /\ got'[c] = m
  <2>1. Goes(c, "idle", "issue") /\ found' = found /\ got' = [got EXCEPT ![c] = m]
    BY DEF NonceStart
  <2>2. got'[c] = m
    BY <1>1, <2>1 DEF CallType
  <2>3. QED
    BY <1>1, <1>2, <2>1, <2>2, CallMoves
<1>4. faults' \in 0..MaxFaults /\ faults' >= faults /\ faults' \in Nat
  BY <1>1, AnswersCount, Distinct DEF NonceStart, CountType
<1>5. /\ nonceDb' = nonceDb \/ (nonceDb' \in Row /\ nonceDb'.nonce = m)
      /\ nonceMem' \in {nonceMem, m}
  <2>1. nonceDb # None => nonceDb.id \in Nonces
    BY <1>1 DEF NonceType, Row
  <2>2. QED
    BY <1>2, <2>1 DEF NonceStart, Upserted, Row
<1>6. TypeOK'
  <2>1. NonceType'
    <3>1. 1..issued \subseteq 1..issued' /\ issued' \in 0..MaxNonces
      BY <1>2, Distinct
    <3>2. returned' \subseteq 1..issued' /\ expired' \subseteq 1..issued'
      BY <1>1, <1>2, <3>1 DEF NonceType
    <3>3. nonceDb' \in Row \cup {None} /\ nonceMem' \in Nonces \cup {None}
      BY <1>1, <1>2, <1>5 DEF NonceType
    <3>4. QED
      BY <3>1, <3>2, <3>3 DEF NonceType
  <2>2. PastType'
    BY <1>1, <1>2, <1>3 DEF PastType, Past, Others
  <2>3. CountType'
    BY <1>1, <1>2, <1>4 DEF CountType
  <2>4. AccountType' /\ KeyType' /\ SignType'
    BY <1>1, <1>2, Types
       DEF AccountType, KeyType, SignType, accountVars, keyVars, signVars
  <2>5. QED
    BY <1>1, <1>2, <1>3, <2>1, <2>2, <2>3, <2>4, TypesNext
<1>7. IssueInv'
  <2>1. \A d \in Calls \ {c} :
          pc'[d] = "issue" => pc[d] = "issue" /\ got'[d] = got[d] /\ got[d] # m
    BY <1>1, <1>2, <1>3 DEF Others, IssueInv
  <2>2. m \in (1..issued') \ returned' /\ 1..issued \subseteq 1..issued'
    BY <1>2
  <2>3. QED
    BY <1>1, <1>2, <1>3, <2>1, <2>2 DEF IssueInv, Others
<1>8. ASSUME NEW n \in Nonces PROVE NonceInv(n)'
  <2>1. NonceInv(n)
    BY <1>1
  <2>2. opened' = opened /\ shared' = shared /\ returned' = returned
    BY <1>2 DEF signVars
  <2>3. Deleting(n)' = Deleting(n) /\ (c \in Opening(n)' <=> c \in Opening(n))
    BY <1>3 DEF Deleting, Opening, Others
  <2>4. \A d \in Deleting(n) : found'[d] = found[d] /\ n \in returned
    BY <1>1, <1>3 DEF Deleting, Others, PastType, Past
  <2>5. n \in returned =>
          /\ n = nonceMem' => n = nonceMem
          /\ InDb(n)' => InDb(n) /\ nonceDb' = nonceDb
    BY <1>2, <1>5 DEF InDb
  <2>6. Spares(n)
    BY <2>1, <2>2, <2>3, <2>4, <2>5 DEF Spares, Available, NonceInv
  <2>7. QED
    BY <1>1, <1>2, <1>3, <1>4, <2>1, <2>2, <2>3, <2>6, ApartInv
<1>9. IdentityInv'
  BY <1>1, <1>2, <1>3, <1>4
     DEF IdentityInv, CountType, Past, Others, accountVars, signVars
<1>10. QED
  BY <1>6, <1>7, <1>8, <1>9

LEMMA NonceFinishInv ==
  ASSUME IInv, NEW c \in Calls, NEW ok \in BOOLEAN, NonceFinish(c, ok)
  PROVE  TypeOK' /\ IssueInv' /\ (\A n \in Nonces : NonceInv(n)') /\ IdentityInv'
<1> DEFINE m == got[c]
<1>1. /\ TypeOK /\ IssueInv /\ NonceType /\ CallType /\ PastType /\ CountType
      /\ \A n \in Nonces : NonceInv(n)
      /\ IdentityInv
  BY Types DEF IInv
<1>2. /\ returned' = returned \cup {m}
      /\ UNCHANGED <<role, issued, expired, got, found, accountVars, keyVars,
                    signVars, crashes>>
  BY DEF NonceFinish
<1>3. CallType' /\ Others(c) /\ pc[c] = "issue" /\ pc'[c] = "idle" /\ got'[c] = m
  BY <1>1, <1>2 DEF NonceFinish, Goes, CallType, Others
<1>4. /\ m \in Nonces /\ m \in 1..issued /\ m \notin returned
      /\ returned \subseteq 1..issued
  BY <1>1, <1>3, Distinct DEF IssueInv, NonceType, Nonces
<1>5. faults' \in 0..MaxFaults /\ faults' >= faults /\ faults' \in Nat
  BY <1>1, AnswersCount, Distinct DEF NonceFinish, CountType
<1>6. /\ nonceDb' = nonceDb \/ (nonceDb' \in Row /\ nonceDb'.nonce = m)
      /\ nonceMem' \in {nonceMem, m}
  <2>1. nonceDb # None => nonceDb.id \in Nonces
    BY <1>1 DEF NonceType, Row
  <2>2. QED
    BY <1>4, <2>1 DEF NonceFinish, Upserted, Row
<1>7. TypeOK'
  <2>1. NonceType'
    BY <1>1, <1>2, <1>4, <1>6 DEF NonceType
  <2>2. PastType'
    BY <1>1, <1>2, <1>3 DEF PastType, Past, Others
  <2>3. CountType'
    BY <1>1, <1>2, <1>5 DEF CountType
  <2>4. AccountType' /\ KeyType' /\ SignType'
    BY <1>1, <1>2, Types
       DEF AccountType, KeyType, SignType, accountVars, keyVars, signVars
  <2>5. QED
    BY <1>1, <1>2, <1>3, <2>1, <2>2, <2>3, <2>4, TypesNext
<1>8. IssueInv'
  <2>1. \A d \in Calls : pc'[d] = "issue" =>
          d # c /\ pc[d] = "issue" /\ got'[d] = got[d] /\ got[d] # m
    BY <1>1, <1>3 DEF Others, IssueInv
  <2>2. QED
    BY <1>1, <1>2, <2>1 DEF IssueInv
<1>9. ASSUME NEW n \in Nonces PROVE NonceInv(n)'
  <2>1. NonceInv(n)
    BY <1>1
  <2>2. opened' = opened /\ shared' = shared
    BY <1>2 DEF signVars
  <2>3. /\ Deleting(n)' = Deleting(n)
        /\ Opening(n)' = Opening(n)
        /\ \A d \in Deleting(n) : found'[d] = found[d] /\ n \in returned
        /\ \A d \in Opening(n) : n \in returned
    BY <1>1, <1>2, <1>3 DEF Deleting, Opening, Others, PastType, Past
  <2>4. CASE n = m
    <3>1. opened[n] = 0 /\ Opening(n) = {} /\ Deleting(n) = {}
      BY <1>4, <2>1, <2>3, <2>4 DEF NonceInv
    <3>2. Spent(n)' = 0 /\ IsFiniteSet(Opening(n)')
      BY <2>2, <2>3, <3>1, FS_EmptySet DEF Spent
    <3>3. Deleting(n)' = {} /\ n \in returned' /\ 0 <= faults'
      BY <1>2, <1>5, <2>3, <2>4, <3>1
    <3>4. Spent(n)' <= 1 + faults' /\ Spent(n)' <= faults'
      <4>1. \A x \in Nat : 0 <= 1 + x /\ 0 <= x
        OBVIOUS
      <4>2. QED
        BY <1>5, <3>2, <4>1
    <3>5. QED
      BY <3>2, <3>3, <3>4 DEF NonceInv
  <2>5. CASE n # m
    <3>1. /\ n = nonceMem' => n = nonceMem
          /\ InDb(n)' => InDb(n) /\ nonceDb' = nonceDb
          /\ n \in returned' <=> n \in returned
      BY <1>2, <1>6, <2>5 DEF InDb
    <3>2. Spares(n)
      BY <2>1, <2>2, <2>3, <3>1 DEF Spares, Available, NonceInv
    <3>3. QED
      BY <1>1, <1>2, <1>3, <1>5, <2>1, <2>2, <2>3, <3>2, ApartInv
  <2>6. QED
    BY <2>4, <2>5
<1>10. IdentityInv'
  BY <1>1, <1>2, <1>3, <1>5
     DEF IdentityInv, CountType, Past, Others, accountVars, signVars
<1>11. QED
  BY <1>7, <1>8, <1>9, <1>10

(* A sign-in reads a nonce: if it is the one that was signed and not too   *)
(* old, it was to be found, and no other sign-in is about to delete it.    *)
Reads(c, n, signed) ==
  /\ Judge(c, n, signed) /\ Noticed(c, n) /\ signed \in returned
  /\ n = nonceMem \/ InDb(n)
  /\ nonceMem' \in {nonceMem, n, None}
  /\ ~Merchant => (n = signed => nonceMem' = None)
  /\ Merchant => \/ ~InDb(n) \/ found'[c] = nonceDb.id
                 \/ faults' = faults + 1

LEMMA VerifyReads ==
  ASSUME TypeOK, NEW c \in Calls, NEW signed \in Nonces, NEW ok \in BOOLEAN,
         VerifyMerchant(c, signed, ok) \/ VerifyConsumer(c, signed, ok)
  PROVE  /\ \E n \in Nonces : Reads(c, n, signed)
         /\ \E i \in Nonces \cup {None} :
              found' = found \/ found' = [found EXCEPT ![c] = i]
         /\ faults' \in 0..MaxFaults /\ faults' >= faults
         /\ nonceMem' \in Nonces \cup {None}
         /\ UNCHANGED <<role, nonceDb, issued, returned, expired, accountVars,
                       keyVars, opened, ids, crashes>>
<1>1. /\ CountType /\ (nonceDb # None => nonceDb.nonce \in Nonces /\ nonceDb.id \in Nonces)
      /\ nonceMem \in Nonces \cup {None} /\ found \in [Calls -> Nonces \cup {None}]
  BY Types DEF NonceType, Row, CallType
<1>2. CASE VerifyMerchant(c, signed, ok)
  <2> DEFINE row == ok /\ nonceDb # None
             n == IF row THEN nonceDb.nonce ELSE nonceMem
  <2>1. /\ Merchant /\ signed \in returned /\ Answers(ok) /\ n # None
        /\ Judge(c, n, signed) /\ Noticed(c, n)
        /\ found' = [found EXCEPT ![c] = IF row THEN nonceDb.id ELSE None]
        /\ UNCHANGED <<role, nonceVars, accountVars, keyVars, opened, ids, crashes>>
    BY <1>2 DEF VerifyMerchant
  <2>2. n \in Nonces /\ (n = nonceMem \/ InDb(n))
    BY <1>1, <2>1 DEF InDb
  <2>3. faults' \in 0..MaxFaults /\ faults' >= faults /\ (~ok => faults' = faults + 1)
    BY <1>1, <2>1, AnswersCount
  <2>4. found'[c] = IF row THEN nonceDb.id ELSE None
    BY <1>1, <2>1
  <2>5. ~InDb(n) \/ found'[c] = nonceDb.id \/ faults' = faults + 1
    BY <2>3, <2>4 DEF InDb
  <2>6. Reads(c, n, signed)
    BY <2>1, <2>2, <2>5 DEF Reads, nonceVars
  <2>7. (IF row THEN nonceDb.id ELSE None) \in Nonces \cup {None}
    BY <1>1
  <2>8. QED
    BY <1>1, <2>1, <2>2, <2>3, <2>6, <2>7 DEF nonceVars
<1>3. CASE VerifyConsumer(c, signed, ok)
  <2> DEFINE cached == nonceMem # None
             n == IF cached THEN nonceMem ELSE nonceDb.nonce
  <2>1. /\ ~Merchant /\ signed \in returned
        /\ IF cached THEN ok /\ UNCHANGED faults
                     ELSE ok /\ Answers(ok) /\ nonceDb # None
        /\ Judge(c, n, signed) /\ Noticed(c, n)
        /\ nonceMem' = IF n \in expired \/ n = signed THEN None ELSE n
        /\ UNCHANGED <<role, nonceDb, issued, returned, expired, found,
                      accountVars, keyVars, opened, ids, crashes>>
    BY <1>3 DEF VerifyConsumer
  <2>2. n \in Nonces /\ (n = nonceMem \/ InDb(n))
    BY <1>1, <2>1 DEF InDb
  <2>3. faults' \in 0..MaxFaults /\ faults' >= faults
    BY <1>1, <2>1, AnswersCount, Distinct DEF CountType
  <2>4. Reads(c, n, signed)
    BY <2>1, <2>2 DEF Reads
  <2>5. QED
    BY <1>1, <2>1, <2>2, <2>3, <2>4
<1>4. QED
  BY <1>2, <1>3

LEMMA VerifyInv ==
  ASSUME IInv, NEW c \in Calls, NEW signed \in Nonces, NEW ok \in BOOLEAN,
         VerifyMerchant(c, signed, ok) \/ VerifyConsumer(c, signed, ok)
  PROVE  TypeOK' /\ IssueInv' /\ (\A n \in Nonces : NonceInv(n)') /\ IdentityInv'
<1>1. /\ TypeOK /\ IssueInv /\ NonceType /\ CallType /\ PastType /\ CountType
      /\ SignType /\ \A n \in Nonces : NonceInv(n)
      /\ IdentityInv
  BY Types DEF IInv
<1>2. PICK m \in Nonces : Reads(c, m, signed)
  BY <1>1, VerifyReads
<1>3. /\ \E i \in Nonces \cup {None} :
           found' = found \/ found' = [found EXCEPT ![c] = i]
      /\ faults' \in 0..MaxFaults /\ faults' >= faults
      /\ nonceMem' \in Nonces \cup {None}
      /\ UNCHANGED <<role, nonceDb, issued, returned, expired, accountVars,
                    keyVars, opened, ids, crashes>>
  BY <1>1, VerifyReads
<1>4. faults \in Nat /\ faults' \in Nat
  BY <1>1, <1>3, Distinct DEF CountType
<1>5. /\ CallType' /\ Others(c) /\ pc[c] = "idle" /\ got'[c] = m
      /\ pc'[c] \in {"discard", "delete", "idle"}
      /\ pc'[c] = "delete" => m = signed
  <2>1. got' = [got EXCEPT ![c] = m] /\ got'[c] = m
    BY <1>1, <1>2 DEF Reads, Judge, CallType
  <2>2. PICK i \in Nonces \cup {None} :
          found' = found \/ found' = [found EXCEPT ![c] = i]
    BY <1>3
  <2>3. PICK to \in {"discard", "delete", "idle"} :
          Goes(c, "idle", to) /\ (to = "delete" => m = signed)
    BY <1>2 DEF Reads, Judge
  <2>4. CallType' /\ Others(c) /\ pc[c] = "idle" /\ pc'[c] = to
    BY <1>1, <2>1, <2>2, <2>3 DEF CallType, Goes, Others
  <2>5. QED
    BY <2>1, <2>3, <2>4
<1>6. /\ shared' = IF \E d \in Calls \ {c} : pc[d] = "delete" /\ got[d] = m
                  THEN shared \cup {m} ELSE shared
      /\ together' = (together \/ \E d \in Calls \ {c} : pc[d] \in Past)
  BY <1>2 DEF Reads, Noticed
<1>7. TypeOK'
  <2>1. NonceType'
    BY <1>1, <1>3 DEF NonceType
  <2>2. PastType'
    BY <1>1, <1>2, <1>3, <1>5 DEF PastType, Past, Others, Reads
  <2>3. CountType'
    BY <1>1, <1>3 DEF CountType
  <2>4. SignType'
    <3>1. shared' \subseteq Nonces
      BY <1>1, <1>6 DEF SignType
    <3>2. together' \in BOOLEAN
      BY <1>1, <1>6 DEF SignType
    <3>3. QED
      BY <1>1, <1>3, <3>1, <3>2 DEF SignType
  <2>5. AccountType' /\ KeyType'
    BY <1>1, <1>3, Types DEF AccountType, KeyType, accountVars, keyVars
  <2>6. QED
    BY <1>1, <1>3, <1>5, <2>1, <2>2, <2>3, <2>4, <2>5, TypesNext
<1>8. IssueInv'
  <2>1. \A d \in Calls : pc'[d] = "issue" =>
          d # c /\ pc[d] = "issue" /\ got'[d] = got[d]
    BY <1>5 DEF Others
  <2>2. QED
    BY <1>1, <1>3, <2>1 DEF IssueInv
<1>9. ASSUME NEW n \in Nonces PROVE NonceInv(n)'
  <2>1. NonceInv(n) /\ opened' = opened /\ returned' = returned /\ role' = role
    BY <1>1, <1>3
  <2>2. /\ c \notin Opening(n) /\ c \notin Opening(n)' /\ c \notin Deleting(n)
        /\ n \notin shared' => n \notin shared
        /\ InDb(n)' <=> InDb(n)
    BY <1>3, <1>5, <1>6 DEF Opening, Deleting, InDb
  <2>3. CASE n # m
    <3>1. /\ Deleting(n)' = Deleting(n)
          /\ \A d \in Deleting(n) : found'[d] = found[d]
      BY <1>5, <2>3 DEF Deleting, Others
    <3>2. n = nonceMem' => n = nonceMem
      BY <1>2, <2>3, Distinct DEF Reads
    <3>3. Spares(n)
      BY <1>3, <2>1, <2>2, <3>1, <3>2 DEF Spares, Available, NonceInv
    <3>4. QED
      BY <1>1, <1>3, <1>4, <1>5, <2>1, <2>2, <3>3, ApartInv
  <2>4. CASE n = m /\ n \in shared'
    <3>1. IsFiniteSet(Opening(n)')
      BY <1>5, <2>1, OpeningMoves DEF NonceInv
    <3>2. QED
      BY <2>1, <2>4, <3>1 DEF NonceInv
  <2>5. CASE n = m /\ n \notin shared'
    <3>1. Deleting(n) = {}
      BY <1>5, <1>6, <2>5 DEF Deleting
    <3>2. CASE pc'[c] # "delete"
      <4>1. Deleting(n)' = {}
        BY <1>5, <3>1, <3>2 DEF Deleting, Others
      <4>2. Available(n)' => Available(n)
        BY <1>2, <2>1, <2>2, <2>5, Distinct DEF Available, Reads
      <4>3. Spares(n)
        BY <2>1, <2>2, <4>1, <4>2 DEF Spares, NonceInv
      <4>4. QED
        BY <1>1, <1>4, <1>3, <1>5, <2>1, <2>2, <4>3, ApartInv
    <3>3. CASE pc'[c] = "delete"
      <4>1. n = signed /\ Available(n)
        BY <1>2, <1>5, <2>5, <3>3 DEF Reads, Available
      <4>2. Spent(n) <= faults /\ Spent(n) \in Nat
        BY <1>1, <2>1, <2>2, <2>5, <4>1, SpentType DEF NonceInv
      <4>3. Deleting(n)' = {c}
        BY <1>5, <2>5, <3>1, <3>3 DEF Deleting, Others
      <4>4. IsFiniteSet(Opening(n)') /\ Spent(n)' = Spent(n)
        BY <1>5, <2>1, <2>2, OpeningMoves DEF NonceInv, Spent
      <4>5. Spent(n)' <= faults' /\ Spent(n)' <= 1 + faults'
        <5>1. \A x, y, z \in Nat : x <= y /\ z >= y => x <= z /\ x <= 1 + z
          OBVIOUS
        <5>2. QED
          BY <1>3, <1>4, <4>2, <4>4, <5>1
      <4>6. ~Merchant' => n # nonceMem'
        BY <1>2, <2>1, <4>1, <2>5, Distinct DEF Reads, Merchant
      <4>7. Merchant' /\ InDb(n)' /\ nonceDb'.id # found'[c]
              => Spent(n)' + 1 <= faults'
        <5>1. SUFFICES ASSUME Merchant', InDb(n)', nonceDb'.id # found'[c]
                       PROVE  Spent(n)' + 1 <= faults'
          OBVIOUS
        <5>2. faults' = faults + 1
          BY <1>2, <1>3, <2>1, <2>2, <2>5, <5>1 DEF Reads, Merchant
        <5>3. QED
          BY <1>4, <4>2, <4>4, <5>2
      <4>8. QED
        BY <2>1, <4>1, <4>3, <4>4, <4>5, <4>6, <4>7 DEF NonceInv, Available
    <3>4. QED
      BY <3>2, <3>3
  <2>6. QED
    BY <2>3, <2>4, <2>5
<1>10. IdentityInv'
  <2> SUFFICES ASSUME faults' = 0, ~together' PROVE IdentityInv'
    BY DEF IdentityInv
  <2>1. faults = 0 /\ ~together
    <3>1. \A x, y \in Nat : x >= y /\ x = 0 => y = 0
      OBVIOUS
    <3>2. faults = 0
      BY <1>3, <1>4, <3>1
    <3>3. QED
      BY <1>6, <3>2
  <2>2. \A d \in Calls \ {c} : pc'[d] \notin Past
    BY <1>5, <1>6 DEF Others
  <2>3. \A d \in Calls : pc'[d] # "create"
    BY <1>5, <2>2 DEF Past
  <2>4. QED
    BY <1>1, <1>3, <2>1, <2>2, <2>3 DEF IdentityInv, accountVars
<1>11. QED
  BY <1>7, <1>8, <1>9, <1>10

LEMMA DropNonceInv ==
  ASSUME IInv, NEW c \in Calls, NEW ok \in BOOLEAN, DropNonce(c, ok)
  PROVE  TypeOK' /\ IssueInv' /\ (\A n \in Nonces : NonceInv(n)') /\ IdentityInv'
<1> DEFINE gone == nonceDb # None /\ (Merchant => nonceDb.id = found[c])
<1>1. /\ TypeOK /\ IssueInv /\ NonceType /\ CallType /\ PastType /\ CountType
      /\ SignType /\ \A n \in Nonces : NonceInv(n)
      /\ IdentityInv
  BY Types DEF IInv
<1>2. /\ nonceDb' = IF ok /\ gone THEN None ELSE nonceDb
      /\ nonceMem' = IF Merchant THEN None ELSE nonceMem
      /\ UNCHANGED <<role, issued, returned, expired, got, found, accountVars,
                    keyVars, signVars, crashes>>
  BY DEF DropNonce
<1>3. /\ CallType' /\ Others(c) /\ got'[c] = got[c]
      /\ \/ pc[c] = "delete" /\ pc'[c] = "find"
         \/ pc[c] = "discard" /\ pc'[c] = "idle"
  BY <1>1, <1>2 DEF DropNonce, Goes, CallType, Others
<1>4. /\ faults' \in 0..MaxFaults /\ faults' >= faults
      /\ faults \in Nat /\ faults' \in Nat
      /\ ~ok => faults' = faults + 1
  BY <1>1, AnswersCount, Distinct DEF DropNonce, CountType
<1>5. TypeOK'
  <2>1. NonceType'
    BY <1>1, <1>2 DEF NonceType
  <2>2. PastType'
    BY <1>1, <1>2, <1>3 DEF PastType, Past, Others
  <2>3. CountType'
    BY <1>1, <1>2, <1>4 DEF CountType
  <2>4. AccountType' /\ KeyType' /\ SignType'
    BY <1>1, <1>2, Types
       DEF AccountType, KeyType, SignType, accountVars, keyVars, signVars
  <2>5. QED
    BY <1>1, <1>2, <1>3, <2>1, <2>2, <2>3, <2>4, TypesNext
<1>6. IssueInv'
  <2>1. \A d \in Calls : pc'[d] = "issue" => pc[d] = "issue"
    BY <1>3 DEF Others
  <2>2. QED
    BY <1>1, <1>2, <2>1 DEF IssueInv
<1>7. ASSUME NEW n \in Nonces PROVE NonceInv(n)'
  <2>1. /\ NonceInv(n) /\ opened' = opened /\ shared' = shared
        /\ returned' = returned /\ role' = role /\ found' = found
    BY <1>1, <1>2 DEF signVars
  <2>2. /\ n = nonceMem' => n = nonceMem
        /\ InDb(n)' => InDb(n) /\ nonceDb' = nonceDb /\ ~(ok /\ gone)
    BY <1>2, Distinct DEF InDb
  <2>3. CASE c \notin Deleting(n)
    <3>1. Deleting(n)' = Deleting(n) /\ (c \in Opening(n)' <=> c \in Opening(n))
      BY <1>2, <1>3, <2>3 DEF Deleting, Opening, Others
    <3>2. Spares(n)
      BY <2>1, <2>2, <3>1 DEF Spares, Available, NonceInv
    <3>3. QED
      BY <1>1, <1>3, <1>4, <2>1, <3>1, <3>2, ApartInv
  <2>4. CASE c \in Deleting(n)
    <3>1. /\ c \in Opening(n)' /\ c \notin Opening(n) /\ c \notin Deleting(n)'
          /\ Deleting(n)' \subseteq Deleting(n) /\ n \in returned
      BY <1>1, <1>2, <1>3, <2>4
         DEF Deleting, Opening, Others, PastType, Past
    <3>2. /\ IsFiniteSet(Opening(n)') /\ Spent(n) \in Nat /\ Spent(n)' = Spent(n) + 1
      <4>1. /\ IsFiniteSet(Opening(n)') /\ Cardinality(Opening(n)) \in Nat
            /\ Cardinality(Opening(n)') = Cardinality(Opening(n)) + 1
        BY <1>3, <2>1, <3>1, OpeningMoves DEF NonceInv
      <4>2. Spent(n) \in Nat /\ opened[n] \in Nat
        BY <1>1, <2>1, SpentType DEF NonceInv
      <4>3. QED
        BY <2>1, <4>1, <4>2 DEF Spent
    <3>3. CASE n \in shared
      BY <2>1, <3>1, <3>2, <3>3 DEF NonceInv
    <3>4. CASE n \notin shared
      <4>1. Deleting(n)' = {}
        BY <2>1, <2>4, <3>1, <3>4 DEF NonceInv
      <4>2. Spent(n) <= faults
        BY <2>1, <2>4, <3>4 DEF NonceInv
      <4>3. Spent(n)' <= 1 + faults'
        <5>1. \A x, y, z \in Nat : x <= y /\ z >= y => x + 1 <= 1 + z
          OBVIOUS
        <5>2. QED
          BY <1>4, <3>2, <4>2, <5>1
      <4>4. ASSUME Available(n)' PROVE Spent(n)' <= faults'
        <5>1. CASE ~ok
          <6>1. \A x, y \in Nat : x <= y => x + 1 <= y + 1
            OBVIOUS
          <6>2. QED
            BY <1>4, <3>2, <4>2, <5>1, <6>1
        <5>2. CASE ok
          <6>1. InDb(n) /\ ~gone
            BY <1>2, <2>1, <2>2, <2>4, <3>4, <4>4, <5>2, Distinct
               DEF Available, NonceInv
          <6>2. Merchant /\ nonceDb.id # found[c]
            BY <6>1 DEF InDb
          <6>3. Spent(n) + 1 <= faults
            BY <2>1, <2>4, <3>4, <6>1, <6>2 DEF NonceInv
          <6>4. \A x, y, z \in Nat : x + 1 <= y /\ z >= y => x + 1 <= z
            OBVIOUS
          <6>5. QED
            BY <1>4, <3>2, <6>3, <6>4
        <5>3. QED
          BY <5>1, <5>2
      <4>5. QED
        BY <2>1, <3>1, <3>2, <4>1, <4>3, <4>4 DEF NonceInv
    <3>5. QED
      BY <3>3, <3>4
  <2>5. QED
    BY <2>3, <2>4
<1>8. IdentityInv'
  <2> SUFFICES ASSUME faults' = 0, ~together' PROVE IdentityInv'
    BY DEF IdentityInv
  <2>1. faults = 0 /\ ~together
    <3>1. \A x, y \in Nat : x >= y /\ x = 0 => y = 0
      OBVIOUS
    <3>2. QED
      BY <1>2, <1>4, <3>1 DEF signVars
  <2>2. \A d \in Calls :
          /\ pc'[d] \in Past => pc[d] \in Past
          /\ pc'[d] = "create" => pc[d] = "create"
    BY <1>3 DEF Others, Past
  <2>3. /\ ids \subseteq {"row"} /\ byWallet \in {"row", None}
        /\ \A d, e \in Calls : pc[d] \in Past /\ pc[e] \in Past => d = e
        /\ \A d \in Calls : pc[d] = "create" => ~account
    BY <1>1, <2>1 DEF IdentityInv
  <2>4. ids' = ids /\ byWallet' = byWallet /\ account' = account
    BY <1>2 DEF accountVars, signVars
  <2>5. QED
    BY <2>2, <2>3, <2>4 DEF IdentityInv
<1>9. QED
  BY <1>5, <1>6, <1>7, <1>8

(* A sign-in whose nonce is gone opens at most one session with it. *)
OpensOnce(c) ==
  /\ pc[c] \in {"find", "create"}
  /\ \E to \in {"idle", "create"} :
       /\ Goes(c, pc[c], to)
       /\ \/ opened' = opened
          \/ to = "idle" /\ opened' = [opened EXCEPT ![got[c]] = @ + 1]
  /\ UNCHANGED <<role, nonceVars, got, found, shared, together>>

LEMMA OpensInv ==
  ASSUME IInv, NEW c \in Calls, OpensOnce(c), faults' \in Nat, faults' >= faults
  PROVE  /\ CallType' /\ PastType' /\ Others(c) /\ opened' \in [Nonces -> Nat]
         /\ pc[c] \in Past /\ pc'[c] \in {"idle", "create"}
         /\ IssueInv' /\ \A n \in Nonces : NonceInv(n)'
<1>1. /\ TypeOK /\ IssueInv /\ CallType /\ PastType /\ CountType /\ SignType
      /\ opened \in [Nonces -> Nat]
      /\ \A n \in Nonces : NonceInv(n)
  BY Types DEF IInv, SignType
<1>2. PICK to \in {"idle", "create"} :
        /\ Goes(c, pc[c], to)
        /\ \/ opened' = opened
           \/ to = "idle" /\ opened' = [opened EXCEPT ![got[c]] = @ + 1]
  BY DEF OpensOnce
<1>3. /\ pc[c] \in {"find", "create"} /\ pc[c] \in Past
      /\ UNCHANGED <<role, nonceDb, nonceMem, issued, returned, expired, got, found,
                    shared, together>>
  BY DEF OpensOnce, Past, nonceVars
<1>4. CallType' /\ Others(c) /\ pc'[c] = to
  BY <1>1, <1>2, <1>3 DEF Goes, CallType, Others
<1>5. got[c] \in returned /\ got[c] \in Nonces
  BY <1>1, <1>3, Distinct, Types DEF PastType, NonceType, Nonces
<1>6. /\ opened' \in [Nonces -> Nat]
      /\ \A n \in Nonces \ {got[c]} : opened'[n] = opened[n]
      /\ opened'[got[c]] = opened[got[c]] \/ (to = "idle" /\ opened'[got[c]] = opened[got[c]] + 1)
  BY <1>1, <1>2, <1>5
<1>7. PastType'
  BY <1>1, <1>3, <1>4 DEF PastType, Others
<1>8. IssueInv'
  <2>1. \A d \in Calls : pc'[d] = "issue" => pc[d] = "issue"
    BY <1>4 DEF Others
  <2>2. QED
    BY <1>1, <1>3, <2>1 DEF IssueInv
<1>9. ASSUME NEW n \in Nonces PROVE NonceInv(n)'
  <2>1. NonceInv(n) /\ IsFiniteSet(Opening(n))
    BY <1>1 DEF NonceInv
  <2>2. Deleting(n)' = Deleting(n)
    BY <1>3, <1>4 DEF Deleting, Others
  <2>3. n \notin returned => opened'[n] = 0
    BY <1>5, <1>6, <2>1 DEF NonceInv
  <2>4. Spares(n)
    BY <1>3, <2>2, <2>3 DEF Spares, Available, InDb
  <2>5. CASE c \in Opening(n)' <=> c \in Opening(n)
    <3>1. opened'[n] = opened[n]
      BY <1>3, <1>4, <1>6, <2>5 DEF Opening
    <3>2. QED
      BY <1>1, <1>3, <1>4, <2>1, <2>4, <2>5, <3>1, ApartInv
  <2>6. CASE ~(c \in Opening(n)' <=> c \in Opening(n))
    <3>1. c \in Opening(n) /\ c \notin Opening(n)' /\ n = got[c]
      BY <1>3, <1>4, <2>6 DEF Opening
    <3>2. /\ IsFiniteSet(Opening(n)') /\ Cardinality(Opening(n)) \in Nat
          /\ Cardinality(Opening(n)') = Cardinality(Opening(n)) - 1
          /\ Cardinality(Opening(n)') \in Nat
      BY <1>4, <2>1, <3>1, OpeningMoves, FS_CardinalityType
    <3>3. opened[n] \in Nat /\ opened'[n] \in {opened[n], opened[n] + 1}
      BY <1>1, <1>6, <3>1
    <3>4. Spent(n)' \in Nat /\ Spent(n)' <= Spent(n)
      <4>1. \A x, y, a, b \in Nat :
              b = a - 1 /\ y \in {x, x + 1} => y + b \in Nat /\ y + b <= x + a
        OBVIOUS
      <4>2. opened'[n] \in Nat
        BY <1>6
      <4>3. QED
        BY <3>2, <3>3, <4>1, <4>2 DEF Spent
    <3>5. QED
      BY <1>1, <1>3, <2>1, <2>4, <3>2, <3>4, SparedInv
  <2>7. QED
    BY <2>5, <2>6
<1>10. QED
  BY <1>3, <1>4, <1>6, <1>7, <1>8, <1>9

(* The four ends of a sign-in, and what each makes of the account. *)
Ends(c, ok) ==
  LoginFind(c, ok) \/ SignupFind(c, ok) \/ Create(c, ok) \/ ConsumerFind(c, ok)

LEMMA EndsOpen ==
  ASSUME TypeOK, NEW c \in Calls, NEW ok \in BOOLEAN, Ends(c, ok)
  PROVE  OpensOnce(c) /\ Answers(ok) /\ UNCHANGED <<keyVars, crashes>>
<1>1. CASE LoginFind(c, ok)
  BY <1>1 DEF LoginFind, OpensOnce, SignsIn, Goes
<1>2. CASE SignupFind(c, ok)
  BY <1>2 DEF SignupFind, OpensOnce, SignsIn, Goes, signVars
<1>3. CASE Create(c, ok)
  BY <1>3 DEF Create, OpensOnce, SignsIn, Goes
<1>4. CASE ConsumerFind(c, ok)
  BY <1>4 DEF ConsumerFind, OpensOnce, SignsIn, Goes
<1>5. QED
  BY <1>1, <1>2, <1>3, <1>4 DEF Ends
-----------------------------------------------------------------------------
(* A step that brings no key into a store but the primary key back to the  *)
(* account it is of.                                                       *)
LEMMA KeysKept ==
  ASSUME IInv, UNCHANGED keyVars, faults' \in Nat, faults' >= faults,
         \A k \in Keys, i \in Ids :
           k = byId'[i] => k = byId[i] \/ (i = "row" /\ k = primaryDb)
  PROVE  KeyType' /\ (\A k \in Keys : KindInv(k)') /\ KeyInv'
<1>1. /\ KeyType /\ (\A k \in Keys : KindInv(k)) /\ KeyInv
      /\ faults \in Nat /\ "row" \in Ids /\ "local" \in Ids /\ "row" # "local"
  BY Types, Distinct DEF IInv, CountType, Ids
<1>2. UNCHANGED <<primaryDb, secrets, quick, namedDb, namedMem, cache, filling,
                  profile, revoked, held>>
  BY DEF keyVars
<1>3. KeyType'
  BY <1>1, <1>2 DEF KeyType
<1>4. ASSUME NEW k \in Keys PROVE KindInv(k)'
  <2>1. (RowsKey(k)' => RowsKey(k)) /\ (LocalsKey(k)' => LocalsKey(k))
    BY <1>1, <1>2 DEF RowsKey, LocalsKey
  <2>2. (Named(k)' <=> Named(k)) /\ (Cached(k)' <=> Cached(k))
    BY <1>2 DEF Named, Cached
  <2>3. QED
    BY <1>1, <1>2, <2>1, <2>2 DEF KindInv
<1>5. ASSUME NEW k \in Keys, AcceptedAtCheckout(k)' PROVE AcceptedAtCheckout(k)
  BY <1>2, <1>5 DEF AcceptedAtCheckout, InMemory
<1>6. KeyInv'
  <2> SUFFICES ASSUME faults' = 0 PROVE KeyInv'
    BY DEF KeyInv
  <2>1. faults = 0
    <3>1. \A x, y \in Nat : x >= y /\ x = 0 => y = 0
      OBVIOUS
    <3>2. QED
      BY <1>1, <3>1
  <2>2. \A k \in Keys : Named(k)' <=> Named(k)
    BY <1>2 DEF Named
  <2>3. revoked \subseteq Keys
    BY <1>1 DEF KeyType
  <2>4. QED
    BY <1>1, <1>2, <1>5, <2>1, <2>2, <2>3 DEF KeyInv
<1>7. QED
  BY <1>3, <1>4, <1>6

LEMMA EndsInv ==
  ASSUME IInv, NEW c \in Calls, NEW ok \in BOOLEAN, Ends(c, ok)
  PROVE  IInv'
<1>1. /\ TypeOK /\ NonceType /\ AccountType /\ KeyType /\ SignType /\ CountType
      /\ IdentityInv
  BY Types DEF IInv
<1>2. OpensOnce(c) /\ Answers(ok) /\ UNCHANGED <<keyVars, crashes>>
  BY <1>1, EndsOpen
<1>3. /\ faults' \in 0..MaxFaults /\ faults' >= faults /\ faults \in Nat
      /\ faults' \in Nat /\ (~ok => faults' = faults + 1)
  BY <1>1, <1>2, AnswersCount, Distinct DEF CountType
<1>4. /\ CallType' /\ PastType' /\ Others(c) /\ opened' \in [Nonces -> Nat]
      /\ pc[c] \in Past /\ pc'[c] \in {"idle", "create"}
      /\ IssueInv' /\ \A n \in Nonces : NonceInv(n)'
  BY <1>2, <1>3, OpensInv
<1>5. /\ UNCHANGED <<role, nonceDb, nonceMem, issued, returned, expired, shared,
                    together>>
  BY <1>2 DEF OpensOnce, nonceVars
<1>6. /\ account' \in BOOLEAN /\ byWallet' \in Ids \cup {None} /\ ids' \subseteq Ids
      /\ \/ byId' = byId
         \/ byId' = [byId EXCEPT !["row"] = primaryDb]
         \/ \E i \in Ids : byId' = [byId EXCEPT ![i] = None]
  <2>1. /\ account \in BOOLEAN /\ byWallet \in Ids \cup {None} /\ ids \subseteq Ids
        /\ "row" \in Ids /\ "local" \in Ids
    BY <1>1 DEF AccountType, SignType, Ids
  <2>2. CASE LoginFind(c, ok)
    BY <2>1, <2>2 DEF LoginFind, SignsIn
  <2>3. CASE SignupFind(c, ok)
    BY <2>1, <2>3 DEF SignupFind, accountVars, signVars
  <2>4. CASE Create(c, ok)
    BY <2>1, <2>4 DEF Create, SignsIn
  <2>5. CASE ConsumerFind(c, ok)
    BY <2>1, <2>5 DEF ConsumerFind, SignsIn
  <2>6. QED
    BY <2>2, <2>3, <2>4, <2>5 DEF Ends
<1>7. /\ byId' \in [Ids -> Keys \cup {None, "absent"}]
      /\ \A k \in Keys, i \in Ids :
           k = byId'[i] => k = byId[i] \/ (i = "row" /\ k = primaryDb)
  BY <1>1, <1>6, Distinct DEF AccountType, KeyType
<1>8. KeyType' /\ (\A k \in Keys : KindInv(k)') /\ KeyInv'
  BY <1>2, <1>3, <1>7, KeysKept
<1>9. TypeOK'
  <2>1. NonceType' /\ AccountType' /\ SignType' /\ CountType'
    BY <1>1, <1>2, <1>3, <1>4, <1>5, <1>6, <1>7
       DEF NonceType, AccountType, SignType, CountType
  <2>2. QED
    BY <1>1, <1>4, <1>5, <1>8, <2>1, TypesNext
<1>10. IdentityInv'
  <2> SUFFICES ASSUME faults' = 0, ~together' PROVE IdentityInv'
    BY DEF IdentityInv
  <2>1. faults = 0 /\ ~together /\ ok
    <3>1. \A x, y \in Nat : x >= y /\ x = 0 => y = 0 /\ x # y + 1
      OBVIOUS
    <3>2. QED
      BY <1>3, <1>5, <3>1
  <2>2. /\ ids \subseteq {"row"} /\ byWallet \in {"row", None}
        /\ \A d, e \in Calls : pc[d] \in Past /\ pc[e] \in Past => d = e
        /\ \A d \in Calls : pc[d] = "create" => ~account
    BY <1>1, <2>1 DEF IdentityInv
  <2>3. \A d \in Calls \ {c} : pc'[d] \notin Past
    BY <1>4, <2>2 DEF Others
  <2>4. /\ ids' \subseteq {"row"} /\ byWallet' \in {"row", None}
        /\ pc'[c] = "create" => ~account'
    <3>1. \A from, to : Goes(c, from, to) => pc[c] = from /\ pc'[c] = to
      BY <1>1, Types DEF CallType, Goes
    <3>2. CASE LoginFind(c, ok)
      <4>1. /\ account' = account
            /\ \/ pc'[c] = "idle" /\ ids' = ids \cup {"row"} /\ byWallet' = "row"
               \/ /\ pc'[c] = "idle" /\ ids' = ids \cup {byWallet}
                  /\ byWallet # None /\ byWallet' = byWallet
               \/ /\ pc'[c] = "create" /\ ~account
                  /\ ids' = ids /\ byWallet' = byWallet
        BY <2>1, <3>1, <3>2 DEF LoginFind, SignsIn
      <4>2. QED
        BY <2>2, <4>1
    <3>3. CASE SignupFind(c, ok)
      BY <1>4, <2>1, <2>2, <3>1, <3>3
         DEF SignupFind, accountVars, signVars
    <3>4. CASE Create(c, ok)
      BY <1>4, <2>1, <2>2, <3>1, <3>4
         DEF Create, SignsIn
    <3>5. CASE ConsumerFind(c, ok)
      BY <1>4, <2>1, <2>2, <3>1, <3>5
         DEF ConsumerFind, SignsIn
    <3>6. QED
      BY <3>2, <3>3, <3>4, <3>5 DEF Ends
  <2>5. QED
    BY <2>3, <2>4 DEF IdentityInv, Past
<1>11. QED
  BY <1>4, <1>8, <1>9, <1>10 DEF IInv

(* A step of the keys leaves the nonces and the sign-ins alone. *)
LEMMA AsideKeeps ==
  ASSUME IInv, UNCHANGED <<role, nonceDb, nonceMem, issued, returned, callVars,
                           account, signVars, crashes>>,
         expired' \subseteq 1..issued,
         faults' \in 0..MaxFaults, faults' >= faults,
         byWallet' \in {byWallet, "row"},
         byId' \in [Ids -> Keys \cup {None, "absent"}],
         KeyType', \A k \in Keys : KindInv(k)', KeyInv'
  PROVE  IInv'
<1>1. /\ TypeOK /\ NonceType /\ CallType /\ PastType /\ AccountType /\ SignType
      /\ CountType /\ IssueInv /\ IdentityInv /\ \A n \in Nonces : NonceInv(n)
      /\ faults \in Nat /\ faults' \in Nat
  <2>1. TypeOK /\ IssueInv /\ IdentityInv /\ \A n \in Nonces : NonceInv(n)
    BY DEF IInv
  <2>2. /\ NonceType /\ CallType /\ PastType /\ AccountType /\ SignType
        /\ CountType
    BY <2>1, Types
  <2>3. faults \in Nat /\ faults' \in Nat
    BY <2>2, Distinct DEF CountType
  <2>4. QED
    BY <2>1, <2>2, <2>3
<1>2. UNCHANGED <<pc, got, found, opened, ids, shared, together>>
  BY DEF callVars, signVars
<1>3. TypeOK'
  <2>1. NonceType' /\ CallType' /\ PastType' /\ SignType' /\ CountType'
    BY <1>1, <1>2 DEF NonceType, CallType, PastType, SignType, CountType
  <2>2. AccountType'
    BY <1>1 DEF AccountType, Ids
  <2>3. QED
    BY <1>1, <2>1, <2>2, TypesNext
<1>4. IssueInv'
  BY <1>1, <1>2 DEF IssueInv
<1>5. \A n \in Nonces : NonceInv(n)'
  BY <1>1, AsideInv
<1>6. IdentityInv'
  <2>1. \A x, y \in Nat : x >= y /\ x = 0 => y = 0
    OBVIOUS
  <2>2. faults' = 0 => faults = 0
    BY <1>1, <2>1
  <2>3. QED
    BY <1>1, <1>2, <2>2 DEF IdentityInv
<1>7. QED
  BY <1>3, <1>4, <1>5, <1>6 DEF IInv

LEMMA FiveMinutesInv ==
  ASSUME IInv, NEW n \in Nonces, FiveMinutes(n)
  PROVE  IInv'
<1>1. /\ NonceType /\ CountType /\ AccountType /\ faults \in Nat
  BY Types, Distinct DEF IInv, CountType
<1>2. /\ expired' = expired \cup {n} /\ n \in returned
      /\ UNCHANGED <<role, nonceDb, nonceMem, issued, returned, callVars,
                    accountVars, keyVars, signVars, faults, crashes>>
  BY DEF FiveMinutes
<1>3. expired' \subseteq 1..issued
  BY <1>1, <1>2 DEF NonceType
<1>4. KeyType' /\ (\A k \in Keys : KindInv(k)') /\ KeyInv'
  BY <1>1, <1>2, KeysKept DEF accountVars
<1>5. QED
  BY <1>1, <1>2, <1>3, <1>4, AsideKeeps DEF accountVars, AccountType, CountType

(* What a step of the keys has to keep. *)
KeysFine ==
  /\ KeyType' /\ byId' \in [Ids -> Keys \cup {None, "absent"}]
  /\ (\A k \in Keys : KindInv(k)') /\ KeyInv'

(* Facts about the keys of a state. *)
LEMMA KeyFacts ==
  ASSUME IInv
  PROVE  /\ KeyType /\ (\A k \in Keys : KindInv(k)) /\ KeyInv /\ CountType
         /\ byId \in [Ids -> Keys \cup {None, "absent"}]
         /\ faults \in Nat /\ "row" \in Ids /\ "local" \in Ids /\ "row" # "local"
         /\ \A i \in Ids : i = "row" \/ i = "local"
BY Types, Distinct DEF IInv, CountType, Ids, AccountType

(* If nothing has failed after the step, nothing had before. *)
LEMMA NoFault ==
  ASSUME CountType, NEW ok \in BOOLEAN, Answers(ok)
  PROVE  faults' = 0 => faults = 0 /\ ok
<1>1. \A x \in Nat : x + 1 # 0
  OBVIOUS
<1>2. faults \in Nat
  BY Distinct DEF CountType
<1>3. QED
  BY <1>1, <1>2 DEF Answers

LEMMA GenerateInv ==
  ASSUME IInv, NEW i \in Ids, NEW k \in Keys, NEW ok \in BOOLEAN,
         GenerateCredentials(i, k, ok)
  PROVE  KeysFine
<1>1. /\ KeyType /\ (\A h \in Keys : KindInv(h)) /\ KeyInv
      /\ byId \in [Ids -> Keys \cup {None, "absent"}]
      /\ "row" \in Ids /\ "local" \in Ids /\ "row" # "local"
      /\ i = "row" \/ i = "local"
  BY KeyFacts
<1>2. /\ primaryDb' = IF ok /\ i = "row" THEN k ELSE primaryDb
      /\ secrets' = [secrets EXCEPT ![i] = k]
      /\ quick' = quick \cup {k}
      /\ byId' = IF Known(i) THEN [byId EXCEPT ![i] = k] ELSE byId
      /\ UNCHANGED <<namedDb, namedMem, cache, filling, profile, revoked, held>>
  BY DEF GenerateCredentials, Hash
<1>3. /\ ~RowsKey(k) /\ ~LocalsKey(k) /\ ~Named(k) /\ ~Cached(k)
      /\ k \notin quick /\ k \notin revoked
  BY <1>1 DEF GenerateCredentials, Unused, RowsKey, LocalsKey, Named, Cached
<1>4. KeyType' /\ byId' \in [Ids -> Keys \cup {None, "absent"}]
  BY <1>1, <1>2 DEF KeyType
<1>5. /\ secrets'[i] = k /\ \A j \in Ids \ {i} : secrets'[j] = secrets[j]
      /\ byId'[i] \in {k, byId[i]} /\ \A j \in Ids \ {i} : byId'[j] = byId[j]
  BY <1>1, <1>2 DEF KeyType
<1>6. ASSUME NEW h \in Keys PROVE KindInv(h)'
  <2>1. (Named(h)' <=> Named(h)) /\ (Cached(h)' <=> Cached(h))
    BY <1>2 DEF Named, Cached
  <2>2. CASE h # k
    <3>1. (RowsKey(h)' => RowsKey(h)) /\ (LocalsKey(h)' => LocalsKey(h))
      BY <1>1, <1>2, <1>5, <2>2 DEF RowsKey, LocalsKey
    <3>2. QED
      BY <1>1, <1>2, <2>1, <2>2, <3>1 DEF KindInv
  <2>3. CASE h = k
    <3>1. ~(RowsKey(h)' /\ LocalsKey(h)')
      BY <1>1, <1>2, <1>3, <1>5, <2>3 DEF RowsKey, LocalsKey
    <3>2. namedDb'[h] = "absent"
      BY <1>2, <1>3, <2>3 DEF Named
    <3>3. QED
      BY <1>3, <2>1, <2>3, <3>1, <3>2 DEF KindInv
  <2>4. QED
    BY <2>2, <2>3
<1>7. KeyInv'
  <2> SUFFICES ASSUME faults' = 0 PROVE KeyInv'
    BY DEF KeyInv
  <2>1. faults = 0 /\ ok
    BY KeyFacts, NoFault DEF GenerateCredentials
  <2>2. /\ secrets["row"] \in {None, primaryDb}
        /\ primaryDb \in quick => secrets["row"] = primaryDb
        /\ \A h \in revoked \ held : ~AcceptedAtCheckout(h) /\ h # profile
        /\ \A h \in revoked : Named(h) => ~AcceptedAtCheckout(h)
    BY <1>1, <2>1 DEF KeyInv
  <2>3. secrets'["row"] \in {None, primaryDb'}
    BY <1>1, <1>2, <1>5, <2>1, <2>2
  <2>4. primaryDb' \in quick' => secrets'["row"] = primaryDb'
    BY <1>1, <1>2, <1>3, <1>5, <2>1, <2>2 DEF RowsKey
  <2>5. ASSUME NEW h \in revoked, ~AcceptedAtCheckout(h) PROVE ~AcceptedAtCheckout(h)'
    BY <1>1, <1>2, <1>3, <1>5, <2>5 DEF AcceptedAtCheckout, InMemory
  <2>6. \A h \in Keys : Named(h)' <=> Named(h)
    BY <1>2 DEF Named
  <2>7. QED
    BY <1>1, <1>2, <2>2, <2>3, <2>4, <2>5, <2>6 DEF KeyInv, KeyType
<1>8. QED
  BY <1>4, <1>6, <1>7 DEF KeysFine

LEMMA RevokePrimaryInv ==
  ASSUME IInv, NEW i \in Ids, NEW ok \in BOOLEAN, RevokePrimary(i, ok)
  PROVE  KeysFine
<1>0. PICK k : k = Current(i)
  OBVIOUS
<1>1. /\ KeyType /\ (\A h \in Keys : KindInv(h)) /\ KeyInv
      /\ byId \in [Ids -> Keys \cup {None, "absent"}]
      /\ "row" \in Ids /\ "local" \in Ids /\ "row" # "local"
      /\ \A j \in Ids : j = "row" \/ j = "local"
  BY KeyFacts
<1>2. /\ primaryDb' = IF ok /\ i = "row" THEN None ELSE primaryDb
      /\ secrets' = [secrets EXCEPT ![i] = None]
      /\ quick' = quick \ {secrets[i], byId[i]}
      /\ byId' = IF Known(i) THEN [byId EXCEPT ![i] = None] ELSE byId
      /\ revoked' = revoked \cup ({k} \ {None})
      /\ held' = IF k # None /\ profile = k THEN held \cup {k} ELSE held
      /\ UNCHANGED <<namedDb, namedMem, cache, filling, profile>>
  BY <1>0 DEF RevokePrimary, Hash, Revokes
<1>3. /\ secrets'[i] = None /\ \A j \in Ids \ {i} : secrets'[j] = secrets[j]
      /\ byId'[i] \in {None, "absent"}
      /\ \A j \in Ids \ {i} : byId'[j] = byId[j]
  BY <1>1, <1>2 DEF KeyType, Known
<1>4. k \in Keys \cup {None} /\ k \in {primaryDb, secrets[i]}
  BY <1>0, <1>1 DEF Current, KeyType
<1>5. KeyType' /\ byId' \in [Ids -> Keys \cup {None, "absent"}]
  <2>1. /\ byId' \in [Ids -> Keys \cup {None, "absent"}]
        /\ secrets' \in [Ids -> Keys \cup {None}]
    BY <1>1, <1>2 DEF KeyType
  <2>2. revoked' \subseteq Keys /\ held' \subseteq revoked'
    BY <1>1, <1>2, <1>4 DEF KeyType
  <2>3. QED
    BY <1>1, <1>2, <2>1, <2>2 DEF KeyType
<1>6. ASSUME NEW h \in Keys PROVE KindInv(h)'
  <2>1. (Named(h)' <=> Named(h)) /\ (Cached(h)' <=> Cached(h))
    BY <1>2 DEF Named, Cached
  <2>2. (RowsKey(h)' => RowsKey(h)) /\ (LocalsKey(h)' => LocalsKey(h))
    BY <1>1, <1>2, <1>3, Distinct DEF RowsKey, LocalsKey
  <2>3. QED
    BY <1>1, <1>2, <2>1, <2>2 DEF KindInv
<1>7. KeyInv'
  <2> SUFFICES ASSUME faults' = 0 PROVE KeyInv'
    BY DEF KeyInv
  <2>1. faults = 0 /\ ok
    BY KeyFacts, NoFault DEF RevokePrimary
  <2>2. /\ secrets["row"] \in {None, primaryDb}
        /\ primaryDb \in quick => secrets["row"] = primaryDb
        /\ \A h \in revoked \ held : ~AcceptedAtCheckout(h) /\ h # profile
        /\ \A h \in revoked : Named(h) => ~AcceptedAtCheckout(h)
    BY <1>1, <2>1 DEF KeyInv
  <2>3. /\ secrets'["row"] \in {None, primaryDb'}
        /\ primaryDb' \in quick' => secrets'["row"] = primaryDb'
    BY <1>1, <1>2, <1>3, <2>1, <2>2, Distinct DEF KeyType
  <2>4. ASSUME NEW h \in Keys, ~AcceptedAtCheckout(h) PROVE ~AcceptedAtCheckout(h)'
    BY <1>1, <1>2, <1>3, <2>4, Distinct DEF AcceptedAtCheckout, InMemory
  <2>5. ASSUME k \in Keys PROVE ~AcceptedAtCheckout(k)' /\ ~Named(k)
    <3>1. IF i = "row" THEN k = primaryDb /\ RowsKey(k) /\ ~LocalsKey(k)
                       ELSE k = secrets["local"] /\ LocalsKey(k) /\ ~RowsKey(k)
      <4>1. IF i = "row" THEN k = primaryDb ELSE k = secrets["local"]
        BY <1>0, <1>1, <2>2, <2>5, Distinct DEF Current
      <4>2. QED
        BY <1>1, <2>5, <4>1 DEF RowsKey, LocalsKey, KindInv
    <3>2. ~Named(k)
      BY <1>1, <2>5, <3>1 DEF KindInv
    <3>3. k # primaryDb' /\ k \notin quick' /\ \A j \in Ids : k # secrets'[j] /\ k # byId'[j]
      <4>1. CASE i = "row"
        <5>1. k # None /\ k = primaryDb /\ ~LocalsKey(k)
          BY <2>5, <3>1, <4>1, Distinct
        <5>2. k # primaryDb' /\ k \notin quick'
          BY <1>2, <2>1, <2>2, <4>1, <5>1
        <5>3. QED
          BY <1>1, <1>3, <2>5, <4>1, <5>1, <5>2, Distinct DEF LocalsKey
      <4>2. CASE i = "local"
        BY <1>1, <1>2, <1>3, <2>5, <3>1, <4>2, Distinct DEF RowsKey
      <4>3. QED
        BY <1>1, <4>1, <4>2
    <3>4. namedDb'[k] = "absent" /\ namedMem'[k] = "absent"
      BY <1>2, <3>2 DEF Named
    <3>5. QED
      BY <3>2, <3>3, <3>4 DEF AcceptedAtCheckout, InMemory
  <2>6. \A h \in Keys : Named(h)' <=> Named(h)
    BY <1>2 DEF Named
  <2>7. /\ \A h \in revoked' \ held' : ~AcceptedAtCheckout(h)' /\ h # profile'
        /\ \A h \in revoked' : Named(h)' => ~AcceptedAtCheckout(h)'
    <3>1. /\ \A h \in revoked' : h \in Keys /\ (h \in revoked \/ h = k)
          /\ \A h \in revoked' \ held' : h \notin held /\ (h = k => h # profile)
      <4>1. revoked \subseteq Keys /\ revoked' \subseteq Keys
        BY <1>1, <1>5 DEF KeyType
      <4>2. \A h : h \in held => h \in held'
        BY <1>2
      <4>3. k \in Keys /\ k = profile => k \in held'
        BY <1>2, Distinct
      <4>4. QED
        BY <1>2, <4>1, <4>2, <4>3
    <3>2. QED
      BY <1>2, <2>2, <2>4, <2>5, <2>6, <3>1
  <2>8. QED
    BY <2>3, <2>7 DEF KeyInv
<1>8. QED
  BY <1>5, <1>6, <1>7 DEF KeysFine

LEMMA CreateApiKeyInv ==
  ASSUME IInv, NEW i \in Ids, NEW k \in Keys, NEW ok \in BOOLEAN,
         CreateApiKey(i, k, ok)
  PROVE  KeysFine
<1>1. /\ KeyType /\ (\A h \in Keys : KindInv(h)) /\ KeyInv
      /\ byId \in [Ids -> Keys \cup {None, "absent"}]
      /\ "row" \in Ids /\ "local" \in Ids
  BY KeyFacts
<1>2. /\ namedDb' \in {namedDb, [namedDb EXCEPT ![k] = "live"]}
      /\ namedMem' = [namedMem EXCEPT ![k] = "live"]
      /\ quick' = quick \cup {k}
      /\ UNCHANGED <<byId, primaryDb, secrets, cache, filling, profile, revoked,
                    held>>
  BY DEF CreateApiKey, accountVars
<1>3. /\ ~RowsKey(k) /\ ~LocalsKey(k) /\ ~Cached(k)
      /\ k \notin quick /\ k \notin revoked
  BY <1>1 DEF CreateApiKey, Unused, RowsKey, LocalsKey, Cached
<1>4. KeyType'
  BY <1>1, <1>2 DEF KeyType, Marks
<1>5. /\ namedMem'[k] = "live"
      /\ \A h \in Keys \ {k} : namedDb'[h] = namedDb[h] /\ namedMem'[h] = namedMem[h]
  BY <1>1, <1>2 DEF KeyType
<1>6. ASSUME NEW h \in Keys PROVE KindInv(h)'
  <2>1. /\ (RowsKey(h)' <=> RowsKey(h)) /\ (LocalsKey(h)' <=> LocalsKey(h))
        /\ (Cached(h)' <=> Cached(h))
    BY <1>2 DEF RowsKey, LocalsKey, Cached
  <2>2. QED
    BY <1>1, <1>2, <1>3, <1>5, <2>1 DEF KindInv, Named
<1>7. KeyInv'
  <2> SUFFICES ASSUME faults' = 0 PROVE KeyInv'
    BY DEF KeyInv
  <2>1. faults = 0
    BY KeyFacts, NoFault DEF CreateApiKey
  <2>2. /\ secrets["row"] \in {None, primaryDb}
        /\ primaryDb \in quick => secrets["row"] = primaryDb
        /\ \A h \in revoked \ held : ~AcceptedAtCheckout(h) /\ h # profile
        /\ \A h \in revoked : Named(h) => ~AcceptedAtCheckout(h)
    BY <1>1, <2>1 DEF KeyInv
  <2>3. primaryDb' \in quick' => secrets'["row"] = primaryDb'
    BY <1>2, <1>3, <2>2 DEF RowsKey
  <2>4. ASSUME NEW h \in revoked
        PROVE  /\ (Named(h)' <=> Named(h))
               /\ (AcceptedAtCheckout(h)' <=> AcceptedAtCheckout(h))
    <3>1. h \in Keys /\ h # k
      BY <1>1, <1>3 DEF KeyType
    <3>2. QED
      BY <1>2, <1>5, <3>1 DEF Named, AcceptedAtCheckout, InMemory
  <2>5. QED
    BY <1>2, <2>2, <2>3, <2>4 DEF KeyInv
<1>8. QED
  BY <1>1, <1>2, <1>4, <1>6, <1>7 DEF KeysFine

LEMMA RevokeApiKeyInv ==
  ASSUME IInv, NEW k \in Keys, NEW looked \in BOOLEAN, NEW saved \in BOOLEAN,
         RevokeApiKey(k, looked, saved)
  PROVE  KeysFine
<1>1. /\ KeyType /\ (\A h \in Keys : KindInv(h)) /\ KeyInv
      /\ byId \in [Ids -> Keys \cup {None, "absent"}]
      /\ "row" \in Ids /\ "local" \in Ids
  BY KeyFacts
<1>2. /\ namedDb' = IF saved THEN Struck(namedDb, k) ELSE namedDb
      /\ namedMem' = Struck(namedMem, k)
      /\ quick' = IF namedMem[k] = "absent" THEN quick ELSE quick \ {k}
      /\ revoked' = revoked \cup {k}
      /\ held' \in {held, held \cup {k}}
      /\ UNCHANGED <<byId, primaryDb, secrets, cache, filling, profile>>
  BY Distinct DEF RevokeApiKey, Revokes, accountVars
<1>3. Named(k) /\ ~RowsKey(k) /\ ~LocalsKey(k)
  BY <1>1 DEF RevokeApiKey, Named, KindInv
<1>4. /\ namedMem'[k] \in {"absent", "revoked"}
      /\ saved => namedDb'[k] \in {"absent", "revoked"}
      /\ \A h \in Keys : /\ namedDb'[h] = "absent" <=> namedDb[h] = "absent"
                         /\ namedMem'[h] = "absent" <=> namedMem[h] = "absent"
                         /\ namedDb'[h] \in {namedDb[h], "revoked"}
                         /\ namedMem'[h] \in {namedMem[h], "revoked"}
  BY <1>1, <1>2 DEF KeyType, Struck
<1>5. KeyType'
  <2>1. namedDb' \in [Keys -> Marks] /\ namedMem' \in [Keys -> Marks]
    BY <1>1, <1>2 DEF KeyType, Struck, Marks
  <2>2. revoked' \subseteq Keys /\ held' \subseteq revoked'
    BY <1>1, <1>2 DEF KeyType
  <2>3. QED
    BY <1>1, <1>2, <2>1, <2>2 DEF KeyType
<1>6. ASSUME NEW h \in Keys PROVE KindInv(h)'
  <2>1. /\ (RowsKey(h)' <=> RowsKey(h)) /\ (LocalsKey(h)' <=> LocalsKey(h))
        /\ (Cached(h)' <=> Cached(h)) /\ (Named(h)' <=> Named(h))
    BY <1>2, <1>4 DEF RowsKey, LocalsKey, Cached, Named
  <2>2. h \in quick' => h \in quick
    BY <1>2
  <2>3. QED
    BY <1>1, <1>4, <2>1, <2>2 DEF KindInv
<1>7. KeyInv'
  <2> SUFFICES ASSUME faults' = 0 PROVE KeyInv'
    BY DEF KeyInv
  <2>1. faults = 0 /\ saved
    <3>1. (looked /\ saved) \in BOOLEAN /\ Answers(looked /\ saved)
      BY DEF RevokeApiKey
    <3>2. QED
      BY <3>1, KeyFacts, NoFault
  <2>2. /\ secrets["row"] \in {None, primaryDb}
        /\ primaryDb \in quick => secrets["row"] = primaryDb
        /\ \A h \in revoked \ held : ~AcceptedAtCheckout(h) /\ h # profile
        /\ \A h \in revoked : Named(h) => ~AcceptedAtCheckout(h)
    BY <1>1, <2>1 DEF KeyInv
  <2>3. primaryDb' \in quick' => secrets'["row"] = primaryDb'
    BY <1>2, <2>2
  <2>4. ASSUME NEW h \in revoked
        PROVE  /\ (Named(h)' <=> Named(h))
               /\ (~AcceptedAtCheckout(h) => ~AcceptedAtCheckout(h)')
    <3>1. h \in Keys
      BY <1>1 DEF KeyType
    <3>2. /\ namedDb'[h] = "live" => namedDb[h] = "live"
          /\ namedMem'[h] = "live" => namedMem[h] = "live"
          /\ h \in quick' => h \in quick
      BY <1>2, <1>4, <3>1
    <3>3. QED
      BY <1>2, <1>4, <3>1, <3>2 DEF Named, AcceptedAtCheckout, InMemory
  <2>5. ~AcceptedAtCheckout(k)' /\ k # profile'
    <3>1. k \notin quick'
      BY <1>1, <1>2, <1>3 DEF KindInv, Named
    <3>2. namedDb'[k] # "live" /\ namedMem'[k] # "live"
      BY <1>4, <2>1
    <3>3. k # primaryDb' /\ k # profile' /\ \A i \in Ids : k # secrets'[i] /\ k # byId'[i]
      <4>1. \A i \in Ids : i = "row" \/ i = "local"
        BY DEF Ids
      <4>2. QED
        BY <1>2, <1>3, <4>1 DEF RowsKey, LocalsKey
    <3>4. QED
      BY <3>1, <3>2, <3>3 DEF AcceptedAtCheckout, InMemory
  <2>6. QED
    BY <1>2, <2>2, <2>3, <2>4, <2>5 DEF KeyInv
<1>8. QED
  BY <1>1, <1>2, <1>5, <1>6, <1>7 DEF KeysFine

(* A step that brings no key into a store but the primary key, and that    *)
(* only to where requests are not checked.                                 *)
LEMMA ProfileReadInv ==
  ASSUME IInv, NEW ok \in BOOLEAN, ProfileRead(ok)
  PROVE  KeysFine
<1>1. /\ KeyType /\ (\A h \in Keys : KindInv(h)) /\ KeyInv
      /\ byId \in [Ids -> Keys \cup {None, "absent"}] /\ "row" \in Ids
  BY KeyFacts
<1>2. /\ profile' = IF ok THEN primaryDb ELSE byId["row"]
      /\ UNCHANGED <<byId, primaryDb, secrets, quick, namedDb, namedMem, cache,
                    filling, revoked, held>>
  BY DEF ProfileRead, accountVars
<1>3. KeyType'
  BY <1>1, <1>2 DEF KeyType
<1>4. ASSUME NEW h \in Keys PROVE KindInv(h)'
  BY <1>1, <1>2 DEF KindInv, Named, RowsKey, LocalsKey, Cached
<1>5. KeyInv'
  <2> SUFFICES ASSUME faults' = 0 PROVE KeyInv'
    BY DEF KeyInv
  <2>1. faults = 0 /\ ok
    BY KeyFacts, NoFault DEF ProfileRead
  <2>2. \A h : /\ Named(h)' <=> Named(h)
               /\ AcceptedAtCheckout(h)' <=> AcceptedAtCheckout(h)
               /\ h = profile' => AcceptedAtCheckout(h)
    BY <1>2, <2>1 DEF Named, AcceptedAtCheckout, InMemory
  <2>3. QED
    BY <1>1, <1>2, <2>1, <2>2 DEF KeyInv
<1>6. QED
  BY <1>1, <1>2, <1>3, <1>4, <1>5 DEF KeysFine

LEMMA ProfileWriteInv ==
  ASSUME IInv, NEW ok \in BOOLEAN, ProfileWrite(ok)
  PROVE  KeysFine
<1>1. /\ KeyType /\ (\A h \in Keys : KindInv(h)) /\ KeyInv
      /\ byId \in [Ids -> Keys \cup {None, "absent"}]
      /\ "row" \in Ids /\ "local" \in Ids /\ "row" # "local"
  BY KeyFacts
<1>2. /\ byId' = [byId EXCEPT !["row"] = profile] /\ profile' = "absent"
      /\ UNCHANGED <<primaryDb, secrets, quick, namedDb, namedMem, cache, filling,
                    revoked, held>>
  BY DEF ProfileWrite
<1>3. /\ byId' \in [Ids -> Keys \cup {None, "absent"}]
      /\ byId'["row"] = profile /\ \A j \in Ids \ {"row"} : byId'[j] = byId[j]
  BY <1>1, <1>2 DEF KeyType
<1>4. KeyType'
  BY <1>1, <1>2 DEF KeyType
<1>5. ASSUME NEW h \in Keys PROVE KindInv(h)'
  <2>1. (RowsKey(h)' => RowsKey(h)) /\ (LocalsKey(h)' => LocalsKey(h))
    BY <1>1, <1>2, <1>3, Distinct DEF RowsKey, LocalsKey
  <2>2. (Named(h)' <=> Named(h)) /\ (Cached(h)' <=> Cached(h))
    BY <1>2 DEF Named, Cached
  <2>3. QED
    BY <1>1, <1>2, <2>1, <2>2 DEF KindInv
<1>6. KeyInv'
  <2> SUFFICES ASSUME faults' = 0 PROVE KeyInv'
    BY DEF KeyInv
  <2>1. faults = 0
    BY KeyFacts, NoFault DEF ProfileWrite
  <2>2. /\ secrets["row"] \in {None, primaryDb}
        /\ primaryDb \in quick => secrets["row"] = primaryDb
        /\ \A h \in revoked \ held : ~AcceptedAtCheckout(h) /\ h # profile
        /\ \A h \in revoked : Named(h) => ~AcceptedAtCheckout(h)
    BY <1>1, <2>1 DEF KeyInv
  <2>3. ASSUME NEW h \in Keys, ~AcceptedAtCheckout(h), h # profile
        PROVE  ~AcceptedAtCheckout(h)'
    BY <1>2, <1>3, <2>3 DEF AcceptedAtCheckout, InMemory
  <2>4. ASSUME NEW h \in Keys
        PROVE  (Named(h)' <=> Named(h)) /\ (Named(h) => h # profile)
    BY <1>1, <1>2 DEF Named, KindInv, RowsKey
  <2>5. revoked \subseteq Keys
    BY <1>1 DEF KeyType
  <2>6. QED
    BY <1>2, <2>2, <2>3, <2>4, <2>5, Distinct DEF KeyInv
<1>7. QED
  BY <1>3, <1>4, <1>5, <1>6 DEF KeysFine

(* A key is put into requireApiKey's cache, or leaves it. *)
LEMMA CacheInv ==
  ASSUME IInv, NEW k \in Keys, Request(k) \/ OneHour(k)
  PROVE  /\ KeysFine
         /\ UNCHANGED <<role, nonceVars, callVars, accountVars, signVars, faults,
                        crashes>>
<1>1. /\ KeyType /\ (\A h \in Keys : KindInv(h)) /\ KeyInv
      /\ byId \in [Ids -> Keys \cup {None, "absent"}]
  BY KeyFacts
<1>2. /\ cache' \cup filling' \subseteq cache \cup filling \cup ({k} \cap {primaryDb})
      /\ UNCHANGED <<role, nonceVars, callVars, accountVars, signVars, faults,
                     crashes, byId, primaryDb, secrets, quick, namedDb, namedMem,
                     profile, revoked, held>>
  <2>1. CASE RequestLookup(k)
    BY <2>1 DEF RequestLookup, accountVars
  <2>2. CASE RequestCache(k)
    BY <2>2 DEF RequestCache, accountVars
  <2>3. CASE OneHour(k)
    BY <2>3 DEF OneHour, accountVars
  <2>4. QED
    BY <2>1, <2>2, <2>3 DEF Request
<1>3. KeyType'
  BY <1>1, <1>2 DEF KeyType
<1>4. ASSUME NEW h \in Keys PROVE KindInv(h)'
  <2>1. Cached(h)' => Cached(h) \/ RowsKey(h)
    BY <1>2 DEF Cached, RowsKey
  <2>2. QED
    BY <1>1, <1>2, <2>1 DEF KindInv, Named, RowsKey, LocalsKey
<1>5. KeyInv'
  BY <1>1, <1>2 DEF KeyInv, Named, AcceptedAtCheckout, InMemory
<1>6. QED
  BY <1>1, <1>2, <1>3, <1>4, <1>5 DEF KeysFine
-----------------------------------------------------------------------------
(* The steps of the keys. *)
LEMMA KeyStepsInv ==
  ASSUME IInv, NEW ok \in BOOLEAN,
         \/ AccountStep(ok)
         \/ \E k \in Keys : KeyStep(k, ok) \/ Request(k) \/ OneHour(k)
  PROVE  IInv'
<1>1. CountType /\ NonceType /\ faults \in 0..MaxFaults /\ faults \in Nat
  BY Types, Distinct DEF IInv, CountType
<1>2. ASSUME KeysFine, NEW b \in BOOLEAN, Answers(b),
             UNCHANGED <<role, nonceVars, callVars, account, signVars, crashes>>,
             byWallet' \in {byWallet, "row"}
      PROVE  IInv'
  <2>1. faults' \in 0..MaxFaults /\ faults' >= faults
    BY <1>1, <1>2, AnswersCount
  <2>2. expired' \subseteq 1..issued
    BY <1>1, <1>2 DEF nonceVars, NonceType
  <2>3. QED
    BY <1>2, <2>1, <2>2, AsideKeeps DEF KeysFine, nonceVars
<1>3. ASSUME NEW k \in Keys, NEW i \in Ids, GenerateCredentials(i, k, ok) PROVE IInv'
  BY <1>2, <1>3, GenerateInv DEF GenerateCredentials
<1>4. ASSUME NEW k \in Keys, NEW i \in Ids, CreateApiKey(i, k, ok) PROVE IInv'
  BY <1>2, <1>4, CreateApiKeyInv DEF CreateApiKey, accountVars
<1>5. ASSUME NEW k \in Keys, NEW saved \in BOOLEAN, RevokeApiKey(k, ok, saved)
      PROVE  IInv'
  <2>1. KeysFine
    BY <1>5, RevokeApiKeyInv
  <2>2. (ok /\ saved) \in BOOLEAN /\ Answers(ok /\ saved)
    BY <1>5 DEF RevokeApiKey
  <2>3. /\ UNCHANGED <<role, nonceVars, callVars, account, signVars, crashes>>
        /\ byWallet' \in {byWallet, "row"}
    BY <1>5 DEF RevokeApiKey, accountVars
  <2>4. QED
    BY <1>2, <2>1, <2>2, <2>3
<1>6. ASSUME NEW i \in Ids, RevokePrimary(i, ok) PROVE IInv'
  BY <1>2, <1>6, RevokePrimaryInv DEF RevokePrimary
<1>7. ASSUME ProfileRead(ok) PROVE IInv'
  BY <1>2, <1>7, ProfileReadInv DEF ProfileRead, accountVars
<1>8. ASSUME ProfileWrite(ok) PROVE IInv'
  BY <1>2, <1>8, ProfileWriteInv DEF ProfileWrite
<1>9. ASSUME NEW k \in Keys, Request(k) \/ OneHour(k) PROVE IInv'
  <2>1. /\ KeysFine
        /\ UNCHANGED <<role, nonceVars, callVars, accountVars, signVars, faults,
                       crashes>>
    BY <1>9, CacheInv
  <2>2. TRUE \in BOOLEAN /\ Answers(TRUE)
    BY <2>1 DEF Answers
  <2>3. QED
    BY <1>2, <2>1, <2>2 DEF accountVars
<1>10. QED
  BY <1>3, <1>4, <1>5, <1>6, <1>7, <1>8, <1>9 DEF KeyStep, AccountStep

(* The steps of the nonces. *)
LEMMA NonceStepsInv ==
  ASSUME IInv, NEW c \in Calls, NEW ok \in BOOLEAN,
         \/ NonceStep(c, ok) \/ DropNonce(c, ok)
         \/ \E n \in Nonces : VerifyMerchant(c, n, ok) \/ VerifyConsumer(c, n, ok)
  PROVE  IInv'
<1>1. ASSUME /\ TypeOK' /\ IssueInv' /\ IdentityInv'
             /\ \A n \in Nonces : NonceInv(n)',
             UNCHANGED <<accountVars, keyVars>>, Answers(ok) \/ UNCHANGED faults
      PROVE  IInv'
  <2>1. faults \in Nat /\ faults' \in Nat
    BY <1>1, Distinct DEF IInv, TypeOK
  <2>2. faults' >= faults
    BY <1>1, <2>1, AnswersCount, Types DEF IInv
  <2>3. \A k \in Keys, i \in Ids :
          k = byId'[i] => k = byId[i] \/ (i = "row" /\ k = primaryDb)
    BY <1>1 DEF accountVars
  <2>4. (\A k \in Keys : KindInv(k)') /\ KeyInv'
    BY <1>1, <2>1, <2>2, <2>3, KeysKept
  <2>5. QED
    BY <1>1, <2>4 DEF IInv
<1>2. CASE NonceStart(c, ok)
  BY <1>1, <1>2, NonceStartInv DEF NonceStart
<1>3. CASE NonceFinish(c, ok)
  BY <1>1, <1>3, NonceFinishInv DEF NonceFinish
<1>4. CASE DropNonce(c, ok)
  BY <1>1, <1>4, DropNonceInv DEF DropNonce
<1>5. ASSUME NEW n \in Nonces, VerifyMerchant(c, n, ok) PROVE IInv'
  BY <1>1, <1>5, VerifyInv DEF VerifyMerchant
<1>6. ASSUME NEW n \in Nonces, VerifyConsumer(c, n, ok) PROVE IInv'
  BY <1>1, <1>6, VerifyInv DEF VerifyConsumer
<1>7. QED
  BY <1>2, <1>3, <1>4, <1>5, <1>6 DEF NonceStep

(* A restart forgets the sign-ins and the keys that are only in memory. *)
LEMMA CrashInv ==
  ASSUME IInv, Crash
  PROVE  IInv'
<1>1. /\ TypeOK /\ NonceType /\ CallType /\ AccountType /\ KeyType /\ SignType
      /\ CountType /\ IdentityInv /\ KeyInv
      /\ (\A n \in Nonces : NonceInv(n)) /\ (\A k \in Keys : KindInv(k))
      /\ faults \in Nat /\ crashes \in Nat
  BY Types, Distinct DEF IInv, CountType
<1>2. /\ crashes < MaxCrashes /\ crashes' = crashes + 1
      /\ pc' = [c \in Calls |-> "idle"]
      /\ got' = [c \in Calls |-> None] /\ found' = [c \in Calls |-> None]
      /\ nonceMem' = None /\ byWallet' = None
      /\ byId' = [i \in Ids |-> "absent"] /\ secrets' = [i \in Ids |-> None]
      /\ quick' = {} /\ namedMem' = [k \in Keys |-> "absent"]
      /\ filling' = {} /\ profile' = "absent"
      /\ UNCHANGED <<role, nonceDb, issued, returned, expired, account, primaryDb,
                    namedDb, cache, revoked, held, signVars, faults>>
  BY DEF Crash
<1>3. UNCHANGED <<opened, ids, shared, together>>
  BY <1>2 DEF signVars
<1>4. TypeOK'
  <2>1. NonceType' /\ CallType' /\ PastType'
    BY <1>1, <1>2 DEF NonceType, CallType, PastType, Past
  <2>2. AccountType' /\ SignType'
    BY <1>1, <1>2, <1>3 DEF AccountType, SignType
  <2>3. KeyType'
    BY <1>1, <1>2 DEF KeyType, Marks
  <2>4. CountType'
    BY <1>1, <1>2, Distinct DEF CountType
  <2>5. QED
    BY <1>1, <1>2, <2>1, <2>2, <2>3, <2>4, TypesNext
<1>5. IssueInv'
  BY <1>2 DEF IssueInv
<1>6. ASSUME NEW n \in Nonces PROVE NonceInv(n)'
  <2>1. Opening(n)' = {} /\ Deleting(n)' = {}
    BY <1>2 DEF Opening, Deleting
  <2>2. IsFiniteSet(Opening(n)') /\ Cardinality(Opening(n)') = 0
    BY <2>1, FS_EmptySet
  <2>3. opened[n] \in Nat /\ IsFiniteSet(Opening(n)) /\ Cardinality(Opening(n)) \in Nat
    BY <1>1, FS_CardinalityType DEF NonceInv, SignType
  <2>4. Spent(n)' \in Nat /\ Spent(n)' <= Spent(n)
    <3>1. \A x, y \in Nat : x + 0 \in Nat /\ x + 0 <= x + y
      OBVIOUS
    <3>2. QED
      BY <1>3, <2>2, <2>3, <3>1 DEF Spent
  <2>5. Spares(n)
    BY <1>1, <1>2, <1>3, <2>1, Distinct DEF Spares, Available, InDb, NonceInv
  <2>6. QED
    BY <1>1, <1>2, <2>2, <2>4, <2>5, SparedInv
<1>7. IdentityInv'
  BY <1>1, <1>2, <1>3 DEF IdentityInv, Past
<1>8. \A k, i : i \in Ids => byId'[i] = "absent" /\ secrets'[i] = None
  BY <1>2
<1>9. ASSUME NEW k \in Keys
      PROVE  /\ RowsKey(k)' => RowsKey(k)
             /\ ~LocalsKey(k)'
             /\ Named(k)' => Named(k)
             /\ Cached(k)' => Cached(k)
             /\ AcceptedAtCheckout(k)' => AcceptedAtCheckout(k)
             /\ k \notin quick' /\ k # profile'
  BY <1>2, <1>8, <1>9, Distinct
     DEF RowsKey, LocalsKey, Named, Cached, AcceptedAtCheckout, InMemory, Ids
<1>10. \A k \in Keys : KindInv(k)'
  BY <1>1, <1>9 DEF KindInv
<1>11. KeyInv'
  BY <1>1, <1>2, <1>8, <1>9, Distinct DEF KeyInv, KeyType, Ids
<1>12. QED
  BY <1>4, <1>5, <1>6, <1>7, <1>10, <1>11 DEF IInv

(* Every step keeps the invariant. *)
LEMMA NextIInv == IInv /\ [Next]_vars => IInv'
<1> SUFFICES ASSUME IInv, [Next]_vars PROVE IInv'
  OBVIOUS
<1>1. ASSUME NEW ok \in BOOLEAN, NEW c \in Calls, NonceStep(c, ok) PROVE IInv'
  BY <1>1, NonceStepsInv
<1>2. ASSUME NEW ok \in BOOLEAN, NEW c \in Calls, SignIn(c, ok) PROVE IInv'
  <2>1. \/ DropNonce(c, ok) \/ Ends(c, ok)
        \/ \E n \in Nonces : VerifyMerchant(c, n, ok) \/ VerifyConsumer(c, n, ok)
    BY <1>2 DEF SignIn, Ends
  <2>2. QED
    BY <2>1, NonceStepsInv, EndsInv
<1>3. ASSUME NEW ok \in BOOLEAN, NEW k \in Keys, KeyStep(k, ok) PROVE IInv'
  BY <1>3, KeyStepsInv
<1>4. ASSUME NEW ok \in BOOLEAN, AccountStep(ok) PROVE IInv'
  BY <1>4, KeyStepsInv
<1>5. ASSUME NEW k \in Keys, Request(k) \/ OneHour(k) PROVE IInv'
  <2>1. TRUE \in BOOLEAN
    OBVIOUS
  <2>2. QED
    BY <1>5, <2>1, KeyStepsInv
<1>6. ASSUME NEW n \in Nonces, FiveMinutes(n) PROVE IInv'
  BY <1>6, FiveMinutesInv
<1>7. ASSUME Crash PROVE IInv'
  BY <1>7, CrashInv
<1>8. ASSUME UNCHANGED vars PROVE IInv'
  <2>1. /\ UNCHANGED <<role, nonceVars, callVars, accountVars, keyVars, signVars,
                      faults, crashes>>
    BY <1>8 DEF vars
  <2>2. KeyType' /\ (\A k \in Keys : KindInv(k)') /\ KeyInv'
    BY <2>1, KeysKept, KeyFacts DEF accountVars
  <2>3. QED
    BY <2>1, <2>2, AsideKeeps, Types
       DEF IInv, nonceVars, accountVars, NonceType, AccountType, CountType
<1>9. QED
  BY <1>1, <1>2, <1>3, <1>4, <1>5, <1>6, <1>7, <1>8 DEF Next

(* Every reachable state satisfies the inductive invariant. *)
THEOREM Invariance == Spec => []IInv
BY InitIInv, NextIInv, PTL DEF Spec

(* The database, the maps of the process and the requests under way always *)
(* hold what they may hold; in particular a sign-in that was verified has  *)
(* a nonce that was handed out.                                            *)
THEOREM TypeCorrect == Spec => []TypeOK
<1>1. IInv => TypeOK
  BY DEF IInv
<1>2. QED
  BY <1>1, Invariance, PTL

(* A nonce (memoryNonces, nonceCache and the nonce table) opens one        *)
(* session, and one more for each database call that failed, unless it was *)
(* read again before the sign-in that read it first had deleted it.        *)
THEOREM NonceIsSingleUse == Spec => []NonceOpensOnce
<1>1. ASSUME IInv, NEW n \in Nonces \ shared PROVE opened[n] <= 1 + faults
  <2>1. Spent(n) <= 1 + faults /\ IsFiniteSet(Opening(n))
    BY <1>1 DEF IInv, NonceInv
  <2>2. opened[n] \in Nat /\ Cardinality(Opening(n)) \in Nat /\ faults \in Nat
    <3>1. SignType /\ faults \in Nat
      BY <1>1, KeyFacts, Types DEF IInv
    <3>2. Cardinality(Opening(n)) \in Nat
      BY <2>1, FS_CardinalityType
    <3>3. QED
      BY <3>1, <3>2 DEF SignType
  <2>3. \A x, y, z \in Nat : x + y <= 1 + z => x <= 1 + z
    OBVIOUS
  <2>4. QED
    BY <2>1, <2>2, <2>3 DEF Spent
<1>2. IInv => NonceOpensOnce
  BY <1>1 DEF NonceOpensOnce
<1>3. QED
  BY <1>2, Invariance, PTL

(* verifyAndLogin, signup and the customer's sign-in give a wallet one     *)
(* account's id as long as no database call failed and no two of them      *)
(* overlapped, whatever the restarts.                                      *)
THEOREM WalletHasOneAccount == Spec => []OneIdentity
<1>1. ASSUME IInv, ids = Ids PROVE faults > 0 \/ together
  <2>1. "local" \in Ids /\ "local" \notin {"row"}
    BY DEF Ids
  <2>2. faults \in Nat
    BY <1>1, KeyFacts
  <2>3. faults # 0 \/ together
    BY <1>1, <2>1 DEF IInv, IdentityInv
  <2>4. QED
    BY <2>2, <2>3
<1>2. IInv => OneIdentity
  BY <1>1 DEF OneIdentity
<1>3. QED
  BY <1>2, Invariance, PTL

(* A named key whose revocation (revokeApiKey) was answered is in none of  *)
(* the stores requireApiKey and createSession look it up in, ever again,   *)
(* as long as no database call failed.                                     *)
THEOREM NamedKeyIsRevoked == Spec => []NamedKeyStaysRevoked
<1>1. ASSUME IInv, NEW k \in revoked, Named(k), Accepted(k) \/ AcceptedAtCheckout(k)
      PROVE  faults > 0
  <2>1. k \in Keys /\ faults \in Nat
    BY <1>1, KeyFacts DEF KeyType
  <2>2. k \notin cache
    BY <1>1, <2>1 DEF IInv, KindInv, Cached
  <2>3. AcceptedAtCheckout(k)
    BY <1>1, <2>2 DEF Accepted, AcceptedAtCheckout
  <2>4. faults # 0
    BY <1>1, <2>3 DEF IInv, KeyInv
  <2>5. QED
    BY <2>1, <2>4
<1>2. IInv => NamedKeyStaysRevoked
  BY <1>1 DEF NamedKeyStaysRevoked, Named
<1>3. QED
  BY <1>2, Invariance, PTL

(* The same of the primary key, which only requireApiKey's cache may still *)
(* know and only a profile update that had read it before may put back.    *)
THEOREM PrimaryKeyIsRevoked == Spec => []PrimaryKeyStaysRevoked
<1>1. ASSUME IInv, NEW k \in revoked \ held, AcceptedAtCheckout(k) PROVE faults > 0
  <2>1. faults \in Nat /\ faults # 0
    BY <1>1, KeyFacts DEF KeyInv
  <2>2. QED
    BY <2>1
<1>2. \A k : Accepted(k) <=> k \in cache \/ AcceptedAtCheckout(k)
  BY DEF Accepted, AcceptedAtCheckout
<1>3. IInv => PrimaryKeyStaysRevoked
  BY <1>1, <1>2 DEF PrimaryKeyStaysRevoked
<1>4. QED
  BY <1>3, Invariance, PTL
=============================================================================
