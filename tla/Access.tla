------------------------------- MODULE Access -------------------------------
(***************************************************************************)
(* How a wallet signs in and how a merchant's API keys are made, checked   *)
(* and revoked.  Everything is kept twice: in the database and in maps of  *)
(* the process that stand in for it, so a nonce, an account or a key has   *)
(* to be changed in both, at each side of an await, and every database     *)
(* call may fail and be passed over.                                       *)
(*                                                                         *)
(* One wallet, a merchant's or a customer's.  One action is a database     *)
(* call and what the handler does with its answer up to the next await.    *)
(* Keys stand for their hashes.  Sessions are left out: requireAuth serves *)
(* a signed token whether or not it finds the session, so a session row    *)
(* changes no answer.  A nonce's signature is its number.                  *)
(***************************************************************************)
EXTENDS Naturals, FiniteSets

CONSTANTS
  Calls,      \* concurrent requests for a nonce or to sign in
  Keys,       \* API keys that may be made
  None,
  MaxNonces,  \* nonces the wallet asks for
  MaxFaults,  \* database calls that fail
  MaxCrashes  \* how often the server process may die

Nonces == 1..MaxNonces
Ids == {"row", "local"}  \* the account's id: its row's, or one made up

ASSUME AccessAssumption ==
  /\ {None, "absent"} \cap Keys = {} /\ None # "absent"
  /\ None \notin Nonces /\ None \notin Ids
  /\ \A r \in [id : Nonces, nonce : Nonces] : r # None
  /\ MaxNonces \in Nat \ {0} /\ MaxFaults \in Nat /\ MaxCrashes \in Nat

VARIABLES
  role,       \* whose wallet this is
  nonceDb,    \* the wallet's nonce row
  nonceMem,   \* memoryNonces, or nonceCache for a customer
  issued, returned, expired,  \* nonces made, handed out, and too old
  pc, got,    \* where each call is, and the nonce it is about
  found,      \* the row its nonce was read from
  account,    \* is the wallet in the merchant (or user) table?
  byWallet,   \* memoryMerchants[wallet], memoryUsers: an id
  byId,       \* memoryMerchants[id]: its apiKeyHash
  primaryDb,  \* merchant.apiKeyHash
  secrets,    \* memorySecrets[id].apiKeyHash
  quick,      \* apiKeyToMerchantMap
  namedDb, namedMem,  \* ApiKey rows, memoryApiKeys
  cache, filling,     \* the hour-long cache of keys, and writes on their way
  profile,    \* the merchant updateProfile has read
  opened,     \* how often each nonce has signed in
  ids,        \* the ids sign-ins were given
  revoked,    \* keys whose revocation was answered
  held,       \* those a profile update had just read
  shared,     \* nonces read while another call had them
  together,   \* have two sign-ins ever overlapped?
  faults, crashes

nonceVars == <<nonceDb, nonceMem, issued, returned, expired>>
callVars == <<pc, got, found>>
accountVars == <<account, byWallet, byId>>
keyVars == <<primaryDb, secrets, quick, namedDb, namedMem, cache, filling,
             profile, revoked, held>>
signVars == <<opened, ids, shared, together>>
vars == <<role, nonceVars, callVars, accountVars, keyVars, signVars, faults,
          crashes>>

Past == {"delete", "find", "create"}  \* the steps after verification
Row == [id : Nonces, nonce : Nonces]
Marks == {"absent", "live", "revoked"}

TypeOK ==
  /\ role \in {"merchant", "consumer"}
  /\ nonceDb \in Row \cup {None} /\ nonceMem \in Nonces \cup {None}
  /\ issued \in 0..MaxNonces
  /\ returned \subseteq 1..issued /\ expired \subseteq 1..issued
  /\ pc \in [Calls -> {"idle", "issue", "discard", "delete", "find", "create"}]
  /\ got \in [Calls -> Nonces \cup {None}]
  /\ \A c \in Calls : pc[c] \in Past => got[c] \in returned
  /\ found \in [Calls -> Nonces \cup {None}]
  /\ account \in BOOLEAN /\ byWallet \in Ids \cup {None}
  /\ byId \in [Ids -> Keys \cup {None, "absent"}]
  /\ primaryDb \in Keys \cup {None} /\ secrets \in [Ids -> Keys \cup {None}]
  /\ quick \subseteq Keys
  /\ namedDb \in [Keys -> Marks] /\ namedMem \in [Keys -> Marks]
  /\ cache \subseteq Keys /\ filling \subseteq Keys
  /\ profile \in Keys \cup {None, "absent"}
  /\ opened \in [Nonces -> Nat] /\ ids \subseteq Ids
  /\ revoked \subseteq Keys /\ held \subseteq revoked
  /\ shared \subseteq Nonces /\ together \in BOOLEAN
  /\ faults \in 0..MaxFaults /\ crashes \in 0..MaxCrashes

Init ==
  /\ role \in {"merchant", "consumer"}
  /\ nonceDb = None /\ nonceMem = None
  /\ issued = 0 /\ returned = {} /\ expired = {}
  /\ pc = [c \in Calls |-> "idle"]
  /\ got = [c \in Calls |-> None] /\ found = [c \in Calls |-> None]
  /\ account \in BOOLEAN
  /\ byWallet = None /\ byId = [i \in Ids |-> "absent"]
  /\ primaryDb = None /\ secrets = [i \in Ids |-> None]
  /\ quick = {} /\ cache = {} /\ filling = {} /\ profile = "absent"
  /\ namedDb = [k \in Keys |-> "absent"] /\ namedMem = [k \in Keys |-> "absent"]
  /\ opened = [n \in Nonces |-> 0] /\ ids = {}
  /\ revoked = {} /\ held = {} /\ shared = {} /\ together = FALSE
  /\ faults = 0 /\ crashes = 0
-----------------------------------------------------------------------------
Merchant == role = "merchant"
Goes(c, from, to) == pc[c] = from /\ pc' = [pc EXCEPT ![c] = to]

(* A database call that fails is logged and passed over. *)
Answers(ok) ==
  /\ ok \/ faults < MaxFaults
  /\ faults' = IF ok THEN faults ELSE faults + 1

(* prisma.nonce.upsert keeps the row, and its id, of an older nonce. *)
Upserted(ok, n) ==
  IF ~ok THEN nonceDb
  ELSE [id |-> IF nonceDb = None THEN n ELSE nonceDb.id, nonce |-> n]

(* createNonce writes the database first, storeConsumerNonce its cache. *)
NonceStart(c, ok) ==
  LET n == issued + 1
  IN /\ issued < MaxNonces
     /\ Goes(c, "idle", "issue")
     /\ got' = [got EXCEPT ![c] = n]
     /\ issued' = n
     /\ \/ Merchant /\ Answers(ok) /\ nonceDb' = Upserted(ok, n)
           /\ UNCHANGED nonceMem
        \/ ~Merchant /\ ok /\ nonceMem' = n /\ UNCHANGED <<nonceDb, faults>>
     /\ UNCHANGED <<role, returned, expired, found, accountVars, keyVars,
                    signVars, crashes>>

NonceFinish(c, ok) ==
  /\ Goes(c, "issue", "idle")
  /\ returned' = returned \cup {got[c]}
  /\ \/ Merchant /\ ok /\ nonceMem' = got[c] /\ UNCHANGED <<nonceDb, faults>>
     \/ ~Merchant /\ Answers(ok) /\ nonceDb' = Upserted(ok, got[c])
        /\ UNCHANGED nonceMem
  /\ UNCHANGED <<role, issued, expired, got, found, accountVars, keyVars,
                 signVars, crashes>>

FiveMinutes(n) ==
  /\ n \in returned \ expired
  /\ expired' = expired \cup {n}
  /\ UNCHANGED <<role, nonceDb, nonceMem, issued, returned, callVars,
                 accountVars, keyVars, signVars, faults, crashes>>
-----------------------------------------------------------------------------
(* A sign-in presents the signature of a nonce it was handed. *)
Noticed(c, n) ==
  /\ shared' = IF \E d \in Calls \ {c} : pc[d] = "delete" /\ got[d] = n
               THEN shared \cup {n} ELSE shared
  /\ together' = (together \/ \E d \in Calls \ {c} : pc[d] \in Past)

BugJudge(c, n, signed) ==
  /\ got' = [got EXCEPT ![c] = n]
  /\ \/ n \in expired /\ Goes(c, "idle", "discard")
     \/ n \notin expired /\ Goes(c, "idle", "delete")

(* What is done with the nonce that was read, n: it is too old, it is the  *)
(* one that was signed, or the sign-in is refused.                         *)
Judge(c, n, signed) ==
  /\ got' = [got EXCEPT ![c] = n]
  /\ \/ n \in expired /\ Goes(c, "idle", "discard")
     \/ n \notin expired /\ n = signed /\ Goes(c, "idle", "delete")
     \/ n \notin expired /\ n # signed /\ Goes(c, "idle", "idle")

(* verifyAndLogin, signup: the database's nonce, or else the memory's. *)
VerifyMerchant(c, signed, ok) ==
  LET row == ok /\ nonceDb # None
      n == IF row THEN nonceDb.nonce ELSE nonceMem
  IN /\ Merchant /\ signed \in returned
     /\ Answers(ok) /\ n # None
     /\ Judge(c, n, signed) /\ Noticed(c, n)
     /\ found' = [found EXCEPT ![c] = IF row THEN nonceDb.id ELSE None]
     /\ UNCHANGED <<role, nonceVars, accountVars, keyVars, opened, ids,
                    crashes>>

(* getConsumerNonce: the cache's nonce, or else the database's, which goes *)
(* back into the cache; deleteConsumerNonce clears the cache first.        *)
VerifyConsumer(c, signed, ok) ==
  LET cached == nonceMem # None
      n == IF cached THEN nonceMem ELSE nonceDb.nonce
  IN /\ ~Merchant /\ signed \in returned
     /\ IF cached THEN ok /\ UNCHANGED faults
                  ELSE ok /\ Answers(ok) /\ nonceDb # None
     /\ Judge(c, n, signed) /\ Noticed(c, n)
     /\ nonceMem' = IF n \in expired \/ n = signed THEN None ELSE n
     /\ UNCHANGED <<role, nonceDb, issued, returned, expired, found,
                    accountVars, keyVars, opened, ids, crashes>>

BugDropNonce(c, ok) ==
  /\ \/ Goes(c, "delete", "find") \/ Goes(c, "discard", "idle")
  /\ Answers(ok)
  /\ nonceDb' = IF ok THEN None ELSE nonceDb
  /\ UNCHANGED <<role, nonceMem, issued, returned, expired, got, found,
                 accountVars, keyVars, signVars, crashes>>

(* The used or expired nonce is deleted: a merchant's row by its id and    *)
(* only if it was read, a customer's whatever it holds by now.             *)
DropNonce(c, ok) ==
  LET gone == nonceDb # None /\ (Merchant => nonceDb.id = found[c])
  IN /\ \/ Goes(c, "delete", "find") \/ Goes(c, "discard", "idle")
     /\ Answers(ok)
     /\ nonceDb' = IF ok /\ gone THEN None ELSE nonceDb
     /\ nonceMem' = IF Merchant THEN None ELSE nonceMem
     /\ UNCHANGED <<role, issued, returned, expired, got, found, accountVars,
                    keyVars, signVars, crashes>>
-----------------------------------------------------------------------------
(* The token names the account. *)
SignsIn(c, id) ==
  /\ opened' = [opened EXCEPT ![got[c]] = @ + 1]
  /\ ids' = ids \cup {id}

BugLoginFind(c, ok) ==
  /\ Merchant /\ Answers(ok)
  /\ Goes(c, "find", "create")
  /\ UNCHANGED <<role, nonceVars, got, found, accountVars, keyVars, signVars,
                 crashes>>

LoginFind(c, ok) ==
  /\ Merchant /\ Answers(ok)
  /\ \/ /\ ok /\ account
        /\ Goes(c, "find", "idle") /\ SignsIn(c, "row")
        /\ byWallet' = "row"
        /\ byId' = [byId EXCEPT !["row"] = primaryDb]
     \/ /\ ~(ok /\ account) /\ byWallet # None
        /\ Goes(c, "find", "idle") /\ SignsIn(c, byWallet)
        /\ UNCHANGED <<byWallet, byId>>
     \/ /\ ~(ok /\ account) /\ byWallet = None
        /\ Goes(c, "find", "create")
        /\ UNCHANGED <<byWallet, byId, opened, ids>>
  /\ UNCHANGED <<role, nonceVars, got, found, account, keyVars, shared,
                 together, crashes>>

(* signup turns a wallet that has an account away. *)
SignupFind(c, ok) ==
  /\ Merchant /\ Answers(ok)
  /\ Goes(c, "find",
          IF (ok /\ account) \/ byWallet # None THEN "idle" ELSE "create")
  /\ UNCHANGED <<role, nonceVars, got, found, accountVars, keyVars, signVars,
                 crashes>>

(* The wallet is unique in the table: a second insert fails, and the       *)
(* account with the made-up id takes its place.                            *)
Create(c, ok) ==
  LET id == IF ok /\ ~account THEN "row" ELSE "local"
  IN /\ Goes(c, "create", "idle") /\ Answers(ok) /\ SignsIn(c, id)
     /\ account' = (account \/ ok)
     /\ byWallet' = id
     /\ byId' = [byId EXCEPT ![id] = None]
     /\ UNCHANGED <<role, nonceVars, got, found, keyVars, shared, together,
                    crashes>>

ConsumerFind(c, ok) ==
  LET id == IF ok THEN "row" ELSE IF byWallet = None THEN "local" ELSE byWallet
  IN /\ ~Merchant /\ Answers(ok)
     /\ Goes(c, "find", "idle") /\ SignsIn(c, id)
     /\ account' = (account \/ ok)
     /\ byWallet' = IF byWallet = None THEN id ELSE byWallet
     /\ UNCHANGED <<role, nonceVars, got, found, byId, keyVars, shared,
                    together, crashes>>
-----------------------------------------------------------------------------
(* API keys of an account that has signed in.  A key that was never made   *)
(* is in no store; revocation is remembered from the answer on.            *)
Unused == {k \in Keys : /\ namedDb[k] = "absent" /\ namedMem[k] = "absent"
                        /\ k \notin quick \cup cache \cup filling \cup revoked
                        /\ k # primaryDb /\ k # profile
                        /\ \A i \in Ids : k # secrets[i] /\ k # byId[i]}
Owner(i) == Merchant /\ i \in ids
Known(i) == byId[i] # "absent"
Hash(i, k) == IF Known(i) THEN [byId EXCEPT ![i] = k] ELSE byId

(* The account's one primary key: rollApiKey is generateCredentials again, *)
(* and the key it replaces stays in the quick map and in the cache.        *)
GenerateCredentials(i, k, ok) ==
  /\ Owner(i) /\ k \in Unused /\ Answers(ok)
  /\ primaryDb' = IF ok /\ i = "row" THEN k ELSE primaryDb
  /\ secrets' = [secrets EXCEPT ![i] = k]
  /\ quick' = quick \cup {k}
  /\ byId' = Hash(i, k)
  /\ UNCHANGED <<role, nonceVars, callVars, account, byWallet, namedDb,
                 namedMem, cache, filling, profile, revoked, held, signVars,
                 crashes>>

(* The primary key a merchant is shown (getApiKeyInfo). *)
Current(i) == IF i = "row" /\ primaryDb # None THEN primaryDb ELSE secrets[i]

Revokes(k) ==
  /\ revoked' = revoked \cup ({k} \ {None})
  /\ held' = IF k # None /\ profile = k THEN held \cup {k} ELSE held

BugRevokePrimary(i, ok) ==
  /\ Owner(i) /\ Answers(ok)
  /\ primaryDb' = IF ok /\ i = "row" THEN None ELSE primaryDb
  /\ quick' = quick \ {secrets[i]}
  /\ secrets' = [secrets EXCEPT ![i] = None]
  /\ Revokes(Current(i))
  /\ UNCHANGED <<role, nonceVars, callVars, account, byWallet, byId, namedDb,
                 namedMem, cache, filling, profile, signVars, crashes>>

RevokePrimary(i, ok) ==
  /\ Owner(i) /\ Answers(ok)
  /\ primaryDb' = IF ok /\ i = "row" THEN None ELSE primaryDb
  /\ quick' = quick \ {secrets[i], byId[i]}
  /\ secrets' = [secrets EXCEPT ![i] = None]
  /\ byId' = Hash(i, None)
  /\ Revokes(Current(i))
  /\ UNCHANGED <<role, nonceVars, callVars, account, byWallet, namedDb,
                 namedMem, cache, filling, profile, signVars, crashes>>

(* Named keys: the row of an account that has no row cannot be inserted. *)
CreateApiKey(i, k, ok) ==
  /\ Owner(i) /\ k \in Unused /\ Answers(ok)
  /\ namedDb' = IF ok /\ i = "row" THEN [namedDb EXCEPT ![k] = "live"]
                ELSE namedDb
  /\ namedMem' = [namedMem EXCEPT ![k] = "live"]
  /\ quick' = quick \cup {k}
  /\ UNCHANGED <<role, nonceVars, callVars, accountVars, primaryDb, secrets,
                 cache, filling, profile, revoked, held, signVars, crashes>>

Struck(marks, k) ==
  IF marks[k] = "absent" THEN marks ELSE [marks EXCEPT ![k] = "revoked"]

BugRevokeApiKey(k, looked, saved) ==
  /\ Merchant /\ (looked \/ saved) /\ Answers(looked /\ saved)
  /\ namedDb[k] = "live"
  /\ namedDb' = IF saved THEN Struck(namedDb, k) ELSE namedDb
  /\ namedMem' = Struck(namedMem, k)
  /\ Revokes(k)
  /\ UNCHANGED <<role, nonceVars, callVars, accountVars, primaryDb, secrets,
                 quick, cache, filling, profile, signVars, crashes>>

(* revokeApiKey finds the key in the database or else in memory; one of    *)
(* its two database calls may fail.                                        *)
RevokeApiKey(k, looked, saved) ==
  LET row == looked /\ namedDb[k] # "absent"
      mark == IF row THEN namedDb[k] ELSE namedMem[k]
  IN /\ Merchant /\ (looked \/ saved) /\ Answers(looked /\ saved)
     /\ mark = "live"
     /\ namedDb' = IF saved THEN Struck(namedDb, k) ELSE namedDb
     /\ namedMem' = Struck(namedMem, k)
     /\ quick' = IF namedMem[k] = "absent" THEN quick ELSE quick \ {k}
     /\ Revokes(k)
     /\ UNCHANGED <<role, nonceVars, callVars, accountVars, primaryDb,
                    secrets, cache, filling, profile, signVars, crashes>>

(* updateProfile puts the merchant it read back into memory, with the key  *)
(* it had then.  A profile that neither store knows is left out.           *)
ProfileRead(ok) ==
  /\ Owner("row") /\ profile = "absent" /\ Answers(ok)
  /\ ok \/ Known("row")
  /\ profile' = IF ok THEN primaryDb ELSE byId["row"]
  /\ UNCHANGED <<role, nonceVars, callVars, accountVars, primaryDb, secrets,
                 quick, namedDb, namedMem, cache, filling, revoked, held,
                 signVars, crashes>>

ProfileWrite(ok) ==
  /\ profile # "absent" /\ Answers(ok)
  /\ byId' = [byId EXCEPT !["row"] = profile]
  /\ byWallet' = "row"
  /\ profile' = "absent"
  /\ UNCHANGED <<role, nonceVars, callVars, account, primaryDb, secrets,
                 quick, namedDb, namedMem, cache, filling, revoked, held,
                 signVars, crashes>>
-----------------------------------------------------------------------------
(* requireApiKey: where a key is looked for while the database answers. *)
InMemory(k) == \/ k \in quick \/ namedMem[k] = "live"
               \/ \E i \in Ids : k \in {byId[i], secrets[i]}
Accepted(k) ==
  k \in cache \/ k = primaryDb \/ namedDb[k] = "live" \/ InMemory(k)

(* createSession, which makes a checkout session, looks for the key by     *)
(* itself: in the same places, but never in the cache.                     *)
AcceptedAtCheckout(k) == k = primaryDb \/ namedDb[k] = "live" \/ InMemory(k)

(* Only a primary key found in the database is put into the cache, by a    *)
(* call of its own.                                                        *)
RequestLookup(k) ==
  /\ k = primaryDb /\ k \notin cache \cup filling
  /\ filling' = filling \cup {k}
  /\ UNCHANGED <<role, nonceVars, callVars, accountVars, primaryDb, secrets,
                 quick, namedDb, namedMem, cache, profile, revoked, held,
                 signVars, faults, crashes>>

RequestCache(k) ==
  /\ k \in filling
  /\ filling' = filling \ {k} /\ cache' = cache \cup {k}
  /\ UNCHANGED <<role, nonceVars, callVars, accountVars, primaryDb, secrets,
                 quick, namedDb, namedMem, profile, revoked, held, signVars,
                 faults, crashes>>

OneHour(k) ==
  /\ k \in cache
  /\ cache' = cache \ {k}
  /\ UNCHANGED <<role, nonceVars, callVars, accountVars, primaryDb, secrets,
                 quick, namedDb, namedMem, filling, profile, revoked, held,
                 signVars, faults, crashes>>

(* The maps go with the process; the database and Redis stay. *)
Crash ==
  /\ crashes < MaxCrashes
  /\ crashes' = crashes + 1
  /\ pc' = [c \in Calls |-> "idle"]
  /\ got' = [c \in Calls |-> None] /\ found' = [c \in Calls |-> None]
  /\ nonceMem' = None
  /\ byWallet' = None /\ byId' = [i \in Ids |-> "absent"]
  /\ secrets' = [i \in Ids |-> None] /\ quick' = {}
  /\ namedMem' = [k \in Keys |-> "absent"]
  /\ filling' = {} /\ profile' = "absent"
  /\ UNCHANGED <<role, nonceDb, issued, returned, expired, account, primaryDb,
                 namedDb, cache, revoked, held, signVars, faults>>
-----------------------------------------------------------------------------
NonceStep(c, ok) == NonceStart(c, ok) \/ NonceFinish(c, ok)
SignIn(c, ok) ==
  \/ \E n \in Nonces : VerifyMerchant(c, n, ok) \/ VerifyConsumer(c, n, ok)
  \/ DropNonce(c, ok)
  \/ LoginFind(c, ok) \/ SignupFind(c, ok) \/ Create(c, ok)
  \/ ConsumerFind(c, ok)
KeyStep(k, ok) ==
  \/ \E i \in Ids : GenerateCredentials(i, k, ok) \/ CreateApiKey(i, k, ok)
  \/ \E saved \in BOOLEAN : RevokeApiKey(k, ok, saved)
AccountStep(ok) ==
  \/ \E i \in Ids : RevokePrimary(i, ok)
  \/ ProfileRead(ok) \/ ProfileWrite(ok)
Request(k) == RequestLookup(k) \/ RequestCache(k)

Next ==
  \/ \E ok \in BOOLEAN :
       \/ \E c \in Calls : NonceStep(c, ok) \/ SignIn(c, ok)
       \/ \E k \in Keys : KeyStep(k, ok)
       \/ AccountStep(ok)
  \/ \E k \in Keys : Request(k) \/ OneHour(k)
  \/ \E n \in Nonces : FiveMinutes(n)
  \/ Crash

Spec == Init /\ [][Next]_vars
=============================================================================
