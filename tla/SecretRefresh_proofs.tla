------------------------ MODULE SecretRefresh_proofs ------------------------
(***************************************************************************)
(* Proofs about SecretRefresh for any requests, callbacks and secrets, any *)
(* timeout, lifetime and number of attempts: at most one request refreshes *)
(* a secret, and its refresh token survives.                               *)
(***************************************************************************)
EXTENDS SecretRefresh, FiniteSetTheorems, TLAPS

USE DEF SecretVars

Req == [pc : Progress, id : Secrets, seen : Docs, token : 0 .. MaxTokens, iter : 0 .. MaxRetry]
OAuth == [pc : {"idle", "exchanged", "found", "missing", "done"}, id : Secrets,
          token : 0 .. MaxTokens]

(* A request waits only if it has attempts left.                            *)
TypeInv ==
    /\ SecretTypeOK
    /\ \A r \in Requests : request[r].pc = "waiting" => request[r].iter < MaxRetry

LEMMA SecretInitTypes == SecretInit => TypeInv
<1> SUFFICES ASSUME SecretInit PROVE TypeInv
  OBVIOUS
<1>1. Cardinality(Stored) \in 0 .. MaxTokens
  BY SecretAssumption, FS_CardinalityType
<1>2. PICK first \in [Stored -> 1 .. minted] :
         secret = [s \in Secrets |->
                     IF s \in Stored
                     THEN [exists |-> TRUE, token |-> first[s], expires |-> 1,
                           lockedAt |-> 0, used |-> TRUE]
                     ELSE Absent(FALSE)]
  BY DEF SecretInit
<1>3. secret \in [Secrets -> Docs]
  <2> SUFFICES ASSUME NEW s \in Secrets PROVE secret[s] \in Docs
    BY <1>2
  <2>1. CASE s \in Stored
    <3>1. first[s] \in 0 .. MaxTokens
      BY <1>1, <1>2, <2>1, SecretAssumption DEF SecretInit
    <3>2. 1 \in 0 .. MaxTime + Lifetime /\ 0 \in 0 .. MaxTime
      BY SecretAssumption
    <3> QED
      BY <1>2, <2>1, <3>1, <3>2 DEF Docs
  <2>2. CASE s \notin Stored
    BY <1>2, <2>2, SecretAssumption DEF Docs, Absent
  <2> QED
    BY <2>1, <2>2
<1>4. Absent(FALSE) \in Docs
  BY SecretAssumption DEF Docs, Absent
<1>5. /\ request \in [Requests -> [pc : Progress, id : Secrets, seen : Docs,
                                   token : 0 .. MaxTokens, iter : 0 .. MaxRetry]]
      /\ \A r \in Requests : request[r].pc = "idle"
  <2>1. 0 \in 0 .. MaxTokens /\ 0 \in 0 .. MaxRetry
    BY SecretAssumption
  <2>2. request \in [Requests -> [pc : {"idle"}, id : Secrets, seen : {Absent(FALSE)},
                                  token : {0}, iter : {0}]]
    BY DEF SecretInit
  <2> HIDE DEF Docs, Absent
  <2> QED
    BY <1>4, <2>1, <2>2 DEF Progress
<1>6. oauth \in [Callbacks -> [pc : {"idle", "exchanged", "found", "missing", "done"},
                               id : Secrets, token : 0 .. MaxTokens]]
  BY SecretAssumption DEF SecretInit
<1>7. /\ now \in 1 .. MaxTime /\ minted \in 0 .. MaxTokens /\ valid \subseteq 1 .. MaxTokens
      /\ stolen \subseteq Secrets /\ forgotten \subseteq Secrets
      /\ secretFaults \in 0 .. MaxSecretFaults
  BY <1>1, SecretAssumption DEF SecretInit
<1> QED
  BY <1>3, <1>5, <1>6, <1>7 DEF TypeInv, SecretTypeOK

LEMMA RequestValue ==
    ASSUME TypeInv, NEW r \in Requests
    PROVE  /\ request[r] \in Req /\ request[r].id \in Secrets /\ request[r].seen \in Docs
           /\ request[r].token \in 0 .. MaxTokens /\ request[r].iter \in 0 .. MaxRetry
           /\ request[r].pc \in Progress
           /\ secret[request[r].id] \in Docs /\ secret[request[r].id].token \in 0 .. MaxTokens
  BY DEF TypeInv, SecretTypeOK, Req, Docs

(* A step of a request leaves it with a value q, and the others alone; the   *)
(* lemmas below say what q is for each action, and what becomes of secret.   *)
SecretMoves(r, q) ==
    /\ request' = [request EXCEPT ![r] = q]
    /\ q \in Req /\ q.id = request[r].id
    /\ q.pc = "waiting" => q.iter < MaxRetry

LEMMA Moved ==
    ASSUME TypeInv, NEW r \in Requests, NEW q, SecretMoves(r, q)
    PROVE  /\ request' \in [Requests -> Req]
           /\ \A p \in Requests : request'[p].pc = "waiting" => request'[p].iter < MaxRetry
           /\ request'[r] = q
           /\ \A p \in Requests : p # r => request'[p] = request[p]
  BY DEF TypeInv, SecretTypeOK, Req, SecretMoves

SetSecret(s, d) == d \in Docs /\ secret' = [secret EXCEPT ![s] = d]

LEMMA SecretSet ==
    ASSUME TypeInv, NEW s \in Secrets, NEW d, SetSecret(s, d)
    PROVE  /\ secret' \in [Secrets -> Docs] /\ secret'[s] = d
           /\ \A t \in Secrets : t # s => secret'[t] = secret[t]
  BY DEF TypeInv, SecretTypeOK, SetSecret

LEMMA Times ==
    ASSUME TypeInv
    PROVE  /\ now \in 0 .. MaxTime /\ now # 0 /\ 0 \in 0 .. MaxTime
           /\ now + Lifetime \in 0 .. MaxTime + Lifetime
  BY SecretAssumption DEF TypeInv, SecretTypeOK

(* Steps that change the progress alone.                                    *)
LEMMA GotoMoves ==
    ASSUME TypeInv, NEW r \in Requests, NEW pc \in Progress \ {"waiting"}, Goto(r, pc)
    PROVE  SecretMoves(r, [request[r] EXCEPT !.pc = pc])
<1>1. request' = [request EXCEPT ![r] = [request[r] EXCEPT !.pc = pc]]
  BY DEF Goto, TypeInv, SecretTypeOK
<1> QED
  BY <1>1, RequestValue DEF SecretMoves, Req

LEMMA LaterMoves ==
    ASSUME TypeInv, NEW r \in Requests, request' = [request EXCEPT ![r] = Later(request[r])]
    PROVE  SecretMoves(r, Later(request[r])) /\ Later(request[r]).pc \in {"waiting", "rejected"}
  BY RequestValue DEF SecretMoves, Req, Later, Progress

LEMMA GetMoves ==
    ASSUME TypeInv, NEW r \in Requests, Get(r)
    PROVE  SecretMoves(r, [request[r] EXCEPT !.pc = "read", !.seen = secret[request[r].id]])
<1>1. request' = [request EXCEPT ![r] = [request[r] EXCEPT !.pc = "read", !.seen = secret[request[r].id]]]
  BY DEF Get, TypeInv, SecretTypeOK
<1> QED
  BY <1>1, RequestValue DEF SecretMoves, Req, Progress

LEMMA ReturnStoredMoves ==
    ASSUME TypeInv, NEW r \in Requests, ReturnStored(r)
    PROVE  SecretMoves(r, [request[r] EXCEPT !.pc = "answered", !.token = request[r].seen.token])
<1>1. request' = [request EXCEPT ![r] = [request[r] EXCEPT !.pc = "answered",
                                                        !.token = request[r].seen.token]]
  BY DEF ReturnStored, TypeInv, SecretTypeOK
<1>2. request[r].seen.token \in 0 .. MaxTokens
  BY RequestValue DEF Docs
<1> QED
  BY <1>1, <1>2, RequestValue DEF SecretMoves, Req, Progress

LEMMA AcquireMoves ==
    ASSUME TypeInv, NEW r \in Requests, Acquire(r)
    PROVE  LET doc == secret[request[r].id] IN
           \/ /\ Lockable(doc)
              /\ \E pc \in {"calling", "fresh"} :
                    SecretMoves(r, [request[r] EXCEPT !.pc = pc, !.token = doc.token])
              /\ SetSecret(request[r].id, [doc EXCEPT !.lockedAt = now])
           \/ /\ SecretMoves(r, Later(request[r])) /\ Later(request[r]).pc \in {"waiting", "rejected"}
              /\ secret' = secret
<1> DEFINE doc == secret[request[r].id]
           pc == IF ShouldRefreshToken(doc) THEN "calling" ELSE "fresh"
<1>1. [request[r] EXCEPT !.pc = pc, !.token = doc.token] \in Req
  BY RequestValue DEF Req, Progress
<1>2. [doc EXCEPT !.lockedAt = now] \in Docs
  BY RequestValue, Times DEF Docs
<1>3. CASE Lockable(doc)
  <2>1. request' = [request EXCEPT ![r] = [request[r] EXCEPT !.pc = pc, !.token = doc.token]]
    BY <1>3 DEF Acquire, TypeInv, SecretTypeOK
  <2>2. secret' = [secret EXCEPT ![request[r].id] = [doc EXCEPT !.lockedAt = now]]
    BY <1>3 DEF Acquire
  <2> QED
    BY <1>1, <1>2, <1>3, <2>1, <2>2, RequestValue DEF SecretMoves, SetSecret, Req
<1>4. CASE ~Lockable(doc)
  BY <1>4, LaterMoves DEF Acquire
<1> QED
  BY <1>3, <1>4

(* An update that finds the document unlocked takes the first way.          *)
LEMMA AcquireTakes ==
    ASSUME TypeInv, NEW r \in Requests, Acquire(r), Lockable(secret[request[r].id])
    PROVE  LET doc == secret[request[r].id] IN
           /\ \E pc \in {"calling", "fresh"} :
                 SecretMoves(r, [request[r] EXCEPT !.pc = pc, !.token = doc.token])
           /\ SetSecret(request[r].id, [doc EXCEPT !.lockedAt = now])
<1>1. secret'[request[r].id].lockedAt = now
  BY RequestValue DEF Acquire, TypeInv, SecretTypeOK, Docs
<1>2. secret' # secret
  BY <1>1, Times DEF Lockable, Locked
<1> QED
  BY <1>2, AcquireMoves

LEMMA TakeOverMoves ==
    ASSUME TypeInv, NEW r \in Requests, TakeOver(r)
    PROVE  LET doc == secret[request[r].id] IN
           \/ /\ doc.exists
              /\ SecretMoves(r, [request[r] EXCEPT !.seen = [request[r].seen EXCEPT !.lockedAt = 0]])
              /\ SetSecret(request[r].id, [doc EXCEPT !.lockedAt = 0])
           \/ /\ SecretMoves(r, [request[r] EXCEPT !.pc = "rejected"]) /\ secret' = secret
              /\ stolen' = stolen
<1> DEFINE doc == secret[request[r].id]
           seen == [request[r].seen EXCEPT !.lockedAt = 0]
<1>1. seen \in Docs /\ [doc EXCEPT !.lockedAt = 0] \in Docs
  BY RequestValue, Times DEF Docs
<1>2. [request[r] EXCEPT !.seen = seen] \in Req /\ [request[r] EXCEPT !.seen = seen].id = request[r].id
  BY <1>1, RequestValue DEF Req
<1>3. CASE doc.exists
  <2>1. request' = [request EXCEPT ![r] = [request[r] EXCEPT !.seen = seen]]
    BY <1>3 DEF TakeOver, TypeInv, SecretTypeOK
  <2>2. secret' = [secret EXCEPT ![request[r].id] = [doc EXCEPT !.lockedAt = 0]]
    BY <1>3 DEF TakeOver
  <2>3. [request[r] EXCEPT !.seen = seen].pc = "read"
    BY RequestValue DEF TakeOver, Req
  <2> QED
    BY <1>1, <1>2, <1>3, <2>1, <2>2, <2>3 DEF SecretMoves, SetSecret
<1>4. CASE ~doc.exists
  BY <1>4, GotoMoves DEF TakeOver, Progress
<1> QED
  BY <1>3, <1>4

LEMMA RetryMoves ==
    ASSUME TypeInv, NEW r \in Requests, Retry(r)
    PROVE  \/ SecretMoves(r, [request[r] EXCEPT !.pc = "read", !.seen = secret[request[r].id],
                                          !.iter = request[r].iter + 1])
           \/ SecretMoves(r, [request[r] EXCEPT !.pc = "rejected"])
<1> DEFINE q == [request[r] EXCEPT !.pc = "read", !.seen = secret[request[r].id],
                                   !.iter = request[r].iter + 1]
<1>1. request[r].iter + 1 \in 0 .. MaxRetry
  BY RequestValue, SecretAssumption DEF Retry, TypeInv
<1>2. q \in Req /\ q.id = request[r].id /\ q.pc = "read"
  BY <1>1, RequestValue DEF Req, Progress
<1>3. CASE secret[request[r].id].exists
  <2>1. request' = [request EXCEPT ![r] = q]
    BY <1>3 DEF Retry, NextIter, TypeInv, SecretTypeOK
  <2> QED
    BY <1>2, <2>1 DEF SecretMoves
<1>4. CASE ~secret[request[r].id].exists
  BY <1>4, GotoMoves DEF Retry, Progress
<1> QED
  BY <1>3, <1>4

LEMMA GrantMoves ==
    ASSUME TypeInv, NEW r \in Requests, Grant(r)
    PROVE  /\ SecretMoves(r, [request[r] EXCEPT !.pc = "granted", !.token = minted + 1])
           /\ minted + 1 \in 1 .. MaxTokens
<1>1. minted + 1 \in 1 .. MaxTokens /\ minted + 1 \in 0 .. MaxTokens
  BY SecretAssumption DEF Grant, TypeInv, SecretTypeOK
<1>2. request' = [request EXCEPT ![r] = [request[r] EXCEPT !.pc = "granted", !.token = minted + 1]]
  BY DEF Grant, TypeInv, SecretTypeOK
<1> QED
  BY <1>1, <1>2, RequestValue DEF SecretMoves, Req, Progress

LEMMA SaveGrantedMoves ==
    ASSUME TypeInv, NEW r \in Requests, SaveGranted(r)
    PROVE  LET doc == secret[request[r].id] IN
           \/ /\ doc.exists
              /\ SecretMoves(r, [request[r] EXCEPT !.pc = "answered"])
              /\ SetSecret(request[r].id, StoreGranted(doc, request[r].token))
           \/ SecretMoves(r, [request[r] EXCEPT !.pc = "rejected"]) /\ secret' = secret
<1> DEFINE doc == secret[request[r].id]
<1>1. StoreGranted(doc, request[r].token) \in Docs
  BY RequestValue, Times DEF StoreGranted, Docs
<1> QED
  BY <1>1, GotoMoves DEF SaveGranted, SetSecret, Progress

LEMMA UnlockMoves ==
    ASSUME TypeInv, NEW r \in Requests, SaveRefusal(r) \/ SaveUnrefreshed(r)
    PROVE  /\ \E pc \in {"answered", "rejected"} : SecretMoves(r, [request[r] EXCEPT !.pc = pc])
           /\ SetSecret(request[r].id, [secret[request[r].id] EXCEPT !.lockedAt = 0])
<1>1. [secret[request[r].id] EXCEPT !.lockedAt = 0] \in Docs
  BY RequestValue, Times DEF Docs
<1>2. secret' = [secret EXCEPT ![request[r].id] = [secret[request[r].id] EXCEPT !.lockedAt = 0]]
  BY DEF SaveRefusal, SaveUnrefreshed
<1>3. \E pc \in {"answered", "rejected"} : Goto(r, pc)
  BY DEF SaveRefusal, SaveUnrefreshed
<1>4. \E pc \in {"answered", "rejected"} : SecretMoves(r, [request[r] EXCEPT !.pc = pc])
  BY <1>3, GotoMoves DEF Progress
<1> QED
  BY <1>1, <1>2, <1>4 DEF SetSecret

LEMMA EndMoves ==
    ASSUME TypeInv, NEW r \in Requests, Refuse(r) \/ CallFails(r) \/ RequestDies(r)
    PROVE  \E pc \in {"refused", "rejected"} : SecretMoves(r, [request[r] EXCEPT !.pc = pc])
  BY GotoMoves DEF Refuse, CallFails, RequestDies, Progress

(* The types of what a step leaves alone.                                   *)
LEMMA RequestTypes ==
    ASSUME TypeInv, NEW r \in Requests, Get(r) \/ RequestStep(r) \/ RequestDies(r)
    PROVE  TypeInv'
<1>1. \E q : SecretMoves(r, q)
  BY GetMoves, ReturnStoredMoves, AcquireMoves, TakeOverMoves, LaterMoves, RetryMoves, GrantMoves,
     SaveGrantedMoves, UnlockMoves, EndMoves DEF RequestStep, BackOff
<1>2. /\ request' \in [Requests -> Req]
      /\ \A p \in Requests : request'[p].pc = "waiting" => request'[p].iter < MaxRetry
  BY <1>1, Moved
<1>3. secret' = secret \/ \E d : SetSecret(request[r].id, d)
  BY AcquireMoves, TakeOverMoves, SaveGrantedMoves, UnlockMoves
     DEF Get, RequestStep, ReturnStored, BackOff, Retry, Grant, Refuse, CallFails, RequestDies
<1>4. secret' \in [Secrets -> Docs]
  BY <1>3, SecretSet, RequestValue DEF TypeInv, SecretTypeOK
<1>5. minted' \in 0 .. MaxTokens /\ valid' \subseteq 1 .. MaxTokens
  <2>1. CASE Grant(r)
    <3>1. minted + 1 \in 1 .. MaxTokens /\ minted + 1 \in 0 .. MaxTokens
      BY <2>1, SecretAssumption DEF Grant, TypeInv, SecretTypeOK
    <3>2. minted' = minted + 1 /\ valid' = (valid \ {request[r].token}) \cup {minted + 1}
      BY <2>1 DEF Grant
    <3>3. valid \subseteq 1 .. MaxTokens
      BY DEF TypeInv, SecretTypeOK
    <3> QED
      BY <3>1, <3>2, <3>3
  <2>2. CASE ~Grant(r)
    BY <2>2 DEF Get, RequestStep, ReturnStored, Acquire, TakeOver, BackOff, Retry, Refuse, CallFails,
       SaveGranted, SaveRefusal, SaveUnrefreshed, RequestDies, TypeInv, SecretTypeOK
  <2> QED
    BY <2>1, <2>2
<1>6. stolen' \subseteq Secrets /\ forgotten' \subseteq Secrets /\ secretFaults' \in 0 .. MaxSecretFaults
  <2>1. /\ stolen \subseteq Secrets /\ forgotten \subseteq Secrets /\ request[r].id \in Secrets
        /\ secretFaults \in 0 .. MaxSecretFaults /\ MaxSecretFaults \in Nat
    BY RequestValue, SecretAssumption DEF TypeInv, SecretTypeOK
  <2>2. CASE TakeOver(r)
    BY <2>1, <2>2 DEF TakeOver
  <2>3. CASE RequestDies(r)
    <3>1. secretFaults + 1 \in 0 .. MaxSecretFaults
      BY <2>1, <2>3 DEF RequestDies
    <3> QED
      BY <2>1, <2>3, <3>1 DEF RequestDies
  <2>4. CASE ~TakeOver(r) /\ ~RequestDies(r)
    <3>1. UNCHANGED <<stolen, forgotten, secretFaults>>
      BY <2>4 DEF Get, RequestStep, ReturnStored, Acquire, BackOff, Retry, Grant, Refuse, CallFails,
         SaveGranted, SaveRefusal, SaveUnrefreshed
    <3> QED
      BY <2>1, <3>1
  <2> QED
    BY <2>2, <2>3, <2>4
<1>7. now' = now /\ oauth' = oauth
  BY DEF Get, RequestStep, ReturnStored, Acquire, TakeOver, BackOff, Retry, Grant, Refuse, CallFails,
     SaveGranted, SaveRefusal, SaveUnrefreshed, RequestDies
<1> QED
  BY <1>2, <1>4, <1>5, <1>6, <1>7 DEF TypeInv, SecretTypeOK, Req

LEMMA CallbackTypes ==
    ASSUME TypeInv, NEW c \in Callbacks, CallbackStep(c)
    PROVE  TypeInv'
<1>1. /\ oauth[c] \in OAuth /\ oauth[c].id \in Secrets /\ oauth[c].token \in 0 .. MaxTokens
      /\ secret[oauth[c].id] \in Docs
  BY DEF TypeInv, SecretTypeOK, OAuth
<1>2. oauth' \in [Callbacks -> OAuth]
  <2>1. \E o \in OAuth : oauth' = [oauth EXCEPT ![c] = o]
    <3>1. CASE Exchange(c)
      <4>1. minted + 1 \in 0 .. MaxTokens
        BY <3>1, SecretAssumption DEF Exchange, TypeInv, SecretTypeOK
      <4>2. oauth' = [oauth EXCEPT ![c] = [oauth[c] EXCEPT !.pc = "exchanged", !.token = minted + 1]]
        BY <3>1 DEF Exchange, TypeInv, SecretTypeOK
      <4>3. [oauth[c] EXCEPT !.pc = "exchanged", !.token = minted + 1] \in OAuth
        BY <1>1, <4>1 DEF OAuth
      <4> QED
        BY <4>2, <4>3
    <3>2. ASSUME NEW s \in Secrets, oauth' = [oauth EXCEPT ![c].pc = "found", ![c].id = s]
          PROVE  \E o \in OAuth : oauth' = [oauth EXCEPT ![c] = o]
      <4>1. oauth' = [oauth EXCEPT ![c] = [oauth[c] EXCEPT !.pc = "found", !.id = s]]
        BY <3>2 DEF TypeInv, SecretTypeOK
      <4>2. [oauth[c] EXCEPT !.pc = "found", !.id = s] \in OAuth
        BY <1>1 DEF OAuth
      <4> QED
        BY <4>1, <4>2
    <3>3. ASSUME NEW pc \in {"missing", "done"}, oauth' = [oauth EXCEPT ![c].pc = pc]
          PROVE  \E o \in OAuth : oauth' = [oauth EXCEPT ![c] = o]
      <4>1. oauth' = [oauth EXCEPT ![c] = [oauth[c] EXCEPT !.pc = pc]]
        BY <3>3 DEF TypeInv, SecretTypeOK
      <4>2. [oauth[c] EXCEPT !.pc = pc] \in OAuth
        BY <1>1 DEF OAuth
      <4> QED
        BY <4>1, <4>2
    <3> QED
      BY <3>1, <3>2, <3>3 DEF CallbackStep, FindByExternalId, UpdateFound, CreateMissing
  <2> QED
    BY <2>1 DEF TypeInv, SecretTypeOK, OAuth
<1>3. secret' = secret \/ \E s \in Secrets : \E d : SetSecret(s, d)
  <2>1. CASE UpdateFound(c) /\ secret[oauth[c].id].exists
    <3> DEFINE s == oauth[c].id
               d == [secret[s] EXCEPT !.token = oauth[c].token, !.expires = now + Lifetime]
    <3>1. secret' = [secret EXCEPT ![s] = d]
      BY <2>1, <1>1 DEF UpdateFound, TypeInv, SecretTypeOK
    <3>2. d \in Docs
      BY <1>1, Times DEF Docs
    <3> QED
      BY <3>1, <3>2, <1>1 DEF SetSecret
  <2>2. CASE CreateMissing(c)
    <3> DEFINE d == [exists |-> TRUE, token |-> oauth[c].token,
                     expires |-> now + Lifetime, lockedAt |-> 0, used |-> TRUE]
    <3>1. d \in Docs
      BY <1>1, Times DEF Docs
    <3> QED
      BY <2>2, <3>1 DEF CreateMissing, SetSecret
  <2> QED
    BY <2>1, <2>2 DEF CallbackStep, Exchange, FindByExternalId, UpdateFound
<1>4. secret' \in [Secrets -> Docs]
  BY <1>3, SecretSet DEF TypeInv, SecretTypeOK
<1>5. minted' \in 0 .. MaxTokens /\ valid' \subseteq 1 .. MaxTokens
  BY SecretAssumption
     DEF CallbackStep, Exchange, FindByExternalId, UpdateFound, CreateMissing, TypeInv, SecretTypeOK
<1>6. UNCHANGED <<now, request, stolen, forgotten, secretFaults>>
  BY DEF CallbackStep, Exchange, FindByExternalId, UpdateFound, CreateMissing
<1> QED
  BY <1>2, <1>4, <1>5, <1>6 DEF TypeInv, SecretTypeOK, OAuth

LEMMA DeleteSets ==
    ASSUME TypeInv, NEW s \in Secrets, DeleteSecret(s)
    PROVE  SetSecret(s, Absent(TRUE))
  BY SecretAssumption DEF DeleteSecret, SetSecret, Absent, Docs

LEMMA SecretStepTypes == TypeInv /\ [SecretNext]_SecretVars => TypeInv'
<1> SUFFICES ASSUME TypeInv, [SecretNext]_SecretVars PROVE TypeInv'
  OBVIOUS
<1>1. ASSUME NEW s \in Secrets, DeleteSecret(s) PROVE TypeInv'
  BY <1>1, DeleteSets, SecretSet DEF DeleteSecret, TypeInv, SecretTypeOK
<1>2. CASE Tick
  BY <1>2, SecretAssumption DEF Tick, TypeInv, SecretTypeOK
<1>3. CASE UNCHANGED SecretVars
  BY <1>3 DEF TypeInv, SecretTypeOK
<1> QED
  BY <1>1, <1>2, <1>3, RequestTypes, CallbackTypes DEF SecretNext

(* Every variable of the secret service has its type.                       *)
THEOREM SecretTypesHold == SecretSpec => []SecretTypeOK
<1>1. TypeInv => SecretTypeOK
  BY DEF TypeInv
<1> QED
  BY SecretInitTypes, SecretStepTypes, <1>1, PTL DEF SecretSpec

----------------------------------------------------------------------------
(* One refresher.  A request that holds a lock nobody has stolen finds its  *)
(* secret locked, so no other request can lock it; a secret is never made   *)
(* anew under an id that was used.                                          *)
HolderLocks ==
    \A r \in Requests :
        Holds(r) => /\ secret[request[r].id].used
                    /\ request[r].id \notin stolen /\ secret[request[r].id].exists
                       => Locked(secret[request[r].id])

LockInv ==
    /\ \A s \in Secrets : secret[s].exists => secret[s].used
    /\ HolderLocks
    /\ OneRefresher

LEMMA InitLocks == SecretInit => LockInv
<1> SUFFICES ASSUME SecretInit PROVE LockInv
  OBVIOUS
<1>1. \A s \in Secrets : secret[s].exists => secret[s].used
  BY DEF SecretInit, Absent
<1>2. \A r \in Requests : request[r].pc = "idle"
  <2>1. request \in [Requests -> [pc : {"idle"}, id : Secrets, seen : {Absent(FALSE)},
                                  token : {0}, iter : {0}]]
    BY DEF SecretInit
  <2> QED
    BY <2>1
<1> QED
  BY <1>1, <1>2 DEF LockInv, HolderLocks, OneRefresher, Holds

(* The steps of a request that touch no lock.                               *)
LEMMA LocksLeftAlone ==
    ASSUME TypeInv, LockInv, NEW r \in Requests, NEW q, SecretMoves(r, q),
           q.pc \in {"calling", "granted", "refused", "fresh"} => Holds(r),
           secret' = secret, stolen' = stolen
    PROVE  LockInv'
<1>1. \A p \in Requests : Holds(p)' => Holds(p) /\ request'[p].id = request[p].id
  BY Moved DEF Holds, SecretMoves
<1> QED
  BY <1>1 DEF LockInv, HolderLocks, OneRefresher, Locked

(* The steps of a holder that give the lock back.                           *)
LEMMA LockReturned ==
    ASSUME TypeInv, LockInv, NEW r \in Requests, Holds(r), NEW q, SecretMoves(r, q),
           q.pc \in {"answered", "rejected"}, stolen' = stolen,
           NEW d, SetSecret(request[r].id, d),
           d.exists = secret[request[r].id].exists, d.used = secret[request[r].id].used
    PROVE  LockInv'
<1>1. ~Holds(r)' /\ \A p \in Requests : Holds(p)' => Holds(p) /\ request'[p].id = request[p].id /\ p # r
  BY Moved DEF Holds, SecretMoves
<1>2. \A s \in Secrets : /\ secret'[s].exists = secret[s].exists /\ secret'[s].used = secret[s].used
                         /\ s # request[r].id => secret'[s] = secret[s]
  BY SecretSet, RequestValue
<1>3. OneRefresher'
  BY <1>1 DEF LockInv, OneRefresher
<1>4. HolderLocks'
  <2> SUFFICES ASSUME NEW p \in Requests, Holds(p)'
               PROVE  /\ secret'[request'[p].id].used
                      /\ request'[p].id \notin stolen' /\ secret'[request'[p].id].exists
                         => Locked(secret[request[p].id])'
    BY DEF HolderLocks
  <2>1. Holds(p) /\ request'[p].id = request[p].id /\ p # r /\ request[p].id \in Secrets
    BY <1>1, RequestValue
  <2>2. request[p].id = request[r].id => request[p].id \in stolen
    BY <2>1 DEF LockInv, OneRefresher
  <2> QED
    BY <1>2, <2>1, <2>2 DEF LockInv, HolderLocks, Locked
<1> QED
  BY <1>2, <1>3, <1>4 DEF LockInv

(* A lock that is set: the secret was unlocked, so it had no holder, or one  *)
(* whose lock was stolen.                                                   *)
LEMMA LockTaken ==
    ASSUME TypeInv, LockInv, NEW r \in Requests, request[r].pc = "read", NEW q, SecretMoves(r, q),
           stolen' = stolen, Lockable(secret[request[r].id]),
           SetSecret(request[r].id, [secret[request[r].id] EXCEPT !.lockedAt = now])
    PROVE  LockInv'
<1> DEFINE s == request[r].id
           d == [secret[s] EXCEPT !.lockedAt = now]
<1>1. \A p \in Requests : request'[p].id = request[p].id /\ request[p].id \in Secrets
                          /\ (p # r => Holds(p)' = Holds(p))
  BY Moved, RequestValue DEF Holds, SecretMoves
<1>2. /\ d.exists = secret[s].exists /\ d.used = secret[s].used /\ d.lockedAt # 0
      /\ s \in Secrets /\ secret[s].exists /\ secret[s].used
  BY RequestValue, Times DEF Lockable, LockInv, Docs
<1>3. \A t \in Secrets : /\ secret'[t].exists = secret[t].exists /\ secret'[t].used = secret[t].used
                         /\ secret[t].lockedAt # 0 \/ t = s => secret'[t].lockedAt # 0
  BY <1>2, SecretSet
<1>4. \A p \in Requests : Holds(p) /\ request[p].id = s => s \in stolen
  BY DEF LockInv, HolderLocks, Lockable
<1>5. OneRefresher'
  BY <1>1, <1>4 DEF LockInv, OneRefresher
<1>6. HolderLocks'
  <2> SUFFICES ASSUME NEW p \in Requests, Holds(p)'
               PROVE  /\ secret'[request'[p].id].used
                      /\ request'[p].id \notin stolen' /\ secret'[request'[p].id].exists
                         => secret'[request'[p].id].lockedAt # 0
    BY DEF HolderLocks, Locked
  <2>1. CASE p = r
    BY <1>1, <1>2, <1>3, <2>1
  <2>2. CASE p # r
    BY <1>1, <1>3, <2>2 DEF LockInv, HolderLocks, Locked
  <2> QED
    BY <2>1, <2>2
<1> QED
  BY <1>3, <1>5, <1>6 DEF LockInv

LEMMA LockStolen ==
    ASSUME TypeInv, LockInv, NEW r \in Requests, TakeOver(r)
    PROVE  LockInv'
<1> DEFINE s == request[r].id
           seen == [request[r].seen EXCEPT !.lockedAt = 0]
<1>1. CASE secret[s].exists
  <2>1. SetSecret(s, [secret[s] EXCEPT !.lockedAt = 0]) /\ SecretMoves(r, [request[r] EXCEPT !.seen = seen])
    <3>1. ~SecretMoves(r, [request[r] EXCEPT !.pc = "rejected"])
      <4>1. request'[r].pc = "read"
        BY <1>1 DEF TakeOver, TypeInv, SecretTypeOK
      <4> QED
        BY <4>1, Moved, RequestValue DEF Req
    <3> QED
      BY <3>1, TakeOverMoves
  <2>2. \A p \in Requests : Holds(p)' = Holds(p) /\ request'[p].id = request[p].id
    BY <2>1, Moved, RequestValue DEF Holds, SecretMoves, Req
  <2>3. \A t \in Secrets : /\ secret'[t].exists = secret[t].exists /\ secret'[t].used = secret[t].used
                           /\ t # s => secret'[t] = secret[t]
    BY <2>1, SecretSet, RequestValue DEF Docs
  <2>4. stolen \subseteq stolen' /\ \A p \in Requests : Holds(p) /\ request[p].id = s => s \in stolen'
    BY <1>1 DEF TakeOver, Refreshers
  <2>5. OneRefresher'
    BY <2>2, <2>4 DEF LockInv, OneRefresher
  <2>6. HolderLocks'
    BY <2>2, <2>3, <2>4, RequestValue DEF LockInv, HolderLocks, Locked
  <2> QED
    BY <2>3, <2>5, <2>6 DEF LockInv
<1>2. CASE ~secret[s].exists
  <2>1. SecretMoves(r, [request[r] EXCEPT !.pc = "rejected"]) /\ secret' = secret /\ stolen' = stolen
    BY <1>2, TakeOverMoves
  <2>2. [request[r] EXCEPT !.pc = "rejected"].pc = "rejected"
    BY RequestValue DEF Req
  <2> QED
    BY <2>1, <2>2, LocksLeftAlone
<1> QED
  BY <1>1, <1>2

LEMMA RequestLocks ==
    ASSUME TypeInv, LockInv, NEW r \in Requests, Get(r) \/ RequestStep(r) \/ RequestDies(r)
    PROVE  LockInv'
<1> DEFINE Q(pc) == [request[r] EXCEPT !.pc = pc]
<1>1. \A pc : Q(pc).pc = pc /\ Q(pc) = [request[r] EXCEPT !.pc = pc]
  BY RequestValue DEF Req
<1>2. CASE Get(r)
  BY <1>2, GetMoves, LocksLeftAlone, RequestValue DEF Get, Req
<1>3. CASE ReturnStored(r)
  BY <1>3, ReturnStoredMoves, LocksLeftAlone, RequestValue DEF ReturnStored, Req
<1>4. CASE BackOff(r)
  BY <1>4, LaterMoves, LocksLeftAlone DEF BackOff
<1>5. CASE Retry(r)
  BY <1>5, RetryMoves, LocksLeftAlone, RequestValue DEF Retry, Req
<1>6. CASE Grant(r)
  BY <1>6, GrantMoves, LocksLeftAlone DEF Grant, Holds
<1>7. CASE Refuse(r) \/ CallFails(r) \/ RequestDies(r)
  <2>1. PICK pc \in {"refused", "rejected"} : SecretMoves(r, Q(pc))
    BY <1>7, EndMoves
  <2>2. pc = "refused" => Holds(r)
    <3>1. pc = request'[r].pc
      BY <1>1, <2>1, Moved
    <3>2. CASE Refuse(r)
      BY <3>2 DEF Refuse, Holds
    <3>3. CASE CallFails(r) \/ RequestDies(r)
      <4>1. Goto(r, "rejected")
        BY <3>3 DEF CallFails, RequestDies
      <4>2. request'[r].pc = "rejected"
        BY <4>1 DEF Goto, TypeInv, SecretTypeOK
      <4> QED
        BY <3>1, <4>2
    <3> QED
      BY <1>7, <3>2, <3>3
  <2>3. secret' = secret /\ stolen' = stolen
    BY <1>7 DEF Refuse, CallFails, RequestDies
  <2> QED
    BY <1>1, <2>1, <2>2, <2>3, LocksLeftAlone
<1>8. CASE Acquire(r)
  <2>1. stolen' = stolen /\ request[r].pc = "read"
    BY <1>8 DEF Acquire
  <2>2. CASE Lockable(secret[request[r].id])
    BY <1>8, <2>1, <2>2, AcquireTakes, LockTaken
  <2>3. CASE ~Lockable(secret[request[r].id])
    BY <1>8, <2>1, <2>3, AcquireMoves, LocksLeftAlone
  <2> QED
    BY <2>2, <2>3
<1>9. CASE TakeOver(r)
  BY <1>9, LockStolen
<1>10. CASE SaveGranted(r)
  <2> DEFINE d == StoreGranted(secret[request[r].id], request[r].token)
  <2>1. stolen' = stolen /\ Holds(r)
    BY <1>10 DEF SaveGranted, Holds
  <2>2. d.exists = secret[request[r].id].exists /\ d.used = secret[request[r].id].used
    BY RequestValue DEF StoreGranted, Docs
  <2>3. CASE SecretMoves(r, Q("answered")) /\ SetSecret(request[r].id, d)
    BY <1>1, <2>1, <2>2, <2>3, LockReturned
  <2>4. CASE SecretMoves(r, Q("rejected")) /\ secret' = secret
    BY <1>1, <2>1, <2>4, LocksLeftAlone
  <2> QED
    BY <1>10, <2>3, <2>4, SaveGrantedMoves
<1>11. CASE SaveRefusal(r) \/ SaveUnrefreshed(r)
  <2> DEFINE d == [secret[request[r].id] EXCEPT !.lockedAt = 0]
  <2>1. stolen' = stolen /\ Holds(r)
    BY <1>11 DEF SaveRefusal, SaveUnrefreshed, Holds
  <2>2. d.exists = secret[request[r].id].exists /\ d.used = secret[request[r].id].used
    BY RequestValue DEF Docs
  <2>3. PICK pc \in {"answered", "rejected"} : SecretMoves(r, Q(pc))
    BY <1>11, UnlockMoves
  <2>4. SetSecret(request[r].id, d)
    BY <1>11, UnlockMoves
  <2>5. Q(pc).pc \in {"answered", "rejected"}
    BY <1>1
  <2> HIDE DEF d, Q
  <2> QED
    BY <2>1, <2>2, <2>3, <2>4, <2>5, LockReturned
<1> QED
  BY <1>2, <1>3, <1>4, <1>5, <1>6, <1>7, <1>8, <1>9, <1>10, <1>11 DEF RequestStep

(* A callback and a deletion leave every lock of a secret that stays; a new  *)
(* secret has an id that no request has in hand.                            *)
LEMMA OtherLocks ==
    ASSUME TypeInv, LockInv, NEW s \in Secrets, NEW d, SetSecret(s, d),
           d.used, d.exists => (d.lockedAt = secret[s].lockedAt /\ secret[s].exists) \/ ~secret[s].used,
           request' = request, stolen' = stolen
    PROVE  LockInv'
<1>1. \A r \in Requests : Holds(r)' = Holds(r) /\ request'[r] = request[r] /\ request[r].id \in Secrets
  BY RequestValue DEF Holds
<1>2. HolderLocks'
  <2> SUFFICES ASSUME NEW r \in Requests, Holds(r)
               PROVE  /\ secret'[request[r].id].used
                      /\ request[r].id \notin stolen /\ secret'[request[r].id].exists
                         => secret'[request[r].id].lockedAt # 0
    BY <1>1 DEF HolderLocks, Locked
  <2>1. CASE request[r].id = s
    <3>1. secret'[s] = d
      BY SecretSet
    <3>2. /\ secret[s].used
          /\ s \notin stolen /\ secret[s].exists => secret[s].lockedAt # 0
      BY <2>1 DEF LockInv, HolderLocks, Locked
    <3> QED
      BY <2>1, <3>1, <3>2
  <2>2. CASE request[r].id # s
    BY <1>1, <2>2, SecretSet DEF LockInv, HolderLocks, Locked
  <2> QED
    BY <2>1, <2>2
<1>3. \A t \in Secrets : secret'[t].exists => secret'[t].used
  BY SecretSet DEF LockInv
<1>4. OneRefresher'
  BY <1>1 DEF LockInv, OneRefresher
<1> QED
  BY <1>2, <1>3, <1>4 DEF LockInv

LEMMA SameLocks ==
    ASSUME LockInv, UNCHANGED <<secret, request, stolen>>
    PROVE  LockInv'
  BY DEF LockInv, HolderLocks, OneRefresher, Holds, Locked

LEMMA StepLocks == TypeInv /\ LockInv /\ [SecretNext]_SecretVars => LockInv'
<1> SUFFICES ASSUME TypeInv, LockInv, [SecretNext]_SecretVars PROVE LockInv'
  OBVIOUS
<1>1. ASSUME NEW c \in Callbacks, CallbackStep(c) PROVE LockInv'
  <2>1. CASE UpdateFound(c) /\ secret[oauth[c].id].exists
    <3> DEFINE s == oauth[c].id
               d == [secret[s] EXCEPT !.token = oauth[c].token, !.expires = now + Lifetime]
    <3>1. s \in Secrets /\ oauth[c].token \in 0 .. MaxTokens /\ secret[s] \in Docs
      BY DEF TypeInv, SecretTypeOK
    <3>2. secret' = [secret EXCEPT ![s] = d]
      BY <2>1, <3>1 DEF UpdateFound, TypeInv, SecretTypeOK
    <3>3. d \in Docs /\ d.used = secret[s].used /\ d.exists = secret[s].exists
          /\ d.lockedAt = secret[s].lockedAt
      BY <3>1, Times DEF Docs
    <3>4. request' = request /\ stolen' = stolen
      BY <2>1 DEF UpdateFound
    <3>5. secret[s].used
      BY <2>1, <3>1 DEF LockInv
    <3> QED
      BY <2>1, <3>1, <3>2, <3>3, <3>4, <3>5, OtherLocks DEF SetSecret
  <2>2. CASE CreateMissing(c)
    <3> DEFINE d == [exists |-> TRUE, token |-> oauth[c].token,
                     expires |-> now + Lifetime, lockedAt |-> 0, used |-> TRUE]
    <3>1. d \in Docs
      <4>1. oauth[c].token \in 0 .. MaxTokens
        BY DEF TypeInv, SecretTypeOK
      <4> QED
        BY <4>1, Times DEF Docs
    <3>2. PICK s \in Secrets : ~secret[s].used /\ secret' = [secret EXCEPT ![s] = d]
      BY <2>2 DEF CreateMissing
    <3>3. request' = request /\ stolen' = stolen
      BY <2>2 DEF CreateMissing
    <3>4. SetSecret(s, d) /\ d.used
      BY <3>1, <3>2 DEF SetSecret
    <3> HIDE DEF d
    <3> QED
      BY <3>2, <3>3, <3>4, OtherLocks
  <2>3. CASE UNCHANGED <<secret, request, stolen>>
    BY <2>3, SameLocks
  <2> QED
    BY <1>1, <2>1, <2>2, <2>3 DEF CallbackStep, Exchange, FindByExternalId, UpdateFound, CreateMissing
<1>2. ASSUME NEW s \in Secrets, DeleteSecret(s) PROVE LockInv'
  <2>1. Absent(TRUE).used /\ ~Absent(TRUE).exists
    BY DEF Absent
  <2>2. request' = request /\ stolen' = stolen
    BY <1>2 DEF DeleteSecret
  <2> QED
    BY <1>2, <2>1, <2>2, DeleteSets, OtherLocks
<1>3. CASE UNCHANGED <<secret, request, stolen>>
  BY <1>3, SameLocks
<1> QED
  BY <1>1, <1>2, <1>3, RequestLocks DEF SecretNext, Tick

(* Requests do not refresh one secret together, whatever crashes, however   *)
(* many tokens are asked for, until a live lock is released by another.     *)
THEOREM OneRefresherHolds == SecretSpec => []OneRefresher
<1>1. LockInv => OneRefresher
  BY DEF LockInv
<1> QED
  BY SecretInitTypes, SecretStepTypes, InitLocks, StepLocks, <1>1, PTL DEF SecretSpec

----------------------------------------------------------------------------
(* The token survives.  A refresh token is in one place only: it is stored  *)
(* with one secret, and perhaps in use by requests for that secret, or it   *)
(* is on its way from the provider to a secret and in nobody else's hand.   *)
Stores(doc, k) == doc.exists /\ doc.token = k
Uses(q, k) == q.pc = "calling" /\ q.token = k
Brings(q, k) == q.pc = "granted" /\ q.token = k
HoldsToken(o, k) == o.pc \in {"exchanged", "found", "missing"} /\ o.token = k

StoredOnce ==
    \A s \in Secrets, k \in Nat :
        Stores(secret[s], k) =>
            /\ \A t \in Secrets : Stores(secret[t], k) => t = s
            /\ \A r \in Requests : Uses(request[r], k) => request[r].id = s
            /\ k <= minted

UsesIssued == \A r \in Requests, k \in Nat : Uses(request[r], k) => k <= minted

BroughtAlone ==
    \A r \in Requests, k \in Nat :
        Brings(request[r], k) =>
            /\ k \in valid
            /\ \A s \in Secrets : ~Stores(secret[s], k)
            /\ \A p \in Requests : ~Uses(request[p], k) /\ (Brings(request[p], k) => p = r)
            /\ \A c \in Callbacks : ~HoldsToken(oauth[c], k)

CarriedAlone ==
    \A c \in Callbacks, k \in Nat :
        HoldsToken(oauth[c], k) =>
            /\ k \in valid
            /\ \A s \in Secrets : ~Stores(secret[s], k)
            /\ \A p \in Requests : ~Uses(request[p], k) /\ ~Brings(request[p], k)
            /\ \A d \in Callbacks : HoldsToken(oauth[d], k) => d = c

TokenInv ==
    /\ valid \subseteq 1 .. minted
    /\ StoredOnce /\ UsesIssued /\ BroughtAlone /\ CarriedAlone
    /\ TokenSurvives

LEMMA InitTokens == SecretInit => TokenInv
<1> SUFFICES ASSUME SecretInit PROVE TokenInv
  OBVIOUS
<1>1. PICK first \in [Stored -> 1 .. minted] :
        /\ \A s, t \in Stored : first[s] = first[t] => s = t
        /\ secret = [s \in Secrets |->
                        IF s \in Stored
                        THEN [exists |-> TRUE, token |-> first[s], expires |-> 1,
                              lockedAt |-> 0, used |-> TRUE]
                        ELSE Absent(FALSE)]
  BY DEF SecretInit
<1>2. \A s \in Secrets : secret[s].exists => s \in Stored /\ secret[s].token = first[s]
  BY <1>1 DEF Absent
<1>3. \A r \in Requests : request[r].pc = "idle"
  <2>1. request \in [Requests -> [pc : {"idle"}, id : Secrets, seen : {Absent(FALSE)},
                                  token : {0}, iter : {0}]]
    BY DEF SecretInit
  <2> QED
    BY <2>1
<1>4. \A c \in Callbacks : oauth[c].pc = "idle"
  BY DEF SecretInit
<1>5. minted \in Nat /\ valid = 1 .. minted
  BY SecretAssumption, FS_CardinalityType DEF SecretInit
<1>6. \A s, t \in Secrets, k \in Nat : Stores(secret[s], k) /\ Stores(secret[t], k) => s = t /\ k \in 1 .. minted
  <2>1. \A s \in Stored : first[s] \in 1 .. minted
    OBVIOUS
  <2>2. \A s, t \in Stored : first[s] = first[t] => s = t
    BY <1>1
  <2> QED
    BY <1>2, <2>1, <2>2 DEF Stores
<1>7. StoredOnce
  BY <1>3, <1>5, <1>6 DEF StoredOnce, Stores, Uses
<1>8. UsesIssued /\ BroughtAlone /\ CarriedAlone
  BY <1>3, <1>4 DEF UsesIssued, BroughtAlone, CarriedAlone, Stores, Uses, Brings, HoldsToken
<1>9. TokenSurvives
  BY <1>1, <1>2, <1>5 DEF TokenSurvives
<1> QED
  BY <1>5, <1>7, <1>8, <1>9 DEF TokenInv

LEMMA Ranges ==
    ASSUME TypeInv
    PROVE  /\ minted \in Nat
           /\ \A s \in Secrets : secret[s].token \in Nat
           /\ \A r \in Requests : request[r].token \in Nat /\ request[r].id \in Secrets
           /\ \A c \in Callbacks : oauth[c].token \in Nat /\ oauth[c].id \in Secrets
  BY SecretAssumption DEF TypeInv, SecretTypeOK, Docs

(* The steps after which every token is where it was, or gone.  A granted   *)
(* token is given up only with its secret, or it is forgotten.              *)
LEMMA TokensLeftAlone ==
    ASSUME TypeInv, TokenInv, minted' = minted, valid' = valid,
           stolen \subseteq stolen', forgotten \subseteq forgotten',
           \A s \in Secrets : secret'[s].exists => secret[s].exists /\ secret'[s].token = secret[s].token,
           \A r \in Requests : /\ request'[r].id = request[r].id
                               /\ request'[r].pc \in {"calling", "granted"}
                                  => request'[r].pc = request[r].pc /\ request'[r].token = request[r].token
                               /\ request[r].pc = "granted" =>
                                    \/ request'[r].pc = "granted"
                                    \/ request[r].id \in forgotten' \/ ~secret'[request[r].id].exists,
           \A c \in Callbacks, k \in Nat : HoldsToken(oauth'[c], k) => HoldsToken(oauth[c], k)
    PROVE  TokenInv'
<1>1. /\ \A s \in Secrets, k \in Nat : Stores(secret'[s], k) => Stores(secret[s], k)
      /\ \A r \in Requests, k \in Nat : Uses(request'[r], k) => Uses(request[r], k)
      /\ \A r \in Requests, k \in Nat : Brings(request'[r], k) => Brings(request[r], k)
  BY DEF Stores, Uses, Brings
<1>2. StoredOnce'
  BY <1>1 DEF TokenInv, StoredOnce, Stores, Uses, Brings, HoldsToken
<1>3. UsesIssued'
  BY <1>1 DEF TokenInv, UsesIssued, Stores, Uses, Brings, HoldsToken
<1>4. BroughtAlone'
  BY <1>1 DEF TokenInv, BroughtAlone, Stores, Uses, Brings, HoldsToken
<1>5. CarriedAlone'
  BY <1>1 DEF TokenInv, CarriedAlone, Stores, Uses, Brings, HoldsToken
<1>6. TokenSurvives'
  <2> SUFFICES ASSUME NEW s \in Secrets, secret'[s].exists, s \notin stolen' \cup forgotten'
               PROVE  \/ secret'[s].token \in valid'
                      \/ \E r \in Requests : Holds(r)' /\ request'[r].id = s /\ request'[r].pc = "granted"
    BY DEF TokenSurvives, Refreshers
  <2>1. CASE secret[s].token \in valid
    BY <2>1
  <2>2. ASSUME NEW r \in Requests, request[r].id = s, request[r].pc = "granted"
        PROVE  Holds(r)' /\ request'[r].id = s /\ request'[r].pc = "granted"
    BY <2>2 DEF Holds
  <2> QED
    BY <2>1, <2>2 DEF TokenInv, TokenSurvives, Refreshers
<1> QED
  BY <1>2, <1>3, <1>4, <1>5, <1>6 DEF TokenInv

(* A new token is above all that were issued.                               *)
LEMMA NewToken ==
    ASSUME TypeInv, TokenInv
    PROVE  LET k == minted + 1 IN
           /\ k \in Nat /\ k \notin valid
           /\ \A s \in Secrets : ~Stores(secret[s], k)
           /\ \A r \in Requests : ~Uses(request[r], k) /\ ~Brings(request[r], k)
           /\ \A c \in Callbacks : ~HoldsToken(oauth[c], k)
<1> DEFINE k == minted + 1
<1>1. minted \in Nat /\ k \in Nat /\ ~(k <= minted) /\ k \notin 1 .. minted
  BY Ranges
<1>2. k \notin valid
  BY <1>1 DEF TokenInv
<1> HIDE DEF k
<1>3. ASSUME NEW s \in Secrets, Stores(secret[s], k) PROVE k <= minted
  BY <1>1, <1>3 DEF TokenInv, StoredOnce
<1>4. ASSUME NEW r \in Requests, Uses(request[r], k) PROVE k <= minted
  BY <1>1, <1>4 DEF TokenInv, UsesIssued
<1>5. ASSUME NEW r \in Requests, Brings(request[r], k) PROVE k \in valid
  BY <1>1, <1>5 DEF TokenInv, BroughtAlone
<1>6. ASSUME NEW c \in Callbacks, HoldsToken(oauth[c], k) PROVE k \in valid
  BY <1>1, <1>6 DEF TokenInv, CarriedAlone
<1>7. ~(k <= minted) /\ k \notin valid
  BY <1>1, <1>2
<1>8. /\ k \in Nat /\ k \notin valid
      /\ \A s \in Secrets : ~Stores(secret[s], k)
      /\ \A r \in Requests : ~Uses(request[r], k) /\ ~Brings(request[r], k)
      /\ \A c \in Callbacks : ~HoldsToken(oauth[c], k)
  BY <1>1, <1>3, <1>4, <1>5, <1>6, <1>7
<1> QED
  BY <1>8 DEF k

LEMMA GrantKeepsTokens ==
    ASSUME TypeInv, TokenInv, NEW r \in Requests, Grant(r)
    PROVE  TokenInv'
<1> DEFINE k == minted + 1
           u == request[r].token
           s0 == request[r].id
<1>1. /\ minted' = k /\ valid' = (valid \ {u}) \cup {k}
      /\ secret' = secret /\ oauth' = oauth /\ stolen' = stolen /\ forgotten' = forgotten
      /\ request[r].pc = "calling"
  BY DEF Grant
<1>2. minted \in Nat /\ k \in Nat /\ u \in Nat /\ u <= minted /\ u # k
  BY <1>1, Ranges DEF TokenInv, UsesIssued, Uses
<1>3. /\ request'[r].pc = "granted" /\ request'[r].token = k
      /\ \A p \in Requests : request'[p].id = request[p].id /\ (p # r => request'[p] = request[p])
  <2> DEFINE q == [request[r] EXCEPT !.pc = "granted", !.token = k]
  <2>1. q.pc = "granted" /\ q.token = k /\ q.id = request[r].id
    BY RequestValue DEF Req
  <2>2. SecretMoves(r, q)
    BY GrantMoves
  <2> HIDE DEF q, k
  <2> QED
    BY <2>1, <2>2, Moved
<1>4. Uses(request[r], u)
  BY <1>1 DEF Uses
<1> HIDE DEF k, u
<1>5. /\ \A s \in Secrets, j \in Nat : Stores(secret'[s], j) <=> Stores(secret[s], j)
      /\ \A c \in Callbacks, j \in Nat : HoldsToken(oauth'[c], j) <=> HoldsToken(oauth[c], j)
      /\ \A p \in Requests, j \in Nat : Uses(request'[p], j) => Uses(request[p], j) /\ p # r
      /\ \A p \in Requests, j \in Nat : Brings(request'[p], j) /\ p # r => Brings(request[p], j)
      /\ \A j \in Nat : Brings(request'[r], j) => j = k
  BY <1>1, <1>3 DEF Stores, HoldsToken, Uses, Brings
<1>6. /\ k \notin valid
      /\ \A s \in Secrets : ~Stores(secret[s], k)
      /\ \A p \in Requests : ~Uses(request[p], k) /\ ~Brings(request[p], k)
      /\ \A c \in Callbacks : ~HoldsToken(oauth[c], k)
  BY NewToken DEF k
<1>7. /\ \A p \in Requests : ~Brings(request[p], u)
      /\ \A c \in Callbacks : ~HoldsToken(oauth[c], u)
      /\ \A s \in Secrets : Stores(secret[s], u) => s = s0
  BY <1>2, <1>4 DEF TokenInv, BroughtAlone, CarriedAlone, StoredOnce, Stores, Uses, Brings, HoldsToken
<1>8. valid' \subseteq 1 .. minted'
  <2>1. k \in 1 .. k /\ \A j \in 1 .. minted : j \in 1 .. k
    BY <1>2 DEF k
  <2> QED
    BY <1>1, <2>1 DEF TokenInv
<1>9. \A j \in Nat : j <= minted => j <= minted'
  BY <1>1, <1>2 DEF k
<1>10. StoredOnce'
  <2> SUFFICES ASSUME NEW s \in Secrets, NEW j \in Nat, Stores(secret'[s], j)
               PROVE  /\ \A t \in Secrets : Stores(secret'[t], j) => t = s
                      /\ \A p \in Requests : Uses(request'[p], j) => request'[p].id = s
                      /\ j <= minted'
    BY DEF StoredOnce
  <2> QED
    BY <1>3, <1>5, <1>9 DEF TokenInv, StoredOnce, Stores, Uses, Brings, HoldsToken
<1>11. UsesIssued'
  <2> SUFFICES ASSUME NEW p \in Requests, NEW j \in Nat, Uses(request'[p], j) PROVE j <= minted'
    BY DEF UsesIssued
  <2> QED
    BY <1>5, <1>9 DEF TokenInv, UsesIssued, Stores, Uses, Brings, HoldsToken
<1>12. BroughtAlone'
  <2> SUFFICES ASSUME NEW p \in Requests, NEW j \in Nat, Brings(request'[p], j)
               PROVE  /\ j \in valid'
                      /\ \A s \in Secrets : ~Stores(secret'[s], j)
                      /\ \A q \in Requests : ~Uses(request'[q], j) /\ (Brings(request'[q], j) => q = p)
                      /\ \A c \in Callbacks : ~HoldsToken(oauth'[c], j)
    BY DEF BroughtAlone
  <2>1. CASE p = r
    BY <1>1, <1>5, <1>6, <2>1 DEF Stores, Uses, Brings, HoldsToken
  <2>2. CASE p # r
    <3>1. Brings(request[p], j) /\ j # u
      BY <1>5, <1>7, <2>2 DEF Stores, Uses, Brings, HoldsToken
    <3>2. j # k
      BY <1>6, <3>1
    <3> QED
      BY <1>1, <1>5, <3>1, <3>2, <2>2 DEF TokenInv, BroughtAlone, Stores, Uses, Brings, HoldsToken
  <2> QED
    BY <2>1, <2>2
<1>13. CarriedAlone'
  <2> SUFFICES ASSUME NEW c \in Callbacks, NEW j \in Nat, HoldsToken(oauth'[c], j)
               PROVE  /\ j \in valid'
                      /\ \A s \in Secrets : ~Stores(secret'[s], j)
                      /\ \A q \in Requests : ~Uses(request'[q], j) /\ ~Brings(request'[q], j)
                      /\ \A d \in Callbacks : HoldsToken(oauth'[d], j) => d = c
    BY DEF CarriedAlone
  <2>1. HoldsToken(oauth[c], j) /\ j # u /\ j # k
    BY <1>5, <1>6, <1>7
  <2> QED
    BY <1>1, <1>5, <2>1 DEF TokenInv, CarriedAlone, Stores, Uses, Brings, HoldsToken
<1>14. TokenSurvives'
  <2> SUFFICES ASSUME NEW s \in Secrets, secret'[s].exists, s \notin stolen' \cup forgotten'
               PROVE  \/ secret'[s].token \in valid'
                      \/ \E p \in Requests : Holds(p)' /\ request'[p].id = s /\ request'[p].pc = "granted"
    BY DEF TokenSurvives, Refreshers
  <2>1. CASE Stores(secret[s], u)
    BY <1>3, <1>7, <2>1 DEF Holds
  <2>2. CASE ~Stores(secret[s], u) /\ secret[s].token \in valid
    BY <1>1, <2>2 DEF Stores
  <2>3. ASSUME NEW p \in Requests, request[p].id = s, request[p].pc = "granted"
        PROVE  Holds(p)' /\ request'[p].id = s /\ request'[p].pc = "granted"
    BY <1>1, <1>3, <2>3 DEF Holds
  <2> QED
    BY <1>1, <2>1, <2>2, <2>3 DEF TokenInv, TokenSurvives, Refreshers
<1> QED
  BY <1>8, <1>10, <1>11, <1>12, <1>13, <1>14 DEF TokenInv

(* A token that was on its way is stored with a secret.                     *)
LEMMA StoringKeepsTokens ==
    ASSUME TypeInv, TokenInv, NEW s \in Secrets, NEW k \in Nat, NEW d, SetSecret(s, d),
           d.exists, d.token = k, k \in valid,
           \A t \in Secrets : ~Stores(secret[t], k),
           \A p \in Requests : ~Uses(request[p], k),
           minted' = minted, valid' = valid, stolen' = stolen, forgotten' = forgotten,
           \A p \in Requests :
               /\ request'[p].id = request[p].id
               /\ request[p].pc = "granted" => request'[p].pc = "granted" \/ request[p].id = s,
           \A p \in Requests, j \in Nat : Uses(request'[p], j) => Uses(request[p], j),
           \A p \in Requests, j \in Nat : Brings(request'[p], j) => Brings(request[p], j) /\ j # k,
           \A c \in Callbacks, j \in Nat : HoldsToken(oauth'[c], j) => HoldsToken(oauth[c], j) /\ j # k
    PROVE  TokenInv'
<1>1. \A t \in Secrets, j \in Nat :
         Stores(secret'[t], j) => IF t = s THEN j = k ELSE Stores(secret[t], j) /\ j # k
  BY SecretSet DEF Stores
<1>2. k <= minted
  BY Ranges DEF TokenInv
<1>3. StoredOnce'
  <2> SUFFICES ASSUME NEW t \in Secrets, NEW j \in Nat, Stores(secret'[t], j)
               PROVE  /\ \A u \in Secrets : Stores(secret'[u], j) => u = t
                      /\ \A p \in Requests : Uses(request'[p], j) => request'[p].id = t
                      /\ j <= minted
    BY DEF StoredOnce
  <2>1. CASE t = s
    BY <1>1, <1>2, <2>1
  <2>2. CASE t # s
    BY <1>1, <2>2 DEF TokenInv, StoredOnce
  <2> QED
    BY <2>1, <2>2
<1>4. UsesIssued'
  BY DEF TokenInv, UsesIssued
<1>5. BroughtAlone'
  <2> SUFFICES ASSUME NEW p \in Requests, NEW j \in Nat, Brings(request'[p], j)
               PROVE  /\ j \in valid
                      /\ \A t \in Secrets : ~Stores(secret'[t], j)
                      /\ \A q \in Requests : ~Uses(request'[q], j) /\ (Brings(request'[q], j) => q = p)
                      /\ \A c \in Callbacks : ~HoldsToken(oauth'[c], j)
    BY DEF BroughtAlone
  <2>1. Brings(request[p], j) /\ j # k
    OBVIOUS
  <2> QED
    BY <1>1, <2>1 DEF TokenInv, BroughtAlone
<1>6. CarriedAlone'
  <2> SUFFICES ASSUME NEW c \in Callbacks, NEW j \in Nat, HoldsToken(oauth'[c], j)
               PROVE  /\ j \in valid
                      /\ \A t \in Secrets : ~Stores(secret'[t], j)
                      /\ \A q \in Requests : ~Uses(request'[q], j) /\ ~Brings(request'[q], j)
                      /\ \A e \in Callbacks : HoldsToken(oauth'[e], j) => e = c
    BY DEF CarriedAlone
  <2>1. HoldsToken(oauth[c], j) /\ j # k
    OBVIOUS
  <2> QED
    BY <1>1, <2>1 DEF TokenInv, CarriedAlone
<1>7. TokenSurvives'
  <2> SUFFICES ASSUME NEW t \in Secrets, secret'[t].exists, t \notin stolen \cup forgotten
               PROVE  \/ secret'[t].token \in valid
                      \/ \E p \in Requests : Holds(p)' /\ request'[p].id = t /\ request'[p].pc = "granted"
    BY DEF TokenSurvives, Refreshers
  <2>1. CASE t = s
    BY <2>1, SecretSet
  <2>2. CASE t # s /\ secret[t].token \in valid
    BY <2>2, SecretSet
  <2>3. ASSUME NEW p \in Requests, request[p].id = t, request[p].pc = "granted", t # s
        PROVE  Holds(p)' /\ request'[p].id = t /\ request'[p].pc = "granted"
    BY <2>3 DEF Holds
  <2> QED
    BY <2>1, <2>2, <2>3, SecretSet DEF TokenInv, TokenSurvives, Refreshers
<1>8. valid' \subseteq 1 .. minted'
  BY DEF TokenInv
<1> QED
  BY <1>3, <1>4, <1>5, <1>6, <1>7, <1>8 DEF TokenInv

LEMMA AcquireKeepsTokens ==
    ASSUME TypeInv, TokenInv, NEW r \in Requests, Acquire(r), Lockable(secret[request[r].id])
    PROVE  TokenInv'
<1> DEFINE s0 == request[r].id
           u == secret[s0].token
<1>1. /\ minted' = minted /\ valid' = valid /\ oauth' = oauth
      /\ stolen' = stolen /\ forgotten' = forgotten /\ request[r].pc = "read"
  BY DEF Acquire
<1>2. PICK pc \in {"calling", "fresh"} : SecretMoves(r, [request[r] EXCEPT !.pc = pc, !.token = u])
  BY AcquireTakes
<1>3. /\ request'[r].pc \in {"calling", "fresh"} /\ request'[r].token = u
      /\ \A p \in Requests : request'[p].id = request[p].id /\ (p # r => request'[p] = request[p])
  <2> DEFINE q == [request[r] EXCEPT !.pc = pc, !.token = u]
  <2>1. q.pc = pc /\ q.token = u /\ q.id = request[r].id
    BY RequestValue DEF Req
  <2> HIDE DEF q, u
  <2> QED
    BY <1>2, <2>1, Moved DEF q
<1>4. s0 \in Secrets /\ u \in Nat /\ Stores(secret[s0], u)
  BY Ranges DEF Lockable, Stores
<1>5. \A s \in Secrets : secret'[s].exists = secret[s].exists /\ secret'[s].token = secret[s].token
  <2> DEFINE d == [secret[s0] EXCEPT !.lockedAt = now]
  <2>1. d.exists = secret[s0].exists /\ d.token = secret[s0].token
    BY RequestValue DEF Docs
  <2>2. SetSecret(s0, d)
    BY AcquireTakes
  <2> HIDE DEF d
  <2> QED
    BY <1>4, <2>1, <2>2, SecretSet
<1> HIDE DEF u
<1>6. /\ \A s \in Secrets, j \in Nat : Stores(secret'[s], j) <=> Stores(secret[s], j)
      /\ \A p \in Requests, j \in Nat : Uses(request'[p], j) => Uses(request[p], j) \/ (p = r /\ j = u)
      /\ \A p \in Requests, j \in Nat : Brings(request'[p], j) => Brings(request[p], j)
  <2>1. \A s \in Secrets, j \in Nat : Stores(secret'[s], j) <=> Stores(secret[s], j)
    BY <1>5 DEF Stores
  <2>2. ASSUME NEW p \in Requests, NEW j \in Nat
        PROVE  /\ Uses(request'[p], j) => Uses(request[p], j) \/ (p = r /\ j = u)
               /\ Brings(request'[p], j) => Brings(request[p], j)
    <3>1. CASE p = r
      BY <1>3, <3>1 DEF Uses, Brings
    <3>2. CASE p # r
      BY <1>3, <3>2
    <3> QED
      BY <3>1, <3>2
  <2> QED
    BY <2>1, <2>2
<1>7. StoredOnce'
  <2> SUFFICES ASSUME NEW s \in Secrets, NEW j \in Nat, Stores(secret[s], j)
               PROVE  /\ \A t \in Secrets : Stores(secret[t], j) => t = s
                      /\ \A p \in Requests : Uses(request'[p], j) => request[p].id = s
                      /\ j <= minted
    BY <1>1, <1>3, <1>6 DEF StoredOnce
  <2>1. j = u => s = s0
    BY <1>4 DEF TokenInv, StoredOnce
  <2> QED
    BY <1>6, <2>1 DEF TokenInv, StoredOnce
<1>12. UsesIssued'
  <2>1. u <= minted
    BY <1>4 DEF TokenInv, StoredOnce
  <2> QED
    BY <1>1, <1>6, <2>1 DEF TokenInv, UsesIssued
<1>8. BroughtAlone'
  <2> SUFFICES ASSUME NEW p \in Requests, NEW j \in Nat, Brings(request'[p], j)
               PROVE  /\ j \in valid
                      /\ \A s \in Secrets : ~Stores(secret'[s], j)
                      /\ \A q \in Requests : ~Uses(request'[q], j) /\ (Brings(request'[q], j) => q = p)
                      /\ \A c \in Callbacks : ~HoldsToken(oauth[c], j)
    BY <1>1 DEF BroughtAlone
  <2>1. Brings(request[p], j)
    BY <1>6
  <2>2. j # u
    BY <1>4, <2>1 DEF TokenInv, BroughtAlone
  <2> QED
    BY <1>6, <2>1, <2>2 DEF TokenInv, BroughtAlone
<1>9. CarriedAlone'
  <2> SUFFICES ASSUME NEW c \in Callbacks, NEW j \in Nat, HoldsToken(oauth[c], j)
               PROVE  /\ j \in valid
                      /\ \A s \in Secrets : ~Stores(secret'[s], j)
                      /\ \A q \in Requests : ~Uses(request'[q], j) /\ ~Brings(request'[q], j)
                      /\ \A d \in Callbacks : HoldsToken(oauth[d], j) => d = c
    BY <1>1 DEF CarriedAlone
  <2>1. j # u
    BY <1>4 DEF TokenInv, CarriedAlone
  <2> QED
    BY <1>6, <2>1 DEF TokenInv, CarriedAlone
<1>10. TokenSurvives'
  <2> SUFFICES ASSUME NEW s \in Secrets, secret[s].exists, s \notin stolen \cup forgotten
               PROVE  \/ secret[s].token \in valid
                      \/ \E p \in Requests : Holds(p)' /\ request'[p].id = s /\ request'[p].pc = "granted"
    BY <1>1, <1>5 DEF TokenSurvives, Refreshers
  <2>1. ASSUME NEW p \in Requests, request[p].id = s, request[p].pc = "granted"
        PROVE  Holds(p)' /\ request'[p].id = s /\ request'[p].pc = "granted"
    BY <1>1, <1>3, <2>1 DEF Holds
  <2> QED
    BY <2>1 DEF TokenInv, TokenSurvives, Refreshers
<1>11. valid' \subseteq 1 .. minted'
  BY <1>1 DEF TokenInv
<1> QED
  BY <1>7, <1>8, <1>9, <1>10, <1>11, <1>12 DEF TokenInv

LEMMA RequestKeepsTokens ==
    ASSUME TypeInv, TokenInv, NEW r \in Requests, Get(r) \/ RequestStep(r) \/ RequestDies(r)
    PROVE  TokenInv'
<1>1. CASE Grant(r)
  BY <1>1, GrantKeepsTokens
<1>2. CASE Acquire(r) /\ Lockable(secret[request[r].id])
  BY <1>2, AcquireKeepsTokens
<1>3. CASE SaveGranted(r) /\ secret[request[r].id].exists
  <2> DEFINE s == request[r].id
             k == request[r].token
             d == StoreGranted(secret[s], k)
             q == [request[r] EXCEPT !.pc = "answered"]
  <2>1. request' = [request EXCEPT ![r] = q] /\ secret' = [secret EXCEPT ![s] = d]
    BY <1>3 DEF SaveGranted, Goto, TypeInv, SecretTypeOK
  <2>2. s \in Secrets /\ k \in Nat /\ Brings(request[r], k)
    BY <1>3, Ranges DEF SaveGranted, Brings
  <2>3. d \in Docs /\ d.exists /\ d.token = k
    BY <1>3, RequestValue, Times DEF StoreGranted, Docs
  <2>4. q.pc = "answered" /\ q.id = s
    BY RequestValue DEF Req
  <2>5. UNCHANGED <<minted, valid, stolen, forgotten, oauth>>
    BY <1>3 DEF SaveGranted
  <2> HIDE DEF d, k, q
  <2>6. \A p \in Requests : request'[p] = IF p = r THEN q ELSE request[p]
    BY <2>1 DEF TypeInv, SecretTypeOK
  <2>7. /\ k \in valid
        /\ \A t \in Secrets : ~Stores(secret[t], k)
        /\ \A p \in Requests : ~Uses(request[p], k)
        /\ \A p \in Requests : Brings(request[p], k) => p = r
        /\ \A c \in Callbacks : ~HoldsToken(oauth[c], k)
    BY <2>2 DEF TokenInv, BroughtAlone
  <2>8. SetSecret(s, d)
    BY <2>1, <2>3 DEF SetSecret
  <2>9. \A p \in Requests :
           /\ request'[p].id = request[p].id
           /\ request[p].pc = "granted" => request'[p].pc = "granted" \/ request[p].id = s
    BY <2>4, <2>6
  <2>10. ASSUME NEW p \in Requests, NEW j \in Nat
         PROVE  /\ Uses(request'[p], j) => Uses(request[p], j)
                /\ Brings(request'[p], j) => Brings(request[p], j) /\ j # k
    <3>1. CASE p = r
      BY <2>4, <2>6, <3>1 DEF Uses, Brings
    <3>2. CASE p # r
      BY <2>6, <2>7, <3>2
    <3> QED
      BY <3>1, <3>2
  <2>11. ASSUME NEW c \in Callbacks, NEW j \in Nat, HoldsToken(oauth'[c], j)
         PROVE  HoldsToken(oauth[c], j) /\ j # k
    BY <2>5, <2>7, <2>11
  <2> QED
    BY <2>2, <2>3, <2>5, <2>7, <2>8, <2>9, <2>10, <2>11, StoringKeepsTokens
<1>4. CASE ~Grant(r) /\ ~(Acquire(r) /\ Lockable(secret[request[r].id]))
            /\ ~(SaveGranted(r) /\ secret[request[r].id].exists)
  <2>1. UNCHANGED <<minted, valid, oauth>> /\ stolen \subseteq stolen' /\ forgotten \subseteq forgotten'
    BY <1>4 DEF Get, RequestStep, ReturnStored, Acquire, TakeOver, BackOff, Retry, Refuse, CallFails,
       SaveGranted, SaveRefusal, SaveUnrefreshed, RequestDies
  <2>2. PICK q : SecretMoves(r, q)
    BY GetMoves, ReturnStoredMoves, AcquireMoves, TakeOverMoves, LaterMoves, RetryMoves, GrantMoves,
       SaveGrantedMoves, UnlockMoves, EndMoves DEF RequestStep, BackOff
  <2>3. /\ request'[r] = q /\ q.id = request[r].id
        /\ \A p \in Requests : p # r => request'[p] = request[p]
    BY <2>2, Moved DEF SecretMoves
  <2>4. request'[r].pc \notin {"calling", "granted"}
    <3>1. CASE Get(r) \/ ReturnStored(r) \/ Retry(r) \/ Refuse(r) \/ CallFails(r) \/ SaveRefusal(r)
               \/ SaveUnrefreshed(r) \/ RequestDies(r)
      BY <3>1 DEF Get, ReturnStored, Retry, Refuse, CallFails, SaveRefusal, SaveUnrefreshed, RequestDies,
         Goto, TypeInv, SecretTypeOK
    <3>2. CASE SaveGranted(r)
      BY <1>4, <3>2 DEF SaveGranted, Goto, TypeInv, SecretTypeOK
    <3>3. CASE TakeOver(r)
      BY <3>3 DEF TakeOver, Goto, TypeInv, SecretTypeOK
    <3>4. CASE Acquire(r) \/ BackOff(r)
      <4>1. request' = [request EXCEPT ![r] = Later(request[r])]
        BY <1>4, <3>4 DEF Acquire, BackOff
      <4> QED
        BY <4>1, LaterMoves, Moved
    <3> QED
      BY <1>4, <3>1, <3>2, <3>3, <3>4 DEF RequestStep
  <2>5. \A s \in Secrets : secret'[s].exists => secret[s].exists /\ secret'[s].token = secret[s].token
    <3>1. CASE secret' = secret
      BY <3>1
    <3>2. CASE secret' = [secret EXCEPT ![request[r].id].lockedAt = 0]
      BY <3>2, RequestValue DEF TypeInv, SecretTypeOK, Docs
    <3> QED
      BY <1>4, <3>1, <3>2 DEF Get, RequestStep, ReturnStored, Acquire, TakeOver, BackOff, Retry, Refuse,
         CallFails, SaveGranted, SaveRefusal, SaveUnrefreshed, RequestDies
  <2>6. request[r].pc = "granted" => request[r].id \in forgotten' \/ ~secret'[request[r].id].exists
    BY <1>4 DEF Get, RequestStep, ReturnStored, Acquire, TakeOver, BackOff, Retry, Refuse,
         CallFails, SaveGranted, SaveRefusal, SaveUnrefreshed, RequestDies
  <2>7. \A p \in Requests :
           /\ request'[p].id = request[p].id
           /\ request'[p].pc \in {"calling", "granted"}
                 => request'[p].pc = request[p].pc /\ request'[p].token = request[p].token
           /\ request[p].pc = "granted" =>
                 \/ request'[p].pc = "granted"
                 \/ request[p].id \in forgotten' \/ ~secret'[request[p].id].exists
    BY <2>3, <2>4, <2>6
  <2> QED
    BY <2>1, <2>5, <2>7, TokensLeftAlone
<1> QED
  BY <1>1, <1>2, <1>3, <1>4

LEMMA ExchangeKeepsTokens ==
    ASSUME TypeInv, TokenInv, NEW c \in Callbacks, Exchange(c)
    PROVE  TokenInv'
<1> DEFINE k == minted + 1
<1>1. /\ minted' = k /\ valid' = valid \cup {k}
      /\ UNCHANGED <<secret, request, stolen, forgotten>>
  BY DEF Exchange
<1>2. /\ oauth'[c].token = k
      /\ \A e \in Callbacks : e # c => oauth'[e] = oauth[e]
  BY DEF Exchange, TypeInv, SecretTypeOK
<1>3. minted \in Nat
  BY Ranges
<1> HIDE DEF k
<1>4. /\ k \in Nat /\ k \notin valid
      /\ \A s \in Secrets : ~Stores(secret[s], k)
      /\ \A p \in Requests : ~Uses(request[p], k) /\ ~Brings(request[p], k)
      /\ \A e \in Callbacks : ~HoldsToken(oauth[e], k)
  BY NewToken DEF k
<1>5. \A e \in Callbacks, j \in Nat :
         HoldsToken(oauth'[e], j) => IF e = c THEN j = k ELSE HoldsToken(oauth[e], j) /\ j # k
  BY <1>2, <1>4 DEF HoldsToken
<1>6. \A j \in Nat : j <= minted => j <= minted'
  BY <1>1, <1>3 DEF k
<1>7. StoredOnce' /\ UsesIssued'
  BY <1>1, <1>6 DEF TokenInv, StoredOnce, UsesIssued
<1>8. BroughtAlone'
  <2> SUFFICES ASSUME NEW p \in Requests, NEW j \in Nat, Brings(request[p], j)
               PROVE  /\ j \in valid'
                      /\ \A s \in Secrets : ~Stores(secret[s], j)
                      /\ \A q \in Requests : ~Uses(request[q], j) /\ (Brings(request[q], j) => q = p)
                      /\ \A e \in Callbacks : ~HoldsToken(oauth'[e], j)
    BY <1>1 DEF BroughtAlone
  <2>1. j # k
    BY <1>4
  <2> QED
    BY <1>1, <1>5, <2>1 DEF TokenInv, BroughtAlone
<1>9. CarriedAlone'
  <2> SUFFICES ASSUME NEW e \in Callbacks, NEW j \in Nat, HoldsToken(oauth'[e], j)
               PROVE  /\ j \in valid'
                      /\ \A s \in Secrets : ~Stores(secret[s], j)
                      /\ \A q \in Requests : ~Uses(request[q], j) /\ ~Brings(request[q], j)
                      /\ \A d \in Callbacks : HoldsToken(oauth'[d], j) => d = e
    BY <1>1 DEF CarriedAlone
  <2>1. CASE e = c
    BY <1>1, <1>4, <1>5, <2>1
  <2>2. CASE e # c
    BY <1>1, <1>5, <2>2 DEF TokenInv, CarriedAlone
  <2> QED
    BY <2>1, <2>2
<1>10. TokenSurvives'
  BY <1>1 DEF TokenInv, TokenSurvives, Refreshers, Holds
<1>11. valid' \subseteq 1 .. minted'
  <2>1. k \in 1 .. k /\ \A j \in 1 .. minted : j \in 1 .. k
    BY <1>3 DEF k
  <2> QED
    BY <1>1, <2>1 DEF TokenInv
<1> QED
  BY <1>7, <1>8, <1>9, <1>10, <1>11 DEF TokenInv

LEMMA CallbackKeepsTokens ==
    ASSUME TypeInv, TokenInv, NEW c \in Callbacks,
           FindByExternalId(c) \/ UpdateFound(c) \/ CreateMissing(c)
    PROVE  TokenInv'
<1>1. /\ UNCHANGED <<minted, valid, request, stolen, forgotten>>
      /\ oauth[c].pc \in {"exchanged", "found", "missing"} /\ oauth'[c].token = oauth[c].token
      /\ \A e \in Callbacks : e # c => oauth'[e] = oauth[e]
  BY DEF FindByExternalId, UpdateFound, CreateMissing, TypeInv, SecretTypeOK
<1> DEFINE k == oauth[c].token
<1>2. k \in Nat /\ HoldsToken(oauth[c], k)
  BY <1>1, Ranges DEF HoldsToken
<1>3. \A e \in Callbacks, j \in Nat : HoldsToken(oauth'[e], j) => HoldsToken(oauth[e], j)
  BY <1>1 DEF HoldsToken
<1>4. CASE secret' = secret
  BY <1>1, <1>3, <1>4, TokensLeftAlone
<1>5. ASSUME NEW s \in Secrets, NEW d, SetSecret(s, d), d.exists, d.token = k, oauth'[c].pc = "done"
      PROVE  TokenInv'
  <2> HIDE DEF k
  <2>1. /\ k \in valid
        /\ \A t \in Secrets : ~Stores(secret[t], k)
        /\ \A p \in Requests : ~Uses(request[p], k) /\ ~Brings(request[p], k)
        /\ \A e \in Callbacks : HoldsToken(oauth[e], k) => e = c
    BY <1>2 DEF TokenInv, CarriedAlone
  <2>2. ASSUME NEW e \in Callbacks, NEW j \in Nat, HoldsToken(oauth'[e], j)
        PROVE  HoldsToken(oauth[e], j) /\ j # k
    <3>1. e # c
      BY <1>5, <2>2 DEF HoldsToken
    <3> QED
      BY <1>3, <2>1, <2>2, <3>1
  <2>3. \A p \in Requests, j \in Nat : Brings(request[p], j) => j # k
    BY <2>1
  <2> QED
    BY <1>1, <1>2, <1>5, <2>1, <2>2, <2>3, StoringKeepsTokens
<1>6. CASE UpdateFound(c) /\ secret[oauth[c].id].exists
  <2> DEFINE s == oauth[c].id
             d == [secret[s] EXCEPT !.token = k, !.expires = now + Lifetime]
  <2>1. s \in Secrets /\ k \in 0 .. MaxTokens /\ secret[s] \in Docs
    BY DEF TypeInv, SecretTypeOK
  <2>2. secret' = [secret EXCEPT ![s] = d] /\ oauth'[c].pc = "done"
    BY <1>6, <2>1 DEF UpdateFound, TypeInv, SecretTypeOK
  <2>3. d \in Docs /\ d.exists /\ d.token = k
    BY <1>6, <2>1, Times DEF Docs
  <2> HIDE DEF d
  <2> QED
    BY <1>5, <2>1, <2>2, <2>3 DEF SetSecret
<1>7. CASE CreateMissing(c)
  <2> DEFINE d == [exists |-> TRUE, token |-> k, expires |-> now + Lifetime,
                   lockedAt |-> 0, used |-> TRUE]
  <2>1. k \in 0 .. MaxTokens
    BY DEF TypeInv, SecretTypeOK
  <2>2. d \in Docs /\ d.exists /\ d.token = k
    BY <2>1, Times DEF Docs
  <2>3. PICK s \in Secrets : secret' = [secret EXCEPT ![s] = d]
    BY <1>7 DEF CreateMissing
  <2>4. oauth'[c].pc = "done"
    BY <1>7 DEF CreateMissing, TypeInv, SecretTypeOK
  <2> HIDE DEF d
  <2> QED
    BY <1>5, <2>2, <2>3, <2>4 DEF SetSecret
<1> QED
  BY <1>4, <1>6, <1>7 DEF FindByExternalId, UpdateFound

LEMMA StepTokens == TypeInv /\ TokenInv /\ [SecretNext]_SecretVars => TokenInv'
<1> SUFFICES ASSUME TypeInv, TokenInv, [SecretNext]_SecretVars PROVE TokenInv'
  OBVIOUS
<1>1. ASSUME NEW c \in Callbacks, CallbackStep(c) PROVE TokenInv'
  BY <1>1, ExchangeKeepsTokens, CallbackKeepsTokens DEF CallbackStep
<1>2. ASSUME NEW s \in Secrets, DeleteSecret(s) PROVE TokenInv'
  <2>1. \A t \in Secrets : secret'[t].exists => secret[t].exists /\ secret'[t].token = secret[t].token
    BY <1>2 DEF DeleteSecret, Absent, TypeInv, SecretTypeOK
  <2>2. UNCHANGED <<minted, valid, request, oauth, stolen, forgotten>>
    BY <1>2 DEF DeleteSecret
  <2> QED
    BY <2>1, <2>2, TokensLeftAlone
<1>3. CASE Tick \/ UNCHANGED SecretVars
  <2>1. UNCHANGED <<secret, minted, valid, request, oauth, stolen, forgotten>>
    BY <1>3 DEF Tick
  <2> QED
    BY <2>1, TokensLeftAlone
<1> QED
  BY <1>1, <1>2, <1>3, RequestKeepsTokens DEF SecretNext

(* A stored refresh token is one the provider accepts, or its successor is  *)
(* about to be stored: for any requests, callbacks and deletions, until a   *)
(* live lock is released or a granted token dies with its request.          *)
THEOREM TokenSurvivesHolds == SecretSpec => []TokenSurvives
<1>1. TokenInv => TokenSurvives
  BY DEF TokenInv
<1> QED
  BY SecretInitTypes, SecretStepTypes, InitTokens, StepTokens, <1>1, PTL DEF SecretSpec
=============================================================================
