---------------------------- MODULE SecretRefresh ----------------------------
(***************************************************************************)
(* The secret service hands out OAuth access tokens and refreshes them on  *)
(* the way.  A provider revokes a refresh token when it is used, so the    *)
(* requests for one secret must not refresh it together: the one that sets *)
(* lockedAt refreshes, the others back off and look again.  A lock older   *)
(* than refreshTimeout is taken for abandoned and released by whoever      *)
(* meets it.  Callbacks of authorization flows store tokens beside that.   *)
(*                                                                         *)
(* Time is a counter that may advance between any two steps.  A refresh    *)
(* token is a number, in the order of issue; the access token issued with  *)
(* it is not told apart from it.                                           *)
(***************************************************************************)
EXTENDS Naturals, FiniteSets

CONSTANTS
    Requests,        \* requests for a secret (GET /secrets/:id), one each
    Callbacks,       \* authorization flows that end in GET /callback
    Secrets,         \* ids of secrets
    Stored,          \* ids that exist from the start
    RefreshTimeout,  \* conf.refreshTimeout
    Lifetime,        \* expires_in of the provider's answers
    MaxRetry,        \* MAX_RETRY
    MaxTime,         \* bound: the clock
    MaxTokens,       \* bound: tokens issued
    MaxSecretFaults  \* bound: crashes and lost answers

ASSUME SecretAssumption ==
    /\ Stored \subseteq Secrets
    /\ IsFiniteSet(Stored) /\ Cardinality(Stored) <= MaxTokens
    /\ RefreshTimeout \in Nat \ {0} /\ Lifetime \in Nat /\ MaxRetry \in Nat
    /\ MaxTime \in Nat \ {0} /\ MaxTokens \in Nat \ {0} /\ MaxSecretFaults \in Nat

VARIABLES
    now,           \* the clock
    secret,        \* secret[s]: the document
    valid,         \* refresh tokens the provider accepts
    minted,        \* tokens 1..minted have been issued
    request,       \* request[r]: progress of a call of getRefreshed
    oauth,         \* oauth[c]: progress of handleOAuth2
    stolen,        \* history: secrets of which a live lock was released by another
    forgotten,     \* history: secrets of which an issued token was never stored
    secretFaults

SecretVars == <<now, secret, valid, minted, request, oauth, stolen, forgotten, secretFaults>>

(* lockedAt 0: null. A document of an id not yet used or deleted does not   *)
(* exist.                                                                  *)
Docs == [exists : BOOLEAN, token : 0 .. MaxTokens, expires : 0 .. MaxTime + Lifetime,
         lockedAt : 0 .. MaxTime, used : BOOLEAN]
Absent(used) == [exists |-> FALSE, token |-> 0, expires |-> 0, lockedAt |-> 0, used |-> used]

(* read: has the document in hand; calling: holds the lock, the provider    *)
(* works; granted, refused: has its answer; fresh: holds the lock, nothing  *)
(* to do; waiting: for the timer of the back-off.                          *)
Progress == {"idle", "read", "calling", "granted", "refused", "fresh", "waiting",
             "answered", "rejected"}

SecretTypeOK ==
    /\ now \in 1 .. MaxTime
    /\ secret \in [Secrets -> Docs]
    /\ minted \in 0 .. MaxTokens /\ valid \subseteq 1 .. MaxTokens
    /\ request \in [Requests -> [pc : Progress, id : Secrets, seen : Docs,
                                 token : 0 .. MaxTokens, iter : 0 .. MaxRetry]]
    /\ oauth \in [Callbacks -> [pc : {"idle", "exchanged", "found", "missing", "done"},
                                   id : Secrets, token : 0 .. MaxTokens]]
    /\ stolen \subseteq Secrets /\ forgotten \subseteq Secrets
    /\ secretFaults \in 0 .. MaxSecretFaults

SecretInit ==
    /\ now = 1
    /\ minted = Cardinality(Stored)
    /\ valid = 1 .. minted
    /\ \E first \in [Stored -> 1 .. minted] :
        /\ \A s, t \in Stored : first[s] = first[t] => s = t
        /\ secret = [s \in Secrets |->
                        IF s \in Stored
                        THEN [exists |-> TRUE, token |-> first[s], expires |-> 1,
                              lockedAt |-> 0, used |-> TRUE]
                        ELSE Absent(FALSE)]
    /\ request \in [Requests -> [pc : {"idle"}, id : Secrets, seen : {Absent(FALSE)},
                                 token : {0}, iter : {0}]]
    /\ oauth \in [Callbacks -> [pc : {"idle"}, id : Secrets, token : {0}]]
    /\ stolen = {} /\ forgotten = {} /\ secretFaults = 0

----------------------------------------------------------------------------

(* The expirationOffset is part of expires.                                *)
ShouldRefreshToken(doc) == now >= doc.expires
ShouldAssumeRefreshTimeout(doc) == now - doc.lockedAt >= RefreshTimeout
Locked(doc) == doc.lockedAt # 0

(* Refreshers of a secret: those that set its lock and still mean to save.  *)
Holds(r) == request[r].pc \in {"calling", "granted", "refused", "fresh"}
Refreshers(s) == {r \in Requests : Holds(r) /\ request[r].id = s}

Goto(r, pc) == request' = [request EXCEPT ![r].pc = pc]

(* userIsOwnerOf reads the document; nothing is refreshed for a secret that *)
(* is not there.                                                           *)
Get(r) ==
    LET s == request[r].id IN
    /\ request[r].pc = "idle"
    /\ secret[s].exists
    /\ request' = [request EXCEPT ![r].pc = "read", ![r].seen = secret[s]]
    /\ UNCHANGED <<secret, now, valid, minted, oauth, stolen, forgotten, secretFaults>>

ReturnStored(r) ==
    /\ request[r].pc = "read"
    /\ ~Locked(request[r].seen) /\ ~ShouldRefreshToken(request[r].seen)
    /\ request' = [request EXCEPT ![r].pc = "answered", ![r].token = request[r].seen.token]
    /\ UNCHANGED <<secret, now, valid, minted, oauth, stolen, forgotten, secretFaults>>

(* Slip: the update that locks does not ask for an unlocked document.       *)
LockableAlways(doc) == doc.exists
Lockable(doc) == doc.exists /\ ~Locked(doc)

(* Back off before the next attempt, or end after the last one.             *)
Later(q) == [q EXCEPT !.pc = IF q.iter < MaxRetry THEN "waiting" ELSE "rejected"]

(* The document in hand says unlocked and due: lock it, atomically, and     *)
(* look at what was locked.                                                *)
Acquire(r) ==
    LET s == request[r].id
        doc == secret[s]
    IN
    /\ request[r].pc = "read"
    /\ ~Locked(request[r].seen) /\ ShouldRefreshToken(request[r].seen)
    /\ IF Lockable(doc)
       THEN /\ secret' = [secret EXCEPT ![s].lockedAt = now]
            /\ request' = [request EXCEPT
                              ![r].pc = IF ShouldRefreshToken(doc) THEN "calling" ELSE "fresh",
                              ![r].token = doc.token]
       ELSE /\ request' = [request EXCEPT ![r] = Later(request[r])]
            /\ UNCHANGED secret
    /\ UNCHANGED <<now, valid, minted, oauth, stolen, forgotten, secretFaults>>

(* The document in hand has an old lock: release whatever lock there is by  *)
(* now, and go on with the document in hand.  Saving a deleted document     *)
(* fails.                                                                  *)
TakeOver(r) ==
    LET s == request[r].id IN
    /\ request[r].pc = "read"
    /\ Locked(request[r].seen) /\ ShouldAssumeRefreshTimeout(request[r].seen)
    /\ IF secret[s].exists
       THEN /\ secret' = [secret EXCEPT ![s].lockedAt = 0]
            /\ request' = [request EXCEPT ![r].seen.lockedAt = 0]
            /\ stolen' = IF Refreshers(s) = {} THEN stolen ELSE stolen \cup {s}
       ELSE /\ Goto(r, "rejected")
            /\ UNCHANGED <<secret, stolen>>
    /\ UNCHANGED <<now, valid, minted, oauth, forgotten, secretFaults>>

BackOff(r) ==
    /\ request[r].pc = "read"
    /\ Locked(request[r].seen) /\ ~ShouldAssumeRefreshTimeout(request[r].seen)
    /\ request' = [request EXCEPT ![r] = Later(request[r])]
    /\ UNCHANGED <<secret, now, valid, minted, oauth, stolen, forgotten, secretFaults>>

(* Slip: the attempts are not counted.                                      *)
NextIterSame(i) == i
NextIter(i) == i + 1

(* The timer reads the document again; of a deleted one null.type throws.   *)
Retry(r) ==
    LET s == request[r].id IN
    /\ request[r].pc = "waiting"
    /\ IF secret[s].exists
       THEN request' = [request EXCEPT ![r].pc = "read", ![r].seen = secret[s],
                                       ![r].iter = NextIter(request[r].iter)]
       ELSE Goto(r, "rejected")
    /\ UNCHANGED <<secret, now, valid, minted, oauth, stolen, forgotten, secretFaults>>

----------------------------------------------------------------------------
(* The provider's answers.                                                 *)

Grant(r) ==
    LET used == request[r].token IN
    /\ request[r].pc = "calling" /\ used \in valid /\ minted < MaxTokens
    /\ minted' = minted + 1
    /\ valid' = (valid \ {used}) \cup {minted + 1}
    /\ request' = [request EXCEPT ![r].pc = "granted", ![r].token = minted + 1]
    /\ UNCHANGED <<secret, now, oauth, stolen, forgotten, secretFaults>>

(* A refusal that arrives as an answer with an error, of a revoked token or *)
(* for another reason.                                                     *)
Refuse(r) ==
    /\ request[r].pc = "calling"
    /\ Goto(r, "refused")
    /\ UNCHANGED <<secret, now, valid, minted, oauth, stolen, forgotten, secretFaults>>

(* A refusal that arrives as an HTTP error, or a call that fails: checkStatus *)
(* or fetch throws, the request ends and the lock stays.                   *)
CallFails(r) ==
    /\ request[r].pc = "calling"
    /\ Goto(r, "rejected")
    /\ UNCHANGED <<secret, now, valid, minted, oauth, stolen, forgotten, secretFaults>>

(* Slip: the refresh token of the answer is not stored.                     *)
StoreGrantedOld(doc, token) == [doc EXCEPT !.expires = now + Lifetime, !.lockedAt = 0]
StoreGranted(doc, token) ==
    [doc EXCEPT !.token = token, !.expires = now + Lifetime, !.lockedAt = 0]

SaveGranted(r) ==
    LET s == request[r].id IN
    /\ request[r].pc = "granted"
    /\ IF secret[s].exists
       THEN /\ secret' = [secret EXCEPT ![s] = StoreGranted(secret[s], request[r].token)]
            /\ Goto(r, "answered")
       ELSE /\ Goto(r, "rejected")
            /\ UNCHANGED secret
    /\ UNCHANGED <<now, valid, minted, oauth, stolen, forgotten, secretFaults>>

(* By then the secret may be deleted: the update finds nothing.             *)
SaveRefusal(r) ==
    LET s == request[r].id IN
    /\ request[r].pc = "refused"
    /\ secret' = [secret EXCEPT ![s].lockedAt = 0]
    /\ Goto(r, "rejected")
    /\ UNCHANGED <<now, valid, minted, oauth, stolen, forgotten, secretFaults>>

(* Another request has refreshed the secret before it was locked.           *)
SaveUnrefreshed(r) ==
    LET s == request[r].id IN
    /\ request[r].pc = "fresh"
    /\ secret' = [secret EXCEPT ![s].lockedAt = 0]
    /\ Goto(r, IF secret[s].exists THEN "answered" ELSE "rejected")
    /\ UNCHANGED <<now, valid, minted, oauth, stolen, forgotten, secretFaults>>

(* The process dies, or the answer does not reach it.  A token granted and  *)
(* not stored is lost with it.                                             *)
RequestDies(r) ==
    /\ secretFaults < MaxSecretFaults
    /\ request[r].pc \notin {"idle", "answered", "rejected"}
    /\ Goto(r, "rejected")
    /\ forgotten' = IF request[r].pc = "granted" THEN forgotten \cup {request[r].id} ELSE forgotten
    /\ secretFaults' = secretFaults + 1
    /\ UNCHANGED <<secret, now, valid, minted, oauth, stolen>>

----------------------------------------------------------------------------
(* The callback of an authorization flow: exchange the code, look for a     *)
(* secret of the account, update that or create one, each after an await.   *)

Exchange(c) ==
    /\ oauth[c].pc = "idle" /\ minted < MaxTokens
    /\ minted' = minted + 1
    /\ valid' = valid \cup {minted + 1}
    /\ oauth' = [oauth EXCEPT ![c].pc = "exchanged", ![c].token = minted + 1]
    /\ UNCHANGED <<secret, now, request, stolen, forgotten, secretFaults>>

FindByExternalId(c) ==
    /\ oauth[c].pc = "exchanged"
    /\ \/ \E s \in Secrets :
            /\ secret[s].exists
            /\ oauth' = [oauth EXCEPT ![c].pc = "found", ![c].id = s]
       \/ /\ \A s \in Secrets : ~secret[s].exists
          /\ oauth' = [oauth EXCEPT ![c].pc = "missing"]
    /\ UNCHANGED <<secret, now, valid, minted, request, stolen, forgotten, secretFaults>>

(* $set of the values alone; of a deleted secret it returns null, the       *)
(* callback fails and its tokens are gone with the secret.                  *)
UpdateFound(c) ==
    LET s == oauth[c].id IN
    /\ oauth[c].pc = "found"
    /\ secret' = IF secret[s].exists
                 THEN [secret EXCEPT ![s].token = oauth[c].token,
                                     ![s].expires = now + Lifetime]
                 ELSE secret
    /\ oauth' = [oauth EXCEPT ![c].pc = "done"]
    /\ UNCHANGED <<now, valid, minted, request, stolen, forgotten, secretFaults>>

CreateMissing(c) ==
    /\ oauth[c].pc = "missing"
    /\ \E s \in Secrets :
        /\ ~secret[s].used
        /\ secret' = [secret EXCEPT ![s] =
                        [exists |-> TRUE, token |-> oauth[c].token,
                         expires |-> now + Lifetime, lockedAt |-> 0, used |-> TRUE]]
    /\ oauth' = [oauth EXCEPT ![c].pc = "done"]
    /\ UNCHANGED <<now, valid, minted, request, stolen, forgotten, secretFaults>>

(* DELETE /secrets/:id by the last owner.                                   *)
DeleteSecret(s) ==
    /\ secret[s].exists
    /\ secret' = [secret EXCEPT ![s] = Absent(TRUE)]
    /\ UNCHANGED <<now, valid, minted, request, oauth, stolen, forgotten, secretFaults>>

Tick ==
    /\ now < MaxTime
    /\ now' = now + 1
    /\ UNCHANGED <<secret, valid, minted, request, oauth, stolen, forgotten, secretFaults>>

RequestStep(r) ==
    \/ ReturnStored(r) \/ Acquire(r) \/ TakeOver(r) \/ BackOff(r) \/ Retry(r)
    \/ Grant(r) \/ Refuse(r) \/ CallFails(r)
    \/ SaveGranted(r) \/ SaveRefusal(r) \/ SaveUnrefreshed(r)
CallbackStep(c) == Exchange(c) \/ FindByExternalId(c) \/ UpdateFound(c) \/ CreateMissing(c)

SecretNext ==
    \/ \E r \in Requests : Get(r) \/ RequestStep(r) \/ RequestDies(r)
    \/ \E c \in Callbacks : CallbackStep(c)
    \/ \E s \in Secrets : DeleteSecret(s)
    \/ Tick

SecretSpec == SecretInit /\ [][SecretNext]_SecretVars
SecretFairness == \A r \in Requests : WF_SecretVars(RequestStep(r))

----------------------------------------------------------------------------

(* While no live lock of a secret was released by another request, at most  *)
(* one request refreshes it: the refresh of dao/secret.js, with any number  *)
(* of crashes, deletions and abandoned locks.                              *)
OneRefresher ==
    \A r1, r2 \in Requests :
        /\ Holds(r1) /\ Holds(r2)
        /\ request[r1].id = request[r2].id
        /\ request[r1].id \notin stolen
        => r1 = r2

(* The token of a secret can always be refreshed: the stored refresh token  *)
(* is one the provider accepts, or a request is about to store its         *)
(* successor -- unless a granted token died with its request, or a live     *)
(* lock was released.                                                      *)
TokenSurvives ==
    \A s \in Secrets :
        secret[s].exists /\ s \notin stolen \cup forgotten =>
            \/ secret[s].token \in valid
            \/ \E r \in Refreshers(s) : request[r].pc = "granted"

(* A request of a token ends, answered or rejected, whatever happens to     *)
(* the lock: the back-off is bounded.                                      *)
RequestsAreAnswered ==
    \A r \in Requests :
        request[r].pc = "read" ~> request[r].pc \in {"answered", "rejected"}
=============================================================================
