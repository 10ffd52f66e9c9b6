---------------------------- MODULE Triggers_proofs ----------------------------
(***************************************************************************)
(* Proofs about Triggers for any flows, limit, events, faults and crashes: *)
(* the copies of a service whose handlers did not overlap are those of its *)
(* running flows, and no date of a flow passes without its execution.      *)
(***************************************************************************)
EXTENDS Triggers, SequenceTheorems, TLAPS

(* What the copy should be once the handler of an event has written it.      *)
Result(kind, own) == IF own /\ kind # "stopping" THEN kind ELSE "none"

(* The last event of a flow is its life; each follows the one before.        *)
MailTellsLives ==
    \A i \in DOMAIN mail :
        /\ (\A j \in DOMAIN mail : mail[j].flow = mail[i].flow => j <= i) =>
              life[mail[i].flow] = [last |-> mail[i].kind, own |-> mail[i].own]
        /\ \A j \in 1 .. i - 1 :
              mail[j].flow = mail[i].flow /\ (\A k \in j + 1 .. i - 1 : mail[k].flow # mail[i].flow) =>
                  /\ Follows(mail[i].kind, mail[j].kind)
                  /\ mail[i].kind = "starting" \/ mail[i].own = mail[j].own

(* What has been read is to be written.                                     *)
Deletes(i) == mail[i].kind = "stopping" \/ (mail[i].kind = "starting" /\ ~mail[i].own)
ReadsUpdate == \A i \in DOMAIN mail : mail[i].pc = "read" => ~Deletes(i)

UnsettledMail(i) == mail[i].pc # "settled"
IsFirst(i) == UnsettledMail(i) /\ \A j \in 1 .. i - 1 : mail[j].flow = mail[i].flow => ~UnsettledMail(j)

(* Of a flow whose handlers did not overlap: events are handled in order,    *)
(* and the copy is what the last one that was handled made of it.           *)
HandledInOrder(f) ==
    \A i \in DOMAIN mail : mail[i].flow = f =>
        /\ mail[i].pc # "queued" => \A j \in 1 .. i - 1 : mail[j].flow = f => ~UnsettledMail(j)
        /\ mail[i].pc = "read" => mail[i].own /\ mail[i].kind # "stopping" /\ mail[i].found = (copy[f] # "none")
        /\ mail[i].pc = "written" => copy[f] = Result(mail[i].kind, mail[i].own)
        /\ IsFirst(i) /\ mail[i].kind = "started" => ((copy[f] # "none") = mail[i].own)
CopyIsLife(f) ==
    (\A i \in DOMAIN mail : mail[i].flow = f => ~UnsettledMail(i)) => copy[f] = Result(life[f].last, life[f].own)

(* Of a flow the loop has in hand.                                          *)
DueInHand(f) ==
    hand[f] # "no" =>
        /\ ~InHandler(f) /\ Contains(overdue, f) /\ copy[f] = "started"
        /\ hand[f] = "published" => f \in executed

DueAreStarted == \A f \in Timed : Contains(overdue, f) => copy[f] = "started"

TriggerInv ==
    /\ TriggerTypeOK /\ ReadsUpdate /\ MailTellsLives /\ DueAreStarted
    /\ \A f \in Timed \ crossed : HandledInOrder(f) /\ CopyIsLife(f) /\ DueInHand(f)

----------------------------------------------------------------------------
(* What is left of a sequence without its i-th element.                     *)
LEMMA RemovalLeaves ==
    ASSUME NEW S, NEW s \in Seq(S), NEW i \in 1 .. Len(s)
    PROVE  /\ RemoveAt(s, i) \in Seq(S)
           /\ Len(RemoveAt(s, i)) = Len(s) - 1
           /\ \A k \in 1 .. Len(s) - 1 : RemoveAt(s, i)[k] = IF k < i THEN s[k] ELSE s[k + 1]
<1> DEFINE a == SubSeq(s, 1, i - 1)
           b == SubSeq(s, i + 1, Len(s))
<1>1. a \in Seq(S) /\ Len(a) = i - 1 /\ \A k \in 1 .. i - 1 : a[k] = s[k]
  OBVIOUS
<1>2. b \in Seq(S) /\ Len(b) = Len(s) - i /\ \A k \in 1 .. Len(s) - i : b[k] = s[i + k]
  OBVIOUS
<1>3. RemoveAt(s, i) = a \o b
  BY DEF RemoveAt
<1> HIDE DEF a, b
<1>4. /\ a \o b \in Seq(S) /\ Len(a \o b) = Len(s) - 1
      /\ \A k \in 1 .. Len(s) - 1 : (a \o b)[k] = IF k < i THEN a[k] ELSE b[k - i + 1]
  <2>1. /\ a \o b \in Seq(S) /\ Len(a \o b) = Len(a) + Len(b)
        /\ \A k \in 1 .. Len(a) + Len(b) : (a \o b)[k] = IF k <= Len(a) THEN a[k] ELSE b[k - Len(a)]
    BY <1>1, <1>2, ConcatProperties
  <2>2. Len(a) + Len(b) = Len(s) - 1
    BY <1>1, <1>2
  <2>3. \A k \in 1 .. Len(s) - 1 : (k <= Len(a) <=> k < i) /\ k - Len(a) = k - i + 1
    BY <1>1
  <2>4. QED
    BY <2>1, <2>2, <2>3
<1>5. \A k \in 1 .. Len(s) - 1 : k >= i => b[k - i + 1] = s[k + 1]
  BY <1>2
<1>6. QED
  BY <1>1, <1>3, <1>4, <1>5

LEMMA RemoveFirstLeaves ==
    ASSUME NEW S, NEW s \in Seq(S), IsInjective(s), NEW e
    PROVE  /\ RemoveFirst(s, e) \in Seq(S) /\ IsInjective(RemoveFirst(s, e))
           /\ \A g : Contains(RemoveFirst(s, e), g) <=> Contains(s, g) /\ g # e
<1>1. CASE ~ \E i \in 1 .. Len(s) : s[i] = e
  BY <1>1 DEF RemoveFirst, Contains
<1>2. CASE \E i \in 1 .. Len(s) : s[i] = e
  <2>1. PICK i \in 1 .. Len(s) : s[i] = e
    BY <1>2
  <2>2. {k \in 1 .. Len(s) : s[k] = e} = {i}
    BY <2>1 DEF IsInjective
  <2>3. Min({i}) = i
    BY DEF Min
  <2>4. SelectInSeq(s, LAMBDA v : v = e) = i
    BY <2>2, <2>3 DEF SelectInSeq
  <2>5. RemoveFirst(s, e) = RemoveAt(s, i)
    BY <1>2, <2>4 DEF RemoveFirst
  <2> DEFINE t == RemoveAt(s, i)
  <2>6. /\ t \in Seq(S) /\ Len(t) = Len(s) - 1
        /\ \A k \in 1 .. Len(s) - 1 : t[k] = IF k < i THEN s[k] ELSE s[k + 1]
    BY RemovalLeaves
  <2> HIDE DEF t
  <2>7. IsInjective(t)
    <3>1. DOMAIN t = 1 .. Len(s) - 1 /\ DOMAIN s = 1 .. Len(s) /\ Len(s) \in Nat
      BY <2>6
    <3>2. SUFFICES ASSUME NEW k \in 1 .. Len(s) - 1, NEW l \in 1 .. Len(s) - 1, t[k] = t[l]
                   PROVE  k = l
      BY <3>1 DEF IsInjective
    <3>3. \A m, n \in 1 .. Len(s) : s[m] = s[n] => m = n
      BY <3>1 DEF IsInjective
    <3>4. \A p \in 1 .. Len(s) - 1 : p \in 1 .. Len(s) /\ p + 1 \in 1 .. Len(s)
      BY <3>1
    <3>5. (IF k < i THEN k ELSE k + 1) = (IF l < i THEN l ELSE l + 1)
      BY <2>6, <3>2, <3>3, <3>4
    <3>6. QED
      BY <3>1, <3>5
  <2>8. \A g : Contains(t, g) => Contains(s, g) /\ g # e
    BY <2>1, <2>6 DEF Contains, IsInjective
  <2>9. ASSUME NEW g, Contains(s, g), g # e PROVE Contains(t, g)
    <3>1. PICK k \in 1 .. Len(s) : s[k] = g
      BY <2>9 DEF Contains
    <3>2. CASE k < i
      BY <2>6, <3>1, <3>2 DEF Contains
    <3>3. CASE k > i
      <4>1. k - 1 \in 1 .. Len(s) - 1 /\ t[k - 1] = s[k]
        <5>1. Len(s) \in Nat
          OBVIOUS
        <5>2. k - 1 \in 1 .. Len(s) - 1 /\ ~(k - 1 < i) /\ (k - 1) + 1 = k
          BY <3>3, <5>1
        <5>3. QED
          BY <2>6, <5>2
      <4>2. QED
        BY <2>6, <3>1, <4>1 DEF Contains
    <3>4. QED
      BY <2>1, <2>9, <3>1, <3>2, <3>3
  <2>10. QED
    BY <2>5, <2>6, <2>7, <2>8, <2>9 DEF t
<1>3. QED
  BY <1>1, <1>2

LEMMA AppendAdds ==
    ASSUME NEW S, NEW s \in Seq(S), NEW e \in S
    PROVE  /\ Append(s, e) \in Seq(S) /\ Len(Append(s, e)) = Len(s) + 1
           /\ \A k \in 1 .. Len(s) : Append(s, e)[k] = s[k]
           /\ Append(s, e)[Len(s) + 1] = e
           /\ \A g : Contains(Append(s, e), g) <=> Contains(s, g) \/ g = e
           /\ IsInjective(s) /\ ~Contains(s, e) => IsInjective(Append(s, e))
<1> DEFINE t == Append(s, e)
<1>1. /\ t \in Seq(S) /\ Len(t) = Len(s) + 1
      /\ \A k \in 1 .. Len(s) : t[k] = s[k]
      /\ t[Len(s) + 1] = e
  OBVIOUS
<1> HIDE DEF t
<1>2. \A g : Contains(t, g) <=> Contains(s, g) \/ g = e
  BY <1>1 DEF Contains
<1>3. IsInjective(s) /\ ~Contains(s, e) => IsInjective(t)
  BY <1>1 DEF Contains, IsInjective
<1>4. QED
  BY <1>1, <1>2, <1>3 DEF t

----------------------------------------------------------------------------
(* What each step of a handler does to its event.                           *)

MailMoves(i) ==
    /\ mail' \in Seq(Mail) /\ Len(mail') = Len(mail)
    /\ \A j \in DOMAIN mail : j # i => mail'[j] = mail[j]
    /\ mail'[i].kind = mail[i].kind /\ mail'[i].flow = mail[i].flow /\ mail'[i].own = mail[i].own

LEMMA MailIsTyped ==
    ASSUME TriggerTypeOK
    PROVE  /\ DOMAIN mail = 1 .. Len(mail) /\ Len(mail) \in Nat
           /\ \A i \in DOMAIN mail : mail[i] \in Mail
BY DEF TriggerTypeOK

LEMMA OneMailMoves ==
    ASSUME TriggerTypeOK, NEW i \in DOMAIN mail, NEW e \in Mail, mail' = [mail EXCEPT ![i] = e],
           e.kind = mail[i].kind, e.flow = mail[i].flow, e.own = mail[i].own
    PROVE  MailMoves(i) /\ mail'[i] = e
<1>1. mail \in Seq(Mail) /\ i \in 1 .. Len(mail)
  BY MailIsTyped DEF TriggerTypeOK
<1>2. mail' \in Seq(Mail) /\ Len(mail') = Len(mail)
  BY <1>1, ExceptSeq
<1>3. mail'[i] = e /\ \A j \in DOMAIN mail : j # i => mail'[j] = mail[j]
  BY <1>1
<1>4. QED
  BY <1>2, <1>3 DEF MailMoves

LEMMA MailGoesTo ==
    ASSUME TriggerTypeOK, NEW i \in DOMAIN mail, NEW pc \in {"queued", "read", "written", "settled"},
           mail' = [mail EXCEPT ![i].pc = pc]
    PROVE  MailMoves(i) /\ mail'[i].pc = pc
<1> DEFINE e == [mail[i] EXCEPT !.pc = pc]
<1>1. /\ e \in Mail /\ e.kind = mail[i].kind /\ e.flow = mail[i].flow /\ e.own = mail[i].own
      /\ e.pc = pc
  BY MailIsTyped DEF Mail
<1>2. mail' = [mail EXCEPT ![i] = e]
  OBVIOUS
<1> HIDE DEF e
<1>3. QED
  BY <1>1, <1>2, OneMailMoves

LEMMA TakeMailParts ==
    ASSUME TriggerTypeOK, NEW i \in DOMAIN mail, NEW f, f = mail[i].flow, TakeMail(i)
    PROVE  /\ UNCHANGED <<service, life, hand, triggerFaults>> /\ MailMoves(i)
           /\ mail[i].pc = "queued"
           /\ \A j \in 1 .. i - 1 : mail[j].pc # "queued"
           /\ crossed' = IF InHandler(f) \/ hand[f] # "no" THEN crossed \cup {f} ELSE crossed
           /\ \/ /\ Deletes(i) /\ mail'[i].pc = "written" /\ copy' = [copy EXCEPT ![f] = "none"]
                 /\ overdue' = RemoveFirst(overdue, f) /\ executed' = executed \ {f}
              \/ /\ ~Deletes(i) /\ UNCHANGED <<copy, overdue, executed>>
                 /\ mail'[i].found = (copy[f] # "none")
                 /\ mail'[i].pc = IF mail[i].kind = "started" /\ copy[f] = "none" THEN "written" ELSE "read"
<1>2. CASE Deletes(i)
  <2>1. mail' = [mail EXCEPT ![i].pc = "written"]
    BY <1>2 DEF TakeMail, Deletes
  <2>2. MailMoves(i) /\ mail'[i].pc = "written"
    BY <2>1, MailGoesTo
  <2>3. QED
    BY <1>2, <2>2 DEF TakeMail, Deletes, DeleteOne
<1>3. CASE ~Deletes(i)
  <2> DEFINE pc == IF mail[i].kind = "started" /\ copy[f] = "none" THEN "written" ELSE "read"
             found == copy[f] # "none"
  <2>1. mail' = [mail EXCEPT ![i].pc = pc, ![i].found = found]
    BY <1>3 DEF TakeMail, Deletes
  <2>2. pc \in {"read", "written"} /\ found \in BOOLEAN
    OBVIOUS
  <2>3. UNCHANGED <<service, life, hand, triggerFaults, copy, overdue, executed>>
    BY <1>3 DEF TakeMail, Deletes, copyVars
  <2> HIDE DEF pc, found
  <2> DEFINE e == [mail[i] EXCEPT !.pc = pc, !.found = found]
  <2>a. /\ e \in Mail /\ e.kind = mail[i].kind /\ e.flow = mail[i].flow /\ e.own = mail[i].own
        /\ e.pc = pc /\ e.found = found
    BY <2>2, MailIsTyped DEF Mail
  <2>b. mail' = [mail EXCEPT ![i] = e]
    BY <2>1
  <2> HIDE DEF e
  <2>4. MailMoves(i) /\ mail'[i].pc = pc /\ mail'[i].found = found
    BY <2>a, <2>b, OneMailMoves
  <2>5. QED
    BY <1>3, <2>3, <2>4 DEF TakeMail, pc, found
<1>4. QED
  BY <1>2, <1>3

LEMMA WriteCopyParts ==
    ASSUME TriggerTypeOK, NEW i \in DOMAIN mail, NEW f, f = mail[i].flow, WriteCopy(i)
    PROVE  /\ UNCHANGED <<service, life, hand, crossed, triggerFaults>> /\ MailMoves(i)
           /\ mail[i].pc = "read"
           /\ \/ /\ mail[i].found = (copy[f] # "none")
                 /\ mail'[i].pc = "written" /\ copy' = [copy EXCEPT ![f] = mail[i].kind]
                 /\ overdue' = RemoveFirst(overdue, f) /\ executed' = executed \ {f}
              \/ /\ mail[i].found # (copy[f] # "none")
                 /\ mail'[i].pc = "settled" /\ UNCHANGED <<copy, overdue, executed>>
<1>2. CASE mail[i].found = (copy[f] # "none")
  <2>1. mail' = [mail EXCEPT ![i].pc = "written"]
    BY <1>2 DEF WriteCopy
  <2>2. MailMoves(i) /\ mail'[i].pc = "written"
    BY <2>1, MailGoesTo
  <2>3. QED
    BY <1>2, <2>2 DEF WriteCopy
<1>3. CASE mail[i].found # (copy[f] # "none")
  <2>1. mail' = [mail EXCEPT ![i].pc = "settled"]
    BY <1>3 DEF WriteCopy
  <2>2. MailMoves(i) /\ mail'[i].pc = "settled"
    BY <2>1, MailGoesTo
  <2>3. UNCHANGED <<service, life, hand, crossed, triggerFaults, copy, overdue, executed>>
    BY <1>3 DEF WriteCopy, copyVars
  <2>4. QED
    BY <1>3, <2>2, <2>3 DEF WriteCopy
<1>4. QED
  BY <1>2, <1>3

LEMMA SettleParts ==
    ASSUME TriggerTypeOK, NEW i \in DOMAIN mail, Acknowledge(i) \/ HandlerFails(i)
    PROVE  /\ UNCHANGED <<service, life, copy, overdue, hand, executed>> /\ MailMoves(i)
           /\ mail'[i].pc = "settled"
           /\ \/ mail[i].pc = "written" /\ UNCHANGED <<crossed, triggerFaults>>
              \/ /\ crossed' = crossed \cup {mail[i].flow}
                 /\ triggerFaults < MaxTriggerFaults /\ triggerFaults' = triggerFaults + 1
<1>2. mail' = [mail EXCEPT ![i].pc = "settled"]
  BY DEF Acknowledge, HandlerFails
<1>3. MailMoves(i) /\ mail'[i].pc = "settled"
  BY <1>2, MailGoesTo
<1>4. QED
  BY <1>3 DEF Acknowledge, HandlerFails, copyVars, loopVars, TriggerFault

LEMMA PlanParts ==
    ASSUME NEW f \in Timed, PlanNextRun(f)
    PROVE  /\ UNCHANGED <<service, life, mail, executed, crossed>>
           /\ hand[f] = "published" /\ hand' = [hand EXCEPT ![f] = "no"]
           /\ \/ /\ copy[f] # "none" /\ copy' = [copy EXCEPT ![f] = "started"]
                 /\ overdue' = RemoveFirst(overdue, f) /\ UNCHANGED triggerFaults
              \/ /\ UNCHANGED <<copy, overdue>>
                 /\ UNCHANGED triggerFaults \/ TriggerFault
BY DEF PlanNextRun, ReadyToPlan, copyVars

----------------------------------------------------------------------------
(* What a step leaves alone.                                                *)

LEMMA LivesAreTold ==
    ASSUME TriggerTypeOK, MailTellsLives, DOMAIN mail' = DOMAIN mail, UNCHANGED life,
           \A j \in DOMAIN mail : /\ mail'[j].kind = mail[j].kind /\ mail'[j].flow = mail[j].flow
                                  /\ mail'[j].own = mail[j].own
    PROVE  MailTellsLives'
<1> SUFFICES ASSUME NEW i \in DOMAIN mail
             PROVE  /\ (\A j \in DOMAIN mail : mail'[j].flow = mail'[i].flow => j <= i) =>
                          life'[mail'[i].flow] = [last |-> mail'[i].kind, own |-> mail'[i].own]
                    /\ \A j \in 1 .. i - 1 :
                          mail'[j].flow = mail'[i].flow /\ (\A k \in j + 1 .. i - 1 : mail'[k].flow # mail'[i].flow) =>
                              /\ Follows(mail'[i].kind, mail'[j].kind)
                              /\ mail'[i].kind = "starting" \/ mail'[i].own = mail'[j].own
  BY DEF MailTellsLives
<1>1. \A j \in 1 .. i : j \in DOMAIN mail
  BY MailIsTyped
<1>2. (\A j \in DOMAIN mail : mail'[j].flow = mail'[i].flow => j <= i) =>
          life'[mail'[i].flow] = [last |-> mail'[i].kind, own |-> mail'[i].own]
  BY DEF MailTellsLives
<1>3. ASSUME NEW j \in 1 .. i - 1, mail'[j].flow = mail'[i].flow,
             \A k \in j + 1 .. i - 1 : mail'[k].flow # mail'[i].flow
      PROVE  /\ Follows(mail'[i].kind, mail'[j].kind)
             /\ mail'[i].kind = "starting" \/ mail'[i].own = mail'[j].own
  <2>1. i \in Nat /\ j \in DOMAIN mail /\ \A k \in j + 1 .. i - 1 : k \in DOMAIN mail
    BY <1>1, MailIsTyped
  <2>2. mail[j].flow = mail[i].flow /\ \A k \in j + 1 .. i - 1 : mail[k].flow # mail[i].flow
    BY <1>3, <2>1
  <2>3. /\ Follows(mail[i].kind, mail[j].kind)
        /\ mail[i].kind = "starting" \/ mail[i].own = mail[j].own
    BY <2>2 DEF MailTellsLives
  <2>4. QED
    BY <2>1, <2>3
<1>4. QED
  BY <1>2, <1>3

LEMMA SameMailSameLives ==
    ASSUME TriggerTypeOK, MailTellsLives, UNCHANGED <<mail, life>>
    PROVE  MailTellsLives'
BY DEF MailTellsLives

(* A flow none of whose events, whose copy and whose life a step touches.    *)
EventIsLeft(g) ==
    /\ DOMAIN mail \subseteq DOMAIN mail'
    /\ \A j \in DOMAIN mail' : mail'[j].flow = g => j \in DOMAIN mail /\ mail'[j] = mail[j]
    /\ \A j \in DOMAIN mail : mail[j].flow = g => mail'[j] = mail[j]
    /\ copy'[g] = copy[g] /\ life'[g] = life[g]

LEMMA LeftFlow ==
    ASSUME TriggerTypeOK, TriggerTypeOK', NEW g \in Timed, EventIsLeft(g), HandledInOrder(g), CopyIsLife(g)
    PROVE  (HandledInOrder(g) /\ CopyIsLife(g))' /\ (InHandler(g)' <=> InHandler(g))
<1>0. \A j \in DOMAIN mail : \A k \in 1 .. j - 1 : k \in DOMAIN mail /\ k \in DOMAIN mail'
  BY MailIsTyped DEF EventIsLeft
<1>1. \A j \in DOMAIN mail' : mail'[j].flow = g => j \in DOMAIN mail /\ mail'[j] = mail[j]
  BY DEF EventIsLeft
<1>2. \A j \in DOMAIN mail : mail[j].flow = g => j \in DOMAIN mail' /\ mail'[j] = mail[j]
  BY DEF EventIsLeft
<1>3. \A j \in DOMAIN mail : mail[j].flow = g =>
          \A k \in 1 .. j - 1 : /\ mail'[k].flow = g <=> mail[k].flow = g
                                /\ mail'[k].flow = g => mail'[k] = mail[k]
  BY <1>0, <1>1, <1>2
<1>4. \A j \in DOMAIN mail : mail[j].flow = g => (IsFirst(j)' <=> IsFirst(j))
  BY <1>2, <1>3 DEF IsFirst, UnsettledMail
<1>5. HandledInOrder(g)'
  <2> SUFFICES ASSUME NEW i \in DOMAIN mail', mail'[i].flow = g
               PROVE  /\ mail'[i].pc # "queued" => \A j \in 1 .. i - 1 : mail'[j].flow = g => ~UnsettledMail(j)'
                      /\ mail'[i].pc = "read" => mail'[i].own /\ mail'[i].kind # "stopping"
                                                /\ mail'[i].found = (copy'[g] # "none")
                      /\ mail'[i].pc = "written" => copy'[g] = Result(mail'[i].kind, mail'[i].own)
                      /\ IsFirst(i)' /\ mail'[i].kind = "started" => ((copy'[g] # "none") = mail'[i].own)
    BY DEF HandledInOrder
  <2>1. i \in DOMAIN mail /\ mail'[i] = mail[i] /\ mail[i].flow = g /\ copy'[g] = copy[g]
    BY <1>1 DEF EventIsLeft
  <2>2. mail[i].pc # "queued" => \A j \in 1 .. i - 1 : mail[j].flow = g => ~UnsettledMail(j)
    BY <2>1 DEF HandledInOrder
  <2>3. mail'[i].pc # "queued" => \A j \in 1 .. i - 1 : mail'[j].flow = g => ~UnsettledMail(j)'
    BY <1>3, <2>1, <2>2 DEF UnsettledMail
  <2>4. IsFirst(i)' <=> IsFirst(i)
    BY <1>4, <2>1
  <2>5. QED
    BY <2>1, <2>3, <2>4 DEF HandledInOrder
<1>6. CopyIsLife(g)'
  BY <1>1, <1>2 DEF CopyIsLife, UnsettledMail, EventIsLeft
<1>7. InHandler(g)' <=> InHandler(g)
  BY <1>1, <1>2 DEF InHandler
<1>8. QED
  BY <1>5, <1>6, <1>7

LEMMA OthersAreLeft ==
    ASSUME TriggerTypeOK, NEW i \in DOMAIN mail, MailMoves(i), UNCHANGED life,
           NEW g \in Timed, g # mail[i].flow, copy'[g] = copy[g]
    PROVE  EventIsLeft(g)
<1>1. DOMAIN mail' = DOMAIN mail
  BY MailIsTyped DEF MailMoves
<1>2. QED
  BY <1>1 DEF EventIsLeft, MailMoves

----------------------------------------------------------------------------
(* The types.                                                               *)

LEMMA TriggerBegins == TriggerInit => TriggerInv
<1> SUFFICES ASSUME TriggerInit PROVE TriggerInv
  OBVIOUS
<1>1. mail = <<>> /\ overdue = <<>> /\ crossed = {} /\ hand = [f \in Timed |-> "no"] /\ executed = {}
  BY DEF TriggerInit
<1>2. TriggerTypeOK
  <2>1. /\ service \in {"scheduler", "webhooks"} /\ life \in [Timed -> [last : MailKinds, own : BOOLEAN]]
        /\ copy \in [Timed -> Copies]
    BY DEF TriggerInit, MailKinds, Copies
  <2>2. mail \in Seq(Mail) /\ Len(mail) <= MaxMail /\ overdue \in Seq(Timed) /\ IsInjective(overdue)
    BY <1>1, TriggerAssumption DEF IsInjective
  <2>3. triggerFaults \in 0 .. MaxTriggerFaults
    BY TriggerAssumption DEF TriggerInit
  <2>4. QED
    BY <1>1, <2>1, <2>2, <2>3 DEF TriggerTypeOK
<1>3. MailTellsLives /\ ReadsUpdate /\ DueAreStarted
  BY <1>1 DEF MailTellsLives, ReadsUpdate, DueAreStarted, Contains
<1>4. \A f \in Timed : HandledInOrder(f) /\ DueInHand(f)
  BY <1>1 DEF HandledInOrder, DueInHand
<1>5. \A f \in Timed : CopyIsLife(f)
  BY DEF CopyIsLife, TriggerInit, Result
<1>6. QED
  BY <1>2, <1>3, <1>4, <1>5 DEF TriggerInv

LEMMA HandlerTypes ==
    ASSUME TriggerTypeOK, ReadsUpdate, NEW i \in DOMAIN mail, TakeMail(i) \/ WriteCopy(i)
    PROVE  TriggerTypeOK'
<1> DEFINE f == mail[i].flow
<1>1. f \in Timed /\ mail[i].kind \in MailKinds
  BY MailIsTyped DEF Mail
<1>2. UNCHANGED <<service, life, hand, triggerFaults>> /\ MailMoves(i) /\ crossed' \subseteq Timed
  BY <1>1, TakeMailParts, WriteCopyParts DEF TriggerTypeOK
<1>3. \/ UNCHANGED <<copy, overdue, executed>>
      \/ /\ overdue' = RemoveFirst(overdue, f) /\ executed' = executed \ {f}
         /\ copy' = [copy EXCEPT ![f] = "none"]
      \/ /\ overdue' = RemoveFirst(overdue, f) /\ executed' = executed \ {f}
         /\ mail[i].pc = "read" /\ copy' = [copy EXCEPT ![f] = mail[i].kind]
  BY TakeMailParts, WriteCopyParts
<1>4. mail[i].pc = "read" => mail[i].kind \in Copies
  BY <1>1 DEF ReadsUpdate, Deletes, Copies, MailKinds
<1>5. copy' \in [Timed -> Copies] /\ executed' \subseteq Timed
  BY <1>3, <1>4 DEF TriggerTypeOK, Copies
<1>6. overdue' \in Seq(Timed) /\ IsInjective(overdue')
  BY <1>3, RemoveFirstLeaves DEF TriggerTypeOK
<1>7. mail' \in Seq(Mail) /\ Len(mail') <= MaxMail
  BY <1>2 DEF MailMoves, TriggerTypeOK
<1>8. QED
  BY <1>2, <1>5, <1>6, <1>7 DEF TriggerTypeOK

(* Whichever way a flow leaves the dates that are due, it leaves alone.      *)
LEMMA DueWithout ==
    ASSUME TriggerTypeOK, DueAreStarted, NEW f \in Timed, overdue' = RemoveFirst(overdue, f),
           \A g \in Timed : g # f => copy'[g] = copy[g]
    PROVE  /\ DueAreStarted'
           /\ \A g \in Timed : g # f => (Contains(overdue', g) <=> Contains(overdue, g))
           /\ ~Contains(overdue', f)
<1>1. \A g : Contains(RemoveFirst(overdue, f), g) <=> Contains(overdue, g) /\ g # f
  BY RemoveFirstLeaves DEF TriggerTypeOK
<1>2. QED
  BY <1>1 DEF DueAreStarted

----------------------------------------------------------------------------
(* An event whose predecessors are settled is read or written: the events    *)
(* after it are still queued.                                               *)
LEMMA EventHandled ==
    ASSUME TriggerTypeOK, NEW i \in DOMAIN mail, NEW f, f = mail[i].flow, MailMoves(i), HandledInOrder(f),
           UnsettledMail(i), \A j \in 1 .. i - 1 : mail[j].flow = f => ~UnsettledMail(j),
           mail'[i].pc \in {"read", "written"},
           mail'[i].pc = "read" => mail[i].own /\ mail[i].kind # "stopping" /\ mail'[i].found = (copy'[f] # "none"),
           mail'[i].pc = "written" => copy'[f] = Result(mail[i].kind, mail[i].own),
           mail[i].kind = "started" => ((copy'[f] # "none") = mail[i].own)
    PROVE  (HandledInOrder(f) /\ CopyIsLife(f))'
<1>1. DOMAIN mail = 1 .. Len(mail) /\ Len(mail) \in Nat /\ i \in 1 .. Len(mail)
  BY MailIsTyped
<1>2. /\ DOMAIN mail' = DOMAIN mail
      /\ \A j \in DOMAIN mail : /\ j # i => mail'[j] = mail[j]
                                /\ mail'[j].kind = mail[j].kind /\ mail'[j].flow = mail[j].flow
                                /\ mail'[j].own = mail[j].own
  BY <1>1 DEF MailMoves
<1>3. ASSUME NEW j \in DOMAIN mail, mail[j].flow = f, j > i PROVE mail[j].pc = "queued" /\ ~IsFirst(j)'
  <2>1. i \in 1 .. j - 1
    BY <1>1, <1>3
  <2>2. mail[j].pc = "queued"
    BY <1>3, <2>1 DEF HandledInOrder, UnsettledMail
  <2>3. mail'[i].flow = f /\ UnsettledMail(i)'
    BY <1>2 DEF UnsettledMail
  <2>4. mail'[j].flow = f
    BY <1>2, <1>3
  <2>5. QED
    BY <2>1, <2>2, <2>3, <2>4 DEF IsFirst
<1>4. HandledInOrder(f)'
  <2> SUFFICES ASSUME NEW j \in DOMAIN mail, mail'[j].flow = f
               PROVE  /\ mail'[j].pc # "queued" => \A k \in 1 .. j - 1 : mail'[k].flow = f => ~UnsettledMail(k)'
                      /\ mail'[j].pc = "read" => mail'[j].own /\ mail'[j].kind # "stopping"
                                                /\ mail'[j].found = (copy'[f] # "none")
                      /\ mail'[j].pc = "written" => copy'[f] = Result(mail'[j].kind, mail'[j].own)
                      /\ IsFirst(j)' /\ mail'[j].kind = "started" => ((copy'[f] # "none") = mail'[j].own)
    BY <1>2 DEF HandledInOrder
  <2>1. mail[j].flow = f
    BY <1>2
  <2>2. CASE j > i
    <3>1. mail'[j].pc = "queued" /\ ~IsFirst(j)'
      <4>1. j # i
        BY <1>1, <2>2
      <4>2. QED
        BY <1>2, <1>3, <2>1, <2>2, <4>1
    <3>2. QED
      BY <3>1
  <2>3. CASE j < i
    <3>1. mail'[j].pc = "settled" /\ ~IsFirst(j)'
      BY <1>1, <1>2, <2>1, <2>3 DEF UnsettledMail, IsFirst
    <3>2. \A k \in 1 .. j - 1 : mail'[k].flow = f => ~UnsettledMail(k)'
      BY <1>1, <1>2, <2>3 DEF UnsettledMail
    <3>3. QED
      BY <3>1, <3>2
  <2>4. CASE j = i
    <3>1. \A k \in 1 .. i - 1 : mail'[k].flow = f => ~UnsettledMail(k)'
      BY <1>1, <1>2 DEF UnsettledMail
    <3>2. QED
      BY <1>2, <2>4, <3>1
  <2>5. QED
    BY <1>1, <2>2, <2>3, <2>4
<1>5. CopyIsLife(f)'
  BY <1>2 DEF CopyIsLife, UnsettledMail
<1>6. QED
  BY <1>4, <1>5

----------------------------------------------------------------------------
(* A handler takes an event.                                                *)

LEMMA TakeMailKeeps ==
    ASSUME TriggerInv, NEW i \in DOMAIN mail, NEW f, f = mail[i].flow, TakeMail(i)
    PROVE  TriggerInv'
<1>0. TriggerTypeOK /\ ReadsUpdate /\ MailTellsLives /\ DueAreStarted
  BY DEF TriggerInv
<1>1. /\ f \in Timed /\ mail[i].kind \in MailKinds /\ mail[i].own \in BOOLEAN
      /\ DOMAIN mail = 1 .. Len(mail) /\ Len(mail) \in Nat /\ i \in 1 .. Len(mail)
  BY <1>0, MailIsTyped DEF Mail
<1>2. /\ UNCHANGED <<service, life, hand, triggerFaults>> /\ MailMoves(i)
      /\ mail[i].pc = "queued" /\ (\A j \in 1 .. i - 1 : mail[j].pc # "queued")
      /\ crossed' = IF InHandler(f) \/ hand[f] # "no" THEN crossed \cup {f} ELSE crossed
  BY <1>0, TakeMailParts
<1>3. \/ /\ Deletes(i) /\ mail'[i].pc = "written" /\ copy' = [copy EXCEPT ![f] = "none"]
         /\ overdue' = RemoveFirst(overdue, f) /\ executed' = executed \ {f}
      \/ /\ ~Deletes(i) /\ UNCHANGED <<copy, overdue, executed>>
         /\ mail'[i].found = (copy[f] # "none")
         /\ mail'[i].pc = IF mail[i].kind = "started" /\ copy[f] = "none" THEN "written" ELSE "read"
  BY <1>0, TakeMailParts
<1>4. /\ DOMAIN mail' = DOMAIN mail
      /\ \A j \in DOMAIN mail : /\ j # i => mail'[j] = mail[j]
                                /\ mail'[j].kind = mail[j].kind /\ mail'[j].flow = mail[j].flow
                                /\ mail'[j].own = mail[j].own
  BY <1>1, <1>2 DEF MailMoves
<1>5. TriggerTypeOK'
  BY <1>0, HandlerTypes
<1>6. ReadsUpdate'
  BY <1>0, <1>3, <1>4 DEF ReadsUpdate, Deletes
<1>7. MailTellsLives'
  BY <1>0, <1>2, <1>4, LivesAreTold
<1>8. /\ DueAreStarted'
      /\ \A g \in Timed : g # f => /\ copy'[g] = copy[g] /\ (g \in executed' <=> g \in executed)
                                   /\ Contains(overdue', g) <=> Contains(overdue, g)
  <2>1. CASE ~Deletes(i)
    BY <1>0, <1>3, <2>1 DEF DueAreStarted
  <2>2. CASE Deletes(i)
    BY <1>0, <1>1, <1>3, <2>2, DueWithout DEF TriggerTypeOK
  <2>3. QED
    BY <2>1, <2>2
<1>9. ASSUME NEW g \in Timed \ crossed', g # f PROVE (HandledInOrder(g) /\ CopyIsLife(g) /\ DueInHand(g))'
  <2>1. g \in Timed \ crossed
    BY <1>2
  <2>2. HandledInOrder(g) /\ CopyIsLife(g) /\ DueInHand(g)
    BY <2>1 DEF TriggerInv
  <2>3. EventIsLeft(g)
    BY <1>0, <1>2, <1>8, <1>9, OthersAreLeft
  <2>4. (HandledInOrder(g) /\ CopyIsLife(g))' /\ (InHandler(g)' <=> InHandler(g))
    BY <1>0, <1>5, <2>2, <2>3, LeftFlow
  <2>5. DueInHand(g)'
    BY <1>2, <1>8, <1>9, <2>2, <2>4 DEF DueInHand
  <2>6. QED
    BY <2>4, <2>5
<1>10. ASSUME f \notin crossed' PROVE (HandledInOrder(f) /\ CopyIsLife(f) /\ DueInHand(f))'
  <2>1. f \notin crossed /\ ~InHandler(f) /\ hand'[f] = "no"
    BY <1>2, <1>10
  <2>2. HandledInOrder(f)
    BY <1>1, <2>1 DEF TriggerInv
  <2>3. \A j \in 1 .. i - 1 : mail[j].flow = f => ~UnsettledMail(j)
    <3> SUFFICES ASSUME NEW j \in 1 .. i - 1, mail[j].flow = f PROVE mail[j].pc = "settled"
      BY DEF UnsettledMail
    <3>1. j \in DOMAIN mail /\ mail[j].pc # "queued"
      BY <1>1, <1>2
    <3>2. mail[j].pc \in {"queued", "read", "written", "settled"}
      BY <1>0, <3>1, MailIsTyped DEF Mail
    <3>3. QED
      BY <2>1, <3>1, <3>2 DEF InHandler
  <2>4. IsFirst(i)
    BY <1>2, <2>3 DEF IsFirst, UnsettledMail
  <2>6. mail[i].kind = "started" => ((copy[f] # "none") = mail[i].own)
    BY <2>2, <2>4 DEF HandledInOrder
  <2>7. /\ mail'[i].pc = "read" => mail[i].own /\ mail[i].kind # "stopping" /\ mail'[i].found = (copy'[f] # "none")
        /\ mail'[i].pc = "written" => copy'[f] = Result(mail[i].kind, mail[i].own)
        /\ mail[i].kind = "started" => ((copy'[f] # "none") = mail[i].own)
    BY <1>0, <1>1, <1>3, <2>6 DEF Deletes, Result, TriggerTypeOK, MailKinds
  <2>8. (HandledInOrder(f) /\ CopyIsLife(f))'
    <3>1. mail'[i].pc \in {"read", "written"} /\ UnsettledMail(i)
      BY <1>2, <1>3 DEF UnsettledMail
    <3>2. QED
      BY <1>0, <1>2, <2>2, <2>3, <2>7, <3>1, EventHandled
  <2>10. DueInHand(f)'
    BY <2>1 DEF DueInHand
  <2>11. QED
    BY <2>8, <2>10
<1>11. \A g \in Timed \ crossed' : (HandledInOrder(g) /\ CopyIsLife(g) /\ DueInHand(g))'
  BY <1>9, <1>10
<1>12. QED
  BY <1>5, <1>6, <1>7, <1>8, <1>11 DEF TriggerInv

----------------------------------------------------------------------------
(* A handler writes the copy it has read.                                   *)

LEMMA WriteCopyKeeps ==
    ASSUME TriggerInv, NEW i \in DOMAIN mail, NEW f, f = mail[i].flow, WriteCopy(i)
    PROVE  TriggerInv'
<1>0. TriggerTypeOK /\ ReadsUpdate /\ MailTellsLives /\ DueAreStarted
  BY DEF TriggerInv
<1>1. /\ f \in Timed /\ mail[i].kind \in MailKinds /\ mail[i].own \in BOOLEAN
      /\ DOMAIN mail = 1 .. Len(mail) /\ Len(mail) \in Nat /\ i \in 1 .. Len(mail)
  BY <1>0, MailIsTyped DEF Mail
<1>2. /\ UNCHANGED <<service, life, hand, crossed, triggerFaults>> /\ MailMoves(i) /\ mail[i].pc = "read"
  BY <1>0, WriteCopyParts
<1>3. \/ /\ mail[i].found = (copy[f] # "none")
         /\ mail'[i].pc = "written" /\ copy' = [copy EXCEPT ![f] = mail[i].kind]
         /\ overdue' = RemoveFirst(overdue, f) /\ executed' = executed \ {f}
      \/ /\ mail[i].found # (copy[f] # "none")
         /\ mail'[i].pc = "settled" /\ UNCHANGED <<copy, overdue, executed>>
  BY <1>0, WriteCopyParts
<1>4. /\ DOMAIN mail' = DOMAIN mail
      /\ \A j \in DOMAIN mail : /\ j # i => mail'[j] = mail[j]
                                /\ mail'[j].kind = mail[j].kind /\ mail'[j].flow = mail[j].flow
                                /\ mail'[j].own = mail[j].own
  BY <1>1, <1>2 DEF MailMoves
<1>5. TriggerTypeOK'
  BY <1>0, HandlerTypes
<1>6. ReadsUpdate'
  BY <1>0, <1>3, <1>4 DEF ReadsUpdate, Deletes
<1>7. MailTellsLives'
  BY <1>0, <1>2, <1>4, LivesAreTold
<1>8. /\ DueAreStarted'
      /\ \A g \in Timed : g # f => /\ copy'[g] = copy[g] /\ (g \in executed' <=> g \in executed)
                                   /\ Contains(overdue', g) <=> Contains(overdue, g)
  <2>1. CASE mail[i].found # (copy[f] # "none")
    BY <1>0, <1>3, <2>1 DEF DueAreStarted
  <2>2. CASE mail[i].found = (copy[f] # "none")
    BY <1>0, <1>1, <1>3, <2>2, DueWithout DEF TriggerTypeOK
  <2>3. QED
    BY <2>1, <2>2
<1>9. ASSUME NEW g \in Timed \ crossed', g # f PROVE (HandledInOrder(g) /\ CopyIsLife(g) /\ DueInHand(g))'
  <2>1. g \in Timed \ crossed
    BY <1>2
  <2>2. HandledInOrder(g) /\ CopyIsLife(g) /\ DueInHand(g)
    BY <2>1 DEF TriggerInv
  <2>3. EventIsLeft(g)
    BY <1>0, <1>2, <1>8, <1>9, OthersAreLeft
  <2>4. (HandledInOrder(g) /\ CopyIsLife(g))' /\ (InHandler(g)' <=> InHandler(g))
    BY <1>0, <1>5, <2>2, <2>3, LeftFlow
  <2>5. DueInHand(g)'
    BY <1>2, <1>8, <1>9, <2>2, <2>4 DEF DueInHand
  <2>6. QED
    BY <2>4, <2>5
<1>10. ASSUME f \notin crossed' PROVE (HandledInOrder(f) /\ CopyIsLife(f) /\ DueInHand(f))'
  <2>1. HandledInOrder(f) /\ DueInHand(f)
    BY <1>1, <1>2, <1>10 DEF TriggerInv
  <2>2. mail[i].own /\ mail[i].kind # "stopping" /\ mail[i].found = (copy[f] # "none")
    BY <1>2, <2>1 DEF HandledInOrder
  <2>3. mail'[i].pc = "written" /\ copy'[f] = mail[i].kind
    BY <1>0, <1>1, <1>3, <2>2 DEF TriggerTypeOK
  <2>4. \A j \in 1 .. i - 1 : mail[j].flow = f => ~UnsettledMail(j)
    BY <1>2, <2>1 DEF HandledInOrder
  <2>5. /\ copy'[f] = Result(mail[i].kind, mail[i].own)
        /\ mail[i].kind = "started" => ((copy'[f] # "none") = mail[i].own)
    BY <1>1, <2>2, <2>3 DEF Result
  <2>6. UnsettledMail(i)
    BY <1>2 DEF UnsettledMail
  <2>7. (HandledInOrder(f) /\ CopyIsLife(f))'
    BY <1>0, <1>2, <2>1, <2>3, <2>4, <2>5, <2>6, EventHandled
  <2>8. hand'[f] = "no"
    BY <1>2, <2>1 DEF DueInHand, InHandler
  <2>9. QED
    BY <2>7, <2>8 DEF DueInHand
<1>11. \A g \in Timed \ crossed' : (HandledInOrder(g) /\ CopyIsLife(g) /\ DueInHand(g))'
  BY <1>9, <1>10
<1>12. QED
  BY <1>5, <1>6, <1>7, <1>8, <1>11 DEF TriggerInv

----------------------------------------------------------------------------
(* An event is acknowledged, or rejected.                                   *)

LEMMA SettleKeeps ==
    ASSUME TriggerInv, NEW i \in DOMAIN mail, NEW f, f = mail[i].flow, Acknowledge(i) \/ HandlerFails(i)
    PROVE  TriggerInv'
<1>0. TriggerTypeOK /\ ReadsUpdate /\ MailTellsLives /\ DueAreStarted
  BY DEF TriggerInv
<1>1. /\ f \in Timed /\ mail[i].kind \in MailKinds /\ mail[i].own \in BOOLEAN
      /\ DOMAIN mail = 1 .. Len(mail) /\ Len(mail) \in Nat /\ i \in 1 .. Len(mail)
  BY <1>0, MailIsTyped DEF Mail
<1>2. /\ UNCHANGED <<service, life, copy, overdue, hand, executed>> /\ MailMoves(i) /\ mail'[i].pc = "settled"
  BY <1>0, SettleParts
<1>3. \/ mail[i].pc = "written" /\ UNCHANGED <<crossed, triggerFaults>>
      \/ /\ crossed' = crossed \cup {f}
         /\ triggerFaults < MaxTriggerFaults /\ triggerFaults' = triggerFaults + 1
  BY <1>0, SettleParts
<1>4. /\ DOMAIN mail' = DOMAIN mail
      /\ \A j \in DOMAIN mail : /\ j # i => mail'[j] = mail[j]
                                /\ mail'[j].kind = mail[j].kind /\ mail'[j].flow = mail[j].flow
                                /\ mail'[j].own = mail[j].own
  BY <1>1, <1>2 DEF MailMoves
<1>5. TriggerTypeOK'
  <2>1. mail' \in Seq(Mail) /\ Len(mail') <= MaxMail
    BY <1>0, <1>2 DEF MailMoves, TriggerTypeOK
  <2>2. crossed' \subseteq Timed /\ triggerFaults' \in 0 .. MaxTriggerFaults
    BY <1>0, <1>1, <1>3, TriggerAssumption DEF TriggerTypeOK
  <2>3. QED
    BY <1>0, <1>2, <2>1, <2>2 DEF TriggerTypeOK
<1>6. ReadsUpdate'
  BY <1>0, <1>2, <1>4 DEF ReadsUpdate, Deletes
<1>7. MailTellsLives'
  BY <1>0, <1>2, <1>4, LivesAreTold
<1>8. DueAreStarted'
  BY <1>0, <1>2 DEF DueAreStarted
<1>9. ASSUME NEW g \in Timed \ crossed', g # f PROVE (HandledInOrder(g) /\ CopyIsLife(g) /\ DueInHand(g))'
  <2>1. g \in Timed \ crossed
    BY <1>3
  <2>2. HandledInOrder(g) /\ CopyIsLife(g) /\ DueInHand(g)
    BY <2>1 DEF TriggerInv
  <2>3. EventIsLeft(g)
    BY <1>0, <1>2, <1>9, OthersAreLeft
  <2>4. (HandledInOrder(g) /\ CopyIsLife(g))' /\ (InHandler(g)' <=> InHandler(g))
    BY <1>0, <1>5, <2>2, <2>3, LeftFlow
  <2>5. DueInHand(g)'
    BY <1>2, <2>2, <2>4 DEF DueInHand
  <2>6. QED
    BY <2>4, <2>5
<1>10. ASSUME f \notin crossed' PROVE (HandledInOrder(f) /\ CopyIsLife(f) /\ DueInHand(f))'
  <2>1. HandledInOrder(f) /\ DueInHand(f) /\ mail[i].pc = "written"
    BY <1>1, <1>3, <1>10 DEF TriggerInv
  <2>2. /\ copy[f] = Result(mail[i].kind, mail[i].own)
        /\ \A j \in 1 .. i - 1 : mail[j].flow = f => ~UnsettledMail(j)
    BY <2>1 DEF HandledInOrder
  <2>3. ASSUME NEW j \in DOMAIN mail, mail[j].flow = f, j > i PROVE mail[j].pc = "queued"
    <3>1. i \in 1 .. j - 1
      BY <1>1, <2>3
    <3>2. QED
      BY <2>1, <2>3, <3>1 DEF HandledInOrder, UnsettledMail
  <2>4. ASSUME NEW j \in DOMAIN mail, mail[j].flow = f, j > i, IsFirst(j)', mail[j].kind = "started"
        PROVE  (copy[f] # "none") = mail[j].own
    <3>1. i \in 1 .. j - 1
      BY <1>1, <2>4
    <3>2. ASSUME NEW k \in i + 1 .. j - 1 PROVE mail[k].flow # f
      <4>1. k \in DOMAIN mail /\ k # i /\ k \in 1 .. j - 1 /\ k > i
        BY <1>1, <2>4
      <4>2. mail'[k].flow = f => mail'[k].pc = "settled"
        BY <1>4, <2>4, <4>1 DEF IsFirst, UnsettledMail
      <4>3. mail'[k] = mail[k]
        BY <1>4, <4>1
      <4>4. QED
        BY <2>3, <4>1, <4>2, <4>3
    <3>3. Follows(mail[j].kind, mail[i].kind) /\ mail[j].own = mail[i].own
      BY <1>0, <2>4, <3>1, <3>2 DEF MailTellsLives
    <3>4. mail[i].kind = "starting"
      BY <2>4, <3>3 DEF Follows
    <3>5. QED
      BY <1>1, <2>2, <3>3, <3>4 DEF Result
  <2>5. HandledInOrder(f)'
    <3> SUFFICES ASSUME NEW j \in DOMAIN mail, mail'[j].flow = f
                 PROVE  /\ mail'[j].pc # "queued" => \A k \in 1 .. j - 1 : mail'[k].flow = f => ~UnsettledMail(k)'
                        /\ mail'[j].pc = "read" => mail'[j].own /\ mail'[j].kind # "stopping"
                                                  /\ mail'[j].found = (copy'[f] # "none")
                        /\ mail'[j].pc = "written" => copy'[f] = Result(mail'[j].kind, mail'[j].own)
                        /\ IsFirst(j)' /\ mail'[j].kind = "started" => ((copy'[f] # "none") = mail'[j].own)
      BY <1>4 DEF HandledInOrder
    <3>1. mail[j].flow = f /\ mail'[j].kind = mail[j].kind /\ mail'[j].own = mail[j].own /\ copy'[f] = copy[f]
      BY <1>2, <1>4
    <3>2. CASE j > i
      <4>1. mail'[j].pc = "queued"
        BY <1>1, <1>4, <2>3, <3>1, <3>2
      <4>2. QED
        BY <2>4, <3>1, <3>2, <4>1
    <3>3. CASE j <= i
      <4>1. mail'[j].pc = "settled" /\ ~IsFirst(j)'
        <5>1. j = i \/ j \in 1 .. i - 1
          BY <1>1, <3>3
        <5>2. mail'[j].pc = "settled"
          BY <1>2, <1>4, <2>2, <3>1, <5>1 DEF UnsettledMail
        <5>3. QED
          BY <5>2 DEF UnsettledMail, IsFirst
      <4>2. \A k \in 1 .. j - 1 : mail'[k].flow = f => ~UnsettledMail(k)'
        BY <1>1, <1>4, <2>2, <3>3 DEF UnsettledMail
      <4>3. QED
        BY <4>1, <4>2
    <3>4. QED
      BY <1>1, <3>2, <3>3
  <2>6. CopyIsLife(f)'
    <3> SUFFICES ASSUME \A j \in DOMAIN mail : mail'[j].flow = f => mail'[j].pc = "settled"
                 PROVE  copy'[f] = Result(life'[f].last, life'[f].own)
      BY <1>4 DEF CopyIsLife, UnsettledMail
    <3>1. \A j \in DOMAIN mail : mail[j].flow = f => j <= i
      BY <1>1, <1>4, <2>3
    <3>2. life[f] = [last |-> mail[i].kind, own |-> mail[i].own]
      BY <1>0, <3>1 DEF MailTellsLives
    <3>3. QED
      BY <1>2, <2>2, <3>2
  <2>7. hand'[f] = "no"
    BY <1>2, <2>1 DEF DueInHand, InHandler
  <2>8. QED
    BY <2>5, <2>6, <2>7 DEF DueInHand
<1>11. \A g \in Timed \ crossed' : (HandledInOrder(g) /\ CopyIsLife(g) /\ DueInHand(g))'
  BY <1>9, <1>10
<1>12. QED
  BY <1>5, <1>6, <1>7, <1>8, <1>11 DEF TriggerInv

----------------------------------------------------------------------------
(* An event is published.                                                   *)

LEMMA PublishLifeKeeps ==
    ASSUME TriggerInv, NEW f \in Timed, PublishLife(f)
    PROVE  TriggerInv'
<1>0. TriggerTypeOK /\ ReadsUpdate /\ MailTellsLives /\ DueAreStarted
  BY DEF TriggerInv
<1>1. PICK kind \in MailKinds, own \in BOOLEAN :
          /\ Len(mail) < MaxMail
          /\ Follows(kind, life[f].last) /\ (kind # "starting" => own = life[f].own)
          /\ life' = [life EXCEPT ![f] = [last |-> kind, own |-> own]]
          /\ mail' = Append(mail, [kind |-> kind, flow |-> f, own |-> own, found |-> FALSE, pc |-> "queued"])
  BY DEF PublishLife
<1>2. UNCHANGED <<service, copy, overdue, hand, executed, crossed, triggerFaults>>
  BY DEF PublishLife, copyVars, loopVars
<1>n. PICK n : n = Len(mail) + 1
  OBVIOUS
<1> DEFINE e == [kind |-> kind, flow |-> f, own |-> own, found |-> FALSE, pc |-> "queued"]
<1>3. /\ e \in Mail /\ e.kind = kind /\ e.flow = f /\ e.own = own /\ e.pc = "queued"
  BY DEF Mail
<1>4. mail \in Seq(Mail) /\ DOMAIN mail = 1 .. Len(mail) /\ Len(mail) \in Nat /\ MaxMail \in Nat
  BY <1>0, MailIsTyped, TriggerAssumption DEF TriggerTypeOK
<1>m. n \in Nat \ {0} /\ n = Len(mail) + 1
  BY <1>n, <1>4
<1> HIDE DEF e
<1>5. /\ mail' \in Seq(Mail) /\ Len(mail') = n /\ mail'[n] = e
      /\ DOMAIN mail' = 1 .. n /\ \A j \in DOMAIN mail : mail'[j] = mail[j]
  BY <1>1, <1>3, <1>4, <1>m, AppendAdds DEF e
<1>6. life' \in [Timed -> [last : MailKinds, own : BOOLEAN]] /\ life'[f] = [last |-> kind, own |-> own]
      /\ \A g \in Timed : g # f => life'[g] = life[g]
  BY <1>0, <1>1 DEF TriggerTypeOK
<1>7. TriggerTypeOK'
  <2>1. Len(mail') <= MaxMail
    BY <1>1, <1>4, <1>m, <1>5
  <2>2. QED
    BY <1>0, <1>2, <1>5, <1>6, <2>1 DEF TriggerTypeOK
<1>8. ReadsUpdate'
  <2> SUFFICES ASSUME NEW j \in 1 .. n, mail'[j].pc = "read"
               PROVE  ~Deletes(j)'
    BY <1>5 DEF ReadsUpdate
  <2>1. j \in DOMAIN mail
    BY <1>3, <1>4, <1>m, <1>5
  <2>2. QED
    BY <1>0, <1>5, <2>1 DEF ReadsUpdate, Deletes
<1>9. MailTellsLives'
  <2> SUFFICES ASSUME NEW i \in 1 .. n
               PROVE  /\ (\A j \in 1 .. n : mail'[j].flow = mail'[i].flow => j <= i) =>
                            life'[mail'[i].flow] = [last |-> mail'[i].kind, own |-> mail'[i].own]
                      /\ \A j \in 1 .. i - 1 :
                            mail'[j].flow = mail'[i].flow /\ (\A k \in j + 1 .. i - 1 : mail'[k].flow # mail'[i].flow) =>
                                /\ Follows(mail'[i].kind, mail'[j].kind)
                                /\ mail'[i].kind = "starting" \/ mail'[i].own = mail'[j].own
    BY <1>5 DEF MailTellsLives
  <2>1. CASE i = n
    <3>1. life'[mail'[n].flow] = [last |-> mail'[n].kind, own |-> mail'[n].own]
      BY <1>3, <1>5, <1>6
    <3>2. ASSUME NEW j \in 1 .. n - 1, mail'[j].flow = f, \A k \in j + 1 .. n - 1 : mail'[k].flow # f
          PROVE  Follows(kind, mail'[j].kind) /\ (kind = "starting" \/ own = mail'[j].own)
      <4>1. j \in DOMAIN mail /\ mail'[j] = mail[j]
        BY <1>4, <1>m, <1>5
      <4>2. ASSUME NEW k \in DOMAIN mail, mail[k].flow = mail[j].flow PROVE k <= j
        <5>1. mail'[k].flow = f
          BY <1>5, <3>2, <4>1, <4>2
        <5>2. k \notin j + 1 .. n - 1
          BY <3>2, <5>1
        <5>3. QED
          BY <1>4, <1>m, <4>1, <5>2
      <4>3. life[f] = [last |-> mail[j].kind, own |-> mail[j].own]
        BY <1>0, <3>2, <4>1, <4>2 DEF MailTellsLives
      <4>4. QED
        BY <1>1, <4>1, <4>3
    <3>3. QED
      BY <1>3, <1>5, <2>1, <3>1, <3>2
  <2>2. CASE i # n
    <3>1. i \in DOMAIN mail /\ mail'[i] = mail[i] /\ i < n /\ n \in 1 .. n
      BY <1>4, <1>m, <1>5, <2>2
    <3>2. \A j \in 1 .. i - 1 : /\ j \in DOMAIN mail /\ mail'[j] = mail[j]
                                /\ \A k \in j + 1 .. i - 1 : mail'[k] = mail[k]
      BY <1>4, <1>m, <1>5, <3>1
    <3>3. ASSUME \A j \in 1 .. n : mail'[j].flow = mail'[i].flow => j <= i
          PROVE  life'[mail'[i].flow] = [last |-> mail'[i].kind, own |-> mail'[i].own]
      <4>1. mail[i].flow # f
        BY <1>3, <1>4, <1>m, <1>5, <3>1, <3>3
      <4>2. \A j \in DOMAIN mail : mail[j].flow = mail[i].flow => j <= i
        BY <1>4, <1>m, <1>5, <3>1, <3>3
      <4>3. mail[i].flow \in Timed
        BY <1>0, <3>1, MailIsTyped DEF Mail
      <4>4. QED
        BY <1>0, <1>6, <3>1, <4>1, <4>2, <4>3 DEF MailTellsLives
    <3>4. QED
      BY <1>0, <3>1, <3>2, <3>3 DEF MailTellsLives
  <2>3. QED
    BY <2>1, <2>2
<1>10. DueAreStarted'
  BY <1>0, <1>2 DEF DueAreStarted
<1>11. ASSUME NEW g \in Timed \ crossed', g # f PROVE (HandledInOrder(g) /\ CopyIsLife(g) /\ DueInHand(g))'
  <2>1. HandledInOrder(g) /\ CopyIsLife(g) /\ DueInHand(g)
    BY <1>2 DEF TriggerInv
  <2>2. EventIsLeft(g)
    BY <1>2, <1>3, <1>4, <1>m, <1>5, <1>6, <1>11 DEF EventIsLeft
  <2>3. (HandledInOrder(g) /\ CopyIsLife(g))' /\ (InHandler(g)' <=> InHandler(g))
    BY <1>0, <1>7, <2>1, <2>2, LeftFlow
  <2>4. DueInHand(g)'
    BY <1>2, <2>1, <2>3 DEF DueInHand
  <2>5. QED
    BY <2>3, <2>4
<1>12. ASSUME f \notin crossed' PROVE (HandledInOrder(f) /\ CopyIsLife(f) /\ DueInHand(f))'
  <2>1. HandledInOrder(f) /\ CopyIsLife(f) /\ DueInHand(f)
    BY <1>2, <1>12 DEF TriggerInv
  <2>2. HandledInOrder(f)'
    <3> SUFFICES ASSUME NEW j \in 1 .. n, mail'[j].flow = f
                 PROVE  /\ mail'[j].pc # "queued" => \A k \in 1 .. j - 1 : mail'[k].flow = f => ~UnsettledMail(k)'
                        /\ mail'[j].pc = "read" => mail'[j].own /\ mail'[j].kind # "stopping"
                                                  /\ mail'[j].found = (copy'[f] # "none")
                        /\ mail'[j].pc = "written" => copy'[f] = Result(mail'[j].kind, mail'[j].own)
                        /\ IsFirst(j)' /\ mail'[j].kind = "started" => ((copy'[f] # "none") = mail'[j].own)
      BY <1>5 DEF HandledInOrder
    <3>1. CASE j = n
      <4>1. mail'[n].pc = "queued" /\ mail'[n].kind = kind /\ mail'[n].own = own
        BY <1>3, <1>5
      <4>2. ASSUME IsFirst(n)', kind = "started" PROVE (copy'[f] # "none") = own
        <5>1. \A k \in DOMAIN mail : mail[k].flow = f => ~UnsettledMail(k)
          BY <1>3, <1>4, <1>m, <1>5, <4>2 DEF IsFirst, UnsettledMail
        <5>2. copy[f] = Result(life[f].last, life[f].own) /\ life[f].last = "starting" /\ own = life[f].own
          BY <1>1, <2>1, <4>2, <5>1 DEF CopyIsLife, Follows
        <5>3. QED
          BY <1>2, <5>2 DEF Result
      <4>3. QED
        BY <3>1, <4>1, <4>2
    <3>2. CASE j # n
      <4>1. j \in DOMAIN mail /\ mail'[j] = mail[j] /\ \A k \in 1 .. j - 1 : mail'[k] = mail[k]
        BY <1>4, <1>m, <1>5, <3>2
      <4>2. /\ IsFirst(j)' <=> IsFirst(j)
            /\ \A k \in 1 .. j - 1 : UnsettledMail(k)' <=> UnsettledMail(k)
        BY <4>1 DEF IsFirst, UnsettledMail
      <4>3. QED
        BY <1>2, <2>1, <4>1, <4>2 DEF HandledInOrder
    <3>3. QED
      BY <3>1, <3>2
  <2>3. CopyIsLife(f)'
    <3>1. n \in DOMAIN mail' /\ mail'[n].flow = f /\ UnsettledMail(n)'
      BY <1>3, <1>4, <1>m, <1>5 DEF UnsettledMail
    <3>2. QED
      BY <3>1 DEF CopyIsLife
  <2>4. InHandler(f)' => InHandler(f)
    <3> SUFFICES ASSUME NEW j \in 1 .. n, mail'[j].flow = f, mail'[j].pc \in {"read", "written"}
                 PROVE  InHandler(f)
      BY <1>5 DEF InHandler
    <3>1. j \in DOMAIN mail /\ mail'[j] = mail[j]
      BY <1>3, <1>4, <1>m, <1>5
    <3>2. QED
      BY <3>1 DEF InHandler
  <2>5. DueInHand(f)'
    BY <1>2, <2>1, <2>4 DEF DueInHand
  <2>6. QED
    BY <2>2, <2>3, <2>5
<1>13. \A g \in Timed \ crossed' : (HandledInOrder(g) /\ CopyIsLife(g) /\ DueInHand(g))'
  BY <1>11, <1>12
<1>14. QED
  BY <1>7, <1>8, <1>9, <1>10, <1>13 DEF TriggerInv

----------------------------------------------------------------------------
(* The loop: no step of it touches an event or a life, and none changes the  *)
(* copy of a flow that is not crossed.                                      *)

LEMMA LoopKeeps ==
    ASSUME TriggerInv, UNCHANGED <<mail, life>>, crossed \subseteq crossed', TriggerTypeOK', DueAreStarted',
           \A g \in Timed \ crossed' : copy'[g] = copy[g] /\ (DueInHand(g) => DueInHand(g)')
    PROVE  TriggerInv'
<1>0. TriggerTypeOK /\ ReadsUpdate /\ MailTellsLives
  BY DEF TriggerInv
<1>1. ReadsUpdate' /\ MailTellsLives'
  BY <1>0, SameMailSameLives DEF ReadsUpdate, Deletes
<1>2. ASSUME NEW g \in Timed \ crossed' PROVE (HandledInOrder(g) /\ CopyIsLife(g) /\ DueInHand(g))'
  <2>1. HandledInOrder(g) /\ CopyIsLife(g) /\ DueInHand(g)
    BY DEF TriggerInv
  <2>2. EventIsLeft(g)
    BY DEF EventIsLeft
  <2>3. (HandledInOrder(g) /\ CopyIsLife(g))'
    BY <1>0, <2>1, <2>2, LeftFlow
  <2>4. QED
    BY <2>1, <2>3
<1>3. QED
  BY <1>1, <1>2 DEF TriggerInv

LEMMA BecomesDueKeeps ==
    ASSUME TriggerInv, NEW f \in Timed, BecomesDue(f)
    PROVE  TriggerInv'
<1>0. TriggerTypeOK /\ DueAreStarted
  BY DEF TriggerInv
<1>1. /\ copy[f] = "started" /\ ~Contains(overdue, f)
      /\ overdue' = Append(overdue, f) /\ executed' = executed \ {f}
      /\ UNCHANGED <<service, life, mail, copy, hand, crossed, triggerFaults>>
  BY DEF BecomesDue
<1>2. /\ overdue' \in Seq(Timed) /\ IsInjective(overdue')
      /\ \A g : Contains(overdue', g) <=> Contains(overdue, g) \/ g = f
  BY <1>0, <1>1, AppendAdds DEF TriggerTypeOK
<1>3. TriggerTypeOK'
  BY <1>0, <1>1, <1>2 DEF TriggerTypeOK
<1>4. DueAreStarted'
  BY <1>0, <1>1, <1>2 DEF DueAreStarted
<1>5. \A g \in Timed : InHandler(g)' <=> InHandler(g)
  BY <1>1 DEF InHandler
<1>6. \A g \in Timed \ crossed' : copy'[g] = copy[g] /\ (DueInHand(g) => DueInHand(g)')
  BY <1>1, <1>2, <1>5 DEF DueInHand
<1>7. QED
  BY <1>1, <1>3, <1>4, <1>6, LoopKeeps

LEMMA FoundAreDue ==
    ASSUME TriggerTypeOK
    PROVE  FindForScheduling \subseteq Timed /\ \A f \in FindForScheduling : Contains(overdue, f)
<1> DEFINE m == IF Limit < Len(overdue) THEN Limit ELSE Len(overdue)
<1>1. m \in 0 .. Len(overdue) /\ overdue \in Seq(Timed)
  BY TriggerAssumption DEF TriggerTypeOK
<1>2. FindForScheduling = ToSet(SubSeq(overdue, 1, m))
  BY DEF FindForScheduling
<1> HIDE DEF m
<1>3. /\ Len(SubSeq(overdue, 1, m)) = m /\ DOMAIN SubSeq(overdue, 1, m) = 1 .. m
      /\ \A k \in 1 .. m : SubSeq(overdue, 1, m)[k] = overdue[k]
  BY <1>1
<1>4. QED
  BY <1>1, <1>2, <1>3 DEF ToSet, Contains

LEMMA ScheduleFlowsKeeps ==
    ASSUME TriggerInv, ScheduleFlows
    PROVE  TriggerInv'
<1>0. TriggerTypeOK /\ DueAreStarted
  BY DEF TriggerInv
<1>1. /\ hand' = [f \in Timed |-> IF f \in FindForScheduling THEN "found" ELSE "no"]
      /\ crossed' = crossed \cup {f \in FindForScheduling : InHandler(f)}
      /\ UNCHANGED <<service, life, mail, copy, overdue, executed, triggerFaults>>
  BY DEF ScheduleFlows, copyVars
<1>2. TriggerTypeOK'
  BY <1>0, <1>1, FoundAreDue DEF TriggerTypeOK
<1>3. DueAreStarted'
  BY <1>0, <1>1 DEF DueAreStarted
<1>4. ASSUME NEW g \in Timed \ crossed' PROVE DueInHand(g)'
  <2>1. InHandler(g)' <=> InHandler(g)
    BY <1>1 DEF InHandler
  <2>2. CASE g \in FindForScheduling
    <3>1. ~InHandler(g) /\ Contains(overdue, g) /\ copy[g] = "started" /\ hand'[g] = "found"
      BY <1>0, <1>1, <1>4, <2>2, FoundAreDue DEF DueAreStarted
    <3>2. QED
      BY <1>1, <2>1, <3>1 DEF DueInHand
  <2>3. CASE g \notin FindForScheduling
    BY <1>1, <2>3 DEF DueInHand
  <2>4. QED
    BY <2>2, <2>3
<1>5. QED
  BY <1>1, <1>2, <1>3, <1>4, LoopKeeps

LEMMA ScheduleFlowKeeps ==
    ASSUME TriggerInv, NEW f \in Timed, ScheduleFlow(f)
    PROVE  TriggerInv'
<1>0. TriggerTypeOK /\ DueAreStarted
  BY DEF TriggerInv
<1>1. /\ hand[f] = "found" /\ hand' = [hand EXCEPT ![f] = "published"]
      /\ UNCHANGED <<service, life, mail, copy, overdue>>
      /\ \/ executed' = executed \cup {f} /\ UNCHANGED <<crossed, triggerFaults>>
         \/ /\ crossed' = crossed \cup {f} /\ UNCHANGED executed
            /\ triggerFaults < MaxTriggerFaults /\ triggerFaults' = triggerFaults + 1
  BY DEF ScheduleFlow, copyVars, TriggerFault
<1>2. TriggerTypeOK'
  <2>1. triggerFaults' \in 0 .. MaxTriggerFaults
    BY <1>0, <1>1, TriggerAssumption DEF TriggerTypeOK
  <2>2. QED
    BY <1>0, <1>1, <2>1 DEF TriggerTypeOK
<1>3. DueAreStarted'
  BY <1>0, <1>1 DEF DueAreStarted
<1>4. ASSUME NEW g \in Timed \ crossed', DueInHand(g) PROVE DueInHand(g)'
  <2>1. InHandler(g)' <=> InHandler(g)
    BY <1>1 DEF InHandler
  <2>2. CASE g = f
    BY <1>0, <1>1, <1>4, <2>1, <2>2 DEF DueInHand, TriggerTypeOK
  <2>3. CASE g # f
    BY <1>0, <1>1, <1>4, <2>1, <2>3 DEF DueInHand, TriggerTypeOK
  <2>4. QED
    BY <2>2, <2>3
<1>5. QED
  BY <1>1, <1>2, <1>3, <1>4, LoopKeeps

LEMMA PlanNextRunKeeps ==
    ASSUME TriggerInv, NEW f \in Timed, PlanNextRun(f)
    PROVE  TriggerInv'
<1>0. TriggerTypeOK /\ DueAreStarted
  BY DEF TriggerInv
<1>1. /\ UNCHANGED <<service, life, mail, executed, crossed>>
      /\ hand[f] = "published" /\ hand' = [hand EXCEPT ![f] = "no"]
      /\ triggerFaults' \in 0 .. MaxTriggerFaults
  BY <1>0, PlanParts, TriggerAssumption DEF TriggerTypeOK, TriggerFault
<1>2. \/ /\ copy[f] # "none" /\ copy' = [copy EXCEPT ![f] = "started"]
         /\ overdue' = RemoveFirst(overdue, f)
      \/ UNCHANGED <<copy, overdue>>
  BY PlanParts
<1>3. overdue' \in Seq(Timed) /\ IsInjective(overdue')
  BY <1>0, <1>2, RemoveFirstLeaves DEF TriggerTypeOK
<1>4. TriggerTypeOK'
  BY <1>0, <1>1, <1>2, <1>3 DEF TriggerTypeOK, Copies
<1>5. /\ DueAreStarted'
      /\ \A g \in Timed : g # f => copy'[g] = copy[g] /\ (Contains(overdue', g) <=> Contains(overdue, g))
  <2>1. CASE UNCHANGED <<copy, overdue>>
    BY <1>0, <2>1 DEF DueAreStarted
  <2>2. CASE /\ copy[f] # "none" /\ copy' = [copy EXCEPT ![f] = "started"]
             /\ overdue' = RemoveFirst(overdue, f)
    <3>1. \A g \in Timed : g # f => copy'[g] = copy[g]
      BY <1>0, <2>2 DEF TriggerTypeOK
    <3>2. QED
      BY <1>0, <2>2, <3>1, DueWithout
  <2>3. QED
    BY <1>2, <2>1, <2>2
<1>6. ASSUME NEW g \in Timed \ crossed' PROVE copy'[g] = copy[g] /\ (DueInHand(g) => DueInHand(g)')
  <2>1. InHandler(g)' <=> InHandler(g)
    BY <1>1 DEF InHandler
  <2>2. DueInHand(g) /\ hand \in [Timed -> {"no", "found", "published"}]
    BY <1>0, <1>1 DEF TriggerInv, TriggerTypeOK
  <2>3. CASE g = f
    <3>1. hand'[g] = "no" /\ copy[g] = "started"
      BY <1>1, <2>2, <2>3 DEF DueInHand
    <3>2. copy'[g] = copy[g]
      BY <1>0, <1>2, <2>3, <3>1 DEF TriggerTypeOK
    <3>3. QED
      BY <3>1, <3>2 DEF DueInHand
  <2>4. CASE g # f
    BY <1>1, <1>5, <2>1, <2>2, <2>4 DEF DueInHand
  <2>5. QED
    BY <2>3, <2>4
<1>7. QED
  BY <1>1, <1>4, <1>5, <1>6, LoopKeeps

----------------------------------------------------------------------------
(* After a crash every event that is not settled is queued again.           *)

LEMMA TriggerCrashKeeps ==
    ASSUME TriggerInv, TriggerCrash
    PROVE  TriggerInv'
<1>0. TriggerTypeOK /\ ReadsUpdate /\ MailTellsLives /\ DueAreStarted
  BY DEF TriggerInv
<1>1. /\ hand' = [f \in Timed |-> "no"]
      /\ mail' = [i \in DOMAIN mail |->
                   IF mail[i].pc = "settled" THEN mail[i] ELSE [mail[i] EXCEPT !.pc = "queued"]]
      /\ UNCHANGED <<service, life, copy, overdue, executed, crossed>>
      /\ triggerFaults < MaxTriggerFaults /\ triggerFaults' = triggerFaults + 1
  BY DEF TriggerCrash, TriggerFault, copyVars
<1>2. DOMAIN mail = 1 .. Len(mail) /\ Len(mail) \in Nat /\ \A i \in DOMAIN mail : mail[i] \in Mail
  BY <1>0, MailIsTyped
<1>3. /\ DOMAIN mail' = DOMAIN mail
      /\ \A i \in DOMAIN mail : /\ mail'[i] \in Mail
                                /\ mail'[i].pc = IF mail[i].pc = "settled" THEN "settled" ELSE "queued"
                                /\ mail'[i].kind = mail[i].kind /\ mail'[i].flow = mail[i].flow
                                /\ mail'[i].own = mail[i].own
  BY <1>1, <1>2 DEF Mail
<1>4. mail' \in Seq(Mail) /\ Len(mail') = Len(mail)
  <2>1. mail' = [i \in 1 .. Len(mail) |-> mail'[i]]
    BY <1>1, <1>2
  <2>2. QED
    BY <1>2, <1>3, <2>1, IsASeq
<1>5. TriggerTypeOK'
  <2>1. triggerFaults' \in 0 .. MaxTriggerFaults
    BY <1>0, <1>1, TriggerAssumption DEF TriggerTypeOK
  <2>2. QED
    BY <1>0, <1>1, <1>4, <2>1 DEF TriggerTypeOK
<1>6. ReadsUpdate'
  BY <1>3 DEF ReadsUpdate
<1>7. MailTellsLives'
  BY <1>0, <1>1, <1>3, LivesAreTold
<1>8. DueAreStarted'
  BY <1>0, <1>1 DEF DueAreStarted
<1>9. ASSUME NEW g \in Timed \ crossed' PROVE (HandledInOrder(g) /\ CopyIsLife(g) /\ DueInHand(g))'
  <2>1. HandledInOrder(g) /\ CopyIsLife(g)
    BY <1>1, <1>9 DEF TriggerInv
  <2>2. \A i \in DOMAIN mail : \A j \in 1 .. i - 1 : j \in DOMAIN mail
    BY <1>2
  <2>3. \A i \in DOMAIN mail : UnsettledMail(i)' <=> UnsettledMail(i)
    BY <1>3 DEF UnsettledMail
  <2>4. \A i \in DOMAIN mail : IsFirst(i)' <=> IsFirst(i)
    BY <1>3, <2>2, <2>3 DEF IsFirst
  <2>5. HandledInOrder(g)'
    <3> SUFFICES ASSUME NEW i \in DOMAIN mail, mail'[i].flow = g
                 PROVE  /\ mail'[i].pc # "queued" => \A j \in 1 .. i - 1 : mail'[j].flow = g => ~UnsettledMail(j)'
                        /\ mail'[i].pc = "read" => mail'[i].own /\ mail'[i].kind # "stopping"
                                                  /\ mail'[i].found = (copy'[g] # "none")
                        /\ mail'[i].pc = "written" => copy'[g] = Result(mail'[i].kind, mail'[i].own)
                        /\ IsFirst(i)' /\ mail'[i].kind = "started" => ((copy'[g] # "none") = mail'[i].own)
      BY <1>3 DEF HandledInOrder
    <3>1. mail'[i].pc # "queued" => \A j \in 1 .. i - 1 : mail[j].flow = g => ~UnsettledMail(j)
      BY <1>3, <2>1 DEF HandledInOrder
    <3>2. mail'[i].pc # "queued" => \A j \in 1 .. i - 1 : mail'[j].flow = g => ~UnsettledMail(j)'
      BY <1>3, <2>2, <2>3, <3>1
    <3>3. IsFirst(i)' /\ mail'[i].kind = "started" => ((copy'[g] # "none") = mail'[i].own)
      BY <1>1, <1>3, <2>1, <2>4 DEF HandledInOrder
    <3>4. QED
      BY <1>3, <3>2, <3>3
  <2>6. CopyIsLife(g)'
    BY <1>1, <1>3, <2>1, <2>3 DEF CopyIsLife
  <2>7. DueInHand(g)'
    BY <1>1 DEF DueInHand
  <2>8. QED
    BY <2>5, <2>6, <2>7
<1>10. QED
  BY <1>5, <1>6, <1>7, <1>8, <1>9 DEF TriggerInv

----------------------------------------------------------------------------

LEMMA TriggerKeeps == TriggerInv /\ [TriggerNext]_TriggerVars => TriggerInv'
<1> SUFFICES ASSUME TriggerInv, [TriggerNext]_TriggerVars PROVE TriggerInv'
  OBVIOUS
<1>1. CASE \E f \in Timed : PublishLife(f) \/ BecomesDue(f)
  BY <1>1, PublishLifeKeeps, BecomesDueKeeps
<1>2. CASE HandlerStep
  BY <1>2, TakeMailKeeps, WriteCopyKeeps, SettleKeeps DEF HandlerStep
<1>3. CASE LoopStep
  BY <1>3, ScheduleFlowsKeeps, ScheduleFlowKeeps, PlanNextRunKeeps DEF LoopStep
<1>4. CASE TriggerCrash
  BY <1>4, TriggerCrashKeeps
<1>5. CASE \E i \in DOMAIN mail : HandlerFails(i)
  BY <1>5, SettleKeeps
<1>6. CASE UNCHANGED TriggerVars
  <2>1. UNCHANGED <<service, life, mail, copy, overdue, hand, executed, crossed, triggerFaults>>
    BY <1>6 DEF TriggerVars, copyVars, loopVars
  <2>2. TriggerTypeOK' /\ DueAreStarted'
    BY <2>1 DEF TriggerInv, TriggerTypeOK, DueAreStarted
  <2>3. \A g \in Timed : copy'[g] = copy[g] /\ (DueInHand(g) => DueInHand(g)')
    BY <2>1 DEF DueInHand, InHandler
  <2>4. QED
    BY <2>1, <2>2, <2>3, LoopKeeps
<1>7. QED
  BY <1>1, <1>2, <1>3, <1>4, <1>5, <1>6 DEF TriggerNext

LEMMA TriggerInvHolds == TriggerSpec => []TriggerInv
<1>1. QED
  BY TriggerBegins, TriggerKeeps, PTL DEF TriggerSpec

(* The types of the scheduler and the webhooks service; what is due is due   *)
(* once.                                                                    *)
THEOREM TriggerTypesHold == TriggerSpec => []TriggerTypeOK
<1>1. TriggerInv => TriggerTypeOK
  BY DEF TriggerInv
<1>2. QED
  BY <1>1, TriggerInvHolds, PTL

(* A service whose handlers did not overlap has a copy of exactly the flows  *)
(* that are its own and run, whatever events and crashes came before.        *)
THEOREM QuietCopiesAreRightHolds == TriggerSpec => []QuietCopiesAreRight
<1>1. TriggerInv => QuietCopiesAreRight
  BY DEF TriggerInv, QuietCopiesAreRight, CopyIsLife, UnsettledMail, Result
<1>2. QED
  BY <1>1, TriggerInvHolds, PTL

(* No date of a flow passes by without its execution, unless a handler came  *)
(* between or the publish failed.                                           *)
THEOREM SlotsAreNotSkippedHolds == TriggerSpec => SlotsAreNotSkipped
<1>1. ASSUME TriggerInv, [TriggerNext]_TriggerVars,
             NEW f \in Timed \ crossed, Contains(overdue, f), ~Contains(overdue', f), mail' = mail
      PROVE  f \in executed
  <2>0. TriggerTypeOK /\ DueInHand(f)
    BY <1>1 DEF TriggerInv
  <2>1. CASE \E g \in Timed : PublishLife(g) \/ BecomesDue(g)
    <3>1. PICK g \in Timed : overdue' = overdue \/ overdue' = Append(overdue, g)
      BY <2>1 DEF PublishLife, BecomesDue, copyVars
    <3>2. \A h : Contains(overdue, h) => Contains(Append(overdue, g), h)
      BY <2>0, AppendAdds DEF TriggerTypeOK
    <3>3. QED
      BY <1>1, <3>1, <3>2
  <2>2. ASSUME NEW i \in DOMAIN mail,
               TakeMail(i) \/ WriteCopy(i) \/ Acknowledge(i) \/ HandlerFails(i)
        PROVE  FALSE
    <3>0. PICK h : h = mail[i].flow
      OBVIOUS
    <3>1. CASE TakeMail(i)
      <4>1. mail[i].pc = "queued" /\ mail'[i].pc \in {"read", "written"}
        BY <2>0, <3>0, <3>1, TakeMailParts
      <4>2. QED
        BY <1>1, <4>1
    <3>2. CASE WriteCopy(i)
      <4>1. mail[i].pc = "read" /\ mail'[i].pc \in {"settled", "written"}
        BY <2>0, <3>0, <3>2, WriteCopyParts
      <4>2. QED
        BY <1>1, <4>1
    <3>3. CASE Acknowledge(i) \/ HandlerFails(i)
      <4>1. mail'[i].pc = "settled"
        BY <2>0, <3>3, SettleParts
      <4>2. mail[i].pc # "settled"
        BY <3>3 DEF Acknowledge, HandlerFails
      <4>3. QED
        BY <1>1, <4>1, <4>2
    <3>4. QED
      BY <2>2, <3>1, <3>2, <3>3
  <2>3. CASE ScheduleFlows \/ \E g \in Timed : ScheduleFlow(g)
    BY <1>1, <2>3 DEF ScheduleFlows, ScheduleFlow, copyVars
  <2>4. ASSUME NEW g \in Timed, PlanNextRun(g) PROVE f \in executed
    <3>1. hand[g] = "published" /\ (overdue' = overdue \/ overdue' = RemoveFirst(overdue, g))
      BY <2>4, PlanParts
    <3>2. \A h : Contains(overdue, h) /\ h # g => Contains(RemoveFirst(overdue, g), h)
      BY <2>0, RemoveFirstLeaves DEF TriggerTypeOK
    <3>3. g = f
      BY <1>1, <3>1, <3>2
    <3>4. QED
      BY <2>0, <3>1, <3>3 DEF DueInHand
  <2>5. CASE TriggerCrash \/ UNCHANGED TriggerVars
    BY <1>1, <2>5 DEF TriggerCrash, TriggerVars, copyVars
  <2>6. QED
    BY <1>1, <2>1, <2>2, <2>3, <2>4, <2>5 DEF TriggerNext, HandlerStep, LoopStep
<1>2. TriggerInv /\ [TriggerNext]_TriggerVars =>
          \A f \in Timed \ crossed :
              Contains(overdue, f) /\ ~Contains(overdue', f) => f \in executed \/ mail' # mail
  BY <1>1
<1>3. QED
  BY <1>2, TriggerInvHolds, PTL DEF SlotsAreNotSkipped, TriggerSpec
=============================================================================
