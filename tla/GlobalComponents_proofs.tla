------------------------ MODULE GlobalComponents_proofs ------------------------
(***************************************************************************)
(* Proofs about GlobalComponents for any administrators, flows, events and *)
(* faults: as long as no two errands overlapped and no call of a stop has  *)
(* failed, a component that is deployed while nothing is under way can be  *)
(* reached, and reaches its queue.                                         *)
(***************************************************************************)
EXTENDS GlobalComponents, FunctionTheorems, FiniteSetTheorems, TLAPS

USE GlobalAssumption

AdminRec == [kind : {"start", "stop", "restart"}, pc : {"new", "published", "stopped", "again", "done"}]

LEMMA GlobalFacts ==
    ASSUME GlobalTypeOK
    PROVE  /\ active \in BOOLEAN /\ admin \in [Admins -> AdminRec]
           /\ orders \in Seq(Orders) /\ Len(orders) <= MaxOrders
           /\ users \in [UserFlows -> UserStatuses] /\ errand \in [Workers -> Errand]
           /\ globalQueue \in BOOLEAN /\ deployment \in BOOLEAN
           /\ brokerPassword \in PasswordOrNone /\ keptPassword \in PasswordOrNone
           /\ podSecret \in PasswordOrNone
           /\ overlapped \in BOOLEAN /\ halfStopped \in BOOLEAN
           /\ globalFaults \in 0 .. MaxGlobalFaults
  BY DEF GlobalTypeOK, AdminRec

LEMMA OneMore ==
    ASSUME NEW S, NEW x, IsFiniteSet(S)
    PROVE  /\ IsFiniteSet(S \cup {x}) /\ Cardinality(S \cup {x}) \in Nat
           /\ Cardinality(S \cup {x}) <= Cardinality(S) + 1
<1>1. IsFiniteSet(S \cup {x})
  BY FS_AddElement
<1>2. Cardinality(S \cup {x}) = IF x \in S THEN Cardinality(S) ELSE Cardinality(S) + 1
  BY FS_AddElement
<1>3. Cardinality(S) \in Nat /\ Cardinality(S \cup {x}) \in Nat
  BY <1>1, FS_CardinalityType
<1> QED
  BY <1>1, <1>2, <1>3

(* There is a password that is not in use.                                  *)
LEMMA PasswordIsFresh ==
    ASSUME GlobalTypeOK
    PROVE  FreshPassword \in Passwords
<1> DEFINE hands == {errand[w].password : w \in Workers}
           f == [w \in Workers |-> errand[w].password]
<1>1. IsFiniteSet(Workers) /\ Cardinality(Workers) <= MaxOrders + Cardinality(UserFlows)
                           /\ Cardinality(Workers) \in Nat
  <2>1. IsFiniteSet(1 .. MaxOrders) /\ Cardinality(1 .. MaxOrders) = MaxOrders
    BY FS_Interval
  <2>2. /\ IsFiniteSet(Workers)
        /\ Cardinality(Workers) =
              Cardinality(1 .. MaxOrders) + Cardinality(UserFlows) - Cardinality((1 .. MaxOrders) \cap UserFlows)
    BY <2>1, FS_Union DEF Workers
  <2>3. Cardinality((1 .. MaxOrders) \cap UserFlows) = 0
    BY FS_EmptySet
  <2>4. Cardinality(UserFlows) \in Nat
    BY FS_CardinalityType
  <2> QED
    BY <2>1, <2>2, <2>3, <2>4
<1>2. f \in Surjection(Workers, hands)
  BY DEF Surjection
<1>3. IsFiniteSet(hands) /\ Cardinality(hands) <= Cardinality(Workers)
  <2> HIDE DEF f, hands
  <2> QED
    BY <1>1, <1>2, FS_Surjection
<1> HIDE DEF f, hands
<1>4. Cardinality(hands) \in Nat
  BY <1>3, FS_CardinalityType
<1> DEFINE one == hands \cup {brokerPassword}
           two == one \cup {keptPassword}
           all == two \cup {podSecret}
<1>5. IsFiniteSet(one) /\ Cardinality(one) \in Nat /\ Cardinality(one) <= Cardinality(hands) + 1
  BY <1>3, OneMore
<1> HIDE DEF one
<1>6. IsFiniteSet(two) /\ Cardinality(two) \in Nat /\ Cardinality(two) <= Cardinality(one) + 1
  BY <1>5, OneMore
<1> HIDE DEF two
<1>7. IsFiniteSet(all) /\ Cardinality(all) \in Nat /\ Cardinality(all) <= Cardinality(two) + 1
  BY <1>6, OneMore
<1>8. all = InUse
  BY DEF all, two, one, hands, InUse
<1> HIDE DEF all
<1>9. Cardinality(UserFlows) \in Nat
  BY FS_CardinalityType
<1>10. Cardinality(all) <= MaxOrders + Cardinality(UserFlows) + 3
  BY <1>1, <1>3, <1>4, <1>5, <1>6, <1>7, <1>9
<1>11. ~(Passwords \subseteq all)
  <2> SUFFICES ASSUME Passwords \subseteq all PROVE FALSE
    OBVIOUS
  <2>1. IsFiniteSet(Passwords) /\ Cardinality(Passwords) <= Cardinality(all)
    BY <1>7, FS_Subset
  <2>2. Cardinality(Passwords) \in Nat
    BY <2>1, FS_CardinalityType
  <2> QED
    BY <1>7, <1>9, <1>10, <2>1, <2>2
<1>12. \E p \in Passwords : p \notin InUse
  BY <1>8, <1>11
<1> QED
  BY <1>12 DEF FreshPassword

LEMMA RestingIs ==
    Resting \in Errand /\ Resting.pc = "none" /\ Resting.password = NoPassword
  BY DEF Resting, Errand, NoPassword, PasswordOrNone

LEMMA GlobalInitTypes == GlobalInit => GlobalTypeOK
<1> SUFFICES ASSUME GlobalInit PROVE GlobalTypeOK
  OBVIOUS
<1>1. PICK wish \in Wishes : admin = [a \in Admins |-> [kind |-> wish[a], pc |-> "new"]]
  BY DEF GlobalInit
<1>2. wish \in [Admins -> {"start", "stop", "restart"}]
  OBVIOUS
<1>3. admin \in [Admins -> AdminRec]
  BY <1>1, <1>2 DEF AdminRec
<1>4. errand \in [Workers -> Errand]
  BY RestingIs DEF GlobalInit
<1>5. orders \in Seq(Orders) /\ Len(orders) <= MaxOrders
  BY DEF GlobalInit
<1>6. /\ active = FALSE /\ users = [f \in UserFlows |-> "absent"] /\ globalQueue = FALSE /\ deployment = FALSE
      /\ brokerPassword = NoPassword /\ keptPassword = NoPassword /\ podSecret = NoPassword
      /\ overlapped = FALSE /\ halfStopped = FALSE /\ globalFaults = 0
  BY DEF GlobalInit
<1>7. /\ active \in BOOLEAN /\ users \in [UserFlows -> UserStatuses] /\ globalQueue \in BOOLEAN /\ deployment \in BOOLEAN
      /\ brokerPassword \in PasswordOrNone /\ keptPassword \in PasswordOrNone /\ podSecret \in PasswordOrNone
      /\ overlapped \in BOOLEAN /\ halfStopped \in BOOLEAN
  BY <1>6 DEF PasswordOrNone, UserStatuses
<1>8. globalFaults \in 0 .. MaxGlobalFaults
  BY <1>6
<1> QED
  BY <1>3, <1>4, <1>5, <1>7, <1>8 DEF GlobalTypeOK, AdminRec

----------------------------------------------------------------------------
(* How an errand goes on and ends.                                          *)

LEMMA GoesParts ==
    ASSUME GlobalTypeOK, NEW w \in Workers, NEW pc \in StartSteps \cup StopSteps, Goes(w, pc)
    PROVE  /\ errand' \in [Workers -> Errand] /\ orders' = orders
           /\ errand'[w].pc = pc /\ errand'[w].password = errand[w].password
           /\ \A v \in Workers \ {w} : errand'[v] = errand[v]
<1> DEFINE x == [errand[w] EXCEPT !.pc = pc]
<1>1. errand[w] \in Errand
  BY GlobalFacts
<1>2. x \in Errand /\ x.pc = pc /\ x.password = errand[w].password
  BY <1>1 DEF Errand
<1>3. errand' = [errand EXCEPT ![w] = x] /\ orders' = orders
  BY DEF Goes
<1> HIDE DEF x
<1> QED
  BY <1>2, <1>3, GlobalFacts

LEMMA EndsParts ==
    ASSUME GlobalTypeOK, NEW w \in Workers, Ends(w)
    PROVE  /\ errand' \in [Workers -> Errand]
           /\ errand'[w].pc = "none" /\ errand'[w].password = NoPassword
           /\ \A v \in Workers \ {w} : errand'[v] = errand[v]
           /\ orders' \in Seq(Orders) /\ Len(orders') = Len(orders)
           /\ \A i \in 1 .. Len(orders) :
                 /\ orders'[i].kind = orders[i].kind
                 /\ orders'[i].at = IF i = w THEN "settled" ELSE orders[i].at
<1>1. errand' = [errand EXCEPT ![w] = Resting]
  BY DEF Ends
<1>2. CASE w \in DOMAIN orders
  <2> DEFINE x == [orders[w] EXCEPT !.at = "settled"]
  <2>1. w \in 1 .. Len(orders) /\ orders[w] \in Orders
    BY <1>2, GlobalFacts
  <2>2. x \in Orders /\ x.kind = orders[w].kind /\ x.at = "settled"
    BY <2>1 DEF Orders
  <2>3. orders' = [orders EXCEPT ![w] = x]
    BY <1>2 DEF Ends
  <2> HIDE DEF x
  <2> QED
    BY <1>1, <2>1, <2>2, <2>3, GlobalFacts, RestingIs
<1>3. CASE w \notin DOMAIN orders
  <2>1. orders' = orders /\ \A i \in 1 .. Len(orders) : i # w
    BY <1>3, GlobalFacts DEF Ends
  <2> QED
    BY <1>1, <2>1, GlobalFacts, RestingIs
<1> QED
  BY <1>2, <1>3

LEMMA BeginParts ==
    ASSUME GlobalTypeOK, NEW w \in Workers, NEW pc \in StartSteps \cup StopSteps, Begin(w, pc)
    PROVE  /\ errand' \in [Workers -> Errand]
           /\ errand[w].pc = "none" /\ errand'[w].pc = pc
           /\ \A v \in Workers \ {w} : errand'[v] = errand[v]
           /\ overlapped' \in BOOLEAN /\ (overlapped => overlapped')
           /\ ~overlapped' => \A v \in Workers : errand[v].pc = "none"
<1> DEFINE x == [errand[w] EXCEPT !.pc = pc]
<1>1. errand[w] \in Errand
  BY GlobalFacts
<1>2. x \in Errand /\ x.pc = pc
  BY <1>1 DEF Errand
<1>3. errand' = [errand EXCEPT ![w] = x]
  BY DEF Begin
<1> HIDE DEF x
<1> QED
  BY <1>2, <1>3, GlobalFacts DEF Begin

LEMMA TakeParts ==
    ASSUME GlobalTypeOK, NEW i \in DOMAIN orders, TakeOrder(i)
    PROVE  /\ i \in 1 .. Len(orders) /\ i \in Workers
           /\ orders[i].at = "queued" /\ \A j \in 1 .. i - 1 : orders[j].at # "queued"
           /\ orders' \in Seq(Orders) /\ Len(orders') = Len(orders)
           /\ \A j \in 1 .. Len(orders) :
                 /\ orders'[j].kind = orders[j].kind
                 /\ orders'[j].at = IF j = i THEN "work" ELSE orders[j].at
           /\ Begin(i, IF orders[i].kind = "start" THEN "queue" ELSE "dropQueue")
           /\ orders[i].kind \in {"start", "stop"}
           /\ UNCHANGED <<adminVars, users, clusterState, halfStopped, globalFaults>>
<1>1. i \in 1 .. Len(orders) /\ i \in Workers /\ orders[i] \in Orders
  BY GlobalFacts DEF Workers
<1> DEFINE x == [orders[i] EXCEPT !.at = "work"]
<1>2. x \in Orders /\ x.kind = orders[i].kind /\ x.at = "work" /\ orders[i].kind \in {"start", "stop"}
  BY <1>1 DEF Orders
<1>3. orders' = [orders EXCEPT ![i] = x]
  BY DEF TakeOrder
<1> HIDE DEF x
<1>4. /\ orders' \in Seq(Orders) /\ Len(orders') = Len(orders)
      /\ \A j \in 1 .. Len(orders) :
            /\ orders'[j].kind = orders[j].kind
            /\ orders'[j].at = IF j = i THEN "work" ELSE orders[j].at
  BY <1>1, <1>2, <1>3, GlobalFacts
<1> QED
  BY <1>1, <1>2, <1>4 DEF TakeOrder

LEMMA CrashParts ==
    ASSUME GlobalTypeOK, OrchestratorCrashes
    PROVE  /\ errand' \in [Workers -> Errand] /\ \A w \in Workers : errand'[w].pc = "none"
           /\ orders' \in Seq(Orders) /\ Len(orders') = Len(orders)
           /\ \A i \in 1 .. Len(orders) :
                 /\ orders'[i].kind = orders[i].kind
                 /\ orders'[i].at = IF orders[i].at = "work" THEN "queued" ELSE orders[i].at
<1>1. errand' = [w \in Workers |-> Resting]
  BY DEF OrchestratorCrashes
<1> DEFINE x(i) == IF orders[i].at = "work" THEN [orders[i] EXCEPT !.at = "queued"] ELSE orders[i]
<1>2. orders' = [i \in 1 .. Len(orders) |-> x(i)]
  BY GlobalFacts DEF OrchestratorCrashes
<1>3. \A i \in 1 .. Len(orders) : orders[i] \in Orders
  BY GlobalFacts
<1>4. \A i \in 1 .. Len(orders) :
         /\ x(i) \in Orders /\ x(i).kind = orders[i].kind
         /\ x(i).at = IF orders[i].at = "work" THEN "queued" ELSE orders[i].at
  BY <1>3 DEF Orders
<1> HIDE DEF x
<1>5. Len(orders) \in Nat
  BY GlobalFacts
<1> QED
  BY <1>1, <1>2, <1>4, <1>5, RestingIs

----------------------------------------------------------------------------
(* The types.                                                               *)

LEMMA PublishTypes ==
    ASSUME GlobalTypeOK, NEW a \in Admins, AdminPublishes(a) PROVE GlobalTypeOK'
<1>1. PICK kind \in {"start", "stop"}, whole \in BOOLEAN, pc, after \in {"published", "stopped", "again", "done"} :
         PublishOrder(a, kind, whole, pc, after) /\ pc \in {"published", "again"}
  <2>1. admin[a] \in AdminRec
    BY GlobalFacts
  <2> QED
    BY <2>1 DEF AdminPublishes, AdminRec
<1>2. admin' \in [Admins -> AdminRec]
  <2>1. PICK step \in {"published", "stopped", "again", "done"} : admin' = [admin EXCEPT ![a].pc = step]
    BY <1>1 DEF PublishOrder
  <2> QED
    BY <2>1, GlobalFacts DEF AdminRec
<1>3. orders' \in Seq(Orders) /\ Len(orders') <= MaxOrders /\ globalFaults' \in 0 .. MaxGlobalFaults
  <2>1. CASE Order(kind, whole) /\ UNCHANGED globalFaults
    <3>1. [kind |-> kind, whole |-> whole, at |-> "queued"] \in Orders
      BY DEF Orders
    <3> QED
      BY <2>1, <3>1, GlobalFacts DEF Order
  <2>2. CASE GlobalFault /\ UNCHANGED orders
    BY <2>2, GlobalFacts DEF GlobalFault
  <2> QED
    BY <1>1, <2>1, <2>2 DEF PublishOrder
<1> QED
  BY <1>2, <1>3, GlobalFacts DEF AdminPublishes, clusterState, GlobalTypeOK, AdminRec

LEMMA StartTypes ==
    ASSUME GlobalTypeOK, NEW w \in Workers, StartComponent(w) PROVE GlobalTypeOK'
<1> USE DEF clusterState, adminVars, PasswordOrNone
<1>0. ASSUME errand' \in [Workers -> Errand], orders' \in Seq(Orders), Len(orders') = Len(orders),
             globalQueue' \in BOOLEAN, deployment' \in BOOLEAN,
             brokerPassword' \in PasswordOrNone, keptPassword' \in PasswordOrNone,
             podSecret' \in PasswordOrNone
      PROVE  GlobalTypeOK'
  <2>1. users' \in [UserFlows -> UserStatuses]
    <3>1. \A f \in UserFlows : users[f] \in UserStatuses /\ "ready" \in UserStatuses
      BY GlobalFacts DEF UserStatuses
    <3> QED
      BY <3>1 DEF StartComponent
  <2> QED
    BY <1>0, <2>1, GlobalFacts DEF StartComponent, GlobalTypeOK, AdminRec
<1>1. errand[w] \in Errand
  BY GlobalFacts
<1>2. CASE errand[w].pc = "queue" /\ Goes(w, "credential") /\ globalQueue' = TRUE
           /\ UNCHANGED <<brokerPassword, keptPassword, podSecret, deployment>>
  BY <1>0, <1>2, GoesParts, GlobalFacts DEF StartSteps
<1>3. CASE /\ UNCHANGED <<orders, clusterState>>
           /\ errand' = [errand EXCEPT ![w] = [pc |-> IF keptPassword = NoPassword THEN "user" ELSE "secret",
                                               password |-> keptPassword]]
  <2> DEFINE x == [pc |-> IF keptPassword = NoPassword THEN "user" ELSE "secret", password |-> keptPassword]
  <2>1. x \in Errand
    BY GlobalFacts DEF Errand, StartSteps
  <2> HIDE DEF x
  <2>2. errand' \in [Workers -> Errand]
    BY <1>3, <2>1, GlobalFacts DEF x
  <2> QED
    BY <1>0, <1>3, <2>2, GlobalFacts
<1>4. CASE /\ brokerPassword' = FreshPassword
           /\ errand' = [errand EXCEPT ![w].pc = "keep", ![w].password = FreshPassword]
           /\ UNCHANGED <<orders, globalQueue, keptPassword, podSecret, deployment>>
  <2> DEFINE x == [errand[w] EXCEPT !.pc = "keep", !.password = FreshPassword]
  <2>1. FreshPassword \in Passwords
    BY PasswordIsFresh
  <2>2. x \in Errand
    BY <1>1, <2>1 DEF Errand, StartSteps
  <2>3. errand' = [errand EXCEPT ![w] = x]
    BY <1>1, <1>4, GlobalFacts DEF Errand
  <2> HIDE DEF x
  <2>4. errand' \in [Workers -> Errand]
    BY <2>2, <2>3, GlobalFacts
  <2> QED
    BY <1>0, <1>4, <2>1, <2>4, GlobalFacts
<1>5. CASE /\ Goes(w, "secret") /\ keptPassword' = errand[w].password
           /\ UNCHANGED <<globalQueue, brokerPassword, podSecret, deployment>>
  BY <1>0, <1>1, <1>5, GoesParts, GlobalFacts DEF StartSteps, Errand
<1>6. CASE Ends(w) /\ UNCHANGED clusterState
  BY <1>0, <1>6, EndsParts, GlobalFacts
<1>7. CASE /\ Goes(w, "deploy") /\ podSecret' = errand[w].password
           /\ UNCHANGED <<globalQueue, brokerPassword, keptPassword, deployment>>
  BY <1>0, <1>1, <1>7, GoesParts, GlobalFacts DEF StartSteps, Errand
<1>8. CASE /\ Ends(w) /\ deployment' = TRUE
           /\ UNCHANGED <<globalQueue, brokerPassword, keptPassword, podSecret>>
  BY <1>0, <1>8, EndsParts, GlobalFacts
<1> QED
  BY <1>2, <1>3, <1>4, <1>5, <1>6, <1>7, <1>8 DEF StartComponent

LEMMA StopTypes ==
    ASSUME GlobalTypeOK, NEW w \in Workers, StopComponent(w) PROVE GlobalTypeOK'
<1> USE DEF clusterState, adminVars, PasswordOrNone
<1>0. ASSUME errand' \in [Workers -> Errand], orders' \in Seq(Orders), Len(orders') = Len(orders),
             globalQueue' \in BOOLEAN, deployment' \in BOOLEAN,
             brokerPassword' \in PasswordOrNone, keptPassword' \in PasswordOrNone,
             podSecret' \in PasswordOrNone
      PROVE  GlobalTypeOK'
  BY <1>0, GlobalFacts DEF StopComponent, GlobalTypeOK, AdminRec
<1>1. CASE /\ Goes(w, "dropUser") /\ globalQueue' = FALSE
           /\ UNCHANGED <<brokerPassword, keptPassword, podSecret, deployment>>
  BY <1>0, <1>1, GoesParts, GlobalFacts DEF StopSteps
<1>2. CASE /\ Goes(w, "forget") /\ brokerPassword' = NoPassword
           /\ UNCHANGED <<globalQueue, keptPassword, podSecret, deployment>>
  BY <1>0, <1>2, GoesParts, GlobalFacts DEF StopSteps
<1>3. CASE /\ Goes(w, "dropApp") /\ keptPassword' = NoPassword
           /\ UNCHANGED <<globalQueue, brokerPassword, podSecret, deployment>>
  BY <1>0, <1>3, GoesParts, GlobalFacts DEF StopSteps
<1>4. CASE /\ Goes(w, "dropSecret") /\ deployment' = FALSE
           /\ UNCHANGED <<globalQueue, brokerPassword, keptPassword, podSecret>>
  BY <1>0, <1>4, GoesParts, GlobalFacts DEF StopSteps
<1>5. CASE /\ Ends(w) /\ podSecret' = NoPassword
           /\ UNCHANGED <<globalQueue, brokerPassword, keptPassword, deployment>>
  BY <1>0, <1>5, EndsParts, GlobalFacts
<1> QED
  BY <1>1, <1>2, <1>3, <1>4, <1>5 DEF StopComponent, Forgotten

LEMMA GlobalStepTypes == GlobalTypeOK /\ [GlobalNext]_GlobalVars => GlobalTypeOK'
<1> SUFFICES ASSUME GlobalTypeOK, [GlobalNext]_GlobalVars PROVE GlobalTypeOK'
  OBVIOUS
<1> USE DEF adminVars, clusterState
<1>1. CASE UNCHANGED GlobalVars
  BY <1>1 DEF GlobalTypeOK, GlobalVars
<1>2. ASSUME NEW a \in Admins, AdminSetsFlag(a) PROVE GlobalTypeOK'
  <2>1. PICK step \in {"stopped", "done"} : admin' = [admin EXCEPT ![a].pc = step]
    BY <1>2 DEF AdminSetsFlag
  <2>2. admin' \in [Admins -> AdminRec]
    BY <2>1, GlobalFacts DEF AdminRec
  <2> QED
    BY <1>2, <2>2, GlobalFacts DEF AdminSetsFlag, GlobalTypeOK, AdminRec
<1>3. ASSUME NEW a \in Admins, AdminIsCut(a) PROVE GlobalTypeOK'
  <2>1. admin' \in [Admins -> AdminRec]
    BY <1>3, GlobalFacts DEF AdminIsCut, AdminRec
  <2> QED
    BY <1>3, <2>1, GlobalFacts DEF AdminIsCut, GlobalFault, GlobalTypeOK, AdminRec
<1>4. ASSUME NEW f \in UserFlows, FlowAppears(f) \/ FlowLeaves(f) \/ LoopPasses(f) PROVE GlobalTypeOK'
  <2>1. \E st \in UserStatuses : users' = [users EXCEPT ![f] = st]
    BY <1>4 DEF FlowAppears, FlowLeaves, LoopPasses, UserStatuses
  <2>2. users' \in [UserFlows -> UserStatuses]
    BY <2>1, GlobalFacts
  <2>3. UNCHANGED <<adminVars, orders, errand, clusterState, overlapped, halfStopped, globalFaults>>
    BY <1>4 DEF FlowAppears, FlowLeaves, LoopPasses
  <2> QED
    BY <2>2, <2>3, GlobalFacts DEF GlobalTypeOK, AdminRec
<1>5. ASSUME NEW f \in UserFlows, LoopStarts(f) PROVE GlobalTypeOK'
  <2>1. f \in Workers /\ Begin(f, "queue")
    BY <1>5 DEF LoopStarts, Workers
  <2>2. "queue" \in StartSteps \cup StopSteps
    BY DEF StartSteps
  <2>3. errand' \in [Workers -> Errand] /\ overlapped' \in BOOLEAN
    BY <2>1, <2>2, BeginParts
  <2>4. users' \in [UserFlows -> UserStatuses]
    <3>1. users[f] \in UserStatuses /\ "preparing" \in UserStatuses
      BY GlobalFacts DEF UserStatuses
    <3> QED
      BY <1>5, <3>1, GlobalFacts DEF LoopStarts
  <2> QED
    BY <1>5, <2>3, <2>4, GlobalFacts DEF LoopStarts, GlobalTypeOK, AdminRec
<1>6. ASSUME NEW i \in DOMAIN orders, TakeOrder(i) PROVE GlobalTypeOK'
  <2>1. /\ i \in Workers /\ orders' \in Seq(Orders) /\ Len(orders') = Len(orders)
        /\ Begin(i, IF orders[i].kind = "start" THEN "queue" ELSE "dropQueue")
        /\ UNCHANGED <<adminVars, users, clusterState, halfStopped, globalFaults>>
    BY <1>6, TakeParts
  <2> DEFINE pc == IF orders[i].kind = "start" THEN "queue" ELSE "dropQueue"
  <2>3. pc \in StartSteps \cup StopSteps
    BY DEF StartSteps, StopSteps
  <2> HIDE DEF pc
  <2>4. Begin(i, pc)
    BY <2>1 DEF pc
  <2>2. errand' \in [Workers -> Errand] /\ overlapped' \in BOOLEAN
    BY <2>1, <2>3, <2>4, BeginParts
  <2> QED
    BY <2>1, <2>2, GlobalFacts DEF GlobalTypeOK, AdminRec
<1>7. ASSUME NEW w \in Workers, ErrandStep(w) PROVE GlobalTypeOK'
  BY <1>7, StartTypes, StopTypes DEF ErrandStep
<1>8. ASSUME NEW w \in Workers, ErrandFails(w) PROVE GlobalTypeOK'
  <2>1. /\ errand' \in [Workers -> Errand] /\ orders' \in Seq(Orders) /\ Len(orders') = Len(orders)
    BY <1>8, GoesParts, EndsParts, GlobalFacts DEF ErrandFails, StopSteps
  <2>2. globalFaults' \in 0 .. MaxGlobalFaults
    BY <1>8, GlobalFacts DEF ErrandFails, GlobalFault
  <2> QED
    BY <1>8, <2>1, <2>2, GlobalFacts DEF ErrandFails, GlobalTypeOK, AdminRec
<1>9. CASE OrchestratorCrashes
  <2>1. globalFaults' \in 0 .. MaxGlobalFaults
    BY <1>9, GlobalFacts DEF OrchestratorCrashes, GlobalFault
  <2>2. users' \in [UserFlows -> UserStatuses]
    <3>1. \A f \in UserFlows : users[f] \in UserStatuses /\ "stale" \in UserStatuses
      BY GlobalFacts DEF UserStatuses
    <3> QED
      BY <1>9, <3>1 DEF OrchestratorCrashes
  <2> QED
    BY <1>9, <2>1, <2>2, CrashParts, GlobalFacts DEF OrchestratorCrashes, GlobalTypeOK, AdminRec
<1> QED
  BY <1>1, <1>2, <1>3, <1>4, <1>5, <1>6, <1>7, <1>8, <1>9, PublishTypes DEF GlobalNext

(* The variables keep their types; among them that a password is minted     *)
(* whenever one is needed.                                                  *)
THEOREM GlobalTypesHold == GlobalSpec => []GlobalTypeOK
  BY GlobalInitTypes, GlobalStepTypes, PTL DEF GlobalSpec

----------------------------------------------------------------------------
(* One errand at a time.                                                    *)

Busy(w) == errand[w].pc # "none"

(* Nothing that the next start would take for granted is missing.           *)
Sound ==
    /\ keptPassword # NoPassword => keptPassword = brokerPassword
    /\ deployment => globalQueue /\ keptPassword # NoPassword /\ podSecret = keptPassword

(* What a start has done by the time it is at a step.                       *)
StartFacts(w) ==
    /\ errand[w].pc \in StartSteps \ {"queue"} => globalQueue
    /\ errand[w].pc \in {"user", "keep"} => keptPassword = NoPassword
    /\ errand[w].pc = "keep" => errand[w].password = brokerPassword /\ brokerPassword # NoPassword
    /\ errand[w].pc \in {"secret", "deploy"} =>
          errand[w].password = keptPassword /\ keptPassword # NoPassword
    /\ errand[w].pc = "deploy" => podSecret = keptPassword

StopFacts(w) ==
    /\ errand[w].pc \in {"dropApp", "dropSecret"} => keptPassword = NoPassword
    /\ errand[w].pc = "dropSecret" => ~deployment

(* The first event that is not settled is a stop: whatever the cluster      *)
(* looks like, for instance since a crash cut that stop off, it will be     *)
(* cleaned up before any other event is handled.                            *)
EventSettled(i) == orders[i].at = "settled"
StopDue == \E i \in 1 .. Len(orders) :
              ~EventSettled(i) /\ orders[i].kind = "stop" /\ \A j \in 1 .. i - 1 : EventSettled(j)

OneErrand == \A v, w \in Workers : Busy(v) /\ Busy(w) => v = w
ErrandAtWork == \A i \in 1 .. Len(orders) :
             orders[i].at = "work" => Busy(i) /\ \A j \in 1 .. i - 1 : EventSettled(j)
OnErrand(w) ==
    \/ w \in UserFlows /\ errand[w].pc \in StartSteps
    \/ /\ w \in 1 .. Len(orders) /\ orders[w].at = "work"
       /\ \/ orders[w].kind = "start" /\ errand[w].pc \in StartSteps
          \/ orders[w].kind = "stop" /\ errand[w].pc \in StopSteps

InOrder ==
    /\ OneErrand /\ ErrandAtWork
    /\ \A w \in Workers : Busy(w) => OnErrand(w)
    /\ \A w \in Workers : StopFacts(w)
    /\ StopDue \/ (Sound /\ \A w \in Workers : StartFacts(w))

ReachInv == ~overlapped /\ ~halfStopped => InOrder

LEMMA InitReaches == GlobalInit => ReachInv
<1> SUFFICES ASSUME GlobalInit PROVE InOrder
  BY DEF ReachInv
<1>1. \A w \in Workers : errand[w].pc = "none"
  BY RestingIs DEF GlobalInit
<1>2. Len(orders) = 0 /\ keptPassword = NoPassword /\ deployment = FALSE
  BY DEF GlobalInit
<1> QED
  BY <1>1, <1>2 DEF InOrder, OneErrand, ErrandAtWork, Busy, StopFacts, Sound, StartFacts, StartSteps

(* A start that no stop is to clean up after has a sound cluster, and an    *)
(* event that is started is the first one.                                  *)
LEMMA StartersAreFirst ==
    ASSUME GlobalTypeOK, InOrder, NEW w \in Workers, errand[w].pc \in StartSteps, w \notin UserFlows
    PROVE  /\ w \in 1 .. Len(orders) /\ orders[w].at = "work" /\ orders[w].kind = "start"
           /\ ~StopDue
<1>1. Busy(w)
  BY DEF Busy, StartSteps
<1>2. OnErrand(w)
  BY <1>1 DEF InOrder
<1>3. w \in 1 .. Len(orders) /\ orders[w].at = "work" /\ orders[w].kind = "start"
  BY <1>2 DEF OnErrand, StartSteps, StopSteps
<1>4. ASSUME NEW i \in 1 .. Len(orders), ~EventSettled(i), orders[i].kind = "stop",
             \A j \in 1 .. i - 1 : EventSettled(j)
      PROVE  FALSE
  <2>1. ~EventSettled(w) /\ \A j \in 1 .. w - 1 : EventSettled(j)
    BY <1>3 DEF InOrder, ErrandAtWork, EventSettled
  <2>2. i = w
    BY <1>3, <1>4, <2>1, GlobalFacts
  <2> QED
    BY <1>3, <1>4, <2>2
<1> QED
  BY <1>3, <1>4 DEF StopDue

LEMMA StoppersAreDue ==
    ASSUME GlobalTypeOK, InOrder, NEW w \in Workers, errand[w].pc \in StopSteps
    PROVE  /\ w \notin UserFlows /\ w \in 1 .. Len(orders)
           /\ orders[w].at = "work" /\ orders[w].kind = "stop"
           /\ \A j \in 1 .. w - 1 : EventSettled(j)
           /\ StopDue
<1>1. Busy(w)
  BY DEF Busy, StopSteps
<1>2. OnErrand(w)
  BY <1>1 DEF InOrder
<1>3. w \in 1 .. Len(orders) /\ orders[w].at = "work" /\ orders[w].kind = "stop"
  BY <1>2 DEF OnErrand, StartSteps, StopSteps
<1>4. \A j \in 1 .. w - 1 : EventSettled(j)
  BY <1>3 DEF InOrder, ErrandAtWork
<1>5. w \notin UserFlows
  BY <1>3, GlobalFacts
<1> QED
  BY <1>3, <1>4, <1>5 DEF StopDue, EventSettled

(* An errand goes to its next step.                                         *)
LEMMA GoingOn ==
    ASSUME GlobalTypeOK, InOrder, NEW w \in Workers, Busy(w), UNCHANGED orders,
           \/ errand[w].pc \in StartSteps /\ errand'[w].pc \in StartSteps
           \/ errand[w].pc \in StopSteps /\ errand'[w].pc \in StopSteps,
           \A v \in Workers \ {w} : errand'[v] = errand[v]
    PROVE  /\ OneErrand' /\ ErrandAtWork' /\ \A v \in Workers : Busy(v)' => OnErrand(v)'
           /\ StopDue' = StopDue
           /\ \A v \in Workers \ {w} : errand'[v].pc = "none"
<1>1. \A v \in Workers \ {w} : ~Busy(v) /\ ~Busy(v)'
  BY DEF InOrder, OneErrand, Busy
<1>2. Busy(w)'
  BY DEF Busy, StartSteps, StopSteps
<1>3. OnErrand(w)'
  BY DEF InOrder, OnErrand, StartSteps, StopSteps
<1>4. \A v \in Workers : Busy(v)' <=> Busy(v)
  BY <1>1, <1>2
<1>5. 1 .. Len(orders) \subseteq Workers
  BY GlobalFacts DEF Workers
<1>6. ErrandAtWork'
  BY <1>4, <1>5 DEF InOrder, ErrandAtWork, EventSettled
<1>7. OneErrand' /\ \A v \in Workers : Busy(v)' => OnErrand(v)'
  BY <1>1, <1>3 DEF OneErrand
<1> QED
  BY <1>1, <1>6, <1>7 DEF StopDue, EventSettled, Busy

(* An errand ends.                                                          *)
LEMMA Ending ==
    ASSUME GlobalTypeOK, InOrder, NEW w \in Workers, Busy(w), Ends(w)
    PROVE  /\ OneErrand' /\ ErrandAtWork' /\ \A v \in Workers : Busy(v)' => OnErrand(v)'
           /\ \A v \in Workers : errand'[v].pc = "none"
           /\ w \in UserFlows => StopDue' = StopDue
<1>1. /\ errand'[w].pc = "none" /\ \A v \in Workers \ {w} : errand'[v] = errand[v]
      /\ Len(orders') = Len(orders)
      /\ \A i \in 1 .. Len(orders) :
            /\ orders'[i].kind = orders[i].kind
            /\ orders'[i].at = IF i = w THEN "settled" ELSE orders[i].at
  BY EndsParts
<1>2. \A v \in Workers : errand'[v].pc = "none"
  BY <1>1 DEF InOrder, OneErrand, Busy
<1>3. 1 .. Len(orders) \subseteq Workers
  BY GlobalFacts DEF Workers
<1>4. \A i \in 1 .. Len(orders) : orders'[i].at # "work"
  BY <1>1, <1>3 DEF InOrder, ErrandAtWork, OneErrand
<1>5. ErrandAtWork'
  BY <1>1, <1>4 DEF ErrandAtWork
<1>6. w \in UserFlows => \A i \in 1 .. Len(orders) : i # w
  BY GlobalFacts
<1>7. w \in UserFlows => StopDue' = StopDue
  <2> SUFFICES ASSUME w \in UserFlows PROVE StopDue' = StopDue
    OBVIOUS
  <2>1. \A i \in 1 .. Len(orders) : EventSettled(i)' <=> EventSettled(i)
    BY <1>1, <1>6 DEF EventSettled
  <2>2. \A i \in 1 .. Len(orders) : \A j \in 1 .. i - 1 : j \in 1 .. Len(orders)
    BY GlobalFacts
  <2>3. \A i \in 1 .. Len(orders) :
           (\A j \in 1 .. i - 1 : EventSettled(j)') <=> (\A j \in 1 .. i - 1 : EventSettled(j))
    BY <2>1, <2>2
  <2> QED
    BY <1>1, <2>1, <2>3 DEF StopDue
<1> QED
  BY <1>2, <1>5, <1>7 DEF OneErrand, Busy

(* The steps of a start.                                                    *)
LEMMA StartReaches ==
    ASSUME GlobalTypeOK, GlobalTypeOK', InOrder, NEW w \in Workers, StartComponent(w)
    PROVE  InOrder'
<1> USE DEF clusterState
<1>1. errand[w].pc \in StartSteps /\ Busy(w) /\ errand[w] \in Errand
  BY GlobalFacts DEF StartComponent, StartSteps, Busy
<1>2. ASSUME errand'[w].pc \in StartSteps, \A v \in Workers \ {w} : errand'[v] = errand[v],
             UNCHANGED orders,
             Sound /\ StartFacts(w) => Sound' /\ StartFacts(w)'
      PROVE  InOrder'
  <2>1. /\ OneErrand' /\ ErrandAtWork' /\ \A v \in Workers : Busy(v)' => OnErrand(v)'
        /\ StopDue' = StopDue
        /\ \A v \in Workers \ {w} : errand'[v].pc = "none"
    BY <1>1, <1>2, GoingOn
  <2>2. \A v \in Workers : StopFacts(v)'
    BY <1>2, <2>1 DEF StopFacts, StartSteps
  <2>3. \A v \in Workers \ {w} : StartFacts(v)'
    BY <2>1 DEF StartFacts, StartSteps
  <2>4. StopDue' \/ (Sound' /\ StartFacts(w)')
    BY <1>2, <2>1 DEF InOrder
  <2> QED
    BY <2>1, <2>2, <2>3, <2>4 DEF InOrder
<1>3. ASSUME Ends(w), Sound /\ StartFacts(w) => Sound' PROVE InOrder'
  <2>1. /\ OneErrand' /\ ErrandAtWork' /\ \A v \in Workers : Busy(v)' => OnErrand(v)'
        /\ \A v \in Workers : errand'[v].pc = "none"
        /\ w \in UserFlows => StopDue' = StopDue
    BY <1>1, <1>3, Ending
  <2>2. \A v \in Workers : StopFacts(v)' /\ StartFacts(v)'
    BY <2>1 DEF StopFacts, StartFacts, StartSteps
  <2>3. StopDue' \/ Sound'
    <3>1. CASE w \in UserFlows
      BY <1>3, <2>1, <3>1 DEF InOrder
    <3>2. CASE w \notin UserFlows
      <4>1. ~StopDue
        BY <1>1, <3>2, StartersAreFirst
      <4> QED
        BY <1>3, <4>1 DEF InOrder
    <3> QED
      BY <3>1, <3>2
  <2> QED
    BY <2>1, <2>2, <2>3 DEF InOrder
<1>4. CASE errand[w].pc = "queue" /\ Goes(w, "credential") /\ globalQueue' = TRUE
           /\ UNCHANGED <<brokerPassword, keptPassword, podSecret, deployment>>
  BY <1>2, <1>4, GoesParts DEF StartSteps, Sound, StartFacts
<1>5. CASE /\ errand[w].pc = "credential" /\ UNCHANGED <<orders, clusterState>>
           /\ errand' = [errand EXCEPT ![w] = [pc |-> IF keptPassword = NoPassword THEN "user" ELSE "secret",
                                               password |-> keptPassword]]
  <2>1. /\ errand'[w].pc = IF keptPassword = NoPassword THEN "user" ELSE "secret"
        /\ errand'[w].password = keptPassword
        /\ \A v \in Workers \ {w} : errand'[v] = errand[v]
    BY <1>5, GlobalFacts
  <2> QED
    BY <1>2, <1>5, <2>1 DEF StartSteps, Sound, StartFacts
<1>6. CASE /\ errand[w].pc = "user" /\ brokerPassword' = FreshPassword
           /\ errand' = [errand EXCEPT ![w].pc = "keep", ![w].password = FreshPassword]
           /\ UNCHANGED <<orders, globalQueue, keptPassword, podSecret, deployment>>
  <2>1. /\ errand'[w].pc = "keep" /\ errand'[w].password = FreshPassword
        /\ \A v \in Workers \ {w} : errand'[v] = errand[v]
    BY <1>1, <1>6, GlobalFacts DEF Errand
  <2>2. FreshPassword # NoPassword
    BY PasswordIsFresh DEF NoPassword
  <2> QED
    BY <1>2, <1>6, <2>1, <2>2 DEF StartSteps, Sound, StartFacts
<1>7. CASE /\ errand[w].pc = "keep" /\ Goes(w, "secret") /\ keptPassword' = errand[w].password
           /\ UNCHANGED <<globalQueue, brokerPassword, podSecret, deployment>>
  BY <1>2, <1>7, GoesParts DEF StartSteps, Sound, StartFacts
<1>8. CASE Ends(w) /\ UNCHANGED clusterState
  BY <1>3, <1>8 DEF Sound
<1>9. CASE /\ errand[w].pc = "secret" /\ Goes(w, "deploy") /\ podSecret' = errand[w].password
           /\ UNCHANGED <<globalQueue, brokerPassword, keptPassword, deployment>>
  BY <1>2, <1>9, GoesParts DEF StartSteps, Sound, StartFacts
<1>10. CASE /\ errand[w].pc = "deploy" /\ Ends(w) /\ deployment' = TRUE
            /\ UNCHANGED <<globalQueue, brokerPassword, keptPassword, podSecret>>
  BY <1>3, <1>10 DEF StartSteps, Sound, StartFacts
<1> QED
  BY <1>4, <1>5, <1>6, <1>7, <1>8, <1>9, <1>10 DEF StartComponent

(* The steps of a stop.                                                     *)
LEMMA StopReaches ==
    ASSUME GlobalTypeOK, GlobalTypeOK', InOrder, NEW w \in Workers, StopComponent(w)
    PROVE  InOrder'
<1> USE DEF clusterState
<1>1. errand[w].pc \in StopSteps /\ Busy(w) /\ StopDue
  BY StoppersAreDue DEF StopComponent, StopSteps, Busy
<1>2. ASSUME errand'[w].pc \in StopSteps, \A v \in Workers \ {w} : errand'[v] = errand[v],
             UNCHANGED orders, StopFacts(w)'
      PROVE  InOrder'
  <2>1. /\ OneErrand' /\ ErrandAtWork' /\ \A v \in Workers : Busy(v)' => OnErrand(v)'
        /\ StopDue' = StopDue
        /\ \A v \in Workers \ {w} : errand'[v].pc = "none"
    BY <1>1, <1>2, GoingOn
  <2>2. \A v \in Workers : StopFacts(v)'
    BY <1>2, <2>1 DEF StopFacts
  <2> QED
    BY <1>1, <2>1, <2>2 DEF InOrder
<1>3. StopFacts(w)
  BY DEF InOrder
<1>4. CASE /\ Goes(w, "dropUser") /\ globalQueue' = FALSE
           /\ UNCHANGED <<brokerPassword, keptPassword, podSecret, deployment>>
  BY <1>2, <1>4, GoesParts DEF StopSteps, StopFacts
<1>5. CASE /\ Goes(w, "forget") /\ brokerPassword' = NoPassword
           /\ UNCHANGED <<globalQueue, keptPassword, podSecret, deployment>>
  BY <1>2, <1>5, GoesParts DEF StopSteps, StopFacts
<1>6. CASE /\ Goes(w, "dropApp") /\ keptPassword' = NoPassword
           /\ UNCHANGED <<globalQueue, brokerPassword, podSecret, deployment>>
  BY <1>2, <1>6, GoesParts DEF StopSteps, StopFacts
<1>7. CASE /\ errand[w].pc = "dropApp" /\ Goes(w, "dropSecret") /\ deployment' = FALSE
           /\ UNCHANGED <<globalQueue, brokerPassword, keptPassword, podSecret>>
  BY <1>2, <1>3, <1>7, GoesParts DEF StopSteps, StopFacts
<1>8. CASE /\ errand[w].pc = "dropSecret" /\ Ends(w) /\ podSecret' = NoPassword
           /\ UNCHANGED <<globalQueue, brokerPassword, keptPassword, deployment>>
  <2>1. /\ OneErrand' /\ ErrandAtWork' /\ \A v \in Workers : Busy(v)' => OnErrand(v)'
        /\ \A v \in Workers : errand'[v].pc = "none"
    BY <1>1, <1>8, Ending
  <2>2. \A v \in Workers : StopFacts(v)' /\ StartFacts(v)'
    BY <2>1 DEF StopFacts, StartFacts, StartSteps
  <2>3. Sound'
    BY <1>3, <1>8 DEF Sound, StopFacts
  <2> QED
    BY <2>1, <2>2, <2>3 DEF InOrder
<1> QED
  BY <1>4, <1>5, <1>6, <1>7, <1>8 DEF StopComponent, Forgotten

(* Steps that touch neither the errands nor the cluster, and at most add an *)
(* event.                                                                   *)
LEMMA OthersReach ==
    ASSUME GlobalTypeOK, GlobalTypeOK', InOrder, UNCHANGED <<errand, clusterState>>,
           Len(orders') >= Len(orders),
           \A i \in 1 .. Len(orders) : orders'[i] = orders[i],
           \A i \in 1 .. Len(orders') : i > Len(orders) => orders'[i].at = "queued"
    PROVE  InOrder'
<1> USE DEF clusterState
<1>1. Len(orders) \in Nat /\ Len(orders') \in Nat
  BY GlobalFacts DEF GlobalTypeOK
<1>2. \A i \in 1 .. Len(orders) : EventSettled(i)' <=> EventSettled(i)
  BY DEF EventSettled
<1>3. ErrandAtWork'
  <2> SUFFICES ASSUME NEW i \in 1 .. Len(orders'), orders'[i].at = "work"
               PROVE  Busy(i)' /\ \A j \in 1 .. i - 1 : EventSettled(j)'
    BY DEF ErrandAtWork
  <2>1. i \in 1 .. Len(orders) /\ orders[i].at = "work"
    BY <1>1
  <2>2. Busy(i) /\ \A j \in 1 .. i - 1 : EventSettled(j)
    BY <2>1 DEF InOrder, ErrandAtWork
  <2> QED
    BY <1>1, <1>2, <2>1, <2>2 DEF Busy
<1>4. \A w \in Workers : Busy(w)' => OnErrand(w)'
  BY <1>1 DEF InOrder, Busy, OnErrand
<1>5. StopDue => StopDue'
  <2> SUFFICES ASSUME NEW i \in 1 .. Len(orders), ~EventSettled(i), orders[i].kind = "stop",
                      \A j \in 1 .. i - 1 : EventSettled(j)
               PROVE  StopDue'
    BY DEF StopDue
  <2>1. i \in 1 .. Len(orders') /\ ~EventSettled(i)' /\ orders'[i].kind = "stop"
    BY <1>1, <1>2
  <2>2. \A j \in 1 .. i - 1 : EventSettled(j)'
    BY <1>1, <1>2
  <2> QED
    BY <2>1, <2>2 DEF StopDue
<1>6. OneErrand' /\ (\A w \in Workers : StopFacts(w)') /\ (Sound => Sound')
      /\ \A w \in Workers : StartFacts(w) => StartFacts(w)'
  BY DEF InOrder, OneErrand, Busy, StopFacts, Sound, StartFacts
<1> QED
  BY <1>3, <1>4, <1>5, <1>6 DEF InOrder

LEMMA LoopReaches ==
    ASSUME GlobalTypeOK, GlobalTypeOK', InOrder, NEW f \in UserFlows, LoopStarts(f), ~overlapped'
    PROVE  InOrder'
<1> USE DEF clusterState
<1>1. f \in Workers /\ "queue" \in StartSteps \cup StopSteps /\ Begin(f, "queue")
  BY DEF LoopStarts, Workers, StartSteps
<1>2. /\ \A v \in Workers : errand[v].pc = "none"
      /\ errand'[f].pc = "queue" /\ \A v \in Workers \ {f} : errand'[v] = errand[v]
  BY <1>1, BeginParts
<1>3. UNCHANGED <<orders, clusterState>>
  BY DEF LoopStarts
<1>4. \A v \in Workers \ {f} : errand'[v].pc = "none"
  BY <1>2
<1>5. OneErrand' /\ \A v \in Workers : Busy(v)' => OnErrand(v)'
  BY <1>2, <1>4 DEF OneErrand, Busy, OnErrand, StartSteps
<1>6. 1 .. Len(orders) \subseteq Workers
  BY GlobalFacts DEF Workers
<1>7. ErrandAtWork'
  BY <1>2, <1>3, <1>6 DEF InOrder, ErrandAtWork, Busy
<1>8. \A v \in Workers : StopFacts(v)' /\ StartFacts(v)'
  BY <1>2, <1>4 DEF StopFacts, StartFacts, StartSteps
<1>9. (StopDue => StopDue') /\ (Sound => Sound')
  BY <1>3 DEF StopDue, EventSettled, Sound
<1> QED
  BY <1>5, <1>7, <1>8, <1>9 DEF InOrder

LEMMA TakeReaches ==
    ASSUME GlobalTypeOK, GlobalTypeOK', InOrder, NEW i \in DOMAIN orders, TakeOrder(i), ~overlapped'
    PROVE  InOrder'
<1> USE DEF clusterState
<1> DEFINE pc == IF orders[i].kind = "start" THEN "queue" ELSE "dropQueue"
<1>1. /\ i \in 1 .. Len(orders) /\ i \in Workers /\ Len(orders') = Len(orders)
      /\ orders[i].at = "queued" /\ \A j \in 1 .. i - 1 : orders[j].at # "queued"
      /\ \A j \in 1 .. Len(orders) :
            /\ orders'[j].kind = orders[j].kind
            /\ orders'[j].at = IF j = i THEN "work" ELSE orders[j].at
      /\ Begin(i, pc) /\ orders[i].kind \in {"start", "stop"} /\ UNCHANGED clusterState
  BY TakeParts
<1>2. pc \in StartSteps \cup StopSteps
  BY DEF StartSteps, StopSteps
<1>3. pc = IF orders[i].kind = "start" THEN "queue" ELSE "dropQueue"
  OBVIOUS
<1> HIDE DEF pc
<1>4. /\ \A v \in Workers : errand[v].pc = "none"
      /\ errand'[i].pc = pc /\ \A v \in Workers \ {i} : errand'[v] = errand[v]
  BY <1>1, <1>2, BeginParts
<1>5. \A v \in Workers \ {i} : errand'[v].pc = "none"
  BY <1>4
<1>6. 1 .. Len(orders) \subseteq Workers
  BY GlobalFacts DEF Workers
<1>7. \A j \in 1 .. Len(orders) : orders[j].at # "work" /\ orders[j] \in Orders
  BY <1>4, <1>6, GlobalFacts DEF InOrder, ErrandAtWork, Busy
<1>8. \A j \in 1 .. i - 1 : EventSettled(j) /\ EventSettled(j)'
  <2> SUFFICES ASSUME NEW j \in 1 .. i - 1 PROVE EventSettled(j) /\ EventSettled(j)'
    OBVIOUS
  <2>1. j \in 1 .. Len(orders) /\ j # i
    BY <1>1, GlobalFacts
  <2>2. orders[j].at = "settled"
    BY <1>1, <1>7, <2>1 DEF Orders
  <2> QED
    BY <1>1, <2>1, <2>2 DEF EventSettled
<1>9. ErrandAtWork'
  <2>1. \A j \in 1 .. Len(orders) : orders'[j].at = "work" => j = i
    BY <1>1, <1>7
  <2>2. Busy(i)'
    BY <1>3, <1>4 DEF Busy
  <2> QED
    BY <1>1, <1>8, <2>1, <2>2 DEF ErrandAtWork
<1>10. OneErrand' /\ \A v \in Workers : Busy(v)' => OnErrand(v)'
  BY <1>1, <1>3, <1>4, <1>5 DEF OneErrand, Busy, OnErrand, StartSteps, StopSteps
<1>11. \A v \in Workers : StopFacts(v)' /\ StartFacts(v)'
  BY <1>3, <1>4, <1>5 DEF StopFacts, StartFacts, StartSteps
<1>12. StopDue' \/ Sound'
  <2>1. CASE orders[i].kind = "stop"
    BY <1>1, <1>8, <2>1 DEF StopDue, EventSettled
  <2>2. CASE orders[i].kind = "start"
    <3>1. ~StopDue
      <4> SUFFICES ASSUME NEW k \in 1 .. Len(orders), ~EventSettled(k), orders[k].kind = "stop",
                          \A j \in 1 .. k - 1 : EventSettled(j)
                   PROVE  FALSE
        BY DEF StopDue
      <4>1. ~EventSettled(i) /\ k # i
        BY <1>1, <2>2 DEF EventSettled
      <4>2. ~(k < i) /\ ~(i < k)
        BY <1>1, <1>8, <4>1, GlobalFacts
      <4> QED
        BY <1>1, <4>1, <4>2, GlobalFacts
    <3> QED
      BY <1>1, <3>1 DEF InOrder, Sound
  <2> QED
    BY <1>1, <2>1, <2>2
<1> QED
  BY <1>9, <1>10, <1>11, <1>12 DEF InOrder

(* Only a start may fail: a stop that does counts as half done.             *)
LEMMA FailureReaches ==
    ASSUME GlobalTypeOK, GlobalTypeOK', InOrder, NEW w \in Workers, ErrandFails(w), ~halfStopped'
    PROVE  InOrder'
<1> USE DEF clusterState
<1>1. errand[w].pc \in StartSteps
  <2>1. errand[w].pc # "none" /\ errand[w].pc \notin StopSteps
    BY DEF ErrandFails
  <2>2. errand[w] \in Errand
    BY GlobalFacts
  <2> QED
    BY <2>1, <2>2 DEF Errand
<1>2. Busy(w) /\ Ends(w) /\ UNCHANGED clusterState
  BY <1>1 DEF ErrandFails, Busy, StartSteps
<1>3. /\ OneErrand' /\ ErrandAtWork' /\ \A v \in Workers : Busy(v)' => OnErrand(v)'
      /\ \A v \in Workers : errand'[v].pc = "none"
      /\ w \in UserFlows => StopDue' = StopDue
  BY <1>2, Ending
<1>4. \A v \in Workers : StopFacts(v)' /\ StartFacts(v)'
  BY <1>3 DEF StopFacts, StartFacts, StartSteps
<1>5. Sound => Sound'
  BY <1>2 DEF Sound
<1>6. w \notin UserFlows => ~StopDue
  BY <1>1, StartersAreFirst
<1> QED
  BY <1>3, <1>4, <1>5, <1>6 DEF InOrder

LEMMA CrashReaches ==
    ASSUME GlobalTypeOK, GlobalTypeOK', InOrder, OrchestratorCrashes
    PROVE  InOrder'
<1> USE DEF clusterState
<1>1. /\ \A w \in Workers : errand'[w].pc = "none"
      /\ Len(orders') = Len(orders) /\ UNCHANGED clusterState
      /\ \A i \in 1 .. Len(orders) :
            /\ orders'[i].kind = orders[i].kind
            /\ orders'[i].at = IF orders[i].at = "work" THEN "queued" ELSE orders[i].at
  BY CrashParts DEF OrchestratorCrashes
<1>2. \A i \in 1 .. Len(orders) : (EventSettled(i)' <=> EventSettled(i)) /\ orders'[i].at # "work"
  BY <1>1 DEF EventSettled
<1>3. StopDue => StopDue'
  <2>1. \A i \in 1 .. Len(orders) :
           (\A j \in 1 .. i - 1 : EventSettled(j)) => (\A j \in 1 .. i - 1 : EventSettled(j)')
    <3>1. \A i \in 1 .. Len(orders) : \A j \in 1 .. i - 1 : j \in 1 .. Len(orders)
      BY GlobalFacts
    <3> QED
      BY <1>2, <3>1
  <2> QED
    BY <1>1, <1>2, <2>1 DEF StopDue
<1>4. \A w \in Workers : StopFacts(w)' /\ StartFacts(w)'
  BY <1>1 DEF StopFacts, StartFacts, StartSteps
<1>5. Sound => Sound'
  BY <1>1 DEF Sound
<1>6. OneErrand' /\ ErrandAtWork' /\ \A w \in Workers : Busy(w)' => OnErrand(w)'
  BY <1>1, <1>2 DEF OneErrand, ErrandAtWork, Busy
<1> QED
  BY <1>3, <1>4, <1>5, <1>6 DEF InOrder

LEMMA StepReaches == GlobalTypeOK /\ GlobalTypeOK' /\ ReachInv /\ [GlobalNext]_GlobalVars => ReachInv'
<1> SUFFICES ASSUME GlobalTypeOK, GlobalTypeOK', ReachInv, [GlobalNext]_GlobalVars,
                    ~overlapped', ~halfStopped'
             PROVE  InOrder'
  BY DEF ReachInv
<1> USE DEF clusterState
<1>0. Len(orders) \in Nat
  BY GlobalFacts
<1>1. ASSUME UNCHANGED <<orders, errand, overlapped, halfStopped, clusterState>> PROVE InOrder'
  BY <1>0, <1>1, OthersReach DEF ReachInv
<1>2. ASSUME NEW a \in Admins, AdminPublishes(a) PROVE InOrder'
  <2>1. InOrder /\ UNCHANGED <<errand, clusterState>>
    BY <1>2 DEF ReachInv, AdminPublishes
  <2>2. orders' = orders \/ \E o \in Orders : orders' = Append(orders, o) /\ o.at = "queued"
    <3>1. PICK kind \in {"start", "stop"}, whole \in BOOLEAN : Order(kind, whole) \/ UNCHANGED orders
      <4>1. admin[a] \in AdminRec
        BY GlobalFacts
      <4> QED
        BY <1>2, <4>1 DEF AdminPublishes, PublishOrder, AdminRec
    <3>2. [kind |-> kind, whole |-> whole, at |-> "queued"] \in Orders
      BY DEF Orders
    <3> QED
      BY <3>1, <3>2 DEF Order
  <2>3. CASE orders' = orders
    BY <1>0, <2>1, <2>3, OthersReach
  <2>4. ASSUME NEW o \in Orders, orders' = Append(orders, o), o.at = "queued" PROVE InOrder'
    <3>1. /\ Len(orders') = Len(orders) + 1
          /\ \A i \in 1 .. Len(orders) : orders'[i] = orders[i]
          /\ orders'[Len(orders) + 1] = o
      BY <2>4, GlobalFacts
    <3> QED
      BY <1>0, <2>1, <2>4, <3>1, OthersReach
  <2> QED
    BY <2>2, <2>3, <2>4
<1>3. ASSUME NEW f \in UserFlows, LoopStarts(f) PROVE InOrder'
  <2>1. f \in Workers /\ "queue" \in StartSteps \cup StopSteps /\ Begin(f, "queue")
    BY <1>3 DEF LoopStarts, Workers, StartSteps
  <2>2. InOrder
    BY <1>3, <2>1, BeginParts DEF ReachInv, LoopStarts
  <2> QED
    BY <1>3, <2>2, LoopReaches
<1>4. ASSUME NEW i \in DOMAIN orders, TakeOrder(i) PROVE InOrder'
  <2>1. overlapped' = (overlapped \/ \E v \in Workers : errand[v].pc # "none") /\ halfStopped' = halfStopped
    BY <1>4 DEF TakeOrder, Begin
  <2>2. InOrder
    BY <2>1 DEF ReachInv
  <2> QED
    BY <1>4, <2>2, TakeReaches
<1>5. ASSUME NEW w \in Workers, ErrandStep(w) PROVE InOrder'
  <2>1. InOrder
    BY <1>5 DEF ReachInv, ErrandStep, StartComponent, StopComponent
  <2> QED
    BY <1>5, <2>1, StartReaches, StopReaches DEF ErrandStep
<1>6. ASSUME NEW w \in Workers, ErrandFails(w) PROVE InOrder'
  <2>1. InOrder
    BY <1>6 DEF ReachInv, ErrandFails
  <2> QED
    BY <1>6, <2>1, FailureReaches
<1>7. CASE OrchestratorCrashes
  <2>1. InOrder
    BY <1>7 DEF ReachInv, OrchestratorCrashes
  <2> QED
    BY <1>7, <2>1, CrashReaches
<1>8. CASE UNCHANGED GlobalVars
  BY <1>1, <1>8 DEF GlobalVars
<1>9. ASSUME NEW a \in Admins, AdminSetsFlag(a) \/ AdminIsCut(a) PROVE InOrder'
  BY <1>1, <1>9 DEF AdminSetsFlag, AdminIsCut
<1>10. ASSUME NEW f \in UserFlows, FlowAppears(f) \/ FlowLeaves(f) \/ LoopPasses(f) PROVE InOrder'
  BY <1>1, <1>10 DEF FlowAppears, FlowLeaves, LoopPasses
<1> QED
  BY <1>2, <1>3, <1>4, <1>5, <1>6, <1>7, <1>8, <1>9, <1>10 DEF GlobalNext

LEMMA OrderIsEnough == GlobalTypeOK /\ ReachInv => RunningIsReachable
<1> SUFFICES ASSUME GlobalTypeOK, ReachInv, NoErrand, deployment, ~overlapped, ~halfStopped
             PROVE  globalQueue /\ brokerPassword # NoPassword /\ podSecret = brokerPassword
  BY DEF RunningIsReachable
<1>1. \A i \in 1 .. Len(orders) : EventSettled(i)
  BY GlobalFacts DEF NoErrand, EventSettled
<1>2. ~StopDue
  BY <1>1 DEF StopDue
<1> QED
  BY <1>2 DEF ReachInv, InOrder, Sound

(* After any starts, stops and restarts, by administrators and by the loop, *)
(* with crashes in the middle of any of them and failing calls of starts, a *)
(* component that is deployed while nothing is under way has its queue, and *)
(* its pods the password of its user (startComponent, stopComponent).       *)
THEOREM RunningIsReachableHolds == GlobalSpec => []RunningIsReachable
  BY GlobalInitTypes, GlobalStepTypes, InitReaches, StepReaches, OrderIsEnough, PTL DEF GlobalSpec
=============================================================================
