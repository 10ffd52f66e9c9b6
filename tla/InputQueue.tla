------------------------------ MODULE InputQueue ------------------------------
(***************************************************************************)
(* The queue of a step: an input is settled once, by a component that has   *)
(* taken it, and otherwise taken again, unless the queue is deleted.        *)
(***************************************************************************)
EXTENDS Naturals, FiniteSets

CONSTANT Inputs
VARIABLES there, limit, queued, taken, settled, lost

vars == <<there, limit, queued, taken, settled, lost>>
Sent == queued \cup taken \cup settled \cup lost

Init ==
    /\ there /\ limit \in Nat
    /\ queued \subseteq Inputs /\ taken = {} /\ settled = {} /\ lost = {}

(* Into the queue if there is one.                                          *)
Enqueue(inputs) ==
    /\ queued' = IF there THEN queued \cup inputs ELSE queued
    /\ lost' = IF there THEN lost ELSE lost \cup inputs
    /\ UNCHANGED <<there, limit>>

Send(i) == i \notin Sent /\ Enqueue({i}) /\ UNCHANGED <<taken, settled>>
Take(i) ==
    /\ i \in queued /\ Cardinality(taken) < limit
    /\ queued' = queued \ {i} /\ taken' = taken \cup {i}
    /\ UNCHANGED <<there, limit, settled, lost>>
Settle(i) ==
    /\ i \in taken
    /\ taken' = taken \ {i} /\ settled' = settled \cup {i}
    /\ UNCHANGED <<there, limit, queued, lost>>

(* The component dies or closes its channel.                                *)
GiveBack == Enqueue(taken) /\ taken' = {} /\ UNCHANGED settled

(* A sender loses what it was about to send; so does a queue its inputs.     *)
LoseUnsent(inputs) ==
    /\ inputs \cap Sent = {} /\ lost' = lost \cup inputs
    /\ UNCHANGED <<there, limit, queued, taken, settled>>
Delete(unsent) ==
    /\ there /\ ~there'
    /\ unsent \cap Sent = {}
    /\ queued' = {} /\ lost' = lost \cup queued \cup unsent
    /\ UNCHANGED <<limit, taken, settled>>

Next ==
    \/ \E i \in Inputs : Send(i) \/ Take(i) \/ Settle(i)
    \/ GiveBack
    \/ \E inputs \in SUBSET Inputs : LoseUnsent(inputs) \/ Delete(inputs)
Spec == Init /\ [][Next]_vars
=============================================================================
