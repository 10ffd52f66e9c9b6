----------------------------- MODULE AtLeastOnce -----------------------------
(***************************************************************************)
(* What a service may expect of the event bus: an event that was accepted  *)
(* is kept until the service has served it, and may be served again and    *)
(* again before that is known.                                             *)
(***************************************************************************)
CONSTANT Events
VARIABLES kept, served

Accept(e) == e \notin kept \cup served /\ kept' = kept \cup {e} /\ UNCHANGED served
Serve(e) == e \in kept \cup served /\ served' = served \cup {e} /\ UNCHANGED kept
Finish(e) == e \in kept /\ kept' = kept \ {e} /\ served' = served \cup {e}

Init == kept = {} /\ served = {}
Next == \E e \in Events : Accept(e) \/ Serve(e) \/ Finish(e)
Spec == Init /\ [][Next]_<<kept, served>>
=============================================================================
