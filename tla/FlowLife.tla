------------------------------- MODULE FlowLife -------------------------------
(***************************************************************************)
(* What the owner of one flow may expect while one thing at a time is asked *)
(* of it: what runs, and that it changes only by a start or a stop.         *)
(***************************************************************************)
CONSTANT Versions
VARIABLES status, graph, runs, owned, declared

vars == <<status, graph, runs, owned, declared>>
Exists == status \in {"inactive", "starting", "active", "stopping"}

Init ==
    /\ runs = "none" /\ declared = FALSE
    /\ \/ status = "absent" /\ graph = "none" /\ owned = FALSE
       \/ status = "inactive" /\ graph \in Versions /\ owned = TRUE

(* An id is used once.                                                      *)
Create ==
    /\ status = "absent" /\ status' = "inactive" /\ graph' \in Versions /\ owned' = TRUE
    /\ UNCHANGED <<runs, declared>>
Change == owned /\ status = "inactive" /\ graph' \in Versions /\ UNCHANGED <<status, runs, owned, declared>>
(* A bulk update that says inactive does not ask, and stops nothing.        *)
Declare ==
    /\ owned /\ status \in {"active", "stopping"} /\ status' = "inactive"
    /\ graph' \in Versions /\ declared' = TRUE
    /\ UNCHANGED <<runs, owned>>
Delete ==
    /\ owned /\ status = "inactive" /\ status' = "deleted" /\ graph' = "none" /\ owned' = FALSE
    /\ UNCHANGED <<runs, declared>>
Disown == Exists /\ owned' = FALSE /\ UNCHANGED <<status, graph, runs, declared>>

Becomes(s) == status' = s /\ UNCHANGED <<graph, runs, owned>>
Start == owned /\ status # "starting" /\ Becomes("starting") /\ declared' = FALSE
Launch == status = "starting" /\ runs' = graph /\ UNCHANGED <<status, graph, owned, declared>>
Started == status = "starting" /\ runs = graph /\ Becomes("active") /\ UNCHANGED declared
Failed == status = "starting" /\ runs = graph /\ Becomes("stopping") /\ UNCHANGED declared

(* Asked to stop, or left without an owner.                                 *)
Ending == status = "stopping" \/ (status = "active" /\ ~owned)
Stop == owned /\ status # "starting" /\ Becomes("stopping") /\ declared' = FALSE
Halt == Ending /\ runs # "none" /\ runs' = "none" /\ UNCHANGED <<status, graph, owned, declared>>
Stopped == Ending /\ runs = "none" /\ Becomes("inactive") /\ UNCHANGED declared

(* Requests or events about the flow overlap: no promise from here on.       *)
Disturb ==
    /\ status' = "disturbed" /\ graph' = "none" /\ runs' = "none" /\ owned' = FALSE
    /\ declared' = FALSE

Next ==
    \/ Create \/ Change \/ Declare \/ Delete \/ Disown
    \/ Start \/ Launch \/ Started \/ Failed
    \/ Stop \/ Halt \/ Stopped \/ Disturb
Spec == Init /\ [][Next]_vars
=============================================================================
