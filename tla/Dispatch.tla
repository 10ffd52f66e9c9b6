------------------------------- MODULE Dispatch -------------------------------
(***************************************************************************)
(* The dispatcher service: a configuration lists applications, for each of   *)
(* which the dispatcher has made a flow in the flow repository; a record     *)
(* that the flow of one application delivers is dispatched to the flows of   *)
(* the others, which are started when they are inactive.  Every change       *)
(* reads the configuration, calls the flow repository, and writes the whole  *)
(* configuration as it was read and changed; the flows of what it removed    *)
(* are deleted after that, one after the other.                             *)
(*                                                                         *)
(* One configuration; an application has one flow, an outbound one if it is  *)
(* a source and an inbound one otherwise, or none that counts.  A body names *)
(* flows that are listed, and at most one application that has none yet.     *)
(***************************************************************************)
EXTENDS Naturals, FiniteSets

CONSTANTS
    Applications,      \* ids of applications
    Sources,           \* those with an outbound flow
    RepositoryFlows,   \* ids of flows
    Changes,           \* requests that change the configuration, one each
    Records,           \* events record.created, one each
    MaxDispatchFaults  \* bound: calls of the flow repository that fail

ASSUME DispatchAssumption ==
    /\ Sources \subseteq Applications /\ Sources # {}
    /\ \E flow \in [Applications -> RepositoryFlows] : \A a, b \in Applications : flow[a] = flow[b] => a = b
    /\ MaxDispatchFaults \in Nat

VARIABLES
    listing,     \* the configuration
    flowThere,   \* flowThere[f]: flow f in the flow repository
    change,      \* change[q]: progress of a request
    dispatching, \* dispatching[e]: progress of the handler of an event
    overlap,     \* history: two changes overlapped
    excused,     \* history: flows nobody lists or deletes any more
    dispatchFaults

DispatchVars == <<listing, flowThere, change, dispatching, overlap, excused, dispatchFaults>>

Listed == Applications \X RepositoryFlows
(* Not intact: there is no application where one should be.                 *)
Listings == [exists : BOOLEAN, intact : BOOLEAN, apps : SUBSET Listed]
ChangeKinds == {"add", "edit", "remove", "modify", "delete"}
FlowStates == {"unused", "empty", "inactive", "running", "deleted"}

(* apps: the applications to be written; left: flows of what is listed no    *)
(* more; made: the flow made for the change; intact: whether the list read was. *)
Change == [kind : ChangeKinds, pc : {"new", "create", "complete", "write", "spoil", "clean", "done"},
           apps : SUBSET Listed, left : SUBSET RepositoryFlows, made : SUBSET RepositoryFlows,
           intact : BOOLEAN]

DispatchTypeOK ==
    /\ listing \in Listings
    /\ flowThere \in [RepositoryFlows -> FlowStates]
    /\ change \in [Changes -> Change]
    /\ dispatching \in [Records -> [pc : {"new", "check", "start", "done"}, left : SUBSET RepositoryFlows,
                                    at : RepositoryFlows]]
    /\ overlap \in BOOLEAN /\ excused \subseteq RepositoryFlows
    /\ dispatchFaults \in 0 .. MaxDispatchFaults

FlowsOf(apps) == {p[2] : p \in apps}
Untouched == {f \in RepositoryFlows : flowThere[f] = "unused"}

FirstFlow == CHOOSE flow \in [Applications -> RepositoryFlows] :
                 \A a, b \in Applications : flow[a] = flow[b] => a = b

(* POST /dispatches has made the flows it lists.                            *)
DispatchInit ==
    /\ listing = [exists |-> TRUE, intact |-> TRUE, apps |-> {<<a, FirstFlow[a]>> : a \in Applications}]
    /\ flowThere = [f \in RepositoryFlows |-> IF f \in FlowsOf(listing.apps) THEN "inactive" ELSE "unused"]
    /\ change \in [Changes -> [kind : ChangeKinds, pc : {"new"}, apps : {{}}, left : {{}}, made : {{}},
                                intact : {TRUE}]]
    /\ dispatching \in [Records -> [pc : {"new"}, left : {{}}, at : {FirstFlow[a] : a \in Sources}]]
    /\ overlap = FALSE /\ excused = {} /\ dispatchFaults = 0

----------------------------------------------------------------------------
(* Changes: add is PUT /:id/app, edit PATCH /:id/app/:appId, remove DELETE   *)
(* /:id/app/:appId, modify PATCH /:id, delete DELETE /:id.                   *)

(* What a request holds when it is over: nothing.                           *)
Finished(q) == [change[q] EXCEPT !.pc = "done", !.apps = {}, !.left = {}, !.made = {}, !.intact = TRUE]
InProgress(q) == change[q].pc \notin {"new", "done"}

(* What may be left of the listed applications.  The body of an edit is      *)
(* spread over the application, its flows included; that of modify is a list *)
(* of its own; what a list that is not intact had is not found.             *)
KeptFlows(kind) ==
    CASE kind = "add" -> {listing.apps}
      [] kind = "edit" -> {listing.apps} \cup {listing.apps \ {app} : app \in listing.apps}
      [] kind = "remove" -> {listing.apps \ {app} : app \in listing.apps}
      [] kind = "modify" -> SUBSET listing.apps
      [] kind = "delete" -> {IF listing.intact THEN listing.apps ELSE {}}

(* Those that go through the list fail when it is not intact.               *)
CannotBegin(kind) == ~listing.exists \/ (~listing.intact /\ kind \in {"edit", "remove", "modify"})

ReadListing(q) ==
    LET kind == change[q].kind IN
    /\ change[q].pc = "new"
    /\ overlap' = (overlap \/ \E p \in Changes : InProgress(p))
    /\ \/ CannotBegin(kind) /\ change' = [change EXCEPT ![q] = Finished(q)]
       \/ /\ ~CannotBegin(kind)
          /\ \E apps \in KeptFlows(kind), pc \in {"create", "write"} :
                /\ pc = "create" => kind \in {"add", "modify"}
                /\ pc = "write" => kind # "add"
                /\ change' = [change EXCEPT ![q].pc = pc, ![q].apps = apps, ![q].intact = listing.intact,
                                            ![q].left = FlowsOf(listing.apps \ apps)]
    /\ UNCHANGED <<listing, flowThere, dispatching, excused, dispatchFaults>>

DispatchFault == dispatchFaults < MaxDispatchFaults /\ dispatchFaults' = dispatchFaults + 1

(* createFlows returns false, and leaves what it has made.  Only PUT looks:  *)
(* updateConfigFlows has it written as the list of applications.            *)
FlowsNotMade(q) ==
    /\ DispatchFault
    /\ \/ /\ change[q].kind = "add"
          /\ change' = [change EXCEPT ![q] = Finished(q)]
          /\ excused' = excused \cup change[q].made
       \/ /\ change[q].kind = "modify"
          /\ change' = [change EXCEPT ![q].pc = "spoil"]
          /\ UNCHANGED excused

(* createFlows posts an empty flow, to have its id ...                      *)
CreateEmpty(q) ==
    /\ change[q].pc = "create"
    /\ \/ /\ Untouched # {}
          /\ \E f \in {CHOOSE g \in Untouched : TRUE}, a \in Applications :
                /\ flowThere' = [flowThere EXCEPT ![f] = "empty"]
                /\ change' = [change EXCEPT ![q].pc = "complete", ![q].made = {f},
                                            ![q].apps = @ \cup {<<a, f>>}]
          /\ UNCHANGED <<excused, dispatchFaults>>
       \/ FlowsNotMade(q) /\ UNCHANGED flowThere
    /\ UNCHANGED <<listing, dispatching, overlap>>

(* ... and patches its graph.                                               *)
CompleteFlow(q) ==
    /\ change[q].pc = "complete"
    /\ \/ /\ flowThere' = [f \in RepositoryFlows |-> IF f \in change[q].made THEN "inactive" ELSE flowThere[f]]
          /\ change' = [change EXCEPT ![q].pc = "write"]
          /\ UNCHANGED <<excused, dispatchFaults>>
       \/ FlowsNotMade(q) /\ UNCHANGED flowThere
    /\ UNCHANGED <<listing, dispatching, overlap>>

(* Slip: the applications added replace those that are there.               *)
WrittenOnlyNew(q) ==
    IF change[q].kind = "add" THEN change[q].apps \ listing.apps ELSE change[q].apps
Written(q) == change[q].apps

(* updateConfig, of a configuration that may be gone, or deleteConfig. What  *)
(* updateConfigFlows deletes it deletes without a token: nothing.  It updates *)
(* the configuration that has the id of the body, this one or another.       *)
WriteListing(q) ==
    LET kind == change[q].kind
        listed == IF listing.exists
                  THEN [listing EXCEPT !.apps = Written(q), !.intact = change[q].intact]
                  ELSE listing
    IN
    /\ change[q].pc = "write"
    /\ \/ /\ kind = "delete"
          /\ listing' = [exists |-> FALSE, intact |-> TRUE, apps |-> {}]
          /\ change' = [change EXCEPT ![q].pc = "clean", ![q].left = FlowsOf(change[q].apps)]
          /\ excused' = excused \cup change[q].left
       \/ /\ kind = "remove"
          /\ listing' = listed
          /\ change' = [change EXCEPT ![q].pc = "clean"]
          /\ UNCHANGED excused
       \/ /\ kind \in {"add", "edit", "modify"}
          /\ listing' = listed
          /\ change' = [change EXCEPT ![q] = Finished(q)]
          /\ excused' = excused \cup change[q].left
       \/ /\ kind = "modify" /\ UNCHANGED listing
          /\ change' = [change EXCEPT ![q] = Finished(q)]
          /\ excused' = excused \cup change[q].made
    /\ UNCHANGED <<flowThere, dispatching, overlap, dispatchFaults>>

(* ... and then with false for a list: a list of no application, unless it   *)
(* is refused or the id is another.                                         *)
SpoilListing(q) ==
    /\ change[q].pc = "spoil"
    /\ change' = [change EXCEPT ![q] = Finished(q)]
    /\ \/ /\ listing' = IF listing.exists THEN [listing EXCEPT !.apps = {}, !.intact = FALSE] ELSE listing
          /\ excused' = excused \cup change[q].left \cup FlowsOf(change[q].apps)
       \/ UNCHANGED listing /\ excused' = excused \cup change[q].made
    /\ UNCHANGED <<flowThere, dispatching, overlap, dispatchFaults>>

(* deleteFlowsById: the flow repository deletes inactive flows alone, its     *)
(* answer is not looked at; an exception ends the loop.                      *)
CleanFlow(q) ==
    /\ change[q].pc = "clean"
    /\ \/ /\ change[q].left = {}
          /\ change' = [change EXCEPT ![q] = Finished(q)]
          /\ UNCHANGED <<flowThere, excused, dispatchFaults>>
       \/ \E f \in change[q].left :
          /\ change' = [change EXCEPT ![q].left = @ \ {f}]
          /\ IF flowThere[f] = "running"
             THEN excused' = excused \cup {f} /\ UNCHANGED flowThere
             ELSE flowThere' = [flowThere EXCEPT ![f] = "deleted"] /\ UNCHANGED excused
          /\ UNCHANGED dispatchFaults
       \/ /\ change[q].left # {} /\ DispatchFault
          /\ change' = [change EXCEPT ![q] = Finished(q)]
          /\ excused' = excused \cup change[q].left
          /\ UNCHANGED flowThere
    /\ UNCHANGED <<listing, dispatching, overlap>>

----------------------------------------------------------------------------
(* Dispatches.                                                              *)

(* getTargets of a record delivered by the flow of a source.                *)
Targets(f) ==
    IF listing.intact /\ \E a \in Sources : <<a, f>> \in listing.apps
    THEN FlowsOf({p \in listing.apps : p[1] \notin Sources})
    ELSE {}

TakeRecord(e) ==
    LET targets == Targets(dispatching[e].at) IN
    /\ dispatching[e].pc = "new" /\ flowThere[dispatching[e].at] = "running"
    /\ dispatching' = [dispatching EXCEPT ![e].pc = IF targets = {} THEN "done" ELSE "check",
                                          ![e].left = targets]
    /\ UNCHANGED <<listing, flowThere, change, overlap, excused, dispatchFaults>>

(* checkFlows asks for the status of each target and starts it if inactive;  *)
(* what fails is logged.  Then the dispatches are published.                *)
CheckFlow(e) ==
    /\ dispatching[e].pc = "check"
    /\ \/ /\ dispatching[e].left = {}
          /\ dispatching' = [dispatching EXCEPT ![e].pc = "done"]
       \/ \E f \in dispatching[e].left :
            dispatching' = [dispatching EXCEPT
                ![e].pc = IF flowThere[f] = "inactive" THEN "start" ELSE "check",
                ![e].left = @ \ {f}, ![e].at = f]
    /\ UNCHANGED <<listing, flowThere, change, overlap, excused, dispatchFaults>>

StartFlow(e) ==
    LET f == dispatching[e].at IN
    /\ dispatching[e].pc = "start"
    /\ dispatching' = [dispatching EXCEPT ![e].pc = "check"]
    /\ flowThere' = IF flowThere[f] = "deleted" THEN flowThere ELSE [flowThere EXCEPT ![f] = "running"]
    /\ UNCHANGED <<listing, change, overlap, excused, dispatchFaults>>

(* Users start and stop flows as well.                                      *)
UserControls(f) ==
    /\ \/ flowThere[f] = "inactive" /\ flowThere' = [flowThere EXCEPT ![f] = "running"]
       \/ flowThere[f] = "running" /\ flowThere' = [flowThere EXCEPT ![f] = "inactive"]
    /\ UNCHANGED <<listing, change, dispatching, overlap, excused, dispatchFaults>>

DispatchNext ==
    \/ \E q \in Changes :
          \/ ReadListing(q) \/ CreateEmpty(q) \/ CompleteFlow(q)
          \/ WriteListing(q) \/ SpoilListing(q) \/ CleanFlow(q)
    \/ \E e \in Records : TakeRecord(e) \/ CheckFlow(e) \/ StartFlow(e)
    \/ \E f \in RepositoryFlows : UserControls(f)

DispatchSpec == DispatchInit /\ [][DispatchNext]_DispatchVars

----------------------------------------------------------------------------

(* When no change is under way, every listed flow is in the repository, and  *)
(* a flow in the repository is listed -- whatever is dispatched meanwhile,   *)
(* provided that no two changes overlapped.  What the code loses of the      *)
(* latter is excused: a flow that ran when it was to be deleted, one a       *)
(* failed call left, those a PATCH dropped, and all that were listed when    *)
(* its list was written as false.                                          *)
ListedFlowsExist ==
    ~overlap /\ (\A q \in Changes : ~InProgress(q)) =>
        \A f \in RepositoryFlows :
            LET there == flowThere[f] \in {"empty", "inactive", "running"} IN
            /\ f \in FlowsOf(listing.apps) => there
            /\ there => f \in FlowsOf(listing.apps) \cup excused
=============================================================================
