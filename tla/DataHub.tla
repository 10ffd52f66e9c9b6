------------------------------- MODULE DataHub -------------------------------
(***************************************************************************)
(* The data hub keeps master data objects and, in their refs, the ids under *)
(* which applications know them.  Ferryman links records through these refs *)
(* (POST /data/recordId), events of validated records create and update    *)
(* objects, users post, replace and enrich them.  A request finds an object *)
(* and writes it after an await; only POST /data and /data/import look for  *)
(* none.  Mongoose adds to refs with $push and writes them whole only over  *)
(* the version it has read; a removal, refs that are unset, a save without  *)
(* refs and the findOneAndUpdate of an enrichment look at no version.       *)
(*                                                                         *)
(* Owners are left out: every user may do what one of the owners may, and   *)
(* no save changes them.  A content is "whole" or a part of it; an object   *)
(* made by POST /data/recordId has none.  Refs that are given are one.  An  *)
(* enrichment runs score, without whose results dedupeObject throws at a    *)
(* first time, and dedupeObject with mergeRefs and checkSubset.             *)
(***************************************************************************)
EXTENDS Naturals, Sequences, SequencesExt

CONSTANTS
    Objects,       \* ids of data objects
    Apps, Uids,    \* applications, and the ids of records in them
    HubRequests,   \* requests and events, one each
    AutoDeletes    \* values of autoDeleteDuplicactes and autoDeleteSubsets

ASSUME HubAssumption == AutoDeletes \subseteq BOOLEAN /\ "none" \notin Objects

VARIABLES
    object,      \* object[o]: the document
    hub,         \* hub[q]: progress of a request
    crossedRefs, \* history: refs two requests were about at the same time
    namedRefs,   \* history: refs a request put into an object without looking who has them
    rewound      \* history: objects whose refs or version an enrichment set back

HubVars == <<object, hub, crossedRefs, namedRefs, rewound>>

Refs == Apps \X Uids
Uid(ref) == ref[2]
Contents == {"whole", "part", "none"}
Given == {"whole", "part"}
NoObject == "none"
NoRef == <<>>

HubKinds == {"new", "create", "post", "event", "ref", "delete", "replace", "clear", "patch", "enrich"}
Versions == Nat

HubTypeOK ==
    /\ object \in [Objects -> [exists : BOOLEAN, used : BOOLEAN, refs : Seq(Refs),
                               content : Contents, version : Versions]]
    /\ hub \in [HubRequests -> [kind : HubKinds, pc : {"new", "found", "missing", "done", "failed"},
                    ref : Refs \cup {NoRef}, id : Objects \cup {NoObject}, refs : Seq(Refs),
                    content : Contents, version : Versions, auto : BOOLEAN, left : SUBSET Objects]]
    /\ crossedRefs \subseteq Refs /\ namedRefs \subseteq Refs /\ rewound \subseteq Objects

Blank == [exists |-> FALSE, used |-> FALSE, refs |-> <<>>, content |-> "whole", version |-> 0]
Idle == [kind |-> "new", pc |-> "new", ref |-> NoRef, id |-> NoObject, refs |-> <<>>,
         content |-> "whole", version |-> 0, auto |-> FALSE, left |-> {}]

HubInit ==
    /\ object = [o \in Objects |-> Blank]
    /\ hub = [q \in HubRequests |-> Idle]
    /\ crossedRefs = {} /\ namedRefs = {} /\ rewound = {}

----------------------------------------------------------------------------

IsStored(o) == object[o].exists
HasRef(o, ref) == IsStored(o) /\ ref \in ToSet(object[o].refs)

(* What a request is about: the record it names and what it has read.       *)
About(r) == ToSet(r.refs) \cup (IF r.ref = NoRef THEN {} ELSE {r.ref})
InFlight == {q \in HubRequests : hub[q].pc \in {"found", "missing"}}

(* A request starts: it finds object o, or nothing.                         *)
Found(q, r) ==
    /\ hub[q].pc = "new"
    /\ hub' = [hub EXCEPT ![q] = r]
    /\ crossedRefs' = crossedRefs \cup
          (About(r) \cap UNION {About(hub[p]) : p \in InFlight \ {q}})
    /\ UNCHANGED <<object, rewound>>

Reading(kind, ref, o, content) ==
    [Idle EXCEPT !.kind = kind, !.pc = "found", !.ref = ref, !.id = o, !.content = content,
                 !.refs = object[o].refs, !.version = object[o].version]
Missing(kind, ref, content) ==
    [Idle EXCEPT !.kind = kind, !.pc = "missing", !.ref = ref, !.content = content]

(* Slip: the record is looked up by the id of the object alone.             *)
PostMatchesIdOnly(o, ref, oihUid) == IsStored(o) /\ o = oihUid
PostMatches(o, ref, oihUid) ==
    IsStored(o) /\ (o = oihUid \/ \E i \in DOMAIN object[o].refs : Uid(object[o].refs[i]) = Uid(ref))

(* POST /data/recordId with or without an oihUid: findOne returns one of    *)
(* the objects that match.                                                 *)
PostByRecordId(q, ref, oihUid) ==
    /\ \/ \E o \in Objects : PostMatches(o, ref, oihUid) /\ Found(q, Reading("post", ref, o, "none"))
       \/ /\ \A o \in Objects : ~PostMatches(o, ref, oihUid)
          /\ Found(q, Missing("post", ref, "none"))
    /\ namedRefs' = IF oihUid = NoObject THEN namedRefs ELSE namedRefs \cup {ref}

(* The event validation.success.                                            *)
RecordEvent(q, ref, content) ==
    /\ \/ \E o \in Objects : HasRef(o, ref) /\ Found(q, Reading("event", ref, o, content))
       \/ (\A o \in Objects : ~HasRef(o, ref)) /\ Found(q, Missing("event", ref, content))
    /\ UNCHANGED namedRefs

(* The event ref.create, DELETE /data/:id/:applicationUid/:recordId, POST    *)
(* /data/enrich at one of its objects.                                      *)
RefEvent(q, ref, o) ==
    /\ IsStored(o) /\ Found(q, Reading("ref", ref, o, "none"))
    /\ namedRefs' = namedRefs \cup {ref}
DeleteRecordId(q, ref, o) ==
    /\ HasRef(o, ref) /\ Found(q, Reading("delete", ref, o, "none"))
    /\ UNCHANGED namedRefs
ApplyFunctions(q, o, auto) ==
    /\ IsStored(o)
    /\ Found(q, [Reading("enrich", NoRef, o, object[o].content) EXCEPT
                    !.auto = auto, !.left = IF object[o].content = "none" THEN {} ELSE Objects])
    /\ UNCHANGED namedRefs

(* PUT and PATCH /data/:id: with refs the two are alike.  Without, a PUT     *)
(* unsets those of the object and a PATCH leaves them alone.                *)
ReplaceRefs(q, ref, o, content) ==
    /\ IsStored(o) /\ Found(q, Reading("replace", ref, o, content))
    /\ namedRefs' = namedRefs \cup {ref}
PutOne(q, o, content) ==
    /\ IsStored(o) /\ Found(q, Reading("clear", NoRef, o, content))
    /\ UNCHANGED namedRefs
PatchOne(q, o, content) ==
    /\ IsStored(o) /\ Found(q, Reading("patch", NoRef, o, content))
    /\ UNCHANGED namedRefs

----------------------------------------------------------------------------

Finish(q, pc) == hub' = [hub EXCEPT ![q].pc = pc]

(* $push of a ref that the object as read does not have.                    *)
Push(doc, ref) == [doc EXCEPT !.refs = Append(@, ref), !.version = @ + 1]

(* Slip: refs that are written whole replace whatever is there.             *)
UnchangedSinceAny(doc, r) == doc.exists
UnchangedSince(doc, r) == doc.exists /\ doc.version = r.version

(* Saving a document that is gone, or refs over another version, fails.     *)
Save(q, ok, doc) ==
    IF ok
    THEN /\ object' = [object EXCEPT ![hub[q].id] = doc]
         /\ Finish(q, "done")
    ELSE /\ Finish(q, "failed")
         /\ UNCHANGED object

SaveFound(q) ==
    LET r == hub[q]
        doc == object[r.id]
        without == RemoveFirst(r.refs, r.ref)
    IN
    /\ r.pc = "found"
    /\ \/ /\ r.kind = "post"
          /\ IF \E i \in DOMAIN r.refs : Uid(r.refs[i]) = Uid(r.ref)
             THEN Save(q, TRUE, doc)
             ELSE Save(q, doc.exists, Push(doc, r.ref))
       \/ /\ r.kind \in {"event", "patch"}
          /\ Save(q, doc.exists, [doc EXCEPT !.content = r.content])
       \/ /\ r.kind = "ref"
          /\ IF r.ref \in ToSet(r.refs) THEN Save(q, TRUE, doc) ELSE Save(q, doc.exists, Push(doc, r.ref))
       \/ /\ r.kind = "delete" /\ without # <<>>
          /\ Save(q, UnchangedSince(doc, r), [doc EXCEPT !.refs = without, !.version = @ + 1])
       \/ /\ r.kind = "delete" /\ without = <<>>
          /\ Save(q, TRUE, [Blank EXCEPT !.used = TRUE])
       \/ /\ r.kind = "replace"
          /\ Save(q, UnchangedSince(doc, r), [doc EXCEPT !.refs = <<r.ref>>, !.content = r.content,
                                                       !.version = @ + 1])
       \/ /\ r.kind = "clear"
          /\ Save(q, doc.exists, [doc EXCEPT !.refs = <<>>, !.content = r.content])
    /\ UNCHANGED <<crossedRefs, namedRefs, rewound>>

MakeObject(refs, content) ==
    \E o \in Objects :
        /\ ~object[o].used
        /\ object' = [object EXCEPT ![o] = [exists |-> TRUE, used |-> TRUE, refs |-> refs,
                                            content |-> content, version |-> 0]]

CreateObject(q) ==
    LET r == hub[q] IN
    /\ r.pc = "missing"
    /\ MakeObject(<<r.ref>>, r.content)
    /\ Finish(q, "done")
    /\ UNCHANGED <<crossedRefs, namedRefs, rewound>>

(* POST /data, and each record of a POST /data/import: an object is made at  *)
(* once, whoever has its refs.                                              *)
PostOne(q, refs, content) ==
    /\ hub[q].pc = "new"
    /\ MakeObject(refs, content)
    /\ hub' = [hub EXCEPT ![q] = [Idle EXCEPT !.kind = "create", !.pc = "done"]]
    /\ crossedRefs' = crossedRefs \cup (ToSet(refs) \cap UNION {About(hub[p]) : p \in InFlight})
    /\ namedRefs' = namedRefs \cup {ref \in ToSet(refs) : \E o \in Objects : HasRef(o, ref)}
    /\ UNCHANGED rewound

(* dedupeObject comes to object o with its cursor, the object itself         *)
(* included: an equal one is a duplicate, a part of it a subset.            *)
Compare(q, o) ==
    LET r == hub[q]
        similar == IsStored(o) /\ (object[o].content \in {r.content, "none"} \/ r.content = "whole")
    IN
    /\ r.kind = "enrich" /\ r.pc = "found" /\ o \in r.left
    /\ IF similar /\ r.auto
       THEN /\ hub' = [hub EXCEPT ![q].left = @ \ {o}, ![q].refs = @ \o object[o].refs]
            /\ object' = [object EXCEPT ![o] = [Blank EXCEPT !.used = TRUE]]
       ELSE /\ hub' = [hub EXCEPT ![q].left = @ \ {o}]
            /\ UNCHANGED object
    /\ UNCHANGED <<crossedRefs, namedRefs, rewound>>

(* findOneAndUpdate with everything as it was read, __v included: who has    *)
(* read the object since takes its refs for the ones of that version.       *)
SaveEnriched(q) ==
    LET r == hub[q]
        doc == object[r.id]
    IN
    /\ r.kind = "enrich" /\ r.pc = "found" /\ r.left = {}
    /\ object' = IF IsStored(r.id)
                 THEN [object EXCEPT ![r.id] = [@ EXCEPT !.refs = r.refs, !.content = r.content,
                                                         !.version = r.version]]
                 ELSE object
    /\ rewound' = IF IsStored(r.id) /\ <<doc.refs, doc.version>> # <<r.refs, r.version>>
                  THEN rewound \cup {r.id}
                  ELSE rewound
    /\ Finish(q, "done")
    /\ UNCHANGED <<crossedRefs, namedRefs>>

HubNext ==
    \E q \in HubRequests :
        \/ \E ref \in Refs :
            \/ \E oihUid \in Objects \cup {NoObject} : PostByRecordId(q, ref, oihUid)
            \/ \E content \in Given : RecordEvent(q, ref, content)
            \/ \E o \in Objects : RefEvent(q, ref, o) \/ DeleteRecordId(q, ref, o)
            \/ \E o \in Objects, content \in Given : ReplaceRefs(q, ref, o, content)
        \/ \E o \in Objects, content \in Given : PutOne(q, o, content) \/ PatchOne(q, o, content)
        \/ \E refs \in {<<>>} \cup {<<ref>> : ref \in Refs}, content \in Given : PostOne(q, refs, content)
        \/ \E o \in Objects : Compare(q, o) \/ \E auto \in AutoDeletes : ApplyFunctions(q, o, auto)
        \/ SaveFound(q) \/ CreateObject(q) \/ SaveEnriched(q)

HubSpec == HubInit /\ [][HubNext]_HubVars

----------------------------------------------------------------------------

(* A ref leaves its object only by a request that names it, replaces the     *)
(* refs it has read or deletes similar objects -- or by an enrichment, or    *)
(* the removal of an orphan, that read the object before it was changed.  A  *)
(* removal or an enrichment may also not notice that it did, once an         *)
(* enrichment has set refs or version of the object back.  Only a PUT        *)
(* without refs takes whatever the object has by then.                      *)
RefsAreKept ==
    [][\A o \in Objects, ref \in Refs :
        HasRef(o, ref) /\ ~HasRef(o, ref)' =>
            \E q \in HubRequests :
                /\ hub'[q] # hub[q]
                /\ \/ hub[q].kind = "delete" /\ hub[q].ref = ref
                   \/ hub[q].kind = "replace" /\ hub[q].version = object[o].version
                   \/ hub[q].kind = "clear" /\ hub[q].id = o
                   \/ hub[q].kind = "enrich" /\ hub[q].auto
                   \/ /\ hub[q].kind \in {"delete", "enrich"}
                      /\ hub[q].version # object[o].version \/ o \in rewound]_HubVars

(* Two objects stand for one record of an application only if two requests   *)
(* about it overlapped, or a request put its ref into an object by its id,  *)
(* or posted it while another object had it.                                *)
OneObjectPerRecord ==
    \A o, p \in Objects, ref \in Refs :
        HasRef(o, ref) /\ HasRef(p, ref) /\ o # p => ref \in crossedRefs \cup namedRefs

(* README.md of the data hub on mergeRefs of deduplicate: "will merge any     *)
(* refs in the deleted object to its remaining counterpart".  So a ref that  *)
(* a deduplication takes from an object is in another one, or about to be.   *)
MergedRefsRemain ==
    [][\A q \in HubRequests, ref \in Refs :
        /\ hub[q].kind = "enrich" /\ hub'[q] # hub[q]
        /\ \E o \in Objects : HasRef(o, ref)
        => \/ \E o \in Objects : HasRef(o, ref)'
           \/ hub'[q].pc = "found" /\ ref \in ToSet(hub'[q].refs) /\ IsStored(hub[q].id)']_HubVars
=============================================================================
