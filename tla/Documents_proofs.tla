---------------------------- MODULE Documents_proofs ----------------------------
(***************************************************************************)
(* Proofs about the four components whose documents are read by a request, *)
(* and written by it after an await: the pieces of records in the          *)
(* integration layer service (Chunks), the flows of the dispatcher         *)
(* (Dispatch), the objects of the data hub (DataHub) and the documents of  *)
(* the flow repository (FlowEditing).  In each, what holds between the     *)
(* documents is an invariant of those that no two requests have crossed.   *)
(* The four are independent: no part uses what another one proves, but the *)
(* lemmas about sequences.                                                 *)
(***************************************************************************)
EXTENDS Chunks, Dispatch, DataHub, FlowEditing, SequenceTheorems, WellFoundedInduction, TLAPS

----------------------------------------------------------------------------
(* Chunks.  Unless two requests for a record overlapped or a chunk of it has*)
(* expired, the pieces that were accepted for it meet in one chunk.         *)

USE DEF ChunkVars, NoKey

ChunkRec == [exists : BOOLEAN, used : BOOLEAN, cid : Cids \cup {"none"},
             key : Keys \cup {NoKey}, pieces : SUBSET Pieces, valid : BOOLEAN]
PostRec == [pc : {"new", "found", "missing", "accepted", "refused"},
            cid : Cids \cup {"none"}, key : Keys \cup {NoKey}, schema : Schemas \cup {"none"},
            piece : Pieces \cup {"none"}, id : ChunkIds \cup {"none"}, seen : SUBSET Pieces]

(* The types, with what a request that has begun is about, what it has      *)
(* found, and that an id is used once.                                      *)
ChunkTypeInv ==
    /\ ChunkTypeOK
    /\ \A p \in Posts : post[p].pc # "new" =>
          post[p].cid \in Cids /\ post[p].key \in Keys /\ post[p].schema \in Schemas /\ post[p].piece \in Pieces
    /\ \A p \in Posts : post[p].pc = "found" =>
          /\ post[p].id \in ChunkIds
          /\ chunk[post[p].id].used /\ chunk[post[p].id].cid = post[p].cid
    /\ \A c \in ChunkIds : chunk[c].exists => chunk[c].used /\ chunk[c].cid \in Cids

LEMMA InitChunkTypes == ChunksInit => ChunkTypeInv
  BY DEF ChunksInit, ChunkTypeInv, ChunkTypeOK, Unmade

LEMMA RecordTypes ==
    ASSUME ChunkTypeInv
    PROVE  /\ chunk \in [ChunkIds -> ChunkRec] /\ post \in [Posts -> PostRec]
           /\ split \subseteq Splits /\ mingled \subseteq Cids /\ lapsed \subseteq Cids
  BY DEF ChunkTypeInv, ChunkTypeOK, ChunkRec, PostRec

(* Answering a request keeps what it was about.                             *)
LEMMA Answered ==
    ASSUME ChunkTypeInv, NEW p \in Posts, NEW pc \in {"accepted", "refused"}, Answer(p, pc)
    PROVE  /\ post' \in [Posts -> PostRec]
           /\ post'[p].pc = pc /\ post'[p].cid = post[p].cid /\ post'[p].key = post[p].key /\ post'[p].schema = post[p].schema
           /\ post'[p].piece = post[p].piece
           /\ \A q \in Posts \ {p} : post'[q] = post[q]
<1>1. post[p] \in PostRec
  BY RecordTypes
<1>2. [post[p] EXCEPT !.pc = pc, !.id = "none", !.seen = {}] \in PostRec
  BY <1>1 DEF PostRec
<1>3. post' = [post EXCEPT ![p] = [post[p] EXCEPT !.pc = pc, !.id = "none", !.seen = {}]]
  BY <1>1, RecordTypes DEF Answer, PostRec
<1> QED
  BY <1>1, <1>2, <1>3, RecordTypes DEF PostRec

(* A made chunk has an id nobody used before.                               *)
LEMMA Made ==
    ASSUME ChunkTypeInv, NEW cid \in Cids, NEW key \in Keys \cup {NoKey}, NEW pieces \in SUBSET Pieces,
           NEW valid \in BOOLEAN, MakeChunk(cid, key, pieces, valid)
    PROVE  \E c \in ChunkIds :
              /\ ~chunk[c].used
              /\ chunk' = [chunk EXCEPT ![c] = [exists |-> TRUE, used |-> TRUE, cid |-> cid,
                                                key |-> key, pieces |-> pieces, valid |-> valid]]
              /\ chunk' \in [ChunkIds -> ChunkRec]
<1> DEFINE c == CHOOSE u \in Unused : TRUE
           r == [exists |-> TRUE, used |-> TRUE, cid |-> cid, key |-> key, pieces |-> pieces,
                 valid |-> valid]
<1>1. c \in Unused
  BY DEF MakeChunk
<1>2. c \in ChunkIds /\ ~chunk[c].used
  BY <1>1 DEF Unused
<1>3. chunk' = [chunk EXCEPT ![c] = r]
  BY DEF MakeChunk
<1>4. r \in ChunkRec
  BY DEF ChunkRec
<1> HIDE DEF r, c
<1>5. chunk' \in [ChunkIds -> ChunkRec]
  BY <1>3, <1>4, RecordTypes
<1> QED
  BY <1>2, <1>3, <1>5 DEF r

----------------------------------------------------------------------------
(* What each action changes.                                                *)

LEMMA FindParts ==
    ASSUME ChunkTypeInv, NEW p \in Posts, NEW cid \in Cids, NEW key \in Keys, NEW schema \in Schemas, NEW piece \in Pieces,
           FindChunk(p, cid, key, schema, piece)
    PROVE  /\ post[p].pc = "new" /\ post' \in [Posts -> PostRec] /\ chunk' = chunk
           /\ post'[p].cid = cid /\ post'[p].key = key /\ post'[p].schema = schema /\ post'[p].piece = piece
           /\ \/ /\ post'[p].pc = "found" /\ post'[p].id \in ChunksOf(cid)
                 /\ post'[p].seen = chunk[post'[p].id].pieces
              \/ post'[p].pc = "missing" /\ ChunksOf(cid) = {}
           /\ \A q \in Posts \ {p} : post'[q] = post[q]
           /\ mingled' = IF PostsUnderWay(cid) = {} THEN mingled ELSE mingled \cup {cid}
           /\ lapsed' = lapsed /\ split' = split
<1> DEFINE r == [post[p] EXCEPT !.cid = cid, !.key = key, !.schema = schema, !.piece = piece]
<1>1. post[p] \in PostRec
  BY RecordTypes
<1>2. r \in PostRec /\ r.cid = cid /\ r.key = key /\ r.schema = schema /\ r.piece = piece
  BY <1>1 DEF PostRec
<1>3. CASE /\ ChunksOf(cid) = {}
           /\ post' = [post EXCEPT ![p] = [r EXCEPT !.pc = "missing"]]
  <2>1. /\ [r EXCEPT !.pc = "missing"] \in PostRec
        /\ [r EXCEPT !.pc = "missing"].cid = cid /\ [r EXCEPT !.pc = "missing"].key = key /\ [r EXCEPT !.pc = "missing"].schema = schema
        /\ [r EXCEPT !.pc = "missing"].piece = piece /\ [r EXCEPT !.pc = "missing"].pc = "missing"
    BY <1>2 DEF PostRec
  <2> HIDE DEF r
  <2> QED
    BY <1>3, <2>1, RecordTypes DEF FindChunk
<1>4. ASSUME NEW c \in ChunksOf(cid),
             post' = [post EXCEPT ![p] = [r EXCEPT !.pc = "found", !.id = c, !.seen = chunk[c].pieces]]
      PROVE  /\ post' \in [Posts -> PostRec]
             /\ post'[p].cid = cid /\ post'[p].key = key /\ post'[p].schema = schema /\ post'[p].piece = piece
             /\ post'[p].pc = "found" /\ post'[p].id = c
             /\ post'[p].seen = chunk[c].pieces
             /\ \A q \in Posts \ {p} : post'[q] = post[q]
  <2> DEFINE x == [r EXCEPT !.pc = "found", !.id = c, !.seen = chunk[c].pieces]
  <2>1. c \in ChunkIds /\ chunk[c].pieces \in SUBSET Pieces
    BY RecordTypes DEF ChunksOf, ChunkRec
  <2>2. /\ x \in PostRec /\ x.cid = cid /\ x.key = key /\ x.schema = schema /\ x.piece = piece
        /\ x.pc = "found" /\ x.id = c /\ x.seen = chunk[c].pieces
    BY <1>2, <2>1 DEF PostRec
  <2> HIDE DEF x
  <2>3. post' = [post EXCEPT ![p] = x]
    BY <1>4 DEF x
  <2> QED
    BY <2>2, <2>3, RecordTypes
<1>5. \/ ChunksOf(cid) = {} /\ post' = [post EXCEPT ![p] = [r EXCEPT !.pc = "missing"]]
      \/ \E c \in ChunksOf(cid) :
            post' = [post EXCEPT ![p] = [r EXCEPT !.pc = "found", !.id = c, !.seen = chunk[c].pieces]]
  BY DEF FindChunk
<1> HIDE DEF r
<1>6. /\ post[p].pc = "new" /\ chunk' = chunk /\ lapsed' = lapsed /\ split' = split
      /\ mingled' = IF PostsUnderWay(cid) = {} THEN mingled ELSE mingled \cup {cid}
  BY DEF FindChunk
<1>7. \/ ChunksOf(cid) = {} /\ post' = [post EXCEPT ![p] = [r EXCEPT !.pc = "missing"]]
      \/ /\ post' \in [Posts -> PostRec]
         /\ post'[p].cid = cid /\ post'[p].key = key /\ post'[p].schema = schema /\ post'[p].piece = piece
         /\ post'[p].pc = "found" /\ post'[p].id \in ChunksOf(cid)
         /\ post'[p].seen = chunk[post'[p].id].pieces
         /\ \A q \in Posts \ {p} : post'[q] = post[q]
  BY <1>4, <1>5
<1> QED
  BY <1>3, <1>6, <1>7

LEMMA CreateParts ==
    ASSUME ChunkTypeInv, NEW p \in Posts, CreateChunk(p)
    PROVE  /\ post[p].pc = "missing" /\ post[p].cid \in Cids /\ post[p].key \in Keys /\ post[p].schema \in Schemas
           /\ post' \in [Posts -> PostRec] /\ chunk' \in [ChunkIds -> ChunkRec]
           /\ post'[p].pc = "accepted" /\ post'[p].cid = post[p].cid
           /\ post'[p].key = post[p].key /\ post'[p].schema = post[p].schema /\ post'[p].piece = post[p].piece
           /\ \A q \in Posts \ {p} : post'[q] = post[q]
           /\ \E c \in ChunkIds :
                 /\ ~chunk[c].used /\ chunk'[c].exists /\ chunk'[c].used
                 /\ chunk'[c].cid = post[p].cid /\ chunk'[c].key = post[p].key
                 /\ chunk'[c].pieces = {post[p].piece}
                 /\ chunk'[c].valid = IsValid(post[p].schema, {post[p].piece})
                 /\ \A d \in ChunkIds \ {c} : chunk'[d] = chunk[d]
           /\ UNCHANGED <<split, mingled, lapsed>>
<1>1. /\ post[p].pc = "missing" /\ UNCHANGED <<split, mingled, lapsed>>
      /\ MakeChunk(post[p].cid, post[p].key, {post[p].piece}, IsValid(post[p].schema, {post[p].piece}))
      /\ Answer(p, "accepted")
  BY DEF CreateChunk
<1>2. post[p].cid \in Cids /\ post[p].key \in Keys /\ post[p].schema \in Schemas /\ post[p].piece \in Pieces
  BY <1>1 DEF ChunkTypeInv
<1>3. /\ post' \in [Posts -> PostRec]
      /\ post'[p].pc = "accepted" /\ post'[p].cid = post[p].cid
      /\ post'[p].key = post[p].key /\ post'[p].schema = post[p].schema /\ post'[p].piece = post[p].piece
      /\ \A q \in Posts \ {p} : post'[q] = post[q]
  BY <1>1, Answered
<1> DEFINE c == CHOOSE u \in Unused : TRUE
           r == [exists |-> TRUE, used |-> TRUE, cid |-> post[p].cid, key |-> post[p].key,
                 pieces |-> {post[p].piece}, valid |-> IsValid(post[p].schema, {post[p].piece})]
<1>4. /\ r \in ChunkRec /\ r.exists /\ r.used /\ r.cid = post[p].cid /\ r.key = post[p].key
      /\ r.pieces = {post[p].piece} /\ r.valid = IsValid(post[p].schema, {post[p].piece})
  BY <1>2 DEF ChunkRec, IsValid
<1>5. c \in ChunkIds /\ ~chunk[c].used
  BY <1>1 DEF MakeChunk, Unused
<1>6. chunk' = [chunk EXCEPT ![c] = r]
  BY <1>1 DEF MakeChunk
<1> HIDE DEF r, c
<1>7. /\ chunk' \in [ChunkIds -> ChunkRec] /\ chunk'[c] = r
      /\ \A d \in ChunkIds \ {c} : chunk'[d] = chunk[d]
  BY <1>4, <1>5, <1>6, RecordTypes
<1> QED
  BY <1>1, <1>2, <1>3, <1>4, <1>5, <1>7

LEMMA SplitParts ==
    ASSUME ChunkTypeInv, NEW z \in Splits, SplitChunk(z)
    PROVE  /\ chunk' \in [ChunkIds -> ChunkRec]
           /\ \E c \in ChunkIds :
                 /\ ~chunk[c].used /\ chunk'[c].exists /\ chunk'[c].used
                 /\ chunk'[c].cid \in Cids /\ chunk'[c].key = NoKey
                 /\ \A d \in ChunkIds \ {c} : chunk'[d] = chunk[d]
           /\ split' \subseteq Splits /\ UNCHANGED <<post, mingled, lapsed>>
<1>1. PICK cid \in Cids, piece \in Pieces : MakeChunk(cid, NoKey, {piece}, FALSE)
  BY DEF SplitChunk
<1> DEFINE r == [exists |-> TRUE, used |-> TRUE, cid |-> cid, key |-> NoKey,
                 pieces |-> {piece}, valid |-> FALSE]
<1>2. NoKey \in Keys \cup {NoKey} /\ {piece} \in SUBSET Pieces /\ FALSE \in BOOLEAN
  OBVIOUS
<1>3. PICK c \in ChunkIds :
         ~chunk[c].used /\ chunk' = [chunk EXCEPT ![c] = r] /\ chunk' \in [ChunkIds -> ChunkRec]
  BY <1>1, <1>2, Made
<1>4. r.exists /\ r.used /\ r.cid \in Cids /\ r.key = NoKey
  OBVIOUS
<1> HIDE DEF r
<1>5. chunk'[c] = r /\ \A d \in ChunkIds \ {c} : chunk'[d] = chunk[d]
  BY <1>3, RecordTypes
<1> QED
  BY <1>3, <1>4, <1>5, RecordTypes DEF SplitChunk

LEMMA UpdateParts ==
    ASSUME ChunkTypeInv, NEW p \in Posts, UpdateChunk(p)
    PROVE  /\ post[p].pc = "found" /\ post[p].cid \in Cids /\ post[p].key \in Keys /\ post[p].schema \in Schemas
           /\ post[p].id \in ChunkIds
           /\ post' \in [Posts -> PostRec] /\ chunk' \in [ChunkIds -> ChunkRec]
           /\ post'[p].cid = post[p].cid
           /\ post'[p].key = post[p].key /\ post'[p].schema = post[p].schema /\ post'[p].piece = post[p].piece
           /\ \A q \in Posts \ {p} : post'[q] = post[q]
           /\ \/ post'[p].pc = "refused" /\ chunk' = chunk
              \/ /\ post'[p].pc = "accepted" /\ chunk[post[p].id].key = post[p].key
                 /\ \/ ~chunk[post[p].id].exists /\ chunk' = chunk
                    \/ /\ chunk[post[p].id].exists
                       /\ chunk'[post[p].id].exists /\ chunk'[post[p].id].used = chunk[post[p].id].used
                       /\ chunk'[post[p].id].cid = chunk[post[p].id].cid
                       /\ chunk'[post[p].id].key = chunk[post[p].id].key
                       /\ chunk'[post[p].id].pieces = Merged(p)
                       /\ chunk'[post[p].id].valid = IsValid(post[p].schema, Merged(p))
                 /\ \A d \in ChunkIds \ {post[p].id} : chunk'[d] = chunk[d]
           /\ UNCHANGED <<split, mingled, lapsed>>
<1> DEFINE i == post[p].id
<1>1. /\ post[p].pc = "found" /\ UNCHANGED <<split, mingled, lapsed>>
      /\ \/ Answer(p, "refused") /\ chunk' = chunk
         \/ /\ chunk[i].key = post[p].key /\ Answer(p, "accepted")
            /\ chunk' = IF chunk[i].exists
                        THEN [chunk EXCEPT ![i].pieces = Merged(p), ![i].valid = IsValid(post[p].schema, Merged(p))]
                        ELSE chunk
  BY DEF UpdateChunk
<1>2. /\ post[p].cid \in Cids /\ post[p].key \in Keys /\ post[p].schema \in Schemas /\ post[p].piece \in Pieces
      /\ i \in ChunkIds /\ post[p] \in PostRec /\ chunk[i] \in ChunkRec
  BY <1>1, RecordTypes DEF ChunkTypeInv
<1> HIDE DEF i
<1>3. CASE Answer(p, "refused") /\ chunk' = chunk
  BY <1>1, <1>2, <1>3, Answered, RecordTypes DEF i
<1>4. CASE /\ chunk[i].key = post[p].key /\ Answer(p, "accepted")
           /\ chunk' = IF chunk[i].exists
                       THEN [chunk EXCEPT ![i].pieces = Merged(p), ![i].valid = IsValid(post[p].schema, Merged(p))]
                       ELSE chunk
  <2>1. /\ post' \in [Posts -> PostRec]
        /\ post'[p].pc = "accepted" /\ post'[p].cid = post[p].cid
        /\ post'[p].key = post[p].key /\ post'[p].schema = post[p].schema /\ post'[p].piece = post[p].piece
        /\ \A q \in Posts \ {p} : post'[q] = post[q]
    BY <1>4, Answered
  <2>2. CASE ~chunk[i].exists
    BY <1>1, <1>2, <1>4, <2>1, <2>2, RecordTypes DEF i
  <2>3. CASE chunk[i].exists
    <3>1. Merged(p) \in SUBSET Pieces /\ IsValid(post[p].schema, Merged(p)) \in BOOLEAN
      BY <1>2 DEF Merged, IsValid, PostRec
    <3> DEFINE x == [chunk[i] EXCEPT !.pieces = Merged(p), !.valid = IsValid(post[p].schema, Merged(p))]
    <3>2. /\ x \in ChunkRec /\ x.exists /\ x.used = chunk[i].used /\ x.cid = chunk[i].cid
          /\ x.key = chunk[i].key /\ x.pieces = Merged(p) /\ x.valid = IsValid(post[p].schema, Merged(p))
      BY <1>2, <2>3, <3>1 DEF ChunkRec
    <3>3. chunk' = [chunk EXCEPT ![i] = x]
      BY <1>2, <1>4, <2>3, RecordTypes DEF ChunkRec
    <3> HIDE DEF x
    <3>4. /\ chunk' \in [ChunkIds -> ChunkRec] /\ chunk'[i] = x
          /\ \A d \in ChunkIds \ {i} : chunk'[d] = chunk[d]
      BY <1>2, <3>2, <3>3, RecordTypes
    <3> QED
      BY <1>1, <1>2, <1>4, <2>1, <2>3, <3>2, <3>4 DEF i
  <2> QED
    BY <2>2, <2>3
<1> QED
  BY <1>1, <1>3, <1>4

LEMMA ExpireParts ==
    ASSUME ChunkTypeInv, NEW c \in ChunkIds, ExpireChunk(c)
    PROVE  /\ chunk[c].exists /\ ~chunk'[c].exists /\ chunk' \in [ChunkIds -> ChunkRec]
           /\ chunk'[c].used = chunk[c].used /\ chunk'[c].cid = chunk[c].cid
           /\ \A d \in ChunkIds \ {c} : chunk'[d] = chunk[d]
           /\ chunk[c].cid \in Cids /\ lapsed' = lapsed \cup {chunk[c].cid}
           /\ UNCHANGED <<post, split, mingled>>
<1>1. chunk[c].exists /\ chunk' = [chunk EXCEPT ![c].exists = FALSE]
  BY DEF ExpireChunk
<1>2. chunk[c] \in ChunkRec
  BY RecordTypes
<1> DEFINE x == [chunk[c] EXCEPT !.exists = FALSE]
<1>3. x \in ChunkRec /\ ~x.exists /\ x.used = chunk[c].used /\ x.cid = chunk[c].cid
  BY <1>2 DEF ChunkRec
<1>4. chunk' = [chunk EXCEPT ![c] = x]
  BY <1>1, <1>2, RecordTypes DEF ChunkRec
<1> HIDE DEF x
<1> QED
  BY <1>1, <1>3, <1>4, RecordTypes DEF ExpireChunk, ChunkTypeInv

LEMMA ChunkStepTypes == ChunkTypeInv /\ [ChunksNext]_ChunkVars => ChunkTypeInv'
<1> SUFFICES ASSUME ChunkTypeInv, [ChunksNext]_ChunkVars PROVE ChunkTypeInv'
  OBVIOUS
<1>0. ASSUME chunk' \in [ChunkIds -> ChunkRec], post' \in [Posts -> PostRec],
             split' \subseteq Splits, mingled' \subseteq Cids, lapsed' \subseteq Cids
      PROVE  ChunkTypeOK'
  BY <1>0 DEF ChunkTypeOK, ChunkRec, PostRec
<1>1. CASE UNCHANGED ChunkVars
  BY <1>1 DEF ChunkTypeInv, ChunkTypeOK
<1>2. ASSUME NEW p \in Posts, NEW cid \in Cids, NEW key \in Keys, NEW schema \in Schemas, NEW piece \in Pieces,
             FindChunk(p, cid, key, schema, piece)
      PROVE  ChunkTypeInv'
  <2>1. ChunkTypeOK'
    BY <1>0, <1>2, FindParts, RecordTypes
  <2> QED
    BY <1>2, <2>1, FindParts DEF ChunkTypeInv, ChunksOf
<1>3. ASSUME NEW p \in Posts, CreateChunk(p) PROVE ChunkTypeInv'
  <2>1. ChunkTypeOK'
    BY <1>0, <1>3, CreateParts, RecordTypes
  <2>2. \A q \in Posts : post'[q].pc # "new" =>
           post'[q].cid \in Cids /\ post'[q].key \in Keys /\ post'[q].schema \in Schemas /\ post'[q].piece \in Pieces
    <3>1. post[p].pc = "missing" /\ post[p].cid \in Cids /\ post[p].key \in Keys /\ post[p].schema \in Schemas /\ post[p].piece \in Pieces
      BY <1>3, CreateParts DEF ChunkTypeInv
    <3>2. /\ post'[p].cid = post[p].cid /\ post'[p].key = post[p].key /\ post'[p].schema = post[p].schema /\ post'[p].piece = post[p].piece
          /\ \A q \in Posts \ {p} : post'[q] = post[q]
      BY <1>3, CreateParts
    <3> QED
      BY <3>1, <3>2 DEF ChunkTypeInv
  <2>3. \A q \in Posts : post'[q].pc = "found" =>
           /\ post'[q].id \in ChunkIds
           /\ chunk'[post'[q].id].used /\ chunk'[post'[q].id].cid = post'[q].cid
    <3>1. post'[p].pc = "accepted" /\ \A q \in Posts \ {p} : post'[q] = post[q]
      BY <1>3, CreateParts
    <3>2. \A d \in ChunkIds : chunk[d].used => chunk'[d] = chunk[d]
      BY <1>3, CreateParts
    <3> QED
      BY <3>1, <3>2 DEF ChunkTypeInv
  <2>4. \A c \in ChunkIds : chunk'[c].exists => chunk'[c].used /\ chunk'[c].cid \in Cids
    <3>1. PICK c \in ChunkIds :
             /\ chunk'[c].used /\ chunk'[c].cid \in Cids
             /\ \A d \in ChunkIds \ {c} : chunk'[d] = chunk[d]
      BY <1>3, CreateParts
    <3> QED
      BY <3>1 DEF ChunkTypeInv
  <2> QED
    BY <2>1, <2>2, <2>3, <2>4 DEF ChunkTypeInv
<1>4. ASSUME NEW p \in Posts, UpdateChunk(p) PROVE ChunkTypeInv'
  <2>1. ChunkTypeOK'
    BY <1>0, <1>4, UpdateParts, RecordTypes
  <2> QED
    BY <1>4, <2>1, UpdateParts DEF ChunkTypeInv
<1>5. ASSUME NEW z \in Splits, SplitChunk(z) PROVE ChunkTypeInv'
  <2>1. ChunkTypeOK'
    BY <1>0, <1>5, SplitParts, RecordTypes
  <2> QED
    BY <1>5, <2>1, SplitParts DEF ChunkTypeInv
<1>6. ASSUME NEW c \in ChunkIds, ExpireChunk(c) PROVE ChunkTypeInv'
  <2>1. ChunkTypeOK'
    BY <1>0, <1>6, ExpireParts, RecordTypes
  <2> QED
    BY <1>6, <2>1, ExpireParts DEF ChunkTypeInv
<1> QED
  BY <1>1, <1>2, <1>3, <1>4, <1>5, <1>6 DEF ChunksNext

(* The variables of Chunks keep their types.                                *)
THEOREM ChunkTypesHold == ChunksSpec => []ChunkTypeOK
<1>1. ChunkTypeInv => ChunkTypeOK
  BY DEF ChunkTypeInv
<1> QED
  BY <1>1, InitChunkTypes, ChunkStepTypes, PTL DEF ChunksSpec

----------------------------------------------------------------------------
(* One identifier.                                                          *)

Piled(c, cid) == chunk[c].exists /\ chunk[c].cid = cid /\ chunk[c].key # NoKey
Took(p, cid) == post[p].cid = cid /\ post[p].pc = "accepted"
AtWork(p, cid) == post[p].cid = cid /\ post[p].pc \in {"found", "missing"}

NothingYet(cid) ==
    (\A c \in ChunkIds : ~Piled(c, cid)) /\ (\A p \in Posts : ~Took(p, cid))

MeetIn(c, cid) ==
    /\ Piled(c, cid) /\ \A d \in ChunkIds : Piled(d, cid) => d = c
    /\ \E p \in Posts : Took(p, cid) /\ chunk[c].valid = IsValid(post[p].schema, chunk[c].pieces)
    /\ \A p \in Posts : Took(p, cid) => post[p].key = chunk[c].key /\ post[p].piece \in chunk[c].pieces
    /\ \A x \in chunk[c].pieces : \E p \in Posts : Took(p, cid) /\ post[p].piece = x

(* The one request at work for an identifier has in hand what is stored, or  *)
(* rightly believes that nothing is.                                        *)
Informed(p, cid) ==
    /\ post[p].pc = "found" =>
          /\ chunk[post[p].id].exists /\ chunk[post[p].id].cid = cid
          /\ post[p].seen = chunk[post[p].id].pieces
    /\ post[p].pc = "missing" => NothingYet(cid)

CidInv(cid) ==
    /\ NothingYet(cid) \/ \E c \in ChunkIds : MeetIn(c, cid)
    /\ \A p, q \in Posts : AtWork(p, cid) /\ AtWork(q, cid) => p = q
    /\ \A p \in Posts : AtWork(p, cid) => Informed(p, cid)

MeetInv == \A cid \in Cids : cid \notin mingled \cup lapsed => CidInv(cid)

LEMMA InitMeets == ChunksInit => MeetInv
  BY DEF ChunksInit, MeetInv, CidInv, NothingYet, Piled, Took, AtWork, Unmade

(* A step that touches no piled chunk and no request of the identifier.     *)
LEMMA LeftAlone ==
    ASSUME ChunkTypeInv, NEW cid \in Cids, CidInv(cid),
           \A c \in ChunkIds : Piled(c, cid)' => Piled(c, cid),
           \A c \in ChunkIds : chunk[c].exists /\ chunk[c].cid = cid => chunk'[c] = chunk[c],
           \A p \in Posts : Took(p, cid) \/ AtWork(p, cid) \/ (Took(p, cid) \/ AtWork(p, cid))' =>
                 post'[p] = post[p]
    PROVE  CidInv(cid)'
<1>1. \A c \in ChunkIds : Piled(c, cid)' <=> Piled(c, cid)
  BY DEF Piled
<1>2. \A p \in Posts : Took(p, cid)' <=> Took(p, cid)
  BY DEF Took
<1>3. \A p \in Posts : AtWork(p, cid)' <=> AtWork(p, cid)
  BY DEF AtWork
<1>4. NothingYet(cid) => NothingYet(cid)'
  BY <1>1, <1>2 DEF NothingYet
<1>5. \A c \in ChunkIds : MeetIn(c, cid) => MeetIn(c, cid)'
  <2> SUFFICES ASSUME NEW c \in ChunkIds, MeetIn(c, cid) PROVE MeetIn(c, cid)'
    OBVIOUS
  <2>1. chunk'[c] = chunk[c]
    BY DEF MeetIn, Piled
  <2>2. \A p \in Posts : Took(p, cid) => post'[p] = post[p]
    BY DEF Took
  <2> QED
    BY <1>1, <1>2, <2>1, <2>2 DEF MeetIn
<1>6. \A p \in Posts : AtWork(p, cid) => Informed(p, cid)'
  <2> SUFFICES ASSUME NEW p \in Posts, AtWork(p, cid) PROVE Informed(p, cid)'
    OBVIOUS
  <2>1. post'[p] = post[p] /\ Informed(p, cid)
    BY DEF AtWork, CidInv
  <2>2. post[p].pc = "found" => post[p].id \in ChunkIds
    BY DEF ChunkTypeInv
  <2> QED
    BY <1>4, <2>1, <2>2 DEF Informed
<1> QED
  BY <1>3, <1>4, <1>5, <1>6 DEF CidInv

LEMMA FindMeets ==
    ASSUME ChunkTypeInv, ChunkTypeInv', NEW p \in Posts, NEW cid \in Cids, NEW key \in Keys, NEW schema \in Schemas, NEW piece \in Pieces,
           FindChunk(p, cid, key, schema, piece), NEW k \in Cids, CidInv(k), k \notin mingled'
    PROVE  CidInv(k)'
<1>1. /\ post[p].pc = "new" /\ chunk' = chunk /\ post'[p].cid = cid
      /\ \/ /\ post'[p].pc = "found" /\ post'[p].id \in ChunksOf(cid)
            /\ post'[p].seen = chunk[post'[p].id].pieces
         \/ post'[p].pc = "missing" /\ ChunksOf(cid) = {}
      /\ \A q \in Posts \ {p} : post'[q] = post[q]
      /\ mingled' = IF PostsUnderWay(cid) = {} THEN mingled ELSE mingled \cup {cid}
  BY FindParts
<1>2. CASE cid # k
  BY <1>1, <1>2, LeftAlone DEF Piled, Took, AtWork
<1>3. CASE cid = k
  <2>1. \A q \in Posts : ~AtWork(q, k)
    BY <1>1, <1>3 DEF PostsUnderWay, AtWork
  <2>2. \A q \in Posts : AtWork(q, k)' => q = p
    BY <1>1, <2>1 DEF AtWork
  <2>3. \A c \in ChunkIds : Piled(c, k)' <=> Piled(c, k)
    BY <1>1 DEF Piled
  <2>4. /\ ~Took(p, k) /\ ~Took(p, k)'
        /\ \A q \in Posts : Took(q, k)' <=> Took(q, k)
    BY <1>1 DEF Took
  <2>5. NothingYet(k) => NothingYet(k)'
    BY <2>3, <2>4 DEF NothingYet
  <2>6. \A c \in ChunkIds : MeetIn(c, k) => MeetIn(c, k)'
    <3>1. \A q \in Posts : Took(q, k) => post'[q] = post[q]
      BY <1>1, <2>4
    <3> QED
      BY <1>1, <2>3, <2>4, <3>1 DEF MeetIn
  <2>7. post'[p].pc = "missing" => NothingYet(k)'
    <3>1. ASSUME ChunksOf(k) = {} PROVE \A c \in ChunkIds : ~MeetIn(c, k)
      BY <3>1 DEF ChunksOf, MeetIn, Piled
    <3> QED
      BY <1>1, <1>3, <2>5, <3>1 DEF CidInv
  <2>8. Informed(p, k)'
    BY <1>1, <1>3, <2>7 DEF Informed, ChunksOf
  <2> QED
    BY <2>2, <2>5, <2>6, <2>8 DEF CidInv
<1> QED
  BY <1>2, <1>3

LEMMA CreateMeets ==
    ASSUME ChunkTypeInv, ChunkTypeInv', NEW p \in Posts, CreateChunk(p), NEW k \in Cids, CidInv(k)
    PROVE  CidInv(k)'
<1>1. /\ post[p].pc = "missing" /\ post[p].key \in Keys /\ post[p].schema \in Schemas
      /\ post'[p].pc = "accepted" /\ post'[p].cid = post[p].cid
      /\ post'[p].key = post[p].key /\ post'[p].schema = post[p].schema /\ post'[p].piece = post[p].piece
      /\ \A q \in Posts \ {p} : post'[q] = post[q]
  BY CreateParts
<1>2. PICK c \in ChunkIds :
         /\ ~chunk[c].used /\ chunk'[c].exists /\ chunk'[c].used
         /\ chunk'[c].cid = post[p].cid /\ chunk'[c].key = post[p].key
         /\ chunk'[c].pieces = {post[p].piece}
         /\ chunk'[c].valid = IsValid(post[p].schema, {post[p].piece})
         /\ \A d \in ChunkIds \ {c} : chunk'[d] = chunk[d]
  BY CreateParts
<1>3. ~chunk[c].exists
  BY <1>2 DEF ChunkTypeInv
<1>4. CASE post[p].cid # k
  BY <1>1, <1>2, <1>3, <1>4, LeftAlone DEF Piled, Took, AtWork
<1>5. CASE post[p].cid = k
  <2>1. AtWork(p, k)
    BY <1>1, <1>5 DEF AtWork
  <2>2. NothingYet(k)
    BY <1>1, <2>1 DEF CidInv, Informed
  <2>3. \A q \in Posts : ~AtWork(q, k)'
    BY <1>1, <2>1 DEF CidInv, AtWork
  <2>4. Piled(c, k)' /\ \A d \in ChunkIds : Piled(d, k)' => d = c
    BY <1>1, <1>2, <1>5, <2>2, ChunkAssumption DEF Piled, NothingYet
  <2>5. Took(p, k)' /\ \A q \in Posts : Took(q, k)' => q = p
    BY <1>1, <1>5, <2>2 DEF Took, NothingYet
  <2>6. MeetIn(c, k)'
    <3>1. \A x \in chunk'[c].pieces : x = post'[p].piece
      BY <1>1, <1>2
    <3>3. post'[p].key = chunk'[c].key /\ post'[p].piece \in chunk'[c].pieces
      BY <1>1, <1>2
    <3>4. (chunk[c].valid = IsValid(post[p].schema, chunk[c].pieces))'
      BY <1>1, <1>2 DEF IsValid
    <3> QED
      BY <2>4, <2>5, <3>1, <3>3, <3>4 DEF MeetIn
  <2> QED
    BY <2>3, <2>6 DEF CidInv
<1> QED
  BY <1>4, <1>5

LEMMA UpdateMeets ==
    ASSUME ChunkTypeInv, ChunkTypeInv', NEW p \in Posts, UpdateChunk(p), NEW k \in Cids, CidInv(k)
    PROVE  CidInv(k)'
<1>0. PICK i \in ChunkIds : i = post[p].id
  BY UpdateParts
<1>1. /\ post[p].pc = "found" /\ post[p].key \in Keys /\ post[p].schema \in Schemas
      /\ chunk[i].cid = post[p].cid
      /\ post'[p].cid = post[p].cid
      /\ post'[p].key = post[p].key /\ post'[p].schema = post[p].schema /\ post'[p].piece = post[p].piece
      /\ post'[p].pc \in {"accepted", "refused"}
      /\ \A q \in Posts \ {p} : post'[q] = post[q]
      /\ \A d \in ChunkIds \ {i} : chunk'[d] = chunk[d]
  BY <1>0, UpdateParts DEF ChunkTypeInv
<1>2. \/ post'[p].pc = "refused" /\ chunk' = chunk
      \/ /\ post'[p].pc = "accepted" /\ chunk[i].key = post[p].key
         /\ \/ ~chunk[i].exists /\ chunk' = chunk
            \/ /\ chunk[i].exists /\ chunk'[i].exists
               /\ chunk'[i].cid = chunk[i].cid /\ chunk'[i].key = chunk[i].key
               /\ chunk'[i].pieces = Merged(p) /\ chunk'[i].valid = IsValid(post[p].schema, Merged(p))
  BY <1>0, UpdateParts
<1>3. \A d \in ChunkIds : Piled(d, k)' <=> Piled(d, k)
  BY <1>1, <1>2 DEF Piled
<1>4. CASE post[p].cid # k
  BY <1>1, <1>3, <1>4, LeftAlone DEF Took, AtWork
<1>5. CASE post[p].cid = k
  <2>1. AtWork(p, k)
    BY <1>1, <1>5 DEF AtWork
  <2>2. chunk[i].exists /\ post[p].seen = chunk[i].pieces
    BY <1>0, <1>1, <2>1 DEF CidInv, Informed
  <2>3. \A q \in Posts : ~AtWork(q, k)'
    BY <1>1, <2>1 DEF CidInv, AtWork
  <2>4. ~Took(p, k) /\ \A q \in Posts \ {p} : Took(q, k)' <=> Took(q, k)
    BY <1>1 DEF Took
  <2>5. CASE post'[p].pc = "refused" /\ chunk' = chunk
    <3>1. \A q \in Posts : (Took(q, k)' <=> Took(q, k)) /\ (Took(q, k) => post'[q] = post[q])
      BY <1>1, <2>4, <2>5 DEF Took
    <3>2. NothingYet(k) => NothingYet(k)'
      BY <1>3, <3>1 DEF NothingYet
    <3>3. \A c \in ChunkIds : MeetIn(c, k) => MeetIn(c, k)'
      BY <1>3, <2>5, <3>1 DEF MeetIn
    <3> QED
      BY <2>3, <3>2, <3>3 DEF CidInv
  <2>6. CASE /\ post'[p].pc = "accepted" /\ chunk[i].key = post[p].key
             /\ chunk'[i].key = chunk[i].key
             /\ chunk'[i].pieces = Merged(p) /\ chunk'[i].valid = IsValid(post[p].schema, Merged(p))
    <3>1. Piled(i, k)
      BY <1>1, <1>5, <2>2, <2>6, ChunkAssumption DEF Piled
    <3>2. MeetIn(i, k)
      BY <1>1, <3>1 DEF CidInv, NothingYet, MeetIn
    <3>3. Took(p, k)'
      BY <1>1, <1>5, <2>6 DEF Took
    <3>4. chunk'[i].pieces = chunk[i].pieces \cup {post'[p].piece}
      BY <1>1, <2>2, <2>6 DEF Merged
    <3>5. (chunk[i].valid = IsValid(post[p].schema, chunk[i].pieces))'
      BY <1>1, <2>6 DEF IsValid
    <3>6. \A q \in Posts : Took(q, k)' =>
             post'[q].key = chunk'[i].key /\ post'[q].piece \in chunk'[i].pieces
      BY <1>1, <2>4, <2>6, <3>2, <3>4 DEF MeetIn
    <3>7. \A x \in chunk'[i].pieces : \E q \in Posts : Took(q, k)' /\ post'[q].piece = x
      <4> SUFFICES ASSUME NEW x \in chunk'[i].pieces
                   PROVE  \E q \in Posts : Took(q, k)' /\ post'[q].piece = x
        OBVIOUS
      <4>1. CASE x = post'[p].piece
        BY <3>3, <4>1
      <4>2. CASE x \in chunk[i].pieces
        <5>1. PICK q \in Posts : Took(q, k) /\ post[q].piece = x
          BY <3>2, <4>2 DEF MeetIn
        <5> QED
          BY <1>1, <2>4, <5>1
      <4> QED
        BY <3>4, <4>1, <4>2
    <3>8. Piled(i, k)' /\ \A d \in ChunkIds : Piled(d, k)' => d = i
      BY <1>1, <1>3, <3>2 DEF MeetIn
    <3>9. MeetIn(i, k)'
      BY <3>3, <3>5, <3>6, <3>7, <3>8 DEF MeetIn
    <3> QED
      BY <1>1, <2>3, <3>9 DEF CidInv
  <2> QED
    BY <1>2, <2>2, <2>5, <2>6
<1> QED
  BY <1>4, <1>5

LEMMA SplitMeets ==
    ASSUME ChunkTypeInv, NEW z \in Splits, SplitChunk(z), NEW k \in Cids, CidInv(k)
    PROVE  CidInv(k)'
<1>1. PICK c \in ChunkIds :
         /\ ~chunk[c].used /\ chunk'[c].key = NoKey
         /\ \A d \in ChunkIds \ {c} : chunk'[d] = chunk[d]
  BY SplitParts
<1>2. ~chunk[c].exists /\ post' = post
  BY <1>1, SplitParts DEF ChunkTypeInv
<1>3. \A d \in ChunkIds : Piled(d, k)' => Piled(d, k)
  BY <1>1 DEF Piled
<1>4. \A d \in ChunkIds : chunk[d].exists /\ chunk[d].cid = k => chunk'[d] = chunk[d]
  BY <1>1, <1>2
<1> QED
  BY <1>2, <1>3, <1>4, LeftAlone

LEMMA ExpireMeets ==
    ASSUME ChunkTypeInv, NEW c \in ChunkIds, ExpireChunk(c), NEW k \in Cids, CidInv(k), k \notin lapsed'
    PROVE  CidInv(k)'
<1>1. /\ ~chunk'[c].exists /\ chunk[c].cid # k /\ post' = post
      /\ \A d \in ChunkIds \ {c} : chunk'[d] = chunk[d]
  BY ExpireParts
<1>2. \A d \in ChunkIds : Piled(d, k)' => Piled(d, k)
  BY <1>1 DEF Piled
<1> QED
  BY <1>1, <1>2, LeftAlone

LEMMA StepMeets == ChunkTypeInv /\ ChunkTypeInv' /\ MeetInv /\ [ChunksNext]_ChunkVars => MeetInv'
<1> SUFFICES ASSUME ChunkTypeInv, ChunkTypeInv', MeetInv, [ChunksNext]_ChunkVars,
                    NEW k \in Cids, k \notin mingled', k \notin lapsed'
             PROVE  CidInv(k)'
  BY DEF MeetInv
<1>1. CASE UNCHANGED ChunkVars
  <2>1. CidInv(k)
    BY <1>1 DEF MeetInv
  <2> QED
    BY <1>1, <2>1 DEF CidInv, NothingYet, MeetIn, Piled, Took, AtWork, Informed
<1>2. ASSUME NEW p \in Posts, NEW cid \in Cids, NEW key \in Keys, NEW schema \in Schemas, NEW piece \in Pieces,
             FindChunk(p, cid, key, schema, piece)
      PROVE  CidInv(k)'
  <2>1. CidInv(k)
    BY <1>2, FindParts DEF MeetInv
  <2> QED
    BY <1>2, <2>1, FindMeets
<1>3. ASSUME NEW p \in Posts, CreateChunk(p) PROVE CidInv(k)'
  <2>1. CidInv(k)
    BY <1>3, CreateParts DEF MeetInv
  <2> QED
    BY <1>3, <2>1, CreateMeets
<1>4. ASSUME NEW p \in Posts, UpdateChunk(p) PROVE CidInv(k)'
  <2>1. CidInv(k)
    BY <1>4, UpdateParts DEF MeetInv
  <2> QED
    BY <1>4, <2>1, UpdateMeets
<1>5. ASSUME NEW z \in Splits, SplitChunk(z) PROVE CidInv(k)'
  <2>1. CidInv(k)
    BY <1>5, SplitParts DEF MeetInv
  <2> QED
    BY <1>5, <2>1, SplitMeets
<1>6. ASSUME NEW c \in ChunkIds, ExpireChunk(c) PROVE CidInv(k)'
  <2>1. CidInv(k)
    BY <1>6, ExpireParts DEF MeetInv
  <2> QED
    BY <1>6, <2>1, ExpireMeets
<1> QED
  BY <1>1, <1>2, <1>3, <1>4, <1>5, <1>6 DEF ChunksNext

LEMMA MeetingIsEnough == ChunkTypeInv /\ MeetInv => AcceptedPiecesMeet
<1> SUFFICES ASSUME ChunkTypeInv, MeetInv, NEW cid \in Cids, cid \notin mingled \cup lapsed,
                    Accepted(cid) # {}
             PROVE  \E c \in ChunksOf(cid) :
                       /\ ChunksOf(cid) \cap {d \in ChunkIds : chunk[d].key # NoKey} = {c}
                       /\ \A p \in Accepted(cid) : chunk[c].key = post[p].key
                       /\ chunk[c].pieces = {post[p].piece : p \in Accepted(cid)}
                       /\ \E p \in Accepted(cid) :
                              chunk[c].valid = IsValid(post[p].schema, chunk[c].pieces)
  BY DEF AcceptedPiecesMeet
<1>1. \A p \in Posts : p \in Accepted(cid) <=> Took(p, cid)
  BY DEF Accepted, Took
<1>2. \A c \in ChunkIds :
         Piled(c, cid) <=> c \in ChunksOf(cid) \cap {d \in ChunkIds : chunk[d].key # NoKey}
  BY DEF Piled, ChunksOf
<1>3. \E p \in Posts : Took(p, cid)
  BY DEF Accepted, Took
<1>4. PICK c \in ChunkIds : MeetIn(c, cid)
  BY <1>3 DEF MeetInv, CidInv, NothingYet
<1>5. c \in ChunksOf(cid) /\ ChunksOf(cid) \cap {d \in ChunkIds : chunk[d].key # NoKey} = {c}
  BY <1>2, <1>4 DEF MeetIn
<1>6. \A p \in Accepted(cid) : chunk[c].key = post[p].key /\ post[p].piece \in chunk[c].pieces
  BY <1>1, <1>4 DEF MeetIn, Accepted
<1>7. \A x \in chunk[c].pieces : \E p \in Accepted(cid) : post[p].piece = x
  BY <1>1, <1>4 DEF MeetIn
<1>8. chunk[c].pieces = {post[p].piece : p \in Accepted(cid)}
  BY <1>6, <1>7
<1>9. \E p \in Accepted(cid) : chunk[c].valid = IsValid(post[p].schema, chunk[c].pieces)
  BY <1>1, <1>4 DEF MeetIn
<1> QED
  BY <1>5, <1>6, <1>8, <1>9

(* For a record of which no two requests overlapped and no chunk expired,   *)
(* the accepted pieces are in one chunk, which is valid exactly if they are *)
(* complete (POST /chunks, createChunk, updateChunk).                       *)
THEOREM AcceptedPiecesMeetHold == ChunksSpec => []AcceptedPiecesMeet
  BY InitChunkTypes, ChunkStepTypes, InitMeets, StepMeets, MeetingIsEnough, PTL DEF ChunksSpec

----------------------------------------------------------------------------
(* Dispatch.  Between changes that do not overlap, exactly the listed flows *)
(* are in the flow repository.                                              *)

There(f) == flowThere[f] \in {"empty", "inactive", "running"}
OneFlowEach(apps) == \A p, r \in apps : p[2] = r[2] => p = r
AllMade(flows) == \A f \in flows : flowThere[f] # "unused"

(* What holds of every listing, read or stored, whatever overlaps: no two    *)
(* applications share a flow, and the flows have been made.                 *)
ListingsAreSound ==
    /\ OneFlowEach(listing.apps) /\ AllMade(FlowsOf(listing.apps))
    /\ \A q \in Changes : OneFlowEach(change[q].apps) /\ AllMade(FlowsOf(change[q].apps))
    /\ \A q \in Changes : change[q].pc \in {"new", "create"} => change[q].made = {}
    /\ \A e \in Records : dispatching[e].pc = "start" => flowThere[dispatching[e].at] # "unused"

(* Of the flows in the repository, these are listed or are to be.            *)
MadeAre(flows) ==
    \A f \in RepositoryFlows : (f \in flows => There(f)) /\ (There(f) => f \in flows \cup excused)

(* How far a change is: what it will list, what it has still to delete and   *)
(* what it has made are what there is.                                      *)
HalfWay(q) ==
    /\ change[q].pc \in {"create", "complete", "write", "spoil"} =>
          /\ listing.exists /\ MadeAre(FlowsOf(change[q].apps) \cup change[q].left)
          /\ FlowsOf(change[q].apps) \cup change[q].left = FlowsOf(listing.apps) \cup change[q].made
          /\ change[q].left \cap FlowsOf(change[q].apps) = {}
    /\ change[q].pc = "clean" =>
          /\ MadeAre(FlowsOf(listing.apps) \cup change[q].left)
          /\ change[q].left \cap FlowsOf(listing.apps) = {}

OneAtATime == \A p, q \in Changes : InProgress(p) /\ InProgress(q) => p = q
Half == \A q \in Changes : InProgress(q) => HalfWay(q)
Whole == (\A q \in Changes : ~InProgress(q)) => MadeAre(FlowsOf(listing.apps))

DispatchInv == DispatchTypeOK /\ ListingsAreSound /\ (~overlap => OneAtATime /\ Half /\ Whole)

----------------------------------------------------------------------------

LEMMA FirstFlowIsOneEach ==
    /\ FirstFlow \in [Applications -> RepositoryFlows]
    /\ \A a, b \in Applications : FirstFlow[a] = FirstFlow[b] => a = b
<1>1. \E flow \in [Applications -> RepositoryFlows] : \A a, b \in Applications : flow[a] = flow[b] => a = b
  BY DispatchAssumption
<1>2. QED
  BY <1>1 DEF FirstFlow

LEMMA DispatchBegins == DispatchInit => DispatchInv
<1> SUFFICES ASSUME DispatchInit PROVE DispatchInv
  OBVIOUS
<1>0. overlap = FALSE /\ excused = {} /\ dispatchFaults = 0
  BY DEF DispatchInit
<1>1. listing.exists = TRUE /\ listing.apps = {<<a, FirstFlow[a]>> : a \in Applications}
  BY DEF DispatchInit
<1>2. listing.apps \subseteq Listed /\ listing \in Listings
  BY <1>1, FirstFlowIsOneEach DEF DispatchInit, Listed, Listings
<1>3. \A q \in Changes : /\ change[q].pc = "new" /\ change[q].apps = {} /\ change[q].made = {}
                         /\ change[q].kind \in ChangeKinds
  BY DEF DispatchInit
<1>4. \A e \in Records : dispatching[e].pc = "new" /\ dispatching[e].left = {} /\ dispatching[e].at \in RepositoryFlows
  BY FirstFlowIsOneEach, DispatchAssumption DEF DispatchInit
<1>5. DispatchTypeOK
  <2>1. change \in [Changes -> Change]
    BY DEF DispatchInit, Change
  <2>2. {FirstFlow[a] : a \in Sources} \subseteq RepositoryFlows
    BY FirstFlowIsOneEach, DispatchAssumption
  <2>3. dispatching \in [Records -> [pc : {"new", "check", "start", "done"}, left : SUBSET RepositoryFlows,
                                    at : RepositoryFlows]]
    BY <2>2 DEF DispatchInit
  <2>4. flowThere \in [RepositoryFlows -> FlowStates]
    BY DEF DispatchInit, FlowStates
  <2>5. overlap \in BOOLEAN /\ excused \subseteq RepositoryFlows
    BY <1>0
  <2>6. dispatchFaults \in 0 .. MaxDispatchFaults
    BY <1>0, DispatchAssumption
  <2>7. QED
    BY <1>2, <2>1, <2>3, <2>4, <2>5, <2>6 DEF DispatchTypeOK
<1>6. OneFlowEach(listing.apps)
  BY <1>1, FirstFlowIsOneEach DEF OneFlowEach
<1>7. FlowsOf(listing.apps) \subseteq RepositoryFlows
  BY <1>2 DEF FlowsOf, Listed
<1>8. \A f \in RepositoryFlows : flowThere[f] = IF f \in FlowsOf(listing.apps) THEN "inactive" ELSE "unused"
  BY DEF DispatchInit
<1>9. AllMade(FlowsOf(listing.apps)) /\ MadeAre(FlowsOf(listing.apps))
  BY <1>7, <1>8 DEF AllMade, MadeAre, There
<1>10. ListingsAreSound
  <2>1. \A q \in Changes : OneFlowEach(change[q].apps) /\ AllMade(FlowsOf(change[q].apps))
    BY <1>3 DEF OneFlowEach, AllMade, FlowsOf
  <2>2. \A e \in Records : dispatching[e].pc # "start"
    BY <1>4
  <2>3. QED
    BY <1>3, <1>6, <1>9, <2>1, <2>2 DEF ListingsAreSound
<1>11. \A q \in Changes : ~InProgress(q)
  BY <1>3 DEF InProgress
<1>12. QED
  BY <1>5, <1>9, <1>10, <1>11 DEF DispatchInv, OneAtATime, Half, Whole

(* A step of change q leaves the other changes and the kind of q alone.      *)
Moves(q) ==
    /\ change' \in [Changes -> Change]
    /\ change'[q].kind = change[q].kind
    /\ \A p \in Changes : p # q => change'[p] = change[p]

----------------------------------------------------------------------------
(* What each step does, field by field.                                     *)

LEMMA FlowsAreTyped == \A apps \in SUBSET Listed : FlowsOf(apps) \subseteq RepositoryFlows
BY DEF FlowsOf, Listed

LEMMA ChangeMoves ==
    ASSUME change \in [Changes -> Change], NEW q \in Changes, NEW r \in Change, r.kind = change[q].kind,
           change' = [change EXCEPT ![q] = r]
    PROVE  Moves(q) /\ change'[q] = r
BY DEF Moves

(* A request that is over holds nothing any more.                           *)
LEMMA FinishedParts ==
    ASSUME DispatchTypeOK, NEW q \in Changes, change' = [change EXCEPT ![q] = Finished(q)]
    PROVE  /\ Moves(q) /\ change'[q].pc = "done"
           /\ change'[q].apps = {} /\ change'[q].left = {} /\ change'[q].made = {}
<1>1. change \in [Changes -> Change] /\ change[q] \in Change
  BY DEF DispatchTypeOK
<1>2. /\ Finished(q) \in Change /\ Finished(q).kind = change[q].kind /\ Finished(q).pc = "done"
      /\ Finished(q).apps = {} /\ Finished(q).left = {} /\ Finished(q).made = {}
  BY <1>1 DEF Finished, Change
<1>3. Moves(q) /\ change'[q] = Finished(q)
  BY <1>1, <1>2, ChangeMoves
<1>4. QED
  BY <1>2, <1>3

LEMMA ReadListingParts ==
    ASSUME DispatchTypeOK, NEW q \in Changes, ReadListing(q)
    PROVE  /\ Moves(q) /\ change[q].pc = "new" /\ change'[q].made \in {change[q].made, {}}
           /\ overlap' = (overlap \/ \E p \in Changes : InProgress(p))
           /\ UNCHANGED <<listing, flowThere, dispatching, excused, dispatchFaults>>
           /\ \/ change'[q].pc = "done" /\ change'[q].apps = {}
              \/ /\ listing.exists /\ change'[q].pc \in {"create", "write"}
                 /\ change'[q].apps \subseteq listing.apps
                 /\ change'[q].left = FlowsOf(listing.apps \ change'[q].apps)
<1> USE DEF DispatchTypeOK, Moves, Change
<1>1. listing.apps \in SUBSET Listed /\ listing.intact \in BOOLEAN
  BY DEF Listings
<1>3. ASSUME NEW apps \in KeptFlows(change[q].kind), NEW pc \in {"create", "write"}, ~CannotBegin(change[q].kind),
             change' = [change EXCEPT ![q].pc = pc, ![q].apps = apps, ![q].intact = listing.intact,
                                      ![q].left = FlowsOf(listing.apps \ apps)]
      PROVE  /\ Moves(q) /\ change'[q].made = change[q].made
             /\ listing.exists /\ change'[q].pc \in {"create", "write"}
             /\ change'[q].apps \subseteq listing.apps
             /\ change'[q].left = FlowsOf(listing.apps \ change'[q].apps)
  <2>1. change[q].kind \in {"add", "edit", "remove", "modify", "delete"}
    BY DEF ChangeKinds
  <2>2. apps \subseteq listing.apps
    BY <2>1 DEF KeptFlows
  <2>3. apps \in SUBSET Listed /\ FlowsOf(listing.apps \ apps) \in SUBSET RepositoryFlows
    BY <1>1, <2>2, FlowsAreTyped
  <2>4. listing.exists
    BY <1>3 DEF CannotBegin
  <2> DEFINE r == [change[q] EXCEPT !.pc = pc, !.apps = apps, !.intact = listing.intact,
                                    !.left = FlowsOf(listing.apps \ apps)]
  <2>5. change[q] \in Change
    OBVIOUS
  <2>6. /\ r \in Change /\ r.kind = change[q].kind /\ r.made = change[q].made
        /\ r.pc = pc /\ r.apps = apps /\ r.left = FlowsOf(listing.apps \ apps)
    BY <1>1, <2>3, <2>5
  <2>7. change' = [change EXCEPT ![q] = r]
    BY <1>3
  <2> HIDE DEF r
  <2>8. Moves(q) /\ change'[q] = r
    BY <2>6, <2>7, ChangeMoves
  <2>9. QED
    BY <2>2, <2>4, <2>6, <2>8
<1> HIDE DEF DispatchTypeOK, Moves, Change
<1>4. /\ change[q].pc = "new" /\ overlap' = (overlap \/ \E p \in Changes : InProgress(p))
      /\ UNCHANGED <<listing, flowThere, dispatching, excused, dispatchFaults>>
  BY DEF ReadListing
<1>5. CASE \E apps \in KeptFlows(change[q].kind), pc \in {"create", "write"} :
              /\ ~CannotBegin(change[q].kind)
              /\ change' = [change EXCEPT ![q].pc = pc, ![q].apps = apps, ![q].intact = listing.intact,
                                          ![q].left = FlowsOf(listing.apps \ apps)]
  BY <1>3, <1>4, <1>5
<1>6. CASE change' = [change EXCEPT ![q] = Finished(q)]
  BY <1>4, <1>6, FinishedParts
<1>7. QED
  BY <1>5, <1>6 DEF ReadListing

(* What createFlows returns when it fails.                                  *)
LEMMA FlowsNotMadeParts ==
    ASSUME DispatchTypeOK, NEW q \in Changes, FlowsNotMade(q)
    PROVE  /\ Moves(q)
           /\ dispatchFaults < MaxDispatchFaults /\ dispatchFaults' = dispatchFaults + 1
           /\ \/ /\ change'[q].pc = "done" /\ change'[q].apps = {}
                 /\ excused' = excused \cup change[q].made
              \/ /\ change'[q].pc = "spoil" /\ excused' = excused
                 /\ change'[q].apps = change[q].apps /\ change'[q].left = change[q].left
                 /\ change'[q].made = change[q].made
<1>1. CASE change' = [change EXCEPT ![q] = Finished(q)] /\ excused' = excused \cup change[q].made
  BY <1>1, FinishedParts DEF FlowsNotMade, DispatchFault
<1>2. CASE change' = [change EXCEPT ![q].pc = "spoil"] /\ UNCHANGED excused
  BY <1>2 DEF FlowsNotMade, DispatchFault, DispatchTypeOK, Moves, Change
<1>3. QED
  BY <1>1, <1>2 DEF FlowsNotMade

LEMMA CreateEmptyParts ==
    ASSUME DispatchTypeOK, NEW q \in Changes, CreateEmpty(q)
    PROVE  /\ change[q].pc = "create" /\ UNCHANGED <<listing, dispatching, overlap>>
           /\ \/ FlowsNotMade(q) /\ UNCHANGED flowThere
              \/ /\ Moves(q) /\ UNCHANGED <<excused, dispatchFaults>>
                 /\ \E f \in RepositoryFlows, a \in Applications :
                       /\ flowThere[f] = "unused" /\ flowThere' = [flowThere EXCEPT ![f] = "empty"]
                       /\ change'[q].pc = "complete" /\ change'[q].made = {f}
                       /\ change'[q].left = change[q].left
                       /\ change'[q].apps = change[q].apps \cup {<<a, f>>}
<1>1. change[q].pc = "create" /\ UNCHANGED <<listing, dispatching, overlap>>
  BY DEF CreateEmpty
<1>2. CASE FlowsNotMade(q) /\ UNCHANGED flowThere
  BY <1>1, <1>2
<1>3. ASSUME Untouched # {}, UNCHANGED <<excused, dispatchFaults>>,
             NEW f \in {CHOOSE g \in Untouched : TRUE}, NEW a \in Applications,
             flowThere' = [flowThere EXCEPT ![f] = "empty"],
             change' = [change EXCEPT ![q].pc = "complete", ![q].made = {f},
                                      ![q].apps = @ \cup {<<a, f>>}]
      PROVE  /\ Moves(q) /\ f \in RepositoryFlows
             /\ flowThere[f] = "unused" /\ flowThere' = [flowThere EXCEPT ![f] = "empty"]
             /\ change'[q].pc = "complete" /\ change'[q].made = {f}
             /\ change'[q].left = change[q].left
             /\ change'[q].apps = change[q].apps \cup {<<a, f>>}
  <2>1. f \in Untouched
    BY <1>3
  <2>2. f \in RepositoryFlows /\ flowThere[f] = "unused"
    BY <2>1 DEF Untouched
  <2>3. change[q].apps \cup {<<a, f>>} \in SUBSET Listed /\ {f} \in SUBSET RepositoryFlows
    BY <2>2 DEF Listed, DispatchTypeOK, Change
  <2> DEFINE r == [change[q] EXCEPT !.pc = "complete", !.made = {f}, !.apps = @ \cup {<<a, f>>}]
  <2>4. change \in [Changes -> Change] /\ change[q] \in Change
    BY DEF DispatchTypeOK
  <2>5. /\ r \in Change /\ r.kind = change[q].kind /\ r.pc = "complete" /\ r.made = {f}
        /\ r.left = change[q].left /\ r.apps = change[q].apps \cup {<<a, f>>}
    BY <2>3, <2>4 DEF Change
  <2>6. change' = [change EXCEPT ![q] = r]
    BY <1>3
  <2> HIDE DEF r
  <2>7. Moves(q) /\ change'[q] = r
    BY <2>4, <2>5, <2>6, ChangeMoves
  <2>8. QED
    BY <1>3, <2>2, <2>5, <2>7
<1>4. QED
  BY <1>1, <1>2, <1>3 DEF CreateEmpty

LEMMA CompleteFlowParts ==
    ASSUME DispatchTypeOK, NEW q \in Changes, CompleteFlow(q)
    PROVE  /\ change[q].pc = "complete" /\ UNCHANGED <<listing, dispatching, overlap>>
           /\ Moves(q)
           /\ \/ FlowsNotMade(q) /\ UNCHANGED flowThere
              \/ /\ change'[q].apps = change[q].apps /\ change'[q].left = change[q].left
                 /\ change'[q].made = change[q].made
                 /\ change'[q].pc = "write" /\ UNCHANGED <<excused, dispatchFaults>>
                 /\ flowThere' = [f \in RepositoryFlows |->
                                     IF f \in change[q].made THEN "inactive" ELSE flowThere[f]]
<1>1. CASE FlowsNotMade(q) /\ UNCHANGED flowThere
  BY <1>1, FlowsNotMadeParts DEF CompleteFlow
<1>2. CASE /\ flowThere' = [f \in RepositoryFlows |-> IF f \in change[q].made THEN "inactive" ELSE flowThere[f]]
           /\ change' = [change EXCEPT ![q].pc = "write"] /\ UNCHANGED <<excused, dispatchFaults>>
  BY <1>2 DEF CompleteFlow, DispatchTypeOK, Moves, Change
<1>3. QED
  BY <1>1, <1>2 DEF CompleteFlow

LEMMA WriteListingParts ==
    ASSUME DispatchTypeOK, NEW q \in Changes, WriteListing(q)
    PROVE  /\ Moves(q) /\ change[q].pc = "write" /\ change'[q].apps \in {change[q].apps, {}}
           /\ UNCHANGED <<flowThere, dispatching, overlap, dispatchFaults>>
           /\ listing' \in Listings
           /\ listing'.apps = change[q].apps \/ listing'.apps = listing.apps \/ listing'.apps = {}
           /\ \/ /\ listing'.apps = {} /\ excused' = excused \cup change[q].left
                 /\ change'[q].pc = "clean" /\ change'[q].left = FlowsOf(change[q].apps)
              \/ /\ listing.exists => listing'.apps = change[q].apps
                 /\ change'[q].pc = "clean" /\ change'[q].left = change[q].left /\ UNCHANGED excused
              \/ /\ listing.exists => listing'.apps = change[q].apps
                 /\ change'[q].pc = "done" /\ excused' = excused \cup change[q].left
              \/ /\ listing' = listing
                 /\ change'[q].pc = "done" /\ excused' = excused \cup change[q].made
<1> DEFINE listed == IF listing.exists
                     THEN [listing EXCEPT !.apps = Written(q), !.intact = change[q].intact]
                     ELSE listing
<1>1. /\ listed \in Listings /\ (listing.exists => listed.apps = change[q].apps)
      /\ listed.apps = change[q].apps \/ listed.apps = listing.apps
  BY DEF Listings, Written, DispatchTypeOK, Change
<1>2. FlowsOf(change[q].apps) \in SUBSET RepositoryFlows
  BY FlowsAreTyped DEF DispatchTypeOK, Change
<1>3. change[q].pc = "write" /\ UNCHANGED <<flowThere, dispatching, overlap, dispatchFaults>>
  BY DEF WriteListing
<1>4. CASE /\ listing' = [exists |-> FALSE, intact |-> TRUE, apps |-> {}]
           /\ change' = [change EXCEPT ![q].pc = "clean", ![q].left = FlowsOf(change[q].apps)]
           /\ excused' = excused \cup change[q].left
  <2>1. listing' \in Listings /\ listing'.apps = {}
    BY <1>4 DEF Listings
  <2>2. /\ Moves(q) /\ change'[q].apps = change[q].apps
        /\ change'[q].pc = "clean" /\ change'[q].left = FlowsOf(change[q].apps)
    BY <1>2, <1>4 DEF DispatchTypeOK, Moves, Change
  <2>3. QED
    BY <1>3, <1>4, <2>1, <2>2
<1>5. ASSUME change' = [change EXCEPT ![q].pc = "clean"]
      PROVE  /\ Moves(q) /\ change'[q].apps = change[q].apps
             /\ change'[q].pc = "clean" /\ change'[q].left = change[q].left
  BY <1>5 DEF DispatchTypeOK, Moves, Change
<1>6. CASE listing' = listed /\ change' = [change EXCEPT ![q].pc = "clean"] /\ UNCHANGED excused
  <2> HIDE DEF listed
  <2>1. QED
    BY <1>1, <1>3, <1>5, <1>6
<1>7. CASE /\ listing' = listed /\ change' = [change EXCEPT ![q] = Finished(q)]
           /\ excused' = excused \cup change[q].left
  <2> HIDE DEF listed
  <2>1. QED
    BY <1>1, <1>3, <1>7, FinishedParts
<1>8. CASE /\ listing' = listing /\ change' = [change EXCEPT ![q] = Finished(q)]
           /\ excused' = excused \cup change[q].made
  BY <1>3, <1>8, FinishedParts DEF DispatchTypeOK
<1>9. QED
  BY <1>4, <1>6, <1>7, <1>8 DEF WriteListing

LEMMA SpoilListingParts ==
    ASSUME DispatchTypeOK, NEW q \in Changes, SpoilListing(q)
    PROVE  /\ Moves(q) /\ change[q].pc = "spoil" /\ change'[q].pc = "done"
           /\ change'[q].apps = {}
           /\ UNCHANGED <<flowThere, dispatching, overlap, dispatchFaults>>
           /\ listing' \in Listings /\ (listing'.apps = listing.apps \/ listing'.apps = {})
           /\ \/ /\ listing.exists => listing'.apps = {}
                 /\ excused' = excused \cup change[q].left \cup FlowsOf(change[q].apps)
              \/ listing' = listing /\ excused' = excused \cup change[q].made
<1>1. /\ change[q].pc = "spoil" /\ change' = [change EXCEPT ![q] = Finished(q)]
      /\ UNCHANGED <<flowThere, dispatching, overlap, dispatchFaults>>
  BY DEF SpoilListing
<1>2. Moves(q) /\ change'[q].pc = "done" /\ change'[q].apps = {}
  BY <1>1, FinishedParts
<1>3. CASE /\ listing' = IF listing.exists THEN [listing EXCEPT !.apps = {}, !.intact = FALSE] ELSE listing
           /\ excused' = excused \cup change[q].left \cup FlowsOf(change[q].apps)
  <2>1. /\ listing' \in Listings /\ (listing'.apps = listing.apps \/ listing'.apps = {})
        /\ listing.exists => listing'.apps = {}
    BY <1>3 DEF DispatchTypeOK, Listings
  <2>2. QED
    BY <1>1, <1>2, <1>3, <2>1
<1>4. CASE UNCHANGED listing /\ excused' = excused \cup change[q].made
  BY <1>1, <1>2, <1>4 DEF DispatchTypeOK
<1>5. QED
  BY <1>3, <1>4 DEF SpoilListing

LEMMA CleanFlowParts ==
    ASSUME DispatchTypeOK, NEW q \in Changes, CleanFlow(q)
    PROVE  /\ Moves(q) /\ change[q].pc = "clean" /\ change'[q].apps \in {change[q].apps, {}}
           /\ UNCHANGED <<listing, dispatching, overlap>>
           /\ \/ /\ change[q].left = {} /\ change'[q].pc = "done"
                 /\ UNCHANGED <<flowThere, excused, dispatchFaults>>
              \/ \E f \in change[q].left :
                 /\ change'[q].pc = "clean" /\ change'[q].left = change[q].left \ {f} /\ UNCHANGED dispatchFaults
                 /\ \/ excused' = excused \cup {f} /\ UNCHANGED flowThere
                    \/ flowThere' = [flowThere EXCEPT ![f] = "deleted"] /\ UNCHANGED excused
              \/ /\ change'[q].pc = "done" /\ excused' = excused \cup change[q].left
                 /\ UNCHANGED flowThere
                 /\ dispatchFaults < MaxDispatchFaults /\ dispatchFaults' = dispatchFaults + 1
<1> DEFINE flowsLeft(l) == [change[q] EXCEPT !.left = l]
<1>1. change \in [Changes -> Change] /\ change[q] \in Change /\ flowThere \in [RepositoryFlows -> FlowStates]
  BY DEF DispatchTypeOK
<1>3. \A l \in SUBSET RepositoryFlows :
          /\ flowsLeft(l) \in Change /\ flowsLeft(l).kind = change[q].kind /\ flowsLeft(l).pc = change[q].pc
          /\ flowsLeft(l).apps = change[q].apps /\ flowsLeft(l).made = change[q].made
          /\ flowsLeft(l).left = l
  BY <1>1 DEF Change
<1>4. change[q].pc = "clean" /\ UNCHANGED <<listing, dispatching, overlap>>
  BY DEF CleanFlow
<1>6. ASSUME NEW f \in change[q].left, change' = [change EXCEPT ![q].left = @ \ {f}]
      PROVE  Moves(q) /\ change'[q] = flowsLeft(change[q].left \ {f})
  <2>1. change[q].left \ {f} \in SUBSET RepositoryFlows
    BY <1>1 DEF Change
  <2>2. QED
    BY <1>1, <1>3, <1>6, <2>1, ChangeMoves
<1>7. change[q].left \in SUBSET RepositoryFlows
  BY <1>1 DEF Change
<1> HIDE DEF flowsLeft
<1>8. CASE /\ change[q].left = {} /\ change' = [change EXCEPT ![q] = Finished(q)]
           /\ UNCHANGED <<flowThere, excused, dispatchFaults>>
  BY <1>4, <1>8, FinishedParts
<1>9. CASE \E f \in change[q].left :
          /\ change' = [change EXCEPT ![q].left = @ \ {f}]
          /\ IF flowThere[f] = "running"
             THEN excused' = excused \cup {f} /\ UNCHANGED flowThere
             ELSE flowThere' = [flowThere EXCEPT ![f] = "deleted"] /\ UNCHANGED excused
          /\ UNCHANGED dispatchFaults
  <2>1. PICK f \in change[q].left :
          /\ change' = [change EXCEPT ![q].left = @ \ {f}]
          /\ IF flowThere[f] = "running"
             THEN excused' = excused \cup {f} /\ UNCHANGED flowThere
             ELSE flowThere' = [flowThere EXCEPT ![f] = "deleted"] /\ UNCHANGED excused
          /\ UNCHANGED dispatchFaults
    BY <1>9
  <2>2. Moves(q) /\ change'[q] = flowsLeft(change[q].left \ {f})
    BY <1>6, <2>1
  <2>3. change[q].left \ {f} \in SUBSET RepositoryFlows
    BY <1>7
  <2>4. /\ change'[q].pc = "clean" /\ change'[q].apps = change[q].apps
        /\ change'[q].left = change[q].left \ {f}
    BY <1>3, <1>4, <2>2, <2>3
  <2>5. QED
    BY <1>4, <2>1, <2>2, <2>4
<1>10. CASE /\ DispatchFault /\ change' = [change EXCEPT ![q] = Finished(q)]
            /\ excused' = excused \cup change[q].left /\ UNCHANGED flowThere
  BY <1>4, <1>10, FinishedParts DEF DispatchFault
<1>11. QED
  BY <1>8, <1>9, <1>10 DEF CleanFlow

LEMMA RecordParts ==
    ASSUME DispatchTypeOK, NEW e \in Records, TakeRecord(e) \/ CheckFlow(e) \/ StartFlow(e)
    PROVE  /\ UNCHANGED <<listing, change, overlap, excused, dispatchFaults>>
           /\ dispatching' \in [Records -> [pc : {"new", "check", "start", "done"}, left : SUBSET RepositoryFlows,
                                            at : RepositoryFlows]]
           /\ \A d \in Records : d # e => dispatching'[d] = dispatching[d]
           /\ \/ dispatching[e].pc = "start" /\ dispatching'[e].pc = "check"
                 /\ \/ UNCHANGED flowThere
                    \/ /\ flowThere[dispatching[e].at] # "deleted"
                       /\ flowThere' = [flowThere EXCEPT ![dispatching[e].at] = "running"]
              \/ /\ UNCHANGED flowThere
                 /\ dispatching'[e].pc = "start" => flowThere[dispatching'[e].at] = "inactive"
<1> USE DEF DispatchTypeOK
<1>1. CASE TakeRecord(e)
  <2>1. Targets(dispatching[e].at) \in SUBSET RepositoryFlows
    <3>1. {p \in listing.apps : p[1] \notin Sources} \in SUBSET Listed
      BY DEF Listings
    <3>2. QED
      BY <3>1, FlowsAreTyped DEF Targets
  <2> DEFINE targets == Targets(dispatching[e].at)
             pc == IF targets = {} THEN "done" ELSE "check"
  <2>2. dispatching' = [dispatching EXCEPT ![e].pc = pc, ![e].left = targets]
    BY <1>1 DEF TakeRecord
  <2>3. pc \in {"done", "check"} /\ targets \in SUBSET RepositoryFlows
    BY <2>1
  <2> HIDE DEF targets, pc
  <2>4. UNCHANGED <<listing, flowThere, change, overlap, excused, dispatchFaults>>
    BY <1>1 DEF TakeRecord
  <2>5. /\ dispatching' \in [Records -> [pc : {"new", "check", "start", "done"},
                                         left : SUBSET RepositoryFlows, at : RepositoryFlows]]
        /\ \A d \in Records : d # e => dispatching'[d] = dispatching[d]
        /\ dispatching'[e].pc # "start"
    BY <2>2, <2>3
  <2>6. QED
    BY <2>4, <2>5
<1>2. CASE CheckFlow(e)
  <2>0. UNCHANGED <<listing, flowThere, change, overlap, excused, dispatchFaults>>
    BY <1>2 DEF CheckFlow
  <2>1. ASSUME dispatching' = [dispatching EXCEPT ![e].pc = "done"]
        PROVE  /\ dispatching' \in [Records -> [pc : {"new", "check", "start", "done"},
                                                left : SUBSET RepositoryFlows, at : RepositoryFlows]]
               /\ \A d \in Records : d # e => dispatching'[d] = dispatching[d]
               /\ dispatching'[e].pc # "start"
    BY <2>1
  <2>2. ASSUME NEW f \in dispatching[e].left,
               dispatching' = [dispatching EXCEPT
                   ![e].pc = IF flowThere[f] = "inactive" THEN "start" ELSE "check",
                   ![e].left = @ \ {f}, ![e].at = f]
        PROVE  /\ dispatching' \in [Records -> [pc : {"new", "check", "start", "done"},
                                                left : SUBSET RepositoryFlows, at : RepositoryFlows]]
               /\ \A d \in Records : d # e => dispatching'[d] = dispatching[d]
               /\ dispatching'[e].pc = "start" => flowThere[dispatching'[e].at] = "inactive"
    BY <2>2
  <2> HIDE DEF DispatchTypeOK
  <2>3. QED
    BY <1>2, <2>0, <2>1, <2>2 DEF CheckFlow
<1>3. CASE StartFlow(e)
  BY <1>3 DEF StartFlow
<1>4. QED
  BY <1>1, <1>2, <1>3

----------------------------------------------------------------------------
(* The changes: while one is under way, and none overlapped it, it is the    *)
(* only one, and what holds is what holds of it.                            *)

LEMMA OnlyOne ==
    ASSUME NEW q \in Changes, Moves(q), OneAtATime, InProgress(q) \/ (\A p \in Changes : ~InProgress(p)),
           InProgress(q)' => HalfWay(q)',
           ~InProgress(q)' => MadeAre(FlowsOf(listing.apps))'
    PROVE  (OneAtATime /\ Half /\ Whole)'
<1>1. \A p \in Changes : p # q => ~InProgress(p)'
  BY DEF OneAtATime, InProgress, Moves
<1>2. QED
  BY <1>1 DEF OneAtATime, Half, Whole

LEMMA ReadListingKeeps ==
    ASSUME DispatchInv, NEW q \in Changes, ReadListing(q)
    PROVE  DispatchInv'
<1> USE DEF DispatchInv
<1>1. DispatchTypeOK'
  BY ReadListingParts DEF DispatchTypeOK, Moves, Change
<1>2. ListingsAreSound'
  <2>1. OneFlowEach(change'[q].apps) /\ AllMade(FlowsOf(change'[q].apps))
    BY ReadListingParts DEF ListingsAreSound, OneFlowEach, AllMade, FlowsOf
  <2>2. change'[q].made = {}
    BY ReadListingParts DEF ListingsAreSound
  <2>3. /\ UNCHANGED <<listing, flowThere, dispatching>>
        /\ \A p \in Changes : p # q => change'[p] = change[p]
    BY ReadListingParts DEF Moves
  <2>4. /\ OneFlowEach(listing.apps)' /\ AllMade(FlowsOf(listing.apps))'
        /\ \A e \in Records : dispatching'[e].pc = "start" => flowThere'[dispatching'[e].at] # "unused"
    BY <2>3 DEF ListingsAreSound, AllMade
  <2>5. \A p \in Changes : OneFlowEach(change'[p].apps) /\ AllMade(FlowsOf(change[p].apps))'
    BY <2>1, <2>3 DEF ListingsAreSound, AllMade
  <2>6. \A p \in Changes : change'[p].pc \in {"new", "create"} => change'[p].made = {}
    BY <2>2, <2>3 DEF ListingsAreSound
  <2>7. QED
    BY <2>4, <2>5, <2>6 DEF ListingsAreSound
<1>3. ASSUME ~overlap' PROVE (OneAtATime /\ Half /\ Whole)'
  <2>1. ~overlap /\ \A p \in Changes : ~InProgress(p)
    BY <1>3, ReadListingParts DEF DispatchTypeOK
  <2>2. MadeAre(FlowsOf(listing.apps)) /\ change'[q].made = {}
    BY <2>1, ReadListingParts DEF Whole, ListingsAreSound
  <2>3. CASE change'[q].pc = "done"
    <3>1. MadeAre(FlowsOf(listing.apps))'
      BY <2>2, ReadListingParts DEF MadeAre, There
    <3>2. QED
      BY <2>1, <2>3, <3>1, OnlyOne, ReadListingParts DEF InProgress
  <2>4. CASE change'[q].pc # "done"
    <3>1. /\ listing.exists /\ change'[q].pc \in {"create", "write"}
          /\ FlowsOf(change'[q].apps) \cup change'[q].left = FlowsOf(listing.apps)
      BY <2>4, ReadListingParts DEF FlowsOf
    <3>2. change'[q].left \cap FlowsOf(change'[q].apps) = {}
      BY <2>4, ReadListingParts DEF FlowsOf, ListingsAreSound, OneFlowEach
    <3>3. MadeAre(FlowsOf(change[q].apps) \cup change[q].left)'
      BY <2>2, <3>1, ReadListingParts DEF MadeAre, There
    <3>4. HalfWay(q)'
      BY <2>2, <3>1, <3>2, <3>3, ReadListingParts DEF HalfWay
    <3>5. InProgress(q)'
      BY <3>1 DEF InProgress
    <3>6. QED
      BY <2>1, <3>4, <3>5, OnlyOne, ReadListingParts
  <2>5. QED
    BY <2>3, <2>4
<1>4. QED
  BY <1>1, <1>2, <1>3

(* What a step does to the flows that are made already: none is unmade.      *)
LEMMA NoneIsUnmade ==
    ASSUME DispatchTypeOK, ListingsAreSound,
           \A f \in RepositoryFlows : flowThere[f] # "unused" => flowThere'[f] # "unused",
           listing'.apps = {} \/ listing'.apps = listing.apps \/ \E q \in Changes : listing'.apps = change[q].apps,
           \A p \in Changes : /\ change'[p].apps \in {change[p].apps, {}}
                              /\ change'[p].pc \in {"new", "create"} => change'[p] = change[p],
           \A e \in Records : dispatching'[e].pc = "start" =>
               dispatching'[e] = dispatching[e] \/ flowThere[dispatching'[e].at] = "inactive",
           \A e \in Records : dispatching'[e].at \in RepositoryFlows
    PROVE  ListingsAreSound'
<1>1. \A flows \in SUBSET RepositoryFlows : AllMade(flows) => AllMade(flows)'
  BY DEF AllMade
<1>2. FlowsOf({}) = {} /\ OneFlowEach({})
  BY DEF FlowsOf, OneFlowEach
<1>3. /\ FlowsOf(listing.apps) \in SUBSET RepositoryFlows
      /\ \A p \in Changes : FlowsOf(change[p].apps) \in SUBSET RepositoryFlows
  BY FlowsAreTyped DEF DispatchTypeOK, Listings, Change
<1>4. OneFlowEach(listing'.apps) /\ AllMade(FlowsOf(listing.apps))'
  <2>1. CASE listing'.apps = {}
    BY <1>2, <2>1 DEF AllMade
  <2>2. CASE listing'.apps = listing.apps
    BY <1>1, <1>3, <2>2 DEF ListingsAreSound
  <2>3. CASE \E q \in Changes : listing'.apps = change[q].apps
    BY <1>1, <1>3, <2>3 DEF ListingsAreSound
  <2>4. QED
    BY <2>1, <2>2, <2>3
<1>5. \A p \in Changes : OneFlowEach(change'[p].apps) /\ AllMade(FlowsOf(change[p].apps))'
  <2>1. ASSUME NEW p \in Changes PROVE OneFlowEach(change'[p].apps) /\ AllMade(FlowsOf(change[p].apps))'
    <3>1. CASE change'[p].apps = {}
      BY <1>2, <3>1 DEF AllMade
    <3>2. CASE change'[p].apps = change[p].apps
      BY <1>1, <1>3, <3>2 DEF ListingsAreSound
    <3>3. QED
      BY <3>1, <3>2
  <2>2. QED
    BY <2>1
<1>6. \A p \in Changes : change'[p].pc \in {"new", "create"} => change'[p].made = {}
  BY DEF ListingsAreSound
<1>7. \A e \in Records : dispatching'[e].pc = "start" => flowThere'[dispatching'[e].at] # "unused"
  BY DEF ListingsAreSound
<1>8. QED
  BY <1>4, <1>5, <1>6, <1>7 DEF ListingsAreSound

(* A failed createFlows: PUT ends, PATCH goes on to write it.                *)
LEMMA FlowsNotMadeKeeps ==
    ASSUME DispatchInv, NEW q \in Changes, FlowsNotMade(q), change[q].pc \in {"create", "complete"},
           UNCHANGED <<listing, flowThere, dispatching, overlap>>
    PROVE  DispatchInv'
<1> USE DEF DispatchInv
<1>1. /\ Moves(q) /\ change'[q].apps \in {change[q].apps, {}} /\ change'[q].pc \in {"done", "spoil"}
  BY FlowsNotMadeParts
<1>2. excused' \subseteq RepositoryFlows /\ dispatchFaults' \in 0 .. MaxDispatchFaults
  BY FlowsNotMadeParts, DispatchAssumption DEF DispatchTypeOK, Change
<1>3. DispatchTypeOK'
  BY <1>1, <1>2 DEF DispatchTypeOK, Moves
<1>4. ListingsAreSound'
  <2>1. \A p \in Changes : /\ change'[p].apps \in {change[p].apps, {}}
                           /\ change'[p].pc \in {"new", "create"} => change'[p] = change[p]
    BY <1>1 DEF Moves
  <2>2. \A e \in Records : dispatching'[e] = dispatching[e] /\ dispatching'[e].at \in RepositoryFlows
    BY DEF DispatchTypeOK
  <2>3. QED
    BY <2>1, <2>2, NoneIsUnmade
<1>5. ASSUME ~overlap' PROVE (OneAtATime /\ Half /\ Whole)'
  <2>1. InProgress(q) /\ HalfWay(q) /\ OneAtATime
    BY <1>5 DEF Half, InProgress
  <2>2. /\ listing.exists /\ MadeAre(FlowsOf(change[q].apps) \cup change[q].left)
        /\ FlowsOf(change[q].apps) \cup change[q].left = FlowsOf(listing.apps) \cup change[q].made
        /\ change[q].left \cap FlowsOf(change[q].apps) = {}
    BY <2>1 DEF HalfWay
  <2>3. CASE change'[q].pc = "done"
    <3>1. excused' = excused \cup change[q].made
      BY <2>3, FlowsNotMadeParts
    <3>2. MadeAre(FlowsOf(listing.apps))'
      BY <2>2, <3>1 DEF MadeAre, There
    <3>3. QED
      BY <1>1, <2>1, <2>3, <3>2, OnlyOne DEF InProgress
  <2>4. CASE change'[q].pc = "spoil"
    <3>1. /\ excused' = excused /\ change'[q].apps = change[q].apps /\ change'[q].left = change[q].left
          /\ change'[q].made = change[q].made
      BY <2>4, FlowsNotMadeParts
    <3>2. MadeAre(FlowsOf(change[q].apps) \cup change[q].left)'
      BY <2>2, <3>1 DEF MadeAre, There
    <3>3. HalfWay(q)'
      BY <2>2, <2>4, <3>1, <3>2 DEF HalfWay
    <3>4. QED
      BY <1>1, <2>1, <2>4, <3>3, OnlyOne DEF InProgress
  <2>5. QED
    BY <1>1, <2>3, <2>4
<1>6. QED
  BY <1>3, <1>4, <1>5

LEMMA CreateEmptyKeeps ==
    ASSUME DispatchInv, NEW q \in Changes, CreateEmpty(q)
    PROVE  DispatchInv'
<1> USE DEF DispatchInv
<1>0. change[q].pc = "create" /\ UNCHANGED <<listing, dispatching, overlap>>
  BY CreateEmptyParts
<1>1. CASE FlowsNotMade(q) /\ UNCHANGED flowThere
  BY <1>0, <1>1, FlowsNotMadeKeeps
<1>2. ASSUME Moves(q), UNCHANGED <<excused, dispatchFaults>>,
             NEW f \in RepositoryFlows, NEW a \in Applications,
             flowThere[f] = "unused", flowThere' = [flowThere EXCEPT ![f] = "empty"],
             change'[q].pc = "complete", change'[q].made = {f}, change'[q].left = change[q].left,
             change'[q].apps = change[q].apps \cup {<<a, f>>}
      PROVE  DispatchInv'
  <2>1. flowThere'[f] = "empty" /\ \A g \in RepositoryFlows : g # f => flowThere'[g] = flowThere[g]
    BY <1>2 DEF DispatchTypeOK
  <2>2. DispatchTypeOK'
    BY <1>0, <1>2 DEF DispatchTypeOK, Moves, FlowStates
  <2>3. FlowsOf(change'[q].apps) = FlowsOf(change[q].apps) \cup {f}
    <3>1. <<a, f>>[2] = f
      OBVIOUS
    <3>2. QED
      BY <1>2, <3>1 DEF FlowsOf
  <2>4. f \notin FlowsOf(change[q].apps)
    BY <1>2 DEF ListingsAreSound, AllMade
  <2>5. \A p \in Changes : FlowsOf(change[p].apps) \subseteq RepositoryFlows
    BY FlowsAreTyped DEF DispatchTypeOK, Change
  <2>6. OneFlowEach(change'[q].apps)
    <3>1. OneFlowEach(change[q].apps) /\ \A p \in change[q].apps : p[2] # f
      BY <2>4 DEF ListingsAreSound, FlowsOf
    <3>2. <<a, f>>[2] = f
      OBVIOUS
    <3>3. QED
      BY <1>2, <3>1, <3>2 DEF OneFlowEach
  <2>7. \A flows \in SUBSET RepositoryFlows : AllMade(flows) => AllMade(flows \cup {f})' /\ AllMade(flows)'
    BY <2>1 DEF AllMade
  <2>8. AllMade(FlowsOf(change[q].apps))'
    BY <2>3, <2>5, <2>7 DEF ListingsAreSound
  <2>9. FlowsOf(listing.apps) \in SUBSET RepositoryFlows
    BY FlowsAreTyped DEF DispatchTypeOK, Listings
  <2>10. AllMade(FlowsOf(listing.apps))' /\ OneFlowEach(listing.apps)'
    BY <1>0, <2>7, <2>9 DEF ListingsAreSound
  <2>11. \A p \in Changes : OneFlowEach(change'[p].apps) /\ AllMade(FlowsOf(change[p].apps))'
    BY <1>2, <2>5, <2>6, <2>7, <2>8 DEF ListingsAreSound, Moves
  <2>12. \A p \in Changes : change'[p].pc \in {"new", "create"} => change'[p].made = {}
    BY <1>2 DEF ListingsAreSound, Moves
  <2>13. \A e \in Records : dispatching'[e].pc = "start" => flowThere'[dispatching'[e].at] # "unused"
    BY <1>0, <2>1 DEF ListingsAreSound, DispatchTypeOK
  <2>14. ListingsAreSound'
    BY <2>10, <2>11, <2>12, <2>13 DEF ListingsAreSound
  <2>15. ASSUME ~overlap' PROVE (OneAtATime /\ Half /\ Whole)'
    <3>1. ~overlap /\ InProgress(q) /\ HalfWay(q) /\ change[q].made = {}
      BY <1>0, <2>15 DEF Half, InProgress, ListingsAreSound
    <3>2. /\ listing.exists /\ MadeAre(FlowsOf(change[q].apps) \cup change[q].left)
          /\ FlowsOf(change[q].apps) \cup change[q].left = FlowsOf(listing.apps)
          /\ change[q].left \cap FlowsOf(change[q].apps) = {}
      BY <1>0, <3>1 DEF HalfWay
    <3>3. MadeAre(FlowsOf(change[q].apps) \cup change[q].left)'
      BY <1>2, <2>1, <2>3, <3>2 DEF MadeAre, There
    <3>4. change'[q].left \cap FlowsOf(change'[q].apps) = {}
      BY <1>2, <2>3, <3>2 DEF MadeAre, There
    <3>5. FlowsOf(change'[q].apps) \cup change'[q].left = FlowsOf(listing'.apps) \cup change'[q].made
      BY <1>0, <1>2, <2>3, <3>2
    <3>6. HalfWay(q)'
      BY <1>0, <1>2, <3>2, <3>3, <3>4, <3>5 DEF HalfWay
    <3>7. QED
      BY <1>2, <2>15, <3>1, <3>6, OnlyOne DEF InProgress
  <2>16. QED
    BY <2>2, <2>14, <2>15
<1>3. QED
  BY <1>1, <1>2, CreateEmptyParts

LEMMA CompleteFlowKeeps ==
    ASSUME DispatchInv, NEW q \in Changes, CompleteFlow(q)
    PROVE  DispatchInv'
<1> USE DEF DispatchInv
<1>1. /\ change[q].pc = "complete" /\ UNCHANGED <<listing, dispatching, overlap>>
      /\ Moves(q)
  BY CompleteFlowParts
<1>2. CASE FlowsNotMade(q) /\ UNCHANGED flowThere
  BY <1>1, <1>2, FlowsNotMadeKeeps
<1>3. CASE /\ change'[q].apps = change[q].apps /\ change'[q].left = change[q].left
           /\ change'[q].made = change[q].made
           /\ change'[q].pc = "write" /\ UNCHANGED <<excused, dispatchFaults>>
           /\ flowThere' = [f \in RepositoryFlows |->
                               IF f \in change[q].made THEN "inactive" ELSE flowThere[f]]
  <2>1. DispatchTypeOK'
    BY <1>1, <1>3 DEF DispatchTypeOK, Moves, FlowStates
  <2>2. ListingsAreSound'
    <3>1. \A g \in RepositoryFlows : flowThere[g] # "unused" => flowThere'[g] # "unused"
      BY <1>3
    <3>2. \A p \in Changes : /\ change'[p].apps \in {change[p].apps, {}}
                             /\ change'[p].pc \in {"new", "create"} => change'[p] = change[p]
      BY <1>1, <1>3 DEF Moves
    <3>3. \A e \in Records : dispatching'[e] = dispatching[e] /\ dispatching'[e].at \in RepositoryFlows
      BY <1>1 DEF DispatchTypeOK
    <3>4. QED
      BY <1>1, <3>1, <3>2, <3>3, NoneIsUnmade
  <2>3. ASSUME ~overlap' PROVE (OneAtATime /\ Half /\ Whole)'
    <3>1. InProgress(q) /\ HalfWay(q) /\ OneAtATime
      BY <1>1, <2>3 DEF Half, InProgress
    <3>2. /\ listing.exists /\ MadeAre(FlowsOf(change[q].apps) \cup change[q].left)
          /\ FlowsOf(change[q].apps) \cup change[q].left = FlowsOf(listing.apps) \cup change[q].made
          /\ change[q].left \cap FlowsOf(change[q].apps) = {}
      BY <1>1, <3>1 DEF HalfWay
    <3>3. MadeAre(FlowsOf(change[q].apps) \cup change[q].left)'
      BY <1>1, <1>3, <3>2 DEF MadeAre, There
    <3>4. HalfWay(q)'
      BY <1>1, <1>3, <3>2, <3>3 DEF HalfWay
    <3>5. QED
      BY <1>1, <1>3, <3>1, <3>4, OnlyOne DEF InProgress
  <2>4. QED
    BY <2>1, <2>2, <2>3
<1>4. QED
  BY <1>2, <1>3, CompleteFlowParts

LEMMA WriteListingKeeps ==
    ASSUME DispatchInv, NEW q \in Changes, WriteListing(q)
    PROVE  DispatchInv'
<1> USE DEF DispatchInv
<1>1. /\ Moves(q) /\ change[q].pc = "write" /\ change'[q].apps \in {change[q].apps, {}} /\ listing' \in Listings
      /\ change'[q].pc \in {"clean", "done"}
      /\ UNCHANGED <<flowThere, dispatching, overlap, dispatchFaults>>
      /\ listing'.apps = change[q].apps \/ listing'.apps = listing.apps \/ listing'.apps = {}
  BY WriteListingParts
<1>2. excused' \subseteq RepositoryFlows
  BY WriteListingParts DEF DispatchTypeOK, Change
<1>3. DispatchTypeOK'
  BY <1>1, <1>2 DEF DispatchTypeOK, Moves, Change
<1>4. ListingsAreSound'
  <2>1. \A p \in Changes : /\ change'[p].apps \in {change[p].apps, {}}
                           /\ change'[p].pc \in {"new", "create"} => change'[p] = change[p]
    BY <1>1 DEF Moves
  <2>2. \A e \in Records : dispatching'[e] = dispatching[e] /\ dispatching'[e].at \in RepositoryFlows
    BY <1>1 DEF DispatchTypeOK
  <2>3. QED
    BY <1>1, <2>1, <2>2, NoneIsUnmade
<1>5. ASSUME ~overlap' PROVE (OneAtATime /\ Half /\ Whole)'
  <2>1. InProgress(q) /\ HalfWay(q) /\ OneAtATime
    BY <1>1, <1>5 DEF Half, InProgress
  <2>2. /\ listing.exists /\ MadeAre(FlowsOf(change[q].apps) \cup change[q].left)
        /\ FlowsOf(change[q].apps) \cup change[q].left = FlowsOf(listing.apps) \cup change[q].made
        /\ change[q].left \cap FlowsOf(change[q].apps) = {}
    BY <1>1, <2>1 DEF HalfWay
  <2>3. CASE change'[q].pc = "clean"
    <3>1. /\ change'[q].left \cap FlowsOf(listing'.apps) = {}
          /\ FlowsOf(listing'.apps) \cup change'[q].left \subseteq FlowsOf(change[q].apps) \cup change[q].left
          /\ FlowsOf(change[q].apps) \cup change[q].left \subseteq
                FlowsOf(listing'.apps) \cup change'[q].left \cup excused'
          /\ excused \subseteq excused'
      <4>1. FlowsOf({}) = {}
        BY DEF FlowsOf
      <4>2. QED
        BY <2>2, <2>3, <4>1, WriteListingParts
    <3>2. MadeAre(FlowsOf(listing.apps) \cup change[q].left)'
      BY <1>1, <2>2, <3>1 DEF MadeAre, There
    <3>3. HalfWay(q)'
      BY <2>3, <3>1, <3>2 DEF HalfWay
    <3>4. InProgress(q)'
      BY <2>3 DEF InProgress
    <3>5. QED
      BY <1>1, <2>1, <3>3, <3>4, OnlyOne
  <2>4. CASE change'[q].pc = "done"
    <3>1. /\ FlowsOf(listing'.apps) \subseteq FlowsOf(change[q].apps) \cup change[q].left
          /\ FlowsOf(change[q].apps) \cup change[q].left \subseteq FlowsOf(listing'.apps) \cup excused'
          /\ excused \subseteq excused'
      BY <2>2, <2>4, WriteListingParts
    <3>2. MadeAre(FlowsOf(listing.apps))'
      BY <1>1, <2>2, <3>1 DEF MadeAre, There
    <3>3. ~InProgress(q)'
      BY <2>4 DEF InProgress
    <3>4. QED
      BY <1>1, <2>1, <3>2, <3>3, OnlyOne
  <2>5. QED
    BY <1>1, <2>3, <2>4
<1>6. QED
  BY <1>3, <1>4, <1>5

LEMMA SpoilListingKeeps ==
    ASSUME DispatchInv, NEW q \in Changes, SpoilListing(q)
    PROVE  DispatchInv'
<1> USE DEF DispatchInv
<1>1. /\ Moves(q) /\ change[q].pc = "spoil" /\ change'[q].pc = "done" /\ change'[q].apps = {}
      /\ UNCHANGED <<flowThere, dispatching, overlap, dispatchFaults>>
      /\ listing' \in Listings /\ (listing'.apps = listing.apps \/ listing'.apps = {})
  BY SpoilListingParts
<1>2. excused' \subseteq RepositoryFlows
  <2>1. FlowsOf(change[q].apps) \in SUBSET RepositoryFlows
    BY FlowsAreTyped DEF DispatchTypeOK, Change
  <2>2. QED
    BY <2>1, SpoilListingParts DEF DispatchTypeOK, Change
<1>3. DispatchTypeOK'
  BY <1>1, <1>2 DEF DispatchTypeOK, Moves
<1>4. ListingsAreSound'
  <2>1. \A p \in Changes : /\ change'[p].apps \in {change[p].apps, {}}
                           /\ change'[p].pc \in {"new", "create"} => change'[p] = change[p]
    BY <1>1 DEF Moves
  <2>2. \A e \in Records : dispatching'[e] = dispatching[e] /\ dispatching'[e].at \in RepositoryFlows
    BY <1>1 DEF DispatchTypeOK
  <2>3. QED
    BY <1>1, <2>1, <2>2, NoneIsUnmade
<1>5. ASSUME ~overlap' PROVE (OneAtATime /\ Half /\ Whole)'
  <2>1. InProgress(q) /\ HalfWay(q) /\ OneAtATime
    BY <1>1, <1>5 DEF Half, InProgress
  <2>2. /\ listing.exists /\ MadeAre(FlowsOf(change[q].apps) \cup change[q].left)
        /\ FlowsOf(change[q].apps) \cup change[q].left = FlowsOf(listing.apps) \cup change[q].made
    BY <1>1, <2>1 DEF HalfWay
  <2>3. /\ FlowsOf(listing'.apps) \subseteq FlowsOf(change[q].apps) \cup change[q].left
        /\ FlowsOf(change[q].apps) \cup change[q].left \subseteq FlowsOf(listing'.apps) \cup excused'
        /\ excused \subseteq excused'
    <3>1. FlowsOf({}) = {}
      BY DEF FlowsOf
    <3>2. QED
      BY <2>2, <3>1, SpoilListingParts
  <2>4. MadeAre(FlowsOf(listing.apps))'
    BY <1>1, <2>2, <2>3 DEF MadeAre, There
  <2>5. QED
    BY <1>1, <2>1, <2>4, OnlyOne DEF InProgress
<1>6. QED
  BY <1>3, <1>4, <1>5

LEMMA CleanFlowKeeps ==
    ASSUME DispatchInv, NEW q \in Changes, CleanFlow(q)
    PROVE  DispatchInv'
<1> USE DEF DispatchInv
<1>1. /\ Moves(q) /\ change[q].pc = "clean" /\ change'[q].apps \in {change[q].apps, {}}
      /\ UNCHANGED <<listing, dispatching, overlap>> /\ change'[q].pc \in {"clean", "done"}
  BY CleanFlowParts
<1>2. /\ flowThere' \in [RepositoryFlows -> FlowStates]
      /\ \A g \in RepositoryFlows : flowThere'[g] \in {flowThere[g], "deleted"}
      /\ excused' \subseteq RepositoryFlows /\ dispatchFaults' \in 0 .. MaxDispatchFaults
  BY CleanFlowParts, DispatchAssumption DEF DispatchTypeOK, FlowStates, Change
<1>3. DispatchTypeOK'
  BY <1>1, <1>2 DEF DispatchTypeOK, Moves, Change
<1>4. ListingsAreSound'
  <2>1. \A p \in Changes : /\ change'[p].apps \in {change[p].apps, {}}
                           /\ change'[p].pc \in {"new", "create"} => change'[p] = change[p]
    BY <1>1 DEF Moves
  <2>2. \A e \in Records : dispatching'[e] = dispatching[e] /\ dispatching'[e].at \in RepositoryFlows
    BY <1>1 DEF DispatchTypeOK
  <2>3. QED
    BY <1>1, <1>2, <2>1, <2>2, NoneIsUnmade
<1>5. ASSUME ~overlap' PROVE (OneAtATime /\ Half /\ Whole)'
  <2>1. InProgress(q) /\ HalfWay(q) /\ OneAtATime
    BY <1>1, <1>5 DEF Half, InProgress
  <2>2. /\ MadeAre(FlowsOf(listing.apps) \cup change[q].left)
        /\ change[q].left \cap FlowsOf(listing.apps) = {}
    BY <1>1, <2>1 DEF HalfWay
  <2>3. CASE change'[q].pc = "clean"
    <3>1. PICK f \in change[q].left :
              /\ change'[q].left = change[q].left \ {f}
              /\ \/ excused' = excused \cup {f} /\ UNCHANGED flowThere
                 \/ flowThere' = [flowThere EXCEPT ![f] = "deleted"] /\ UNCHANGED excused
      BY <2>3, CleanFlowParts
    <3>2. MadeAre(FlowsOf(listing.apps) \cup change[q].left)'
      BY <1>1, <2>2, <3>1 DEF MadeAre, There, DispatchTypeOK
    <3>3. HalfWay(q)'
      BY <1>1, <2>2, <2>3, <3>1, <3>2 DEF HalfWay
    <3>4. InProgress(q)'
      BY <2>3 DEF InProgress
    <3>5. QED
      BY <1>1, <2>1, <3>3, <3>4, OnlyOne
  <2>4. CASE change'[q].pc = "done"
    <3>1. flowThere' = flowThere /\ excused' = excused \cup change[q].left
      BY <2>4, CleanFlowParts
    <3>2. MadeAre(FlowsOf(listing.apps))'
      BY <1>1, <2>2, <3>1 DEF MadeAre, There
    <3>3. ~InProgress(q)'
      BY <2>4 DEF InProgress
    <3>4. QED
      BY <1>1, <2>1, <3>2, <3>3, OnlyOne
  <2>5. QED
    BY <1>1, <2>3, <2>4
<1>6. QED
  BY <1>3, <1>4, <1>5

----------------------------------------------------------------------------
(* Dispatches and users move flows between inactive and running: neither     *)
(* makes nor deletes any.                                                   *)

LEMMA SameFlowsThere ==
    ASSUME DispatchInv, UNCHANGED <<listing, change, overlap, excused>>,
           \A f \in RepositoryFlows : flowThere[f] # "unused" => flowThere'[f] # "unused",
           \A f \in RepositoryFlows : There(f)' <=> There(f),
           \A e \in Records : dispatching'[e].pc = "start" =>
               dispatching'[e] = dispatching[e] \/ flowThere[dispatching'[e].at] = "inactive",
           DispatchTypeOK'
    PROVE  DispatchInv'
<1> USE DEF DispatchInv
<1>1. \A e \in Records : dispatching'[e].at \in RepositoryFlows
  BY DEF DispatchTypeOK
<1>2. ListingsAreSound'
  BY <1>1, NoneIsUnmade
<1>3. \A flows : MadeAre(flows)' <=> MadeAre(flows)
  BY DEF MadeAre
<1>4. \A p \in Changes : /\ InProgress(p)' <=> InProgress(p)
                         /\ HalfWay(p)' <=> HalfWay(p)
  BY <1>3 DEF InProgress, HalfWay
<1>5. Whole' <=> Whole
  BY <1>3, <1>4 DEF Whole
<1>6. QED
  BY <1>2, <1>4, <1>5 DEF OneAtATime, Half

LEMMA DispatchKeeps == DispatchInv /\ [DispatchNext]_DispatchVars => DispatchInv'
<1> SUFFICES ASSUME DispatchInv, [DispatchNext]_DispatchVars PROVE DispatchInv'
  OBVIOUS
<1>t. DispatchTypeOK
  BY DEF DispatchInv
<1>1. CASE \E q \in Changes : \/ ReadListing(q) \/ CreateEmpty(q) \/ CompleteFlow(q)
                              \/ WriteListing(q) \/ SpoilListing(q) \/ CleanFlow(q)
  BY <1>1, ReadListingKeeps, CreateEmptyKeeps, CompleteFlowKeeps, WriteListingKeeps, SpoilListingKeeps,
     CleanFlowKeeps
<1>2. ASSUME NEW e \in Records, TakeRecord(e) \/ CheckFlow(e) \/ StartFlow(e) PROVE DispatchInv'
  <2>1. /\ UNCHANGED <<listing, change, overlap, excused, dispatchFaults>>
        /\ dispatching' \in [Records -> [pc : {"new", "check", "start", "done"}, left : SUBSET RepositoryFlows,
                                         at : RepositoryFlows]]
        /\ \A d \in Records : d # e => dispatching'[d] = dispatching[d]
    BY <1>t, <1>2, RecordParts
  <2>2. \/ flowThere' = flowThere
        \/ /\ dispatching[e].pc = "start" /\ flowThere[dispatching[e].at] # "deleted"
           /\ flowThere' = [flowThere EXCEPT ![dispatching[e].at] = "running"]
    BY <1>t, <1>2, RecordParts
  <2>3. dispatching'[e].pc = "start" => flowThere[dispatching'[e].at] = "inactive"
    BY <1>t, <1>2, RecordParts
  <2>4. dispatching[e].pc = "start" => flowThere[dispatching[e].at] # "unused"
    BY DEF DispatchInv, ListingsAreSound
  <2>5. flowThere' \in [RepositoryFlows -> FlowStates]
    BY <1>t, <2>2 DEF DispatchTypeOK, FlowStates
  <2>6. \A f \in RepositoryFlows : /\ flowThere[f] # "unused" => flowThere'[f] # "unused"
                                   /\ There(f)' <=> There(f)
    BY <1>t, <2>2, <2>4 DEF There, DispatchTypeOK, FlowStates
  <2>7. DispatchTypeOK'
    BY <1>t, <2>1, <2>5 DEF DispatchTypeOK
  <2>8. QED
    BY <2>1, <2>3, <2>6, <2>7, SameFlowsThere
<1>3. ASSUME NEW f \in RepositoryFlows, UserControls(f) PROVE DispatchInv'
  <2>1. DispatchTypeOK'
    BY <1>t, <1>3 DEF UserControls, DispatchTypeOK, FlowStates
  <2>2. \A g \in RepositoryFlows : /\ flowThere[g] # "unused" => flowThere'[g] # "unused"
                                   /\ There(g)' <=> There(g)
    BY <1>t, <1>3 DEF UserControls, There, DispatchTypeOK
  <2>3. UNCHANGED <<listing, change, dispatching, overlap, excused>>
    BY <1>3 DEF UserControls
  <2>4. QED
    BY <2>1, <2>2, <2>3, SameFlowsThere
<1>4. CASE UNCHANGED DispatchVars
  BY <1>4 DEF DispatchVars, DispatchInv, DispatchTypeOK, ListingsAreSound, OneAtATime, Half, Whole, HalfWay,
              InProgress, MadeAre, There, AllMade, OneFlowEach
<1>5. QED
  BY <1>1, <1>2, <1>3, <1>4 DEF DispatchNext

LEMMA DispatchInvHolds == DispatchSpec => []DispatchInv
<1>1. QED
  BY DispatchBegins, DispatchKeeps, PTL DEF DispatchSpec

(* The dispatcher's types hold in every state.                              *)
THEOREM DispatchTypesHold == DispatchSpec => []DispatchTypeOK
<1>1. DispatchInv => DispatchTypeOK
  BY DEF DispatchInv
<1>2. QED
  BY <1>1, DispatchInvHolds, PTL

(* Changes that do not overlap leave the flows they list, and no others, in  *)
(* the flow repository, whatever is dispatched and whatever users do to the  *)
(* flows meanwhile: for any number of applications, flows and changes.      *)
THEOREM ListedFlowsExistHolds == DispatchSpec => []ListedFlowsExist
<1>1. DispatchInv => ListedFlowsExist
  BY DEF DispatchInv, ListedFlowsExist, Whole, MadeAre, There
<1>2. QED
  BY <1>1, DispatchInvHolds, PTL

----------------------------------------------------------------------------
(* DataHub.  A record of an application has one object, and its refs stay.  *)

HubRecords == [kind : HubKinds, pc : {"new", "found", "missing", "done", "failed"},
               ref : Refs \cup {NoRef}, id : Objects \cup {NoObject}, refs : Seq(Refs),
               content : Contents, version : Versions, auto : BOOLEAN, left : SUBSET Objects]
DataObjects == [exists : BOOLEAN, used : BOOLEAN, refs : Seq(Refs), content : Contents, version : Versions]

(* A request that has found an object has one that was made; a ref that it   *)
(* would put there has been named.  A request that found none has read none. *)
RequestsAreKnown ==
    \A q \in HubRequests :
        LET r == hub[q] IN
        /\ r.pc = "found" =>
              /\ r.id \in Objects /\ object[r.id].used
              /\ r.kind \in {"ref", "replace"} => r.ref \in namedRefs
              /\ r.kind = "post" /\ (\A i \in DOMAIN r.refs : Uid(r.refs[i]) # Uid(r.ref)) => r.ref \in namedRefs
              /\ r.kind \notin {"enrich", "clear", "patch"} => r.ref \in Refs
        /\ r.pc = "missing" => r.refs = <<>> /\ r.ref \in Refs

ObjectsAreMade == \A o \in Objects : IsStored(o) => object[o].used

(* As long as no enrichment has set an object back, its version tells        *)
(* whether it has refs that a request has not read.  It may have lost some.  *)
VersionsTell ==
    \A q \in HubRequests :
        LET r == hub[q] IN
        r.pc = "found" /\ r.id \notin rewound /\ IsStored(r.id) =>
            /\ r.version <= object[r.id].version
            /\ r.version = object[r.id].version /\ ~(r.kind = "enrich" /\ r.auto)
                  => ToSet(object[r.id].refs) \subseteq ToSet(r.refs)

(* What requests under way may do to the holders of a ref.  Some will write   *)
(* back the refs they have read.                                            *)
Carries(q, ref) ==
    /\ hub[q].pc = "found" /\ hub[q].kind \in {"delete", "enrich"}
    /\ ref \in ToSet(hub[q].refs) /\ IsStored(hub[q].id)
OneHolder(ref) == \A o, p \in Objects : HasRef(o, ref) /\ HasRef(p, ref) => o = p
MissingAlone(ref) ==
    \A q \in HubRequests : hub[q].pc = "missing" /\ hub[q].ref = ref =>
        /\ \A o \in Objects : ~HasRef(o, ref)
        /\ \A p \in InFlight \ {q} : ref \notin About(hub[p])
CarriersHold(ref) ==
    \A q \in HubRequests : Carries(q, ref) => \A o \in Objects : HasRef(o, ref) => o = hub[q].id
CarriersAgree(ref) == \A p, q \in HubRequests : Carries(p, ref) /\ Carries(q, ref) => hub[p].id = hub[q].id

HubInv ==
    /\ HubTypeOK /\ RequestsAreKnown /\ ObjectsAreMade /\ VersionsTell
    /\ \A ref \in Refs \ (crossedRefs \cup namedRefs) :
          OneHolder(ref) /\ MissingAlone(ref) /\ CarriersHold(ref) /\ CarriersAgree(ref)

----------------------------------------------------------------------------
(* Sequences of refs.                                                       *)

LEMMA RefsOfEmpty == ToSet(<<>>) = {}
BY DEF ToSet

LEMMA RefsOfOne == \A e : ToSet(<<e>>) = {e}
BY DEF ToSet

LEMMA RefsOfAppend == ASSUME NEW S, NEW s \in Seq(S), NEW e \in S PROVE ToSet(Append(s, e)) = ToSet(s) \cup {e}
<1> DEFINE t == Append(s, e)
<1>1. /\ t \in Seq(S) /\ Len(t) = Len(s) + 1
      /\ \A k \in 1 .. Len(s) : t[k] = s[k]
      /\ t[Len(s) + 1] = e
  OBVIOUS
<1>2. DOMAIN t = 1 .. Len(s) + 1 /\ DOMAIN s = 1 .. Len(s) /\ Len(s) \in Nat
  BY <1>1
<1> HIDE DEF t
<1>3. ToSet(t) = ToSet(s) \cup {e}
  BY <1>1, <1>2 DEF ToSet
<1>4. QED
  BY <1>3 DEF t

LEMMA RefsOfConcat == ASSUME NEW S, NEW s \in Seq(S), NEW t \in Seq(S) PROVE ToSet(s \o t) = ToSet(s) \cup ToSet(t)
<1>1. ToSet(s \o t) = Range(s \o t) /\ ToSet(s) = Range(s) /\ ToSet(t) = Range(t)
  BY DEF ToSet, Range
<1>2. QED
  BY <1>1, RangeConcatenation

(* Without its first e a sequence has the other elements.                    *)
LEMMA FirstIsThere ==
    ASSUME NEW I \in SUBSET Nat, I # {}
    PROVE  Min(I) \in I
<1>1. PICK x \in I : \A y \in I : ~(<<y, x>> \in OpToRel(<, Nat))
  BY NatLessThanWellFounded, WFMin
<1>2. OpToRel(<, Nat) = {p \in Nat \X Nat : p[1] < p[2]}
  BY DEF OpToRel
<1>3. \A y \in I : ~(<<y, x>> \in {p \in Nat \X Nat : p[1] < p[2]})
  BY <1>1, <1>2
<1>4. ASSUME NEW y \in I PROVE x =< y
  <2>1. x \in Nat /\ y \in Nat
    BY <1>4
  <2>2. <<y, x>> \in Nat \X Nat /\ <<y, x>>[1] = y /\ <<y, x>>[2] = x
    BY <2>1
  <2>3. ~(<<y, x>>[1] < <<y, x>>[2])
    BY <1>3, <1>4, <2>2, Zenon
  <2>4. QED
    BY <2>1, <2>2, <2>3
<1>5. QED
  BY <1>4 DEF Min

LEMMA OthersRemain ==
    ASSUME NEW S, NEW s \in Seq(S), NEW e
    PROVE  /\ RemoveFirst(s, e) \in Seq(S)
           /\ ToSet(RemoveFirst(s, e)) \subseteq ToSet(s)
           /\ \A x \in ToSet(s) : x # e => x \in ToSet(RemoveFirst(s, e))
<1>1. CASE ~ \E i \in 1 .. Len(s) : s[i] = e
  BY <1>1 DEF RemoveFirst
<1>2. CASE \E i \in 1 .. Len(s) : s[i] = e
  <2>1. PICK i : i = SelectInSeq(s, LAMBDA v : v = e)
    OBVIOUS
  <2> DEFINE I == {k \in 1 .. Len(s) : s[k] = e}
  <2>2. I \in SUBSET Nat /\ I # {}
    BY <1>2
  <2>3. Min(I) \in I
    BY <2>2, FirstIsThere
  <2>4. i = Min(I)
    BY <2>1, <2>2 DEF SelectInSeq
  <2>5. i \in 1 .. Len(s) /\ s[i] = e
    BY <2>3, <2>4
  <2>6. RemoveFirst(s, e) = RemoveAt(s, i)
    BY <1>2, <2>1 DEF RemoveFirst
  <2>7. PICK a : a = SubSeq(s, 1, i - 1)
    OBVIOUS
  <2>8. PICK b : b = SubSeq(s, i + 1, Len(s))
    OBVIOUS
  <2>9. a \in Seq(S) /\ Len(a) = i - 1 /\ \A k \in 1 .. i - 1 : a[k] = s[k]
    BY <2>5, <2>7
  <2>10. b \in Seq(S) /\ Len(b) = Len(s) - i /\ \A k \in 1 .. Len(s) - i : b[k] = s[i + k]
    BY <2>5, <2>8
  <2>11. RemoveFirst(s, e) = a \o b
    BY <2>6, <2>7, <2>8 DEF RemoveAt
  <2>12. RemoveFirst(s, e) \in Seq(S) /\ ToSet(RemoveFirst(s, e)) = ToSet(a) \cup ToSet(b)
    BY <2>9, <2>10, <2>11, RefsOfConcat
  <2>13. ToSet(a) \subseteq ToSet(s) /\ ToSet(b) \subseteq ToSet(s)
    <3>1. DOMAIN a = 1 .. i - 1 /\ DOMAIN b = 1 .. Len(s) - i /\ DOMAIN s = 1 .. Len(s) /\ Len(s) \in Nat
      BY <2>5, <2>9, <2>10
    <3>2. \A k \in 1 .. i - 1 : k \in 1 .. Len(s)
      BY <2>5
    <3>3. \A k \in 1 .. Len(s) - i : i + k \in 1 .. Len(s)
      BY <2>5
    <3>4. QED
      BY <2>9, <2>10, <3>1, <3>2, <3>3 DEF ToSet
  <2>14. ASSUME NEW x \in ToSet(s), x # e PROVE x \in ToSet(a) \cup ToSet(b)
    <3>1. PICK k \in 1 .. Len(s) : s[k] = x
      BY DEF ToSet
    <3>2. CASE k < i
      <4>1. k \in 1 .. i - 1 /\ DOMAIN a = 1 .. i - 1
        BY <2>5, <2>9, <3>2
      <4>2. QED
        BY <2>9, <3>1, <4>1 DEF ToSet
    <3>3. CASE k > i
      <4>1. k - i \in 1 .. Len(s) - i /\ i + (k - i) = k /\ DOMAIN b = 1 .. Len(s) - i
        BY <2>5, <2>10, <3>3
      <4>2. b[k - i] = x
        BY <2>10, <3>1, <4>1
      <4>3. QED
        BY <4>1, <4>2 DEF ToSet
    <3>4. QED
      BY <2>5, <2>14, <3>1, <3>2, <3>3
  <2>15. QED
    BY <2>12, <2>13, <2>14
<1>3. QED
  BY <1>1, <1>2

----------------------------------------------------------------------------

LEMMA HubBegins == HubInit => HubInv
<1> SUFFICES ASSUME HubInit PROVE HubInv
  OBVIOUS
<1>1. \A o \in Objects : ~object[o].exists /\ object[o].refs = <<>>
  BY DEF HubInit, Blank
<1>2. \A q \in HubRequests : hub[q].pc = "new"
  BY DEF HubInit, Idle
<1>3. HubTypeOK
  <2>1. object \in [Objects -> DataObjects]
    BY DEF HubInit, Blank, DataObjects, Contents, Versions
  <2>2. hub \in [HubRequests -> HubRecords]
    BY DEF HubInit, Idle, HubRecords, HubKinds, Contents, Versions
  <2>3. crossedRefs \subseteq Refs /\ namedRefs \subseteq Refs /\ rewound \subseteq Objects
    BY DEF HubInit
  <2>4. QED
    BY <2>1, <2>2, <2>3 DEF HubTypeOK, DataObjects, HubRecords
<1>4. RequestsAreKnown /\ ObjectsAreMade /\ VersionsTell
  BY <1>1, <1>2 DEF RequestsAreKnown, ObjectsAreMade, VersionsTell, IsStored
<1>5. \A ref \in Refs : OneHolder(ref) /\ MissingAlone(ref) /\ CarriersHold(ref) /\ CarriersAgree(ref)
  BY <1>1, <1>2 DEF OneHolder, MissingAlone, CarriersHold, CarriersAgree, HasRef, IsStored, Carries
<1>6. QED
  BY <1>3, <1>4, <1>5 DEF HubInv

(* A step of request q leaves the other requests alone.                      *)
HubMoves(q) ==
    /\ hub' \in [HubRequests -> HubRecords]
    /\ \A p \in HubRequests : p # q => hub'[p] = hub[p]

----------------------------------------------------------------------------
(* A request begins.                                                        *)

(* What every request has read: an object as it is, or that there is none.   *)
ReadsWell(q) ==
    LET r == hub'[q] IN
    /\ HubMoves(q) /\ hub[q].pc = "new"
    /\ crossedRefs' = crossedRefs \cup (About(r) \cap UNION {About(hub[p]) : p \in InFlight \ {q}})
    /\ namedRefs \subseteq namedRefs' /\ namedRefs' \subseteq Refs
    /\ UNCHANGED <<object, rewound>>
    /\ \/ /\ r.pc = "found" /\ r.id \in Objects /\ IsStored(r.id)
          /\ r.refs = object[r.id].refs /\ r.version = object[r.id].version
          /\ r.kind \in {"ref", "replace"} => r.ref \in namedRefs'
          /\ r.kind = "post" /\ (\A i \in DOMAIN r.refs : Uid(r.refs[i]) # Uid(r.ref)) => r.ref \in namedRefs'
          /\ r.kind \notin {"enrich", "clear", "patch"} => r.ref \in Refs
       \/ /\ r.pc = "missing" /\ r.refs = <<>> /\ r.ref \in Refs
          /\ \A o \in Objects : ~HasRef(o, r.ref)

LEMMA FoundParts ==
    ASSUME HubTypeOK, NEW q \in HubRequests, NEW r \in HubRecords, Found(q, r)
    PROVE  /\ HubMoves(q) /\ hub[q].pc = "new" /\ hub'[q] = r
           /\ crossedRefs' = crossedRefs \cup (About(r) \cap UNION {About(hub[p]) : p \in InFlight \ {q}})
           /\ UNCHANGED <<object, rewound>>
<1>1. hub \in [HubRequests -> HubRecords]
  BY DEF HubTypeOK, HubRecords
<1>2. hub' = [hub EXCEPT ![q] = r]
  BY DEF Found
<1>3. HubMoves(q) /\ hub'[q] = r
  BY <1>1, <1>2 DEF HubMoves
<1>4. QED
  BY <1>3 DEF Found

LEMMA ReadingIs ==
    ASSUME HubTypeOK, NEW kind \in HubKinds, NEW ref \in Refs \cup {NoRef}, NEW o \in Objects,
           NEW content \in Contents
    PROVE  /\ Reading(kind, ref, o, content) \in HubRecords
           /\ Reading(kind, ref, o, content).kind = kind /\ Reading(kind, ref, o, content).pc = "found"
           /\ Reading(kind, ref, o, content).ref = ref /\ Reading(kind, ref, o, content).id = o
           /\ Reading(kind, ref, o, content).refs = object[o].refs
           /\ Reading(kind, ref, o, content).version = object[o].version
<1>1. object[o].refs \in Seq(Refs) /\ object[o].version \in Versions
  BY DEF HubTypeOK
<1>2. QED
  BY <1>1 DEF Reading, Idle, HubRecords

LEMMA MissingIs ==
    ASSUME NEW kind \in HubKinds, NEW ref \in Refs, NEW content \in Contents
    PROVE  /\ Missing(kind, ref, content) \in HubRecords
           /\ Missing(kind, ref, content).kind = kind /\ Missing(kind, ref, content).pc = "missing"
           /\ Missing(kind, ref, content).ref = ref /\ Missing(kind, ref, content).refs = <<>>
<1>1. <<>> \in Seq(Refs) /\ 0 \in Versions /\ NoObject \in Objects \cup {NoObject} /\ ref \in Refs \cup {NoRef}
  BY DEF Versions
<1>2. {} \in SUBSET Objects /\ FALSE \in BOOLEAN
  OBVIOUS
<1>3. QED
  BY <1>1, <1>2 DEF Missing, Idle, HubRecords

LEMMA PostReadsWell ==
    ASSUME HubTypeOK, NEW q \in HubRequests, NEW ref \in Refs, NEW oihUid \in Objects \cup {NoObject},
           PostByRecordId(q, ref, oihUid)
    PROVE  ReadsWell(q)
<1>0. "post" \in HubKinds /\ "none" \in Contents /\ ref \in Refs \cup {NoRef}
  BY DEF HubKinds, Contents
<1>1. namedRefs \subseteq namedRefs' /\ namedRefs' \subseteq Refs /\ (oihUid # NoObject => ref \in namedRefs')
  BY DEF PostByRecordId, HubTypeOK
<1>2. ASSUME NEW o \in Objects, PostMatches(o, ref, oihUid), Found(q, Reading("post", ref, o, "none"))
      PROVE  ReadsWell(q)
  <2>1. PICK r : r = Reading("post", ref, o, "none")
    OBVIOUS
  <2>2. /\ r \in HubRecords /\ r.kind = "post" /\ r.pc = "found" /\ r.ref = ref /\ r.id = o
        /\ r.refs = object[o].refs /\ r.version = object[o].version
    BY <1>0, <2>1, ReadingIs
  <2>3. (\A i \in DOMAIN r.refs : Uid(r.refs[i]) # Uid(r.ref)) => r.ref \in namedRefs'
    <3>1. o # NoObject
      BY HubAssumption DEF NoObject
    <3>2. QED
      BY <1>1, <1>2, <2>2, <3>1 DEF PostMatches
  <2>4. IsStored(o)
    BY <1>2 DEF PostMatches
  <2>5. QED
    BY <1>1, <1>2, <2>1, <2>2, <2>3, <2>4, FoundParts DEF ReadsWell
<1>3. ASSUME \A o \in Objects : ~PostMatches(o, ref, oihUid), Found(q, Missing("post", ref, "none"))
      PROVE  ReadsWell(q)
  <2>1. PICK r : r = Missing("post", ref, "none")
    OBVIOUS
  <2>2. r \in HubRecords /\ r.kind = "post" /\ r.pc = "missing" /\ r.ref = ref /\ r.refs = <<>>
    BY <1>0, <2>1, MissingIs
  <2>3. \A o \in Objects : ~HasRef(o, ref)
    BY <1>3 DEF PostMatches, HasRef, ToSet
  <2>4. QED
    BY <1>1, <1>3, <2>1, <2>2, <2>3, FoundParts DEF ReadsWell
<1>4. QED
  BY <1>2, <1>3 DEF PostByRecordId

LEMMA EventReadsWell ==
    ASSUME HubTypeOK, NEW q \in HubRequests, NEW ref \in Refs, NEW content \in Given,
           RecordEvent(q, ref, content)
    PROVE  ReadsWell(q)
<1>0. "event" \in HubKinds /\ content \in Contents /\ ref \in Refs \cup {NoRef}
  BY DEF HubKinds, Contents, Given
<1>1. namedRefs' = namedRefs /\ namedRefs \subseteq Refs
  BY DEF RecordEvent, HubTypeOK
<1>2. ASSUME NEW o \in Objects, HasRef(o, ref), Found(q, Reading("event", ref, o, content))
      PROVE  ReadsWell(q)
  <2>1. PICK r : r = Reading("event", ref, o, content)
    OBVIOUS
  <2>2. /\ r \in HubRecords /\ r.kind = "event" /\ r.pc = "found" /\ r.ref = ref /\ r.id = o
        /\ r.refs = object[o].refs /\ r.version = object[o].version
    BY <1>0, <2>1, ReadingIs
  <2>3. IsStored(o)
    BY <1>2 DEF HasRef
  <2>4. QED
    BY <1>1, <1>2, <2>1, <2>2, <2>3, FoundParts DEF ReadsWell
<1>3. ASSUME \A o \in Objects : ~HasRef(o, ref), Found(q, Missing("event", ref, content))
      PROVE  ReadsWell(q)
  <2>1. PICK r : r = Missing("event", ref, content)
    OBVIOUS
  <2>2. r \in HubRecords /\ r.kind = "event" /\ r.pc = "missing" /\ r.ref = ref /\ r.refs = <<>>
    BY <1>0, <2>1, MissingIs
  <2>3. QED
    BY <1>1, <1>3, <2>1, <2>2, FoundParts DEF ReadsWell
<1>4. QED
  BY <1>2, <1>3 DEF RecordEvent

LEMMA NamedReadsWell ==
    ASSUME HubTypeOK, NEW q \in HubRequests, NEW ref \in Refs, NEW o \in Objects, NEW content \in Given,
           RefEvent(q, ref, o) \/ DeleteRecordId(q, ref, o) \/ ReplaceRefs(q, ref, o, content)
    PROVE  ReadsWell(q)
<1>1. IsStored(o) /\ namedRefs \subseteq namedRefs' /\ namedRefs' \subseteq Refs
  BY DEF RefEvent, DeleteRecordId, ReplaceRefs, HasRef, HubTypeOK
<1>2. \E kind \in {"ref", "delete", "replace"}, c \in Contents :
          /\ Found(q, Reading(kind, ref, o, c))
          /\ kind # "delete" => ref \in namedRefs'
  BY DEF RefEvent, DeleteRecordId, ReplaceRefs, Contents, Given
<1>3. PICK kind \in {"ref", "delete", "replace"}, c \in Contents :
          /\ Found(q, Reading(kind, ref, o, c))
          /\ kind # "delete" => ref \in namedRefs'
  BY <1>2
<1>4. PICK r : r = Reading(kind, ref, o, c)
  OBVIOUS
<1>5. kind \in HubKinds /\ ref \in Refs \cup {NoRef}
  BY DEF HubKinds
<1>6. /\ r \in HubRecords /\ r.kind = kind /\ r.pc = "found" /\ r.ref = ref /\ r.id = o
      /\ r.refs = object[o].refs /\ r.version = object[o].version
  BY <1>4, <1>5, ReadingIs
<1>7. QED
  BY <1>1, <1>3, <1>4, <1>6, FoundParts DEF ReadsWell

LEMMA PlainReadsWell ==
    ASSUME HubTypeOK, NEW q \in HubRequests, NEW o \in Objects, NEW content \in Given,
           PutOne(q, o, content) \/ PatchOne(q, o, content)
    PROVE  ReadsWell(q)
<1>1. IsStored(o) /\ namedRefs' = namedRefs /\ namedRefs \subseteq Refs
  BY DEF PutOne, PatchOne, HubTypeOK
<1>2. PICK kind \in {"clear", "patch"} : Found(q, Reading(kind, NoRef, o, content))
  BY DEF PutOne, PatchOne
<1>3. PICK r : r = Reading(kind, NoRef, o, content)
  OBVIOUS
<1>4. kind \in HubKinds /\ NoRef \in Refs \cup {NoRef} /\ content \in Contents
  BY DEF HubKinds, Given, Contents
<1>5. /\ r \in HubRecords /\ r.kind = kind /\ r.pc = "found" /\ r.id = o
      /\ r.refs = object[o].refs /\ r.version = object[o].version
  BY <1>3, <1>4, ReadingIs
<1>6. QED
  BY <1>1, <1>2, <1>3, <1>5, FoundParts DEF ReadsWell

LEMMA EnrichReadsWell ==
    ASSUME HubTypeOK, NEW q \in HubRequests, NEW o \in Objects, NEW auto \in AutoDeletes,
           ApplyFunctions(q, o, auto)
    PROVE  ReadsWell(q)
<1>1. IsStored(o) /\ namedRefs' = namedRefs /\ namedRefs \subseteq Refs
  BY DEF ApplyFunctions, HubTypeOK
<1>2. PICK c, e : c = object[o].content /\ e = Reading("enrich", NoRef, o, c)
  OBVIOUS
<1>3. c \in Contents /\ "enrich" \in HubKinds /\ NoRef \in Refs \cup {NoRef}
  BY <1>2 DEF HubTypeOK, HubKinds
<1>4. /\ e \in HubRecords /\ e.kind = "enrich" /\ e.pc = "found" /\ e.ref = NoRef /\ e.id = o
      /\ e.refs = object[o].refs /\ e.version = object[o].version
  BY <1>2, <1>3, ReadingIs
<1>5. auto \in BOOLEAN
  BY HubAssumption
<1>6. PICK left \in SUBSET Objects : Found(q, [e EXCEPT !.auto = auto, !.left = left])
  <2>1. Found(q, [e EXCEPT !.auto = auto, !.left = IF object[o].content = "none" THEN {} ELSE Objects])
    BY <1>2 DEF ApplyFunctions
  <2>2. (IF object[o].content = "none" THEN {} ELSE Objects) \in SUBSET Objects
    OBVIOUS
  <2>3. QED
    BY <2>1, <2>2
<1>7. PICK r : r = [e EXCEPT !.auto = auto, !.left = left]
  OBVIOUS
<1>8. /\ r \in HubRecords /\ r.kind = "enrich" /\ r.pc = "found" /\ r.id = o
      /\ r.refs = object[o].refs /\ r.version = object[o].version
  <2> DEFINE a == [e EXCEPT !.auto = auto]
  <2>1. /\ a \in HubRecords /\ a.kind = "enrich" /\ a.pc = "found" /\ a.id = o
        /\ a.refs = e.refs /\ a.version = e.version
    BY <1>4, <1>5 DEF HubRecords
  <2>2. r = [a EXCEPT !.left = left]
    BY <1>7
  <2> HIDE DEF a
  <2>3. /\ r \in HubRecords /\ r.kind = a.kind /\ r.pc = a.pc /\ r.id = a.id
        /\ r.refs = a.refs /\ r.version = a.version
    BY <2>1, <2>2 DEF HubRecords
  <2>4. QED
    BY <1>4, <2>1, <2>3
<1>9. QED
  BY <1>1, <1>6, <1>7, <1>8, FoundParts DEF ReadsWell

LEMMA RefsAreNames == \A ref \in Refs : ref # NoRef
<1>1. ASSUME NEW a \in Apps, NEW u \in Uids PROVE <<a, u>> # <<>>
  <2>1. Len(<<a, u>>) = 2 /\ Len(<<>>) = 0
    OBVIOUS
  <2>2. QED
    BY <2>1
<1>2. QED
  BY <1>1 DEF Refs, NoRef

(* A carrier has found its object and is about the refs it carries.          *)
LEMMA CarriersAreAbout ==
    ASSUME NEW q \in HubRequests, NEW ref \in Refs, Carries(q, ref)
    PROVE  q \in InFlight /\ ref \in About(hub[q])
BY DEF Carries, InFlight, About

LEMMA ReadsWellKeeps ==
    ASSUME HubInv, NEW q \in HubRequests, ReadsWell(q)
    PROVE  HubInv'
<1>0. HubTypeOK /\ RequestsAreKnown /\ ObjectsAreMade /\ VersionsTell
  BY DEF HubInv
<1>1. HubMoves(q) /\ hub[q].pc = "new" /\ object' = object /\ rewound' = rewound
  BY DEF ReadsWell
<1>2. crossedRefs' = crossedRefs \cup (About(hub'[q]) \cap UNION {About(hub[p]) : p \in InFlight \ {q}})
  BY DEF ReadsWell
<1>3. namedRefs \subseteq namedRefs' /\ namedRefs' \subseteq Refs
  BY DEF ReadsWell
<1>4. \A p \in HubRequests : p # q => hub'[p] = hub[p]
  BY <1>1 DEF HubMoves
<1>5. HubTypeOK'
  <2>1. About(hub'[q]) \subseteq Refs
    <3>1. hub'[q].refs \in Seq(Refs) /\ hub'[q].ref \in Refs \cup {NoRef}
      BY <1>1 DEF HubMoves, HubRecords
    <3>2. QED
      BY <3>1 DEF About, ToSet
  <2>2. hub' \in [HubRequests -> HubRecords] /\ crossedRefs' \subseteq Refs
    BY <1>0, <1>1, <1>2, <2>1 DEF HubMoves, HubTypeOK
  <2>3. QED
    BY <1>0, <1>1, <1>3, <2>2 DEF HubTypeOK, HubRecords
<1>6. \A o \in Objects : IsStored(o)' <=> IsStored(o)
  BY <1>1 DEF IsStored
<1>7. \A o \in Objects : \A ref \in Refs : HasRef(o, ref)' <=> HasRef(o, ref)
  BY <1>1, <1>6 DEF HasRef
<1>8. RequestsAreKnown'
  <2>1. ASSUME NEW p \in HubRequests, p # q
        PROVE  LET r == hub'[p] IN
               /\ r.pc = "found" =>
                     /\ r.id \in Objects /\ object'[r.id].used
                     /\ r.kind \in {"ref", "replace"} => r.ref \in namedRefs'
                     /\ r.kind = "post" /\ (\A i \in DOMAIN r.refs : Uid(r.refs[i]) # Uid(r.ref)) => r.ref \in namedRefs'
                     /\ r.kind \notin {"enrich", "clear", "patch"} => r.ref \in Refs
               /\ r.pc = "missing" => r.refs = <<>> /\ r.ref \in Refs
    <3>1. hub'[p] = hub[p]
      BY <1>4, <2>1
    <3>2. QED
      BY <1>0, <1>1, <1>3, <3>1 DEF RequestsAreKnown
  <2>2. \A o \in Objects : IsStored(o) => object'[o].used
    BY <1>0, <1>1 DEF ObjectsAreMade
  <2>3. LET r == hub'[q] IN
               /\ r.pc = "found" =>
                     /\ r.id \in Objects /\ object'[r.id].used
                     /\ r.kind \in {"ref", "replace"} => r.ref \in namedRefs'
                     /\ r.kind = "post" /\ (\A i \in DOMAIN r.refs : Uid(r.refs[i]) # Uid(r.ref)) => r.ref \in namedRefs'
                     /\ r.kind \notin {"enrich", "clear", "patch"} => r.ref \in Refs
               /\ r.pc = "missing" => r.refs = <<>> /\ r.ref \in Refs
    BY <2>2 DEF ReadsWell
  <2>4. QED
    BY <2>1, <2>3 DEF RequestsAreKnown, Uid
<1>9. ObjectsAreMade'
  BY <1>0, <1>1, <1>6 DEF ObjectsAreMade
<1>10. VersionsTell'
  <2>1. \A o \in Objects : object[o].version \in Nat
    BY <1>0 DEF HubTypeOK, Versions
  <2>2. QED
    BY <1>0, <1>1, <1>4, <1>6, <2>1 DEF VersionsTell, ReadsWell, IsStored
<1>11. ASSUME NEW ref \in Refs \ (crossedRefs' \cup namedRefs')
       PROVE  (OneHolder(ref) /\ MissingAlone(ref) /\ CarriersHold(ref) /\ CarriersAgree(ref))'
  <2>1. OneHolder(ref) /\ MissingAlone(ref) /\ CarriersHold(ref) /\ CarriersAgree(ref)
    BY <1>2, <1>3, <1>11 DEF HubInv
  <2>2. ref \in About(hub'[q]) => \A p \in InFlight \ {q} : ref \notin About(hub[p])
    BY <1>2, <1>11
  <2>3. \A p \in HubRequests \ {q} : (Carries(p, ref)' <=> Carries(p, ref)) /\ (p \in InFlight' <=> p \in InFlight)
    BY <1>1, <1>4 DEF Carries, InFlight, IsStored
  <2>4. q \notin InFlight /\ ~Carries(q, ref)
    BY <1>1 DEF InFlight, Carries
  <2>5. Carries(q, ref)' => HasRef(hub'[q].id, ref) /\ ref \in About(hub'[q]) /\ hub'[q].id \in Objects
    BY <1>1 DEF Carries, ReadsWell, HasRef, About
  <2>6. OneHolder(ref)'
    BY <1>7, <2>1 DEF OneHolder
  <2>7. MissingAlone(ref)'
    <3>1. ASSUME NEW p \in HubRequests, hub'[p].pc = "missing", hub'[p].ref = ref
          PROVE  /\ \A o \in Objects : ~HasRef(o, ref)'
                 /\ \A s \in InFlight' \ {p} : ref \notin About(hub'[s])
      <4>1. CASE p = q
        <5>1. ref \in About(hub'[q])
          BY <3>1, <4>1, RefsAreNames DEF About
        <5>2. \A o \in Objects : ~HasRef(o, ref)
          BY <3>1, <4>1 DEF ReadsWell
        <5>3. QED
          BY <1>4, <1>7, <2>2, <2>3, <4>1, <5>1, <5>2 DEF InFlight
      <4>2. CASE p # q
        <5>1. hub[p].pc = "missing" /\ hub[p].ref = ref /\ p \in InFlight
          BY <1>4, <3>1, <4>2 DEF InFlight
        <5>2. ref \in About(hub[p])
          BY <5>1, RefsAreNames DEF About
        <5>3. ref \notin About(hub'[q])
          BY <2>2, <4>2, <5>1, <5>2
        <5>4. \A s \in InFlight' \ {p} : s # q => ref \notin About(hub'[s])
          BY <1>4, <2>1, <2>3, <5>1 DEF MissingAlone, InFlight
        <5>5. QED
          BY <1>7, <2>1, <5>1, <5>3, <5>4 DEF MissingAlone
      <4>3. QED
        BY <4>1, <4>2
    <3>2. QED
      BY <3>1 DEF MissingAlone
  <2>8. CarriersHold(ref)'
    <3>1. ASSUME NEW p \in HubRequests, Carries(p, ref)', NEW o \in Objects, HasRef(o, ref)'
          PROVE  o = hub'[p].id
      <4>1. HasRef(o, ref)
        BY <1>7, <3>1
      <4>2. CASE p = q
        BY <2>1, <2>5, <3>1, <4>1, <4>2 DEF OneHolder
      <4>3. CASE p # q
        BY <1>4, <2>1, <2>3, <3>1, <4>1, <4>3 DEF CarriersHold
      <4>4. QED
        BY <4>2, <4>3
    <3>2. QED
      BY <3>1 DEF CarriersHold
  <2>9. CarriersAgree(ref)'
    <3>1. ASSUME NEW p \in HubRequests, NEW s \in HubRequests, Carries(p, ref)', Carries(s, ref)', p # s
          PROVE  hub'[p].id = hub'[s].id
      <4>1. ASSUME NEW t \in HubRequests \ {q}, Carries(t, ref), Carries(q, ref)' PROVE FALSE
        BY <2>2, <2>5, <4>1, CarriersAreAbout
      <4>2. p # q /\ s # q
        BY <2>3, <3>1, <4>1
      <4>3. QED
        BY <1>4, <2>1, <2>3, <3>1, <4>2 DEF CarriersAgree
    <3>2. QED
      BY <3>1 DEF CarriersAgree
  <2>10. QED
    BY <2>6, <2>7, <2>8, <2>9
<1>12. QED
  BY <1>5, <1>8, <1>9, <1>10, <1>11 DEF HubInv

----------------------------------------------------------------------------
(* A request that has found an object ends.                                 *)

GoesOnAs(q, o) ==
    /\ object'[o].used = object[o].used /\ (IsStored(o)' => IsStored(o))
    /\ IsStored(o)' /\ o \notin rewound' =>
          \/ ToSet(object'[o].refs) \subseteq ToSet(object[o].refs) /\ object'[o].version = object[o].version
          \/ object'[o].version > object[o].version
    /\ \A ref \in Refs :
          HasRef(o, ref)' => \/ HasRef(o, ref) \/ ref \in namedRefs
                             \/ Carries(q, ref) /\ o = hub[q].id

EndsWell(q) ==
    /\ HubMoves(q) /\ hub[q].pc = "found" /\ hub'[q].pc \in {"done", "failed"}
    /\ UNCHANGED <<crossedRefs, namedRefs>>
    /\ rewound \subseteq rewound' /\ rewound' \subseteq Objects
    /\ object' \in [Objects -> DataObjects]
    /\ \A o \in Objects : GoesOnAs(q, o)

LEMMA EndsWellKeeps ==
    ASSUME HubInv, NEW q \in HubRequests, EndsWell(q)
    PROVE  HubInv'
<1>0. HubTypeOK /\ RequestsAreKnown /\ ObjectsAreMade /\ VersionsTell
  BY DEF HubInv
<1>1. /\ HubMoves(q) /\ hub'[q].pc \in {"done", "failed"} /\ hub[q].pc = "found"
      /\ crossedRefs' = crossedRefs /\ namedRefs' = namedRefs
      /\ rewound \subseteq rewound' /\ rewound' \subseteq Objects /\ object' \in [Objects -> DataObjects]
  BY DEF EndsWell
<1>2. \A p \in HubRequests : p # q => hub'[p] = hub[p]
  BY <1>1 DEF HubMoves
<1>3. \A o \in Objects : object'[o].used = object[o].used /\ (IsStored(o)' => IsStored(o))
  BY DEF EndsWell, GoesOnAs
<1>4. HubTypeOK'
  BY <1>0, <1>1 DEF HubTypeOK, HubMoves, HubRecords, DataObjects
<1>5. RequestsAreKnown'
  <2>1. ASSUME NEW p \in HubRequests, p # q
        PROVE  LET r == hub'[p] IN
               /\ r.pc = "found" =>
                     /\ r.id \in Objects /\ object'[r.id].used
                     /\ r.kind \in {"ref", "replace"} => r.ref \in namedRefs'
                     /\ r.kind = "post" /\ (\A i \in DOMAIN r.refs : Uid(r.refs[i]) # Uid(r.ref)) => r.ref \in namedRefs'
                     /\ r.kind \notin {"enrich", "clear", "patch"} => r.ref \in Refs
               /\ r.pc = "missing" => r.refs = <<>> /\ r.ref \in Refs
    <3>1. hub'[p] = hub[p]
      BY <1>2, <2>1
    <3>2. QED
      BY <1>0, <1>1, <1>3, <3>1 DEF RequestsAreKnown
  <2>2. QED
    BY <1>1, <2>1 DEF RequestsAreKnown, Uid
<1>6. ObjectsAreMade'
  BY <1>0, <1>3 DEF ObjectsAreMade
<1>7. VersionsTell'
  <2> SUFFICES ASSUME NEW p \in HubRequests, hub'[p].pc = "found", hub'[p].id \notin rewound',
                      object'[hub'[p].id].exists
               PROVE  /\ hub'[p].version <= object'[hub'[p].id].version
                      /\ hub'[p].version = object'[hub'[p].id].version /\ ~(hub'[p].kind = "enrich" /\ hub'[p].auto)
                            => ToSet(object'[hub'[p].id].refs) \subseteq ToSet(hub'[p].refs)
    BY DEF VersionsTell, IsStored
  <2>1. hub'[p] = hub[p]
    BY <1>1, <1>2
  <2>2. PICK o : o = hub[p].id
    OBVIOUS
  <2>3. o \in Objects /\ o \notin rewound' /\ IsStored(o)' /\ IsStored(o)
    <3>1. o \in Objects
      BY <1>0, <2>1, <2>2 DEF RequestsAreKnown
    <3>2. object'[o].exists /\ o \notin rewound'
      BY <2>1, <2>2
    <3>3. QED
      BY <1>3, <3>1, <3>2 DEF IsStored
  <2>4. \/ ToSet(object'[o].refs) \subseteq ToSet(object[o].refs) /\ object'[o].version = object[o].version
        \/ object'[o].version > object[o].version
    BY <2>3 DEF EndsWell, GoesOnAs
  <2>5. /\ hub[p].version <= object[o].version
        /\ hub[p].version = object[o].version /\ ~(hub[p].kind = "enrich" /\ hub[p].auto)
              => ToSet(object[o].refs) \subseteq ToSet(hub[p].refs)
    BY <1>0, <1>1, <2>1, <2>2, <2>3 DEF VersionsTell
  <2>6. hub[p].version \in Nat /\ object[o].version \in Nat /\ object'[o].version \in Nat
    BY <1>0, <1>1, <2>3 DEF HubTypeOK, Versions, DataObjects
  <2>7. CASE ToSet(object'[o].refs) \subseteq ToSet(object[o].refs) /\ object'[o].version = object[o].version
    BY <2>1, <2>2, <2>5, <2>7
  <2>8. CASE object'[o].version > object[o].version
    <3>1. hub[p].version <= object'[o].version /\ hub[p].version # object'[o].version
      BY <2>5, <2>6, <2>8
    <3>2. QED
      BY <2>1, <2>2, <3>1
  <2>9. QED
    BY <2>4, <2>7, <2>8
<1>8. ASSUME NEW ref \in Refs \ (crossedRefs' \cup namedRefs')
      PROVE  (OneHolder(ref) /\ MissingAlone(ref) /\ CarriersHold(ref) /\ CarriersAgree(ref))'
  <2>1. OneHolder(ref) /\ MissingAlone(ref) /\ CarriersHold(ref) /\ CarriersAgree(ref)
    BY <1>1, <1>8 DEF HubInv
  <2>2. \A o \in Objects : HasRef(o, ref)' => HasRef(o, ref) \/ (Carries(q, ref) /\ o = hub[q].id)
    <3>1. ASSUME NEW o \in Objects, HasRef(o, ref)'
          PROVE  HasRef(o, ref) \/ (Carries(q, ref) /\ o = hub[q].id)
      <4>1. GoesOnAs(q, o) /\ ref \in Refs /\ ref \notin namedRefs
        BY <1>1, <1>8 DEF EndsWell
      <4>2. QED
        BY <3>1, <4>1 DEF GoesOnAs
    <3>2. QED
      BY <3>1
  <2>3. ~Carries(q, ref)' /\ q \notin InFlight' /\ q \in InFlight
    BY <1>1 DEF Carries, InFlight
  <2>4. \A p \in HubRequests : p # q => hub'[p] = hub[p] /\ (Carries(p, ref)' => Carries(p, ref))
    <3>1. ASSUME NEW p \in HubRequests, p # q, Carries(p, ref)' PROVE Carries(p, ref)
      <4>1. hub'[p] = hub[p] /\ hub[p].pc = "found"
        BY <1>2, <3>1 DEF Carries
      <4>2. PICK o : o = hub[p].id
        OBVIOUS
      <4>3. o \in Objects /\ object'[o].exists
        BY <1>0, <3>1, <4>1, <4>2 DEF RequestsAreKnown, Carries, IsStored
      <4>a. IsStored(hub[p].id)
        BY <1>3, <4>2, <4>3 DEF IsStored
      <4>4. QED
        BY <3>1, <4>1, <4>a DEF Carries
    <3>2. QED
      BY <1>2, <3>1
  <2>5. OneHolder(ref)'
    <3>1. Carries(q, ref) => \A o \in Objects : HasRef(o, ref) => o = hub[q].id
      BY <2>1 DEF CarriersHold
    <3>2. QED
      BY <2>1, <2>2, <3>1 DEF OneHolder
  <2>6. MissingAlone(ref)'
    <3>1. ASSUME NEW p \in HubRequests, hub'[p].pc = "missing", hub'[p].ref = ref
          PROVE  /\ \A o \in Objects : ~HasRef(o, ref)'
                 /\ \A s \in InFlight' \ {p} : ref \notin About(hub'[s])
      <4>1. p # q /\ hub[p].pc = "missing" /\ hub[p].ref = ref
        BY <1>1, <1>2, <3>1
      <4>2. /\ \A o \in Objects : ~HasRef(o, ref)
            /\ \A s \in InFlight \ {p} : ref \notin About(hub[s])
        BY <2>1, <4>1 DEF MissingAlone
      <4>3. ~Carries(q, ref)
        BY <2>3, <4>1, <4>2, CarriersAreAbout
      <4>4. \A s \in InFlight' : s \in InFlight /\ hub'[s] = hub[s]
        BY <2>3, <2>4 DEF InFlight
      <4>5. QED
        BY <2>2, <4>2, <4>3, <4>4
    <3>2. QED
      BY <3>1 DEF MissingAlone
  <2>7. CarriersHold(ref)'
    <3>1. ASSUME NEW p \in HubRequests, Carries(p, ref)', NEW o \in Objects, HasRef(o, ref)'
          PROVE  o = hub'[p].id
      <4>1. p # q /\ Carries(p, ref) /\ hub'[p] = hub[p]
        BY <2>3, <2>4, <3>1
      <4>2. CASE HasRef(o, ref)
        BY <2>1, <4>1, <4>2 DEF CarriersHold
      <4>3. CASE Carries(q, ref) /\ o = hub[q].id
        BY <2>1, <4>1, <4>3 DEF CarriersAgree
      <4>4. QED
        BY <2>2, <3>1, <4>2, <4>3
    <3>2. QED
      BY <3>1 DEF CarriersHold
  <2>8. CarriersAgree(ref)'
    BY <2>1, <2>3, <2>4 DEF CarriersAgree
  <2>9. QED
    BY <2>5, <2>6, <2>7, <2>8
<1>9. QED
  BY <1>4, <1>5, <1>6, <1>7, <1>8 DEF HubInv

(* What a request that found an object saves.                               *)
SavesAt(q, o) ==
    /\ HubMoves(q) /\ hub[q].pc = "found" /\ hub'[q].pc \in {"done", "failed"} /\ o \in Objects
    /\ UNCHANGED <<crossedRefs, namedRefs, rewound>>
    /\ object' \in [Objects -> DataObjects]
    /\ \A p \in Objects : p # o => object'[p] = object[p]
Saved(r, old, new) ==
    \/ new = old
    \/ /\ r.kind \in {"post", "ref"} /\ old.exists /\ r.ref \in namedRefs
       /\ new = Push(old, r.ref)
    \/ /\ r.kind \in {"event", "patch"} /\ old.exists /\ new = [old EXCEPT !.content = r.content]
    \/ /\ r.kind = "clear" /\ old.exists /\ new = [old EXCEPT !.refs = <<>>, !.content = r.content]
    \/ /\ r.kind = "delete" /\ old.exists /\ old.version = r.version
       /\ new = [old EXCEPT !.refs = RemoveFirst(r.refs, r.ref), !.version = @ + 1]
    \/ /\ r.kind = "delete" /\ RemoveFirst(r.refs, r.ref) = <<>>
       /\ new = [Blank EXCEPT !.used = TRUE]
    \/ /\ r.kind = "replace" /\ old.exists /\ old.version = r.version /\ r.ref \in namedRefs
       /\ new = [old EXCEPT !.refs = <<r.ref>>, !.content = r.content, !.version = @ + 1]

LEMMA SaveFoundParts ==
    ASSUME HubTypeOK, RequestsAreKnown, NEW q \in HubRequests, SaveFound(q),
           NEW o, o = hub[q].id
    PROVE  SavesAt(q, o) /\ Saved(hub[q], object[o], object'[o])
<1> DEFINE r == hub[q]
<1>0. hub \in [HubRequests -> HubRecords] /\ object \in [Objects -> DataObjects]
  BY DEF HubTypeOK, HubRecords, DataObjects
<1>1. r.pc = "found" /\ o \in Objects /\ UNCHANGED <<crossedRefs, namedRefs, rewound>>
  BY DEF SaveFound, RequestsAreKnown
<1>2. r \in HubRecords /\ object[o] \in DataObjects
  BY <1>0, <1>1
<1>3. /\ r.kind \in {"ref", "replace"} => r.ref \in namedRefs
      /\ r.kind = "post" /\ (\A i \in DOMAIN r.refs : Uid(r.refs[i]) # Uid(r.ref)) => r.ref \in namedRefs
      /\ r.kind \notin {"enrich", "clear", "patch"} => r.ref \in Refs
  BY <1>1 DEF RequestsAreKnown
<1>4. ASSUME NEW ok \in BOOLEAN, NEW d \in DataObjects, Save(q, ok, d)
      PROVE  /\ HubMoves(q) /\ hub'[q].pc \in {"done", "failed"} /\ object' \in [Objects -> DataObjects]
             /\ \A p \in Objects : p # o => object'[p] = object[p]
             /\ object'[o] = IF ok THEN d ELSE object[o]
  <2>1. PICK pc \in {"done", "failed"} : hub' = [hub EXCEPT ![q].pc = pc]
    BY <1>4 DEF Save, Finish
  <2>2. HubMoves(q) /\ hub'[q].pc \in {"done", "failed"}
    BY <1>0, <2>1 DEF HubMoves, HubRecords
  <2>3. object' = IF ok THEN [object EXCEPT ![o] = d] ELSE object
    BY <1>4 DEF Save
  <2>4. QED
    BY <1>0, <1>1, <1>4, <2>2, <2>3
<1>5. IsStored(o) <=> object[o].exists
  BY DEF IsStored
<1>6. object[o].exists \in BOOLEAN /\ UnchangedSince(object[o], r) \in BOOLEAN
  BY <1>2 DEF DataObjects, UnchangedSince
<1>a. PICK d \in DataObjects : d = object[o]
  BY <1>2
<1>b. d.version + 1 \in Versions /\ d.refs \in Seq(Refs)
  BY DEF DataObjects, Versions
<1>7. r.ref \in Refs => Push(object[o], r.ref) \in DataObjects
  <2>1. ASSUME r.ref \in Refs PROVE [d EXCEPT !.refs = Append(@, r.ref), !.version = @ + 1] \in DataObjects
    <3>1. Append(d.refs, r.ref) \in Seq(Refs)
      BY <1>b, <2>1
    <3>2. QED
      BY <1>b, <3>1 DEF DataObjects
  <2>2. QED
    BY <1>a, <2>1 DEF Push
<1>8. [object[o] EXCEPT !.content = r.content] \in DataObjects
  BY <1>2 DEF DataObjects, HubRecords
<1>9. [object[o] EXCEPT !.refs = RemoveFirst(r.refs, r.ref), !.version = @ + 1] \in DataObjects
  <2>1. PICK s \in Seq(Refs) : s = RemoveFirst(r.refs, r.ref)
    <3>1. r.refs \in Seq(Refs)
      BY <1>2 DEF HubRecords
    <3>2. QED
      BY <3>1, OthersRemain
  <2>2. [d EXCEPT !.refs = s, !.version = @ + 1] \in DataObjects
    BY <1>b DEF DataObjects
  <2>3. QED
    BY <1>a, <2>1, <2>2
<1>10. [Blank EXCEPT !.used = TRUE] \in DataObjects
  <2>1. <<>> \in Seq(Refs) /\ 0 \in Versions /\ "whole" \in Contents /\ TRUE \in BOOLEAN /\ FALSE \in BOOLEAN
    BY DEF Versions, Contents
  <2>2. Blank \in DataObjects
    BY <2>1 DEF Blank, DataObjects
  <2>3. QED
    BY <2>2 DEF DataObjects
<1>11. r.ref \in Refs =>
          [object[o] EXCEPT !.refs = <<r.ref>>, !.content = r.content, !.version = @ + 1] \in DataObjects
  <2>1. ASSUME r.ref \in Refs
        PROVE  [d EXCEPT !.refs = <<r.ref>>, !.content = r.content, !.version = @ + 1] \in DataObjects
    <3>1. <<r.ref>> \in Seq(Refs) /\ r.content \in Contents
      BY <1>2, <2>1 DEF HubRecords
    <3>2. QED
      BY <1>b, <3>1 DEF DataObjects
  <2>2. QED
    BY <1>a, <2>1
<1>b1. [object[o] EXCEPT !.refs = <<>>, !.content = r.content] \in DataObjects
  <2>1. <<>> \in Seq(Refs) /\ r.content \in Contents
    BY <1>2 DEF HubRecords
  <2>2. [d EXCEPT !.refs = <<>>, !.content = r.content] \in DataObjects
    BY <2>1 DEF DataObjects
  <2>3. QED
    BY <1>a, <2>2
<1> USE DEF Saved
<1>12. CASE r.kind = "post"
  BY <1>1, <1>2, <1>3, <1>4, <1>5, <1>6, <1>7, <1>12 DEF SaveFound, SavesAt
<1>13. CASE r.kind \in {"event", "patch"}
  BY <1>1, <1>2, <1>4, <1>5, <1>6, <1>8, <1>13 DEF SaveFound, SavesAt
<1>14. CASE r.kind = "ref"
  BY <1>1, <1>2, <1>3, <1>4, <1>5, <1>6, <1>7, <1>14 DEF SaveFound, SavesAt
<1>15. CASE r.kind = "delete"
  BY <1>1, <1>4, <1>5, <1>6, <1>9, <1>10, <1>15 DEF SaveFound, UnchangedSince, SavesAt
<1>16. CASE r.kind = "replace"
  BY <1>1, <1>3, <1>4, <1>5, <1>6, <1>11, <1>16 DEF SaveFound, UnchangedSince, SavesAt
<1>17. CASE r.kind = "clear"
  BY <1>1, <1>4, <1>5, <1>6, <1>b1, <1>17 DEF SaveFound, SavesAt
<1>18. QED
  BY <1>12, <1>13, <1>14, <1>15, <1>16, <1>17 DEF SaveFound

LEMMA SaveFoundKeeps ==
    ASSUME HubInv, NEW q \in HubRequests, SaveFound(q)
    PROVE  HubInv'
<1>0. HubTypeOK /\ RequestsAreKnown /\ ObjectsAreMade
  BY DEF HubInv
<1>1. PICK o : o = hub[q].id
  OBVIOUS
<1>2. PICK r : r = hub[q]
  OBVIOUS
<1>3. /\ HubMoves(q) /\ hub[q].pc = "found" /\ hub'[q].pc \in {"done", "failed"} /\ o \in Objects
      /\ UNCHANGED <<crossedRefs, namedRefs, rewound>>
      /\ object' \in [Objects -> DataObjects]
      /\ \A p \in Objects : p # o => object'[p] = object[p]
  <2>1. SavesAt(q, o)
    BY <1>0, <1>1, SaveFoundParts
  <2>2. QED
    BY <2>1 DEF SavesAt
<1>4. r \in HubRecords /\ object[o] \in DataObjects /\ object[o].used
  BY <1>0, <1>1, <1>2, <1>3 DEF HubTypeOK, HubRecords, DataObjects, RequestsAreKnown
<1>5. /\ object[o].refs \in Seq(Refs) /\ object[o].version \in Nat /\ r.refs \in Seq(Refs)
  BY <1>4 DEF HubRecords, DataObjects, Versions
<1>6. ASSUME NEW p \in Objects, object'[p] = object[p] PROVE GoesOnAs(q, p)
  BY <1>6 DEF GoesOnAs, IsStored, HasRef
<1>7. PICK new : new = object'[o]
  OBVIOUS
<1>8. Saved(r, object[o], new)
  BY <1>0, <1>1, <1>2, <1>7, SaveFoundParts
<1>9. ASSUME new.used = object[o].used, new.exists => object[o].exists,
             new.exists => \/ ToSet(new.refs) \subseteq ToSet(object[o].refs) /\ new.version = object[o].version
                           \/ new.version > object[o].version,
             \A ref \in ToSet(new.refs) :
                 new.exists => ref \in ToSet(object[o].refs) \/ ref \in namedRefs \/ Carries(q, ref)
      PROVE  GoesOnAs(q, o)
  <2>1. \A ref \in Refs : HasRef(o, ref)' => ref \in ToSet(new.refs) /\ new.exists
    BY <1>7 DEF HasRef, IsStored
  <2>2. \A ref \in Refs : HasRef(o, ref)' => HasRef(o, ref) \/ ref \in namedRefs \/ Carries(q, ref)
    BY <1>9, <2>1 DEF HasRef, IsStored
  <2>3. object'[o].used = object[o].used /\ (IsStored(o)' => IsStored(o))
    BY <1>7, <1>9 DEF IsStored
  <2>4. IsStored(o)' => \/ ToSet(object'[o].refs) \subseteq ToSet(object[o].refs) /\ object'[o].version = object[o].version
                       \/ object'[o].version > object[o].version
    BY <1>7, <1>9 DEF IsStored
  <2>5. QED
    BY <1>1, <2>2, <2>3, <2>4 DEF GoesOnAs
<1>10. GoesOnAs(q, o)
  <2>1. CASE new = object[o]
    BY <1>3, <1>6, <1>7, <2>1
  <2>2. CASE /\ object[o].exists /\ r.ref \in namedRefs
             /\ new = Push(object[o], r.ref)
    <3>1. r.ref \in Refs
      BY <1>0, <2>2 DEF HubTypeOK
    <3>2. /\ new.used = object[o].used /\ new.exists = object[o].exists
          /\ new.refs = Append(object[o].refs, r.ref) /\ new.version = object[o].version + 1
      BY <1>4, <2>2 DEF Push, DataObjects
    <3>3. ToSet(new.refs) = ToSet(object[o].refs) \cup {r.ref}
      BY <1>5, <3>1, <3>2, RefsOfAppend
    <3>4. new.version > object[o].version
      BY <1>5, <3>2
    <3>5. QED
      BY <1>9, <2>2, <3>2, <3>3, <3>4
  <2>3. CASE new = [object[o] EXCEPT !.content = r.content]
    <3>1. /\ new.used = object[o].used /\ new.exists = object[o].exists
          /\ new.refs = object[o].refs /\ new.version = object[o].version
      BY <1>4, <2>3 DEF DataObjects
    <3>2. QED
      BY <1>9, <3>1
  <2>4. CASE /\ r.kind = "delete" /\ object[o].exists
             /\ new = [object[o] EXCEPT !.refs = RemoveFirst(r.refs, r.ref), !.version = @ + 1]
    <3>1. /\ new.used = object[o].used /\ new.exists = object[o].exists
          /\ new.refs = RemoveFirst(r.refs, r.ref) /\ new.version = object[o].version + 1
      BY <1>4, <2>4 DEF DataObjects
    <3>2. ToSet(new.refs) \subseteq ToSet(r.refs)
      BY <1>5, <3>1, OthersRemain
    <3>3. \A ref \in ToSet(r.refs) : Carries(q, ref)
      BY <1>1, <1>2, <1>3, <2>4 DEF Carries, IsStored
    <3>4. new.version > object[o].version
      BY <1>5, <3>1
    <3>5. QED
      BY <1>9, <3>1, <3>2, <3>3, <3>4
  <2>5. CASE new = [Blank EXCEPT !.used = TRUE]
    <3>1. new.used = TRUE /\ new.exists = FALSE
      BY <2>5 DEF Blank
    <3>2. object[o].used = TRUE
      BY <1>4 DEF DataObjects
    <3>3. QED
      BY <1>9, <3>1, <3>2
  <2>6. CASE /\ object[o].exists /\ r.ref \in namedRefs
             /\ new = [object[o] EXCEPT !.refs = <<r.ref>>, !.content = r.content, !.version = @ + 1]
    <3>1. /\ new.used = object[o].used /\ new.exists = object[o].exists
          /\ new.refs = <<r.ref>> /\ new.version = object[o].version + 1
      BY <1>4, <2>6 DEF DataObjects
    <3>2. ToSet(new.refs) = {r.ref}
      BY <3>1, RefsOfOne
    <3>3. new.version > object[o].version
      BY <1>5, <3>1
    <3>4. QED
      BY <1>9, <2>6, <3>1, <3>2, <3>3
  <2>7. CASE new = [object[o] EXCEPT !.refs = <<>>, !.content = r.content]
    <3>1. /\ new.used = object[o].used /\ new.exists = object[o].exists
          /\ new.refs = <<>> /\ new.version = object[o].version
      BY <1>4, <2>7 DEF DataObjects
    <3>2. ToSet(new.refs) = {}
      BY <3>1, RefsOfEmpty
    <3>3. QED
      BY <1>9, <3>1, <3>2
  <2>8. QED
    BY <1>8, <2>1, <2>2, <2>3, <2>4, <2>5, <2>6, <2>7 DEF Saved
<1>11. EndsWell(q)
  <2>1. \A p \in Objects : GoesOnAs(q, p)
    BY <1>3, <1>6, <1>10
  <2>2. rewound' \subseteq Objects
    BY <1>0, <1>3 DEF HubTypeOK
  <2>3. QED
    BY <1>3, <2>1, <2>2 DEF EndsWell
<1>12. QED
  BY <1>11, EndsWellKeeps

(* An enrichment writes back what it has read.                               *)
LEMMA SaveEnrichedParts ==
    ASSUME HubTypeOK, RequestsAreKnown, NEW q \in HubRequests, SaveEnriched(q),
           NEW o, o = hub[q].id
    PROVE  /\ HubMoves(q) /\ hub[q].pc = "found" /\ hub'[q].pc = "done" /\ o \in Objects
           /\ hub[q].kind = "enrich" /\ UNCHANGED <<crossedRefs, namedRefs>>
           /\ object' \in [Objects -> DataObjects]
           /\ \A p \in Objects : p # o => object'[p] = object[p]
           /\ object'[o].used = object[o].used /\ object'[o].exists = object[o].exists
           /\ \/ ~object[o].exists /\ rewound' = rewound /\ object'[o] = object[o]
              \/ /\ object[o].exists /\ object'[o].refs = hub[q].refs /\ object'[o].version = hub[q].version
                 /\ rewound' = IF object[o].refs = hub[q].refs /\ object[o].version = hub[q].version
                               THEN rewound ELSE rewound \cup {o}
<1> DEFINE r == hub[q]
<1>0. hub \in [HubRequests -> HubRecords] /\ object \in [Objects -> DataObjects]
  BY DEF HubTypeOK, HubRecords, DataObjects
<1>1. r.pc = "found" /\ r.kind = "enrich" /\ o \in Objects /\ UNCHANGED <<crossedRefs, namedRefs>>
  BY DEF SaveEnriched, RequestsAreKnown
<1>2. r \in HubRecords /\ object[o] \in DataObjects
  BY <1>0, <1>1
<1>3. hub' = [hub EXCEPT ![q].pc = "done"]
  BY DEF SaveEnriched, Finish
<1>4. HubMoves(q) /\ hub'[q].pc = "done"
  BY <1>0, <1>3 DEF HubMoves, HubRecords
<1>5. PICK new : new = [object[o] EXCEPT !.refs = r.refs, !.content = r.content, !.version = r.version]
  OBVIOUS
<1>6. /\ new \in DataObjects /\ new.refs = r.refs /\ new.version = r.version
      /\ new.used = object[o].used /\ new.exists = object[o].exists
  <2>1. r.refs \in Seq(Refs) /\ r.content \in Contents /\ r.version \in Versions
    BY <1>2 DEF HubRecords
  <2>2. PICK d \in DataObjects : d = object[o]
    BY <1>2
  <2>3. PICK s, c, v : s = r.refs /\ c = r.content /\ v = r.version
    OBVIOUS
  <2>4. new = [d EXCEPT !.refs = s, !.content = c, !.version = v]
    BY <1>5, <2>2, <2>3
  <2>5. /\ new \in DataObjects /\ new.refs = s /\ new.version = v
        /\ new.used = d.used /\ new.exists = d.exists
    BY <2>1, <2>3, <2>4 DEF DataObjects
  <2>6. QED
    BY <2>2, <2>3, <2>5
<1>7. object' = IF object[o].exists THEN [object EXCEPT ![o] = new] ELSE object
  BY <1>5 DEF SaveEnriched, IsStored
<1>8. rewound' = IF object[o].exists /\ ~(object[o].refs = r.refs /\ object[o].version = r.version)
                 THEN rewound \cup {o} ELSE rewound
  <2>1. <<object[o].refs, object[o].version>> # <<r.refs, r.version>>
           <=> ~(object[o].refs = r.refs /\ object[o].version = r.version)
    OBVIOUS
  <2>2. QED
    BY <2>1 DEF SaveEnriched, IsStored
<1>9. object' \in [Objects -> DataObjects] /\ \A p \in Objects : p # o => object'[p] = object[p]
  BY <1>0, <1>1, <1>6, <1>7
<1>10. object'[o] = IF object[o].exists THEN new ELSE object[o]
  BY <1>0, <1>1, <1>7
<1>11. QED
  BY <1>1, <1>4, <1>6, <1>8, <1>9, <1>10

LEMMA SaveEnrichedKeeps ==
    ASSUME HubInv, NEW q \in HubRequests, SaveEnriched(q)
    PROVE  HubInv'
<1>0. HubTypeOK /\ RequestsAreKnown
  BY DEF HubInv
<1>1. PICK o : o = hub[q].id
  OBVIOUS
<1>2. /\ HubMoves(q) /\ hub[q].pc = "found" /\ hub'[q].pc = "done" /\ o \in Objects
      /\ hub[q].kind = "enrich" /\ UNCHANGED <<crossedRefs, namedRefs>>
      /\ object' \in [Objects -> DataObjects]
      /\ \A p \in Objects : p # o => object'[p] = object[p]
      /\ object'[o].used = object[o].used /\ object'[o].exists = object[o].exists
      /\ \/ ~object[o].exists /\ rewound' = rewound /\ object'[o] = object[o]
         \/ /\ object[o].exists /\ object'[o].refs = hub[q].refs /\ object'[o].version = hub[q].version
            /\ rewound' = IF object[o].refs = hub[q].refs /\ object[o].version = hub[q].version
                          THEN rewound ELSE rewound \cup {o}
  BY <1>0, <1>1, SaveEnrichedParts
<1>3. rewound \subseteq rewound' /\ rewound' \subseteq Objects
  BY <1>0, <1>2 DEF HubTypeOK
<1>4. \A p \in Objects : p # o => GoesOnAs(q, p)
  BY <1>2 DEF GoesOnAs, IsStored, HasRef
<1>5. GoesOnAs(q, o)
  <2>1. object[o].exists => \A ref \in ToSet(hub[q].refs) : Carries(q, ref)
    BY <1>1, <1>2 DEF Carries, IsStored
  <2>2. \A ref \in Refs : HasRef(o, ref)' => HasRef(o, ref) \/ Carries(q, ref)
    BY <1>2, <2>1 DEF HasRef, IsStored
  <2>3. object'[o].exists /\ o \notin rewound' =>
            ToSet(object'[o].refs) \subseteq ToSet(object[o].refs) /\ object'[o].version = object[o].version
    BY <1>2
  <2>4. QED
    BY <1>1, <1>2, <2>2, <2>3 DEF GoesOnAs, IsStored
<1>6. EndsWell(q)
  BY <1>2, <1>3, <1>4, <1>5 DEF EndsWell
<1>7. QED
  BY <1>6, EndsWellKeeps

----------------------------------------------------------------------------
(* A request makes an object, its first step or after it has found none.     *)

(* Whoever has the refs of the new object, or is about them, is known.       *)
MakesWell(q) ==
    /\ HubMoves(q) /\ hub[q].pc \in {"new", "missing"} /\ hub'[q].pc = "done"
    /\ crossedRefs \subseteq crossedRefs' /\ crossedRefs' \subseteq Refs
    /\ namedRefs \subseteq namedRefs' /\ namedRefs' \subseteq Refs
    /\ rewound' = rewound
    /\ \E o \in Objects :
          /\ ~object[o].used /\ ~object[o].exists
          /\ object' \in [Objects -> DataObjects]
          /\ \A p \in Objects : p # o => object'[p] = object[p]
          /\ object'[o].used /\ object'[o].exists
          /\ \A ref \in Refs \ (crossedRefs' \cup namedRefs') : ref \in ToSet(object'[o].refs) =>
                /\ \A p \in Objects : ~HasRef(p, ref)
                /\ \A p \in InFlight \ {q} : ref \notin About(hub[p])

LEMMA MakeObjectParts ==
    ASSUME HubTypeOK, ObjectsAreMade, NEW refs \in Seq(Refs), NEW content \in Contents,
           MakeObject(refs, content)
    PROVE  \E o \in Objects :
              /\ ~object[o].used /\ ~object[o].exists
              /\ object' \in [Objects -> DataObjects]
              /\ \A p \in Objects : p # o => object'[p] = object[p]
              /\ object'[o].used /\ object'[o].exists /\ object'[o].refs = refs
<1>0. object \in [Objects -> DataObjects]
  BY DEF HubTypeOK, DataObjects
<1>1. PICK new : new = [exists |-> TRUE, used |-> TRUE, refs |-> refs, content |-> content, version |-> 0]
  OBVIOUS
<1>2. new \in DataObjects /\ new.used = TRUE /\ new.exists = TRUE /\ new.refs = refs
  BY <1>1 DEF DataObjects, Versions
<1>3. PICK o \in Objects : ~object[o].used /\ object' = [object EXCEPT ![o] = new]
  BY <1>1 DEF MakeObject
<1>4. object' \in [Objects -> DataObjects] /\ object'[o] = new /\ \A p \in Objects : p # o => object'[p] = object[p]
  BY <1>0, <1>2, <1>3
<1>5. ~object[o].exists
  BY <1>3 DEF ObjectsAreMade, IsStored
<1>6. QED
  BY <1>2, <1>3, <1>4, <1>5

LEMMA CreateMakesWell ==
    ASSUME HubInv, NEW q \in HubRequests, CreateObject(q)
    PROVE  MakesWell(q)
<1> DEFINE r == hub[q]
<1>0. HubTypeOK /\ RequestsAreKnown /\ ObjectsAreMade
  BY DEF HubInv
<1>1. hub \in [HubRequests -> HubRecords]
  BY <1>0 DEF HubTypeOK, HubRecords
<1>2. r.pc = "missing" /\ r.ref \in Refs /\ UNCHANGED <<crossedRefs, namedRefs, rewound>>
  BY <1>0 DEF CreateObject, RequestsAreKnown
<1>3. hub' = [hub EXCEPT ![q].pc = "done"]
  BY DEF CreateObject, Finish
<1>4. HubMoves(q) /\ hub'[q].pc = "done"
  BY <1>1, <1>3 DEF HubMoves, HubRecords
<1>5. <<r.ref>> \in Seq(Refs) /\ r.content \in Contents /\ MakeObject(<<r.ref>>, r.content)
  BY <1>1, <1>2 DEF HubRecords, CreateObject
<1>6. PICK o \in Objects :
         /\ ~object[o].used /\ ~object[o].exists
         /\ object' \in [Objects -> DataObjects]
         /\ \A p \in Objects : p # o => object'[p] = object[p]
         /\ object'[o].used /\ object'[o].exists /\ object'[o].refs = <<r.ref>>
  BY <1>0, <1>5, MakeObjectParts
<1>7. ASSUME NEW ref \in Refs \ (crossedRefs' \cup namedRefs'), ref \in ToSet(object'[o].refs)
      PROVE  /\ \A p \in Objects : ~HasRef(p, ref)
             /\ \A p \in InFlight \ {q} : ref \notin About(hub[p])
  <2>1. ref = r.ref
    BY <1>6, <1>7, RefsOfOne
  <2>2. MissingAlone(ref)
    BY <1>2, <1>7 DEF HubInv
  <2>3. QED
    BY <1>2, <2>1, <2>2 DEF MissingAlone
<1>8. crossedRefs' \subseteq Refs /\ namedRefs' \subseteq Refs
  BY <1>0, <1>2 DEF HubTypeOK
<1>9. QED
  BY <1>2, <1>4, <1>6, <1>7, <1>8 DEF MakesWell

LEMMA PostOneMakesWell ==
    ASSUME HubInv, NEW q \in HubRequests, NEW refs \in Seq(Refs), NEW content \in Given, PostOne(q, refs, content)
    PROVE  MakesWell(q)
<1>0. HubTypeOK /\ ObjectsAreMade
  BY DEF HubInv
<1>1. hub \in [HubRequests -> HubRecords]
  BY <1>0 DEF HubTypeOK, HubRecords
<1>2. /\ hub[q].pc = "new" /\ rewound' = rewound
      /\ crossedRefs' = crossedRefs \cup (ToSet(refs) \cap UNION {About(hub[p]) : p \in InFlight})
      /\ namedRefs' = namedRefs \cup {ref \in ToSet(refs) : \E o \in Objects : HasRef(o, ref)}
      /\ hub' = [hub EXCEPT ![q] = [Idle EXCEPT !.kind = "create", !.pc = "done"]]
  BY DEF PostOne
<1>3. HubMoves(q) /\ hub'[q].pc = "done"
  <2>1. <<>> \in Seq(Refs) /\ 0 \in Versions /\ "whole" \in Contents /\ "new" \in HubKinds /\ "create" \in HubKinds
    BY DEF Versions, Contents, HubKinds
  <2>2. Idle \in HubRecords
    BY <2>1 DEF Idle, HubRecords
  <2>3. PICK e : e = [Idle EXCEPT !.kind = "create", !.pc = "done"]
    OBVIOUS
  <2>4. e \in HubRecords /\ e.pc = "done"
    BY <2>1, <2>2, <2>3 DEF HubRecords
  <2>5. hub' = [hub EXCEPT ![q] = e]
    BY <1>2, <2>3
  <2>6. QED
    BY <1>1, <2>4, <2>5 DEF HubMoves
<1>4. content \in Contents /\ MakeObject(refs, content)
  BY DEF PostOne, Given, Contents
<1>5. PICK o \in Objects :
         /\ ~object[o].used /\ ~object[o].exists
         /\ object' \in [Objects -> DataObjects]
         /\ \A p \in Objects : p # o => object'[p] = object[p]
         /\ object'[o].used /\ object'[o].exists /\ object'[o].refs = refs
  BY <1>0, <1>4, MakeObjectParts
<1>6. ToSet(refs) \subseteq Refs
  BY DEF ToSet
<1>7. crossedRefs' \subseteq Refs /\ namedRefs' \subseteq Refs
  BY <1>0, <1>2, <1>6 DEF HubTypeOK
<1>8. ASSUME NEW ref \in Refs \ (crossedRefs' \cup namedRefs'), ref \in ToSet(object'[o].refs)
      PROVE  /\ \A p \in Objects : ~HasRef(p, ref)
             /\ \A p \in InFlight \ {q} : ref \notin About(hub[p])
  BY <1>2, <1>5, <1>8
<1>9. QED
  BY <1>2, <1>3, <1>5, <1>7, <1>8 DEF MakesWell

LEMMA MakesWellKeeps ==
    ASSUME HubInv, NEW q \in HubRequests, MakesWell(q)
    PROVE  HubInv'
<1>0. HubTypeOK /\ RequestsAreKnown /\ ObjectsAreMade /\ VersionsTell
  BY DEF HubInv
<1>1. /\ HubMoves(q) /\ hub[q].pc \in {"new", "missing"} /\ hub'[q].pc = "done"
      /\ crossedRefs \subseteq crossedRefs' /\ crossedRefs' \subseteq Refs
      /\ namedRefs \subseteq namedRefs' /\ namedRefs' \subseteq Refs /\ rewound' = rewound
  BY DEF MakesWell
<1>2. PICK o \in Objects :
         /\ ~object[o].used /\ ~object[o].exists
         /\ object' \in [Objects -> DataObjects]
         /\ \A p \in Objects : p # o => object'[p] = object[p]
         /\ object'[o].used /\ object'[o].exists
         /\ \A ref \in Refs \ (crossedRefs' \cup namedRefs') : ref \in ToSet(object'[o].refs) =>
               /\ \A p \in Objects : ~HasRef(p, ref)
               /\ \A p \in InFlight \ {q} : ref \notin About(hub[p])
  BY DEF MakesWell
<1>3. \A p \in HubRequests : p # q => hub'[p] = hub[p]
  BY <1>1 DEF HubMoves
<1>4. HubTypeOK'
  BY <1>0, <1>1, <1>2 DEF HubTypeOK, HubMoves, HubRecords, DataObjects
<1>5. \A p \in HubRequests : hub'[p].pc = "found" =>
          p # q /\ hub'[p] = hub[p] /\ hub[p].id \in Objects /\ hub[p].id # o /\ object'[hub[p].id] = object[hub[p].id]
  BY <1>0, <1>1, <1>2, <1>3 DEF RequestsAreKnown
<1>6. RequestsAreKnown'
  <2>1. ASSUME NEW p \in HubRequests, p # q
        PROVE  LET r == hub'[p] IN
               /\ r.pc = "found" =>
                     /\ r.id \in Objects /\ object'[r.id].used
                     /\ r.kind \in {"ref", "replace"} => r.ref \in namedRefs'
                     /\ r.kind = "post" /\ (\A i \in DOMAIN r.refs : Uid(r.refs[i]) # Uid(r.ref)) => r.ref \in namedRefs'
                     /\ r.kind \notin {"enrich", "clear", "patch"} => r.ref \in Refs
               /\ r.pc = "missing" => r.refs = <<>> /\ r.ref \in Refs
    <3>1. hub'[p] = hub[p]
      BY <1>3, <2>1
    <3>2. hub[p].pc = "found" => object'[hub[p].id].used
      BY <1>0, <1>5, <3>1 DEF RequestsAreKnown
    <3>3. QED
      BY <1>0, <1>1, <3>1, <3>2 DEF RequestsAreKnown
  <2>2. QED
    BY <1>1, <2>1 DEF RequestsAreKnown, Uid
<1>7. ObjectsAreMade'
  BY <1>0, <1>2 DEF ObjectsAreMade, IsStored
<1>8. VersionsTell'
  <2> SUFFICES ASSUME NEW p \in HubRequests, hub'[p].pc = "found", hub'[p].id \notin rewound',
                      object'[hub'[p].id].exists
               PROVE  /\ hub'[p].version <= object'[hub'[p].id].version
                      /\ hub'[p].version = object'[hub'[p].id].version /\ ~(hub'[p].kind = "enrich" /\ hub'[p].auto)
                            => ToSet(object'[hub'[p].id].refs) \subseteq ToSet(hub'[p].refs)
    BY DEF VersionsTell, IsStored
  <2>1. hub'[p] = hub[p] /\ object'[hub[p].id] = object[hub[p].id]
    BY <1>5
  <2>2. QED
    BY <1>0, <1>1, <2>1 DEF VersionsTell, IsStored
<1>9. ASSUME NEW ref \in Refs \ (crossedRefs' \cup namedRefs')
      PROVE  (OneHolder(ref) /\ MissingAlone(ref) /\ CarriersHold(ref) /\ CarriersAgree(ref))'
  <2>1. OneHolder(ref) /\ MissingAlone(ref) /\ CarriersHold(ref) /\ CarriersAgree(ref)
    BY <1>1, <1>9 DEF HubInv
  <2>2. HasRef(o, ref)' <=> ref \in ToSet(object'[o].refs)
    BY <1>2 DEF HasRef, IsStored
  <2>3. \A p \in Objects : p # o => (HasRef(p, ref)' <=> HasRef(p, ref))
    BY <1>2 DEF HasRef, IsStored
  <2>4. ~HasRef(o, ref)
    BY <1>2 DEF HasRef, IsStored
  <2>5. \A p \in HubRequests : Carries(p, ref)' => p # q /\ Carries(p, ref) /\ hub'[p] = hub[p] /\ hub[p].id # o
    BY <1>5 DEF Carries, IsStored
  <2>6. q \notin InFlight' /\ \A p \in InFlight' : p \in InFlight /\ hub'[p] = hub[p]
    BY <1>1, <1>3 DEF InFlight
  <2>7. ref \in ToSet(object'[o].refs) => /\ \A p \in Objects : ~HasRef(p, ref)
                                         /\ \A p \in InFlight \ {q} : ref \notin About(hub[p])
    BY <1>2, <1>9
  <2>8. OneHolder(ref)'
    BY <2>1, <2>2, <2>3, <2>7 DEF OneHolder
  <2>9. MissingAlone(ref)'
    <3>1. ASSUME NEW p \in HubRequests, hub'[p].pc = "missing", hub'[p].ref = ref
          PROVE  /\ \A x \in Objects : ~HasRef(x, ref)'
                 /\ \A s \in InFlight' \ {p} : ref \notin About(hub'[s])
      <4>1. p # q /\ p \in InFlight /\ hub[p].pc = "missing" /\ hub[p].ref = ref
        BY <1>1, <1>3, <3>1 DEF InFlight
      <4>2. ref \in About(hub[p])
        BY <4>1, RefsAreNames DEF About
      <4>3. ref \notin ToSet(object'[o].refs)
        BY <2>7, <4>1, <4>2
      <4>4. /\ \A x \in Objects : ~HasRef(x, ref)
            /\ \A s \in InFlight \ {p} : ref \notin About(hub[s])
        BY <2>1, <4>1 DEF MissingAlone
      <4>5. QED
        BY <2>2, <2>3, <2>6, <4>3, <4>4
    <3>2. QED
      BY <3>1 DEF MissingAlone
  <2>10. CarriersHold(ref)'
    <3>1. ASSUME NEW p \in HubRequests, Carries(p, ref)', NEW x \in Objects, HasRef(x, ref)'
          PROVE  x = hub'[p].id
      <4>1. p # q /\ Carries(p, ref) /\ hub'[p] = hub[p]
        BY <2>5, <3>1
      <4>2. ref \notin ToSet(object'[o].refs)
        BY <2>7, <4>1, CarriersAreAbout
      <4>3. HasRef(x, ref)
        BY <2>2, <2>3, <3>1, <4>2
      <4>4. QED
        BY <2>1, <4>1, <4>3 DEF CarriersHold
    <3>2. QED
      BY <3>1 DEF CarriersHold
  <2>11. CarriersAgree(ref)'
    BY <2>1, <2>5 DEF CarriersAgree
  <2>12. QED
    BY <2>8, <2>9, <2>10, <2>11
<1>10. QED
  BY <1>4, <1>6, <1>7, <1>8, <1>9 DEF HubInv

----------------------------------------------------------------------------
(* An enrichment takes the refs of a similar object, or not.                 *)

Takes(q, o, taken) ==
    /\ HubMoves(q) /\ hub[q].pc = "found" /\ hub'[q].pc = "found" /\ hub[q].kind = "enrich" /\ hub'[q].kind = "enrich"
    /\ hub'[q].id = hub[q].id /\ hub'[q].ref = hub[q].ref /\ hub'[q].version = hub[q].version
    /\ hub'[q].auto = hub[q].auto /\ hub'[q] # hub[q]
    /\ UNCHANGED <<crossedRefs, namedRefs, rewound>>
    /\ object' \in [Objects -> DataObjects]
    /\ taken \in {{}, {o}}
    /\ taken = {} => hub'[q].refs = hub[q].refs
    /\ taken # {} => hub[q].auto
    /\ \A ref \in ToSet(hub'[q].refs) : ref \in ToSet(hub[q].refs) \/ \E p \in taken : HasRef(p, ref)
    /\ \A p \in Objects : /\ object'[p].used = object[p].used
                          /\ IF p \in taken THEN ~object'[p].exists ELSE object'[p] = object[p]

LEMMA CompareParts ==
    ASSUME HubTypeOK, RequestsAreKnown, ObjectsAreMade, NEW q \in HubRequests, NEW o \in Objects, Compare(q, o)
    PROVE  \E taken : Takes(q, o, taken)
<1>0. hub \in [HubRequests -> HubRecords] /\ object \in [Objects -> DataObjects]
  BY DEF HubTypeOK, HubRecords, DataObjects
<1>1. hub[q].pc = "found" /\ hub[q].kind = "enrich" /\ UNCHANGED <<crossedRefs, namedRefs, rewound>>
  BY DEF Compare
<1>2. PICK r \in HubRecords : r = hub[q]
  BY <1>0
<1>3. r.refs \in Seq(Refs) /\ object[o].refs \in Seq(Refs) /\ r.left \in SUBSET Objects
  BY <1>0, <1>2 DEF HubRecords, DataObjects
<1>4. ASSUME NEW left \in SUBSET Objects, NEW refs \in Seq(Refs), NEW e,
             e = [r EXCEPT !.left = left, !.refs = refs], hub' = [hub EXCEPT ![q] = e]
      PROVE  /\ HubMoves(q) /\ hub'[q].pc = "found" /\ hub'[q].kind = "enrich" /\ hub'[q].refs = refs
             /\ hub'[q].id = hub[q].id /\ hub'[q].ref = hub[q].ref /\ hub'[q].version = hub[q].version
             /\ hub'[q].auto = hub[q].auto /\ hub'[q].left = left
  <2>1. /\ e \in HubRecords /\ e.pc = r.pc /\ e.kind = r.kind /\ e.refs = refs /\ e.left = left
        /\ e.id = r.id /\ e.ref = r.ref /\ e.version = r.version /\ e.auto = r.auto
    BY <1>4 DEF HubRecords
  <2>2. HubMoves(q) /\ hub'[q] = e
    BY <1>0, <1>4, <2>1 DEF HubMoves
  <2>3. QED
    BY <1>1, <1>2, <2>1, <2>2
<1>5. PICK left \in SUBSET Objects : left = r.left \ {o} /\ left # r.left
  <2>1. o \in r.left
    BY <1>2 DEF Compare
  <2>2. r.left \ {o} \in SUBSET Objects /\ r.left \ {o} # r.left
    BY <1>3, <2>1
  <2>3. QED
    BY <2>2
<1>6. CASE /\ IsStored(o) /\ r.auto
           /\ hub' = [hub EXCEPT ![q].left = @ \ {o}, ![q].refs = @ \o object[o].refs]
           /\ object' = [object EXCEPT ![o] = [Blank EXCEPT !.used = TRUE]]
  <2>1. PICK refs : refs = r.refs \o object[o].refs
    OBVIOUS
  <2>2. refs \in Seq(Refs) /\ ToSet(refs) = ToSet(r.refs) \cup ToSet(object[o].refs)
    BY <1>3, <2>1, RefsOfConcat
  <2>3. PICK e : e = [r EXCEPT !.left = left, !.refs = refs]
    OBVIOUS
  <2>4. hub' = [hub EXCEPT ![q] = e]
    BY <1>2, <1>5, <1>6, <2>1, <2>3
  <2>5. /\ HubMoves(q) /\ hub'[q].pc = "found" /\ hub'[q].kind = "enrich" /\ hub'[q].refs = refs
        /\ hub'[q].id = hub[q].id /\ hub'[q].ref = hub[q].ref /\ hub'[q].version = hub[q].version
        /\ hub'[q].auto = hub[q].auto /\ hub'[q] # hub[q]
    BY <1>2, <1>4, <1>5, <2>2, <2>3, <2>4
  <2>6. PICK new : new = [Blank EXCEPT !.used = TRUE]
    OBVIOUS
  <2>7. new \in DataObjects /\ new.used = TRUE /\ new.exists = FALSE
    <3>1. <<>> \in Seq(Refs) /\ 0 \in Versions /\ "whole" \in Contents
      BY DEF Versions, Contents
    <3>2. Blank \in DataObjects /\ Blank.exists = FALSE
      BY <3>1 DEF Blank, DataObjects
    <3>3. QED
      BY <2>6, <3>2 DEF DataObjects
  <2>8. object[o].used = TRUE
    BY <1>0, <1>6 DEF ObjectsAreMade, DataObjects
  <2>9. /\ object' \in [Objects -> DataObjects]
        /\ \A p \in Objects : /\ object'[p].used = object[p].used
                              /\ IF p \in {o} THEN ~object'[p].exists ELSE object'[p] = object[p]
    BY <1>0, <1>6, <2>6, <2>7, <2>8
  <2>10. \A ref \in ToSet(hub'[q].refs) : ref \in ToSet(hub[q].refs) \/ \E p \in {o} : HasRef(p, ref)
    BY <1>2, <1>6, <2>2, <2>5 DEF HasRef
  <2>11. Takes(q, o, {o})
    BY <1>1, <1>2, <1>6, <2>5, <2>9, <2>10 DEF Takes
  <2>12. QED
    BY <2>11
<1>7. CASE hub' = [hub EXCEPT ![q].left = @ \ {o}] /\ object' = object
  <2>1. PICK e : e = [r EXCEPT !.left = left, !.refs = r.refs]
    OBVIOUS
  <2>2. hub' = [hub EXCEPT ![q] = e]
    <3>1. e = [r EXCEPT !.left = left]
      BY <2>1 DEF HubRecords
    <3>2. QED
      BY <1>2, <1>5, <1>7, <3>1
  <2>3. /\ HubMoves(q) /\ hub'[q].pc = "found" /\ hub'[q].kind = "enrich" /\ hub'[q].refs = r.refs
        /\ hub'[q].id = hub[q].id /\ hub'[q].ref = hub[q].ref /\ hub'[q].version = hub[q].version
        /\ hub'[q].auto = hub[q].auto /\ hub'[q] # hub[q]
    BY <1>2, <1>3, <1>4, <1>5, <2>1, <2>2
  <2>4. Takes(q, o, {})
    BY <1>0, <1>1, <1>2, <1>7, <2>3 DEF Takes
  <2>5. QED
    BY <2>4
<1>8. QED
  BY <1>2, <1>6, <1>7 DEF Compare

LEMMA CompareKeeps ==
    ASSUME HubInv, NEW q \in HubRequests, NEW o \in Objects, Compare(q, o)
    PROVE  HubInv'
<1>0. HubTypeOK /\ RequestsAreKnown /\ ObjectsAreMade /\ VersionsTell
  BY DEF HubInv
<1>1. PICK taken : Takes(q, o, taken)
  BY <1>0, CompareParts
<1>2. /\ HubMoves(q) /\ hub[q].pc = "found" /\ hub'[q].pc = "found" /\ hub[q].kind = "enrich" /\ hub'[q].kind = "enrich"
      /\ hub'[q].id = hub[q].id /\ hub'[q].ref = hub[q].ref /\ hub'[q].version = hub[q].version
      /\ hub'[q].auto = hub[q].auto
      /\ crossedRefs' = crossedRefs /\ namedRefs' = namedRefs /\ rewound' = rewound
      /\ object' \in [Objects -> DataObjects] /\ taken \in {{}, {o}}
  BY <1>1 DEF Takes
<1>3. \A p \in Objects : /\ object'[p].used = object[p].used
                       /\ IF p \in taken THEN ~object'[p].exists ELSE object'[p] = object[p]
  BY <1>1 DEF Takes
<1>4. /\ taken = {} => hub'[q].refs = hub[q].refs
      /\ taken # {} => hub[q].auto
      /\ \A ref \in ToSet(hub'[q].refs) : ref \in ToSet(hub[q].refs) \/ \E p \in taken : HasRef(p, ref)
  BY <1>1 DEF Takes
<1>5. \A p \in HubRequests : p # q => hub'[p] = hub[p]
  BY <1>2 DEF HubMoves
<1>6. \A p \in HubRequests : hub'[p].id = hub[p].id /\ hub'[p].pc = hub[p].pc /\ hub'[p].kind = hub[p].kind
                             /\ hub'[p].ref = hub[p].ref /\ hub'[p].version = hub[p].version /\ hub'[p].auto = hub[p].auto
  BY <1>2, <1>5
<1>7. HubTypeOK'
  BY <1>0, <1>2 DEF HubTypeOK, HubMoves, HubRecords, DataObjects
<1>8. RequestsAreKnown'
  <2>1. ASSUME NEW p \in HubRequests
        PROVE  LET r == hub'[p] IN
               /\ r.pc = "found" =>
                     /\ r.id \in Objects /\ object'[r.id].used
                     /\ r.kind \in {"ref", "replace"} => r.ref \in namedRefs'
                     /\ r.kind = "post" /\ (\A i \in DOMAIN r.refs : Uid(r.refs[i]) # Uid(r.ref)) => r.ref \in namedRefs'
                     /\ r.kind \notin {"enrich", "clear", "patch"} => r.ref \in Refs
               /\ r.pc = "missing" => r.refs = <<>> /\ r.ref \in Refs
    <3>1. hub[p].pc = "found" => hub[p].id \in Objects /\ object'[hub[p].id].used
      BY <1>0, <1>3 DEF RequestsAreKnown
    <3>2. CASE p = q
      BY <1>2, <3>1, <3>2
    <3>3. CASE p # q
      <4>1. hub'[p] = hub[p]
        BY <1>5, <3>3
      <4>2. QED
        BY <1>0, <1>2, <3>1, <4>1 DEF RequestsAreKnown
    <3>4. QED
      BY <3>2, <3>3
  <2>2. QED
    BY <2>1 DEF RequestsAreKnown, Uid
<1>9. ObjectsAreMade'
  BY <1>0, <1>3 DEF ObjectsAreMade, IsStored
<1>10. VersionsTell'
  <2> SUFFICES ASSUME NEW p \in HubRequests, hub'[p].pc = "found", hub'[p].id \notin rewound',
                      object'[hub'[p].id].exists
               PROVE  /\ hub'[p].version <= object'[hub'[p].id].version
                      /\ hub'[p].version = object'[hub'[p].id].version /\ ~(hub'[p].kind = "enrich" /\ hub'[p].auto)
                            => ToSet(object'[hub'[p].id].refs) \subseteq ToSet(hub'[p].refs)
    BY DEF VersionsTell, IsStored
  <2>1. PICK x : x = hub[p].id
    OBVIOUS
  <2>2. x \in Objects /\ object'[x] = object[x] /\ object[x].exists /\ x \notin rewound /\ hub[p].pc = "found"
    BY <1>0, <1>2, <1>3, <1>6, <2>1 DEF RequestsAreKnown
  <2>3. /\ hub[p].version <= object[x].version
        /\ hub[p].version = object[x].version /\ ~(hub[p].kind = "enrich" /\ hub[p].auto)
              => ToSet(object[x].refs) \subseteq ToSet(hub[p].refs)
    BY <1>0, <2>1, <2>2 DEF VersionsTell, IsStored
  <2>4. hub'[p].refs = hub[p].refs \/ (hub[p].kind = "enrich" /\ hub[p].auto)
    BY <1>2, <1>4, <1>5
  <2>5. QED
    BY <1>6, <2>1, <2>2, <2>3, <2>4
<1>11. ASSUME NEW ref \in Refs \ (crossedRefs' \cup namedRefs')
       PROVE  (OneHolder(ref) /\ MissingAlone(ref) /\ CarriersHold(ref) /\ CarriersAgree(ref))'
  <2>1. OneHolder(ref) /\ MissingAlone(ref) /\ CarriersHold(ref) /\ CarriersAgree(ref)
    BY <1>2, <1>11 DEF HubInv
  <2>2. \A p \in Objects : HasRef(p, ref)' => p \notin taken /\ HasRef(p, ref)
    BY <1>3 DEF HasRef, IsStored
  <2>3. \A p \in HubRequests : Carries(p, ref)' =>
            /\ hub'[p].id = hub[p].id /\ hub[p].id \notin taken
            /\ Carries(p, ref) \/ (p = q /\ \E x \in taken : HasRef(x, ref))
    <3>1. ASSUME NEW p \in HubRequests, Carries(p, ref)'
          PROVE  /\ hub'[p].id = hub[p].id /\ hub[p].id \notin taken
                 /\ Carries(p, ref) \/ (p = q /\ \E x \in taken : HasRef(x, ref))
      <4>1. PICK x : x = hub[p].id
        OBVIOUS
      <4>2. hub[p].pc = "found" /\ hub[p].kind \in {"delete", "enrich"} /\ ref \in ToSet(hub'[p].refs)
        BY <1>6, <3>1 DEF Carries
      <4>3. x \in Objects /\ object'[x].exists
        BY <1>0, <1>6, <3>1, <4>1, <4>2 DEF RequestsAreKnown, Carries, IsStored
      <4>4. x \notin taken /\ IsStored(x)
        BY <1>3, <4>3 DEF IsStored
      <4>5. ref \in ToSet(hub[p].refs) \/ (p = q /\ \E y \in taken : HasRef(y, ref))
        BY <1>4, <1>5, <4>2
      <4>6. QED
        BY <1>6, <4>1, <4>2, <4>4, <4>5 DEF Carries
    <3>2. QED
      BY <3>1
  <2>4. \A x \in taken : x \in Objects
    BY <1>2
  <2>5. OneHolder(ref)'
    BY <2>1, <2>2 DEF OneHolder
  <2>6. MissingAlone(ref)'
    <3>1. ASSUME NEW p \in HubRequests, hub'[p].pc = "missing", hub'[p].ref = ref
          PROVE  /\ \A x \in Objects : ~HasRef(x, ref)'
                 /\ \A s \in InFlight' \ {p} : ref \notin About(hub'[s])
      <4>1. p # q /\ hub[p].pc = "missing" /\ hub[p].ref = ref
        BY <1>2, <1>6, <3>1
      <4>2. /\ \A x \in Objects : ~HasRef(x, ref)
            /\ \A s \in InFlight \ {p} : ref \notin About(hub[s])
        BY <2>1, <4>1 DEF MissingAlone
      <4>3. ASSUME NEW s \in InFlight' \ {p} PROVE ref \notin About(hub'[s])
        <5>1. s \in InFlight \ {p}
          BY <1>6, <4>3 DEF InFlight
        <5>2. s \in HubRequests /\ ref \notin ToSet(hub[s].refs) /\ (hub[s].ref # NoRef => hub[s].ref # ref)
          BY <4>2, <5>1 DEF About, InFlight
        <5>3. ref \notin ToSet(hub'[s].refs)
          BY <1>4, <1>5, <2>4, <4>2, <5>2
        <5>4. hub'[s].ref = hub[s].ref
          BY <1>6, <5>2
        <5>5. QED
          BY <5>2, <5>3, <5>4 DEF About
      <4>4. QED
        BY <2>2, <4>2, <4>3
    <3>2. QED
      BY <3>1 DEF MissingAlone
  <2>7. CarriersHold(ref)'
    <3>1. ASSUME NEW p \in HubRequests, Carries(p, ref)', NEW x \in Objects, HasRef(x, ref)'
          PROVE  x = hub'[p].id
      <4>1. HasRef(x, ref) /\ x \notin taken /\ hub'[p].id = hub[p].id
        BY <2>2, <2>3, <3>1
      <4>2. CASE Carries(p, ref)
        BY <2>1, <4>1, <4>2 DEF CarriersHold
      <4>3. CASE \E y \in taken : HasRef(y, ref)
        BY <2>1, <2>4, <4>1, <4>3 DEF OneHolder
      <4>4. QED
        BY <2>3, <3>1, <4>2, <4>3
    <3>2. QED
      BY <3>1 DEF CarriersHold
  <2>8. CarriersAgree(ref)'
    <3>1. ASSUME NEW p \in HubRequests, NEW s \in HubRequests, Carries(p, ref)', Carries(s, ref)', p # s
          PROVE  hub'[p].id = hub'[s].id
      <4>1. ASSUME \E x \in taken : HasRef(x, ref), NEW t \in HubRequests, Carries(t, ref)', t # q PROVE FALSE
        <5>1. PICK x \in taken : HasRef(x, ref)
          BY <4>1
        <5>2. Carries(t, ref) /\ hub[t].id \notin taken
          BY <2>3, <4>1
        <5>3. x = hub[t].id
          BY <2>1, <2>4, <5>1, <5>2 DEF CarriersHold
        <5>4. QED
          BY <5>1, <5>2, <5>3
      <4>2. Carries(p, ref) /\ Carries(s, ref)
        BY <2>3, <3>1, <4>1
      <4>3. QED
        BY <2>1, <2>3, <3>1, <4>2 DEF CarriersAgree
    <3>2. QED
      BY <3>1 DEF CarriersAgree
  <2>9. QED
    BY <2>5, <2>6, <2>7, <2>8
<1>12. QED
  BY <1>7, <1>8, <1>9, <1>10, <1>11 DEF HubInv

----------------------------------------------------------------------------

StepOfRequest(q) ==
    \/ \E ref \in Refs :
          \/ \E oihUid \in Objects \cup {NoObject} : PostByRecordId(q, ref, oihUid)
          \/ \E content \in Given : RecordEvent(q, ref, content)
          \/ \E o \in Objects : RefEvent(q, ref, o) \/ DeleteRecordId(q, ref, o)
          \/ \E o \in Objects, content \in Given : ReplaceRefs(q, ref, o, content)
    \/ \E o \in Objects, content \in Given : PutOne(q, o, content) \/ PatchOne(q, o, content)
    \/ \E o \in Objects, auto \in AutoDeletes : ApplyFunctions(q, o, auto)
StepOfPost(q) == \E refs \in Seq(Refs), content \in Given : PostOne(q, refs, content)

LEMMA RequestReadsWell ==
    ASSUME HubTypeOK, NEW q \in HubRequests, StepOfRequest(q)
    PROVE  ReadsWell(q)
<1>1. "whole" \in Given
  BY DEF Given
<1>2. ASSUME NEW ref \in Refs, NEW oihUid \in Objects \cup {NoObject}, PostByRecordId(q, ref, oihUid)
      PROVE  ReadsWell(q)
  BY <1>2, PostReadsWell
<1>3. ASSUME NEW ref \in Refs, NEW content \in Given, RecordEvent(q, ref, content) PROVE ReadsWell(q)
  BY <1>3, EventReadsWell
<1>4. ASSUME NEW ref \in Refs, NEW o \in Objects, RefEvent(q, ref, o) \/ DeleteRecordId(q, ref, o) PROVE ReadsWell(q)
  BY <1>1, <1>4, NamedReadsWell
<1>5. ASSUME NEW ref \in Refs, NEW o \in Objects, NEW content \in Given, ReplaceRefs(q, ref, o, content) PROVE ReadsWell(q)
  BY <1>5, NamedReadsWell
<1>a. ASSUME NEW o \in Objects, NEW content \in Given, PutOne(q, o, content) \/ PatchOne(q, o, content)
      PROVE  ReadsWell(q)
  BY <1>a, PlainReadsWell
<1>6. ASSUME NEW o \in Objects, NEW auto \in AutoDeletes, ApplyFunctions(q, o, auto) PROVE ReadsWell(q)
  BY <1>6, EnrichReadsWell
<1>7. QED
  BY <1>2, <1>3, <1>4, <1>5, <1>a, <1>6 DEF StepOfRequest

LEMMA HubSteps ==
    ASSUME [HubNext]_HubVars
    PROVE  \/ UNCHANGED HubVars
           \/ \E q \in HubRequests :
                 \/ StepOfRequest(q) \/ StepOfPost(q) \/ SaveFound(q) \/ CreateObject(q) \/ SaveEnriched(q)
                 \/ \E o \in Objects : Compare(q, o)
<1>1. CASE HubNext
  <2>1. PICK q \in HubRequests :
          \/ \E ref \in Refs :
              \/ \E oihUid \in Objects \cup {NoObject} : PostByRecordId(q, ref, oihUid)
              \/ \E content \in Given : RecordEvent(q, ref, content)
              \/ \E o \in Objects : RefEvent(q, ref, o) \/ DeleteRecordId(q, ref, o)
              \/ \E o \in Objects, content \in Given : ReplaceRefs(q, ref, o, content)
          \/ \E o \in Objects, content \in Given : PutOne(q, o, content) \/ PatchOne(q, o, content)
          \/ \E refs \in {<<>>} \cup {<<ref>> : ref \in Refs}, content \in Given : PostOne(q, refs, content)
          \/ \E o \in Objects : Compare(q, o) \/ \E auto \in AutoDeletes : ApplyFunctions(q, o, auto)
          \/ SaveFound(q) \/ CreateObject(q) \/ SaveEnriched(q)
    BY <1>1 DEF HubNext
  <2>2. ASSUME NEW refs \in {<<>>} \cup {<<ref>> : ref \in Refs}, NEW content \in Given, PostOne(q, refs, content)
        PROVE  StepOfPost(q)
    <3>1. \A ref \in Refs : <<ref>> \in Seq(Refs)
      OBVIOUS
    <3>2. <<>> \in Seq(Refs)
      OBVIOUS
    <3>3. refs \in Seq(Refs)
      BY <3>1, <3>2
    <3>4. QED
      BY <2>2, <3>3 DEF StepOfPost
  <2>3. \/ StepOfRequest(q) \/ StepOfPost(q) \/ SaveFound(q) \/ CreateObject(q) \/ SaveEnriched(q)
        \/ \E o \in Objects : Compare(q, o)
    BY <2>1, <2>2 DEF StepOfRequest
  <2>4. QED
    BY <2>3
<1>2. QED
  BY <1>1

LEMMA HubKeeps == HubInv /\ [HubNext]_HubVars => HubInv'
<1> SUFFICES ASSUME HubInv, [HubNext]_HubVars PROVE HubInv'
  OBVIOUS
<1>1. ASSUME NEW q \in HubRequests, StepOfRequest(q) PROVE HubInv'
  BY <1>1, RequestReadsWell, ReadsWellKeeps DEF HubInv
<1>2. ASSUME NEW q \in HubRequests, SaveFound(q) \/ CreateObject(q) \/ SaveEnriched(q) PROVE HubInv'
  BY <1>2, SaveFoundKeeps, CreateMakesWell, MakesWellKeeps, SaveEnrichedKeeps
<1>a. ASSUME NEW q \in HubRequests, StepOfPost(q) PROVE HubInv'
  BY <1>a, PostOneMakesWell, MakesWellKeeps DEF StepOfPost
<1>3. ASSUME NEW q \in HubRequests, NEW o \in Objects, Compare(q, o) PROVE HubInv'
  BY <1>3, CompareKeeps
<1>4. CASE UNCHANGED HubVars
  <2>1. HubTypeOK' /\ RequestsAreKnown' /\ ObjectsAreMade'
    BY <1>4 DEF HubInv, HubVars, HubTypeOK, RequestsAreKnown, ObjectsAreMade, IsStored
  <2>2. VersionsTell'
    BY <1>4, Zenon DEF HubInv, HubVars, VersionsTell, IsStored
  <2>3. ASSUME NEW ref \in Refs \ (crossedRefs' \cup namedRefs')
        PROVE  (OneHolder(ref) /\ MissingAlone(ref) /\ CarriersHold(ref) /\ CarriersAgree(ref))'
    BY <1>4, <2>3 DEF HubInv, HubVars, OneHolder, MissingAlone, CarriersHold, CarriersAgree, HasRef, IsStored,
                     Carries, InFlight, About
  <2>4. QED
    BY <2>1, <2>2, <2>3 DEF HubInv
<1>5. QED
  BY <1>1, <1>2, <1>a, <1>3, <1>4, HubSteps

LEMMA HubInvHolds == HubSpec => []HubInv
<1>1. QED
  BY HubBegins, HubKeeps, PTL DEF HubSpec

(* The types of the data hub.                                               *)
THEOREM HubTypesHold == HubSpec => []HubTypeOK
<1>1. HubInv => HubTypeOK
  BY DEF HubInv
<1>2. QED
  BY <1>1, HubInvHolds, PTL

(* However many requests link, change, enrich and remove objects, a record   *)
(* of an application has one object, unless two requests about it           *)
(* overlapped or one put its ref into an object without looking who had it. *)
THEOREM OneObjectPerRecordHolds == HubSpec => []OneObjectPerRecord
<1>1. HubInv => OneObjectPerRecord
  BY DEF HubInv, OneObjectPerRecord, OneHolder
<1>2. QED
  BY <1>1, HubInvHolds, PTL

(* What a removal drops is named by it, unless it read the object before it  *)
(* was changed.                                                             *)
LEMMA RemovalDropsItsRef ==
    ASSUME NEW r, NEW ref, r.refs \in Seq(Refs), ref \in ToSet(r.refs),
           ref \notin ToSet(RemoveFirst(r.refs, r.ref))
    PROVE  r.ref = ref
BY OthersRemain

LEMMA SaveFoundKeepsRefs ==
    ASSUME HubInv, NEW q \in HubRequests, SaveFound(q), NEW o \in Objects, NEW ref \in Refs,
           HasRef(o, ref), ~HasRef(o, ref)'
    PROVE  /\ hub'[q] # hub[q]
           /\ \/ hub[q].kind = "delete" /\ hub[q].ref = ref
              \/ hub[q].kind = "replace" /\ hub[q].version = object[o].version
              \/ hub[q].kind = "clear" /\ hub[q].id = o
              \/ hub[q].kind = "delete" /\ (hub[q].version # object[o].version \/ o \in rewound)
<1>0. HubTypeOK /\ RequestsAreKnown /\ VersionsTell
  BY DEF HubInv
<1>1. PICK x : x = hub[q].id
  OBVIOUS
<1>2. SavesAt(q, x) /\ Saved(hub[q], object[x], object'[x])
  BY <1>0, <1>1, SaveFoundParts
<1>3. hub'[q] # hub[q] /\ hub[q].pc = "found"
  BY <1>2 DEF SavesAt
<1>4. ref \in ToSet(object[o].refs) /\ object[o].exists /\ ~(object'[o].exists /\ ref \in ToSet(object'[o].refs))
  BY DEF HasRef, IsStored
<1>5. o = x
  BY <1>2, <1>4 DEF SavesAt
<1>6. PICK r \in HubRecords : r = hub[q]
  BY <1>0 DEF HubTypeOK, HubRecords
<1>7. PICK d \in DataObjects : d = object[o]
  BY <1>0 DEF HubTypeOK, DataObjects
<1>8. r.refs \in Seq(Refs) /\ d.refs \in Seq(Refs)
  BY DEF HubRecords, DataObjects
<1>9. PICK new : new = object'[o]
  OBVIOUS
<1>10. Saved(r, d, new) /\ ref \in ToSet(d.refs) /\ d.exists /\ ~(new.exists /\ ref \in ToSet(new.refs))
  BY <1>2, <1>4, <1>5, <1>6, <1>7, <1>9
<1>11. r.kind = "delete" /\ r.version = d.version /\ o \notin rewound => ToSet(d.refs) \subseteq ToSet(r.refs)
  BY <1>0, <1>1, <1>3, <1>5, <1>6, <1>7, <1>10 DEF VersionsTell, IsStored
<1>12. CASE /\ r.ref \in namedRefs /\ new = Push(d, r.ref)
  <2>1. r.ref \in Refs
    BY <1>0, <1>12 DEF HubTypeOK
  <2>2. new.exists = d.exists /\ new.refs = Append(d.refs, r.ref)
    BY <1>12 DEF Push, DataObjects
  <2>3. ToSet(new.refs) = ToSet(d.refs) \cup {r.ref}
    BY <1>8, <2>1, <2>2, RefsOfAppend
  <2>4. QED
    BY <1>10, <2>2, <2>3
<1>13. CASE new = [d EXCEPT !.content = r.content]
  <2>1. new.exists = d.exists /\ new.refs = d.refs
    BY <1>13 DEF DataObjects
  <2>2. QED
    BY <1>10, <2>1
<1>14. CASE /\ r.kind = "delete"
            /\ new = [d EXCEPT !.refs = RemoveFirst(r.refs, r.ref), !.version = @ + 1]
  <2>1. new.exists = d.exists /\ new.refs = RemoveFirst(r.refs, r.ref)
    BY <1>14 DEF DataObjects
  <2>2. ref \in ToSet(r.refs) => r.ref = ref
    BY <1>8, <1>10, <2>1, RemovalDropsItsRef
  <2>3. QED
    BY <1>3, <1>6, <1>7, <1>10, <1>11, <1>14, <2>2
<1>15. CASE r.kind = "delete" /\ RemoveFirst(r.refs, r.ref) = <<>>
  <2>1. ref \notin ToSet(RemoveFirst(r.refs, r.ref))
    BY <1>15, RefsOfEmpty
  <2>2. ref \in ToSet(r.refs) => r.ref = ref
    BY <1>8, <1>10, <2>1, RemovalDropsItsRef
  <2>3. QED
    BY <1>3, <1>6, <1>7, <1>10, <1>11, <1>15, <2>2
<1>16. CASE r.kind = "replace" /\ d.version = r.version
  BY <1>3, <1>6, <1>7, <1>16
<1>17. CASE new = d
  BY <1>10, <1>17
<1>18. CASE r.kind = "clear"
  BY <1>1, <1>3, <1>5, <1>6, <1>18
<1>19. QED
  BY <1>10, <1>12, <1>13, <1>14, <1>15, <1>16, <1>17, <1>18 DEF Saved

LEMMA SaveEnrichedKeepsRefs ==
    ASSUME HubInv, NEW q \in HubRequests, SaveEnriched(q), NEW o \in Objects, NEW ref \in Refs,
           HasRef(o, ref), ~HasRef(o, ref)'
    PROVE  /\ hub'[q] # hub[q] /\ hub[q].kind = "enrich"
           /\ hub[q].auto \/ hub[q].version # object[o].version \/ o \in rewound
<1>0. HubTypeOK /\ RequestsAreKnown /\ VersionsTell
  BY DEF HubInv
<1>1. PICK x : x = hub[q].id
  OBVIOUS
<1>2. /\ hub[q].pc = "found" /\ hub'[q].pc = "done" /\ hub[q].kind = "enrich"
      /\ \A p \in Objects : p # x => object'[p] = object[p]
      /\ object'[x].exists = object[x].exists
      /\ object'[x] = object[x] \/ object'[x].refs = hub[q].refs
  BY <1>0, <1>1, SaveEnrichedParts
<1>3. ref \in ToSet(object[o].refs) /\ object[o].exists /\ ~(object'[o].exists /\ ref \in ToSet(object'[o].refs))
  BY DEF HasRef, IsStored
<1>4. o = x /\ object'[o].refs = hub[q].refs
  BY <1>2, <1>3
<1>5. o \notin rewound /\ hub[q].version = object[o].version /\ ~hub[q].auto => ToSet(object[o].refs) \subseteq ToSet(hub[q].refs)
  BY <1>0, <1>1, <1>2, <1>3, <1>4 DEF VersionsTell, IsStored
<1>6. QED
  BY <1>2, <1>3, <1>4, <1>5

(* A ref leaves its object only by the requests that may take it, or by one  *)
(* that read the object before it was changed or could not tell it was.     *)
THEOREM RefsAreKeptHolds == HubSpec => RefsAreKept
<1>1. ASSUME HubInv, [HubNext]_HubVars, NEW o \in Objects, NEW ref \in Refs, HasRef(o, ref), ~HasRef(o, ref)'
      PROVE  \E q \in HubRequests :
                /\ hub'[q] # hub[q]
                /\ \/ hub[q].kind = "delete" /\ hub[q].ref = ref
                   \/ hub[q].kind = "replace" /\ hub[q].version = object[o].version
                   \/ hub[q].kind = "clear" /\ hub[q].id = o
                   \/ hub[q].kind = "enrich" /\ hub[q].auto
                   \/ /\ hub[q].kind \in {"delete", "enrich"}
                      /\ hub[q].version # object[o].version \/ o \in rewound
  <2>0. HubTypeOK /\ RequestsAreKnown /\ ObjectsAreMade
    BY <1>1 DEF HubInv
  <2>1. object'[o] # object[o] /\ object[o].exists
    BY <1>1 DEF HasRef, IsStored
  <2>2. ASSUME NEW q \in HubRequests, StepOfRequest(q) PROVE FALSE
    BY <2>0, <2>1, <2>2, RequestReadsWell DEF ReadsWell
  <2>3. ASSUME NEW q \in HubRequests, CreateObject(q) \/ StepOfPost(q) PROVE FALSE
    <3>1. MakesWell(q)
      BY <1>1, <2>3, CreateMakesWell, PostOneMakesWell DEF StepOfPost
    <3>2. QED
      BY <2>1, <3>1 DEF MakesWell
  <2>4. ASSUME NEW q \in HubRequests, NEW x \in Objects, Compare(q, x)
        PROVE  hub'[q] # hub[q] /\ hub[q].kind = "enrich" /\ hub[q].auto
    <3>1. PICK taken : Takes(q, x, taken)
      BY <2>0, <2>4, CompareParts
    <3>2. o \in taken
      BY <2>1, <3>1 DEF Takes
    <3>3. QED
      BY <3>1, <3>2 DEF Takes
  <2>5. ASSUME NEW q \in HubRequests, SaveFound(q)
        PROVE  /\ hub'[q] # hub[q]
               /\ \/ hub[q].kind = "delete" /\ hub[q].ref = ref
                  \/ hub[q].kind = "replace" /\ hub[q].version = object[o].version
                  \/ hub[q].kind = "clear" /\ hub[q].id = o
                  \/ hub[q].kind = "delete" /\ (hub[q].version # object[o].version \/ o \in rewound)
    BY <1>1, <2>5, SaveFoundKeepsRefs
  <2>6. ASSUME NEW q \in HubRequests, SaveEnriched(q)
        PROVE  /\ hub'[q] # hub[q] /\ hub[q].kind = "enrich"
               /\ hub[q].auto \/ hub[q].version # object[o].version \/ o \in rewound
    BY <1>1, <2>6, SaveEnrichedKeepsRefs
  <2>7. ~UNCHANGED HubVars
    BY <2>1 DEF HubVars
  <2>8. QED
    BY <1>1, <2>2, <2>3, <2>4, <2>5, <2>6, <2>7, HubSteps
<1>2. HubInv /\ [HubNext]_HubVars =>
          \A o \in Objects, ref \in Refs :
              HasRef(o, ref) /\ ~HasRef(o, ref)' =>
                  \E q \in HubRequests :
                      /\ hub'[q] # hub[q]
                      /\ \/ hub[q].kind = "delete" /\ hub[q].ref = ref
                         \/ hub[q].kind = "replace" /\ hub[q].version = object[o].version
                         \/ hub[q].kind = "clear" /\ hub[q].id = o
                         \/ hub[q].kind = "enrich" /\ hub[q].auto
                         \/ /\ hub[q].kind \in {"delete", "enrich"}
                            /\ hub[q].version # object[o].version \/ o \in rewound
  BY <1>1
<1>3. QED
  BY <1>2, HubInvHolds, PTL DEF RefsAreKept, HubSpec

----------------------------------------------------------------------------
(* FlowEditing.  When nothing is under way for a flow, the orchestrators run*)
(* it as its document says.                                                 *)

(* The events under way of a flow.                                          *)
EventsOf(f, s) == {e \in ToSet(s) : e.flow = f}
AtMostOne(f, s) == \A i, j \in DOMAIN s : s[i].flow = f /\ s[j].flow = f => i = j

Concerned(q, f) == UnderWay(q) /\ Concerns(q, f)
Publishes(q, f) == edit[q].pc = "publish" /\ edit[q].flow = f

(* The orchestrators run the flow as its document says.                      *)
Agree(f) ==
    /\ IF doc[f].exists /\ doc[f].status = "active"
       THEN fleet[f] = doc[f].graph
       ELSE fleet[f] = "none" \/ f \in declared
    /\ doc[f].status # "starting"

(* Of an undisturbed flow one thing is under way: a request, or the event it *)
(* led to, while the removal of a user may still be about other flows.      *)
Alone(f) ==
    /\ \A p, q \in Edits : Concerned(p, f) /\ Concerned(q, f) => p = q
    /\ AtMostOne(f, line)
    /\ \A q \in Edits : Concerned(q, f) /\ EventsOf(f, line) # {} =>
          edit[q].kind = "anonymise" /\ edit[q].pc = "orphans" /\ f \notin edit[q].left

(* What an event under way tells of the document and the orchestrators.      *)
EventTells(f) ==
    \A e \in EventsOf(f, line) :
        /\ doc[f].exists
        /\ e.kind \in {"starting", "started", "failed"} => doc[f].status = "starting" /\ e.graph = doc[f].graph
        /\ e.kind \in {"started", "failed"} => fleet[f] = e.graph
        /\ e.kind \in {"stopping", "stopped"} => doc[f].status \in {"stopping", "active"}
        /\ e.kind \in {"stopping", "stopped"} /\ doc[f].status = "active" => ~doc[f].owned
        /\ e.kind = "stopping" /\ doc[f].status = "active" => fleet[f] # "none"
        /\ e.kind = "stopped" => fleet[f] = "none"

(* What a request that has read a flow, or has it to stop, tells.            *)
RequestAgrees(q, f) ==
    /\ edit[q].flow = f /\ edit[q].kind # "anonymise" /\ edit[q].pc = "read" =>
          /\ edit[q].seen = doc[f] /\ doc[f].exists
          /\ edit[q].kind \in {"patch", "delete"} => doc[f].status = "inactive"
    /\ Publishes(q, f) =>
          /\ doc[f].exists /\ edit[q].seen.graph = doc[f].graph
          /\ doc[f].status = IF edit[q].kind = "start" THEN "starting" ELSE "stopping"
    /\ edit[q].pc = "orphans" /\ f \in edit[q].left =>
          doc[f].exists /\ doc[f].status = "active" /\ ~doc[f].owned
RequestTells(f) == \A q \in Edits : RequestAgrees(q, f)

QuietTells(f) == EventsOf(f, line) = {} /\ (\A q \in Edits : ~Publishes(q, f)) => Agree(f)

FlowInv(f) == Alone(f) /\ EventTells(f) /\ RequestTells(f) /\ QuietTells(f)

(* Of every flow and request, disturbed or not.                             *)
DocIsSound(f) == doc[f].exists => doc[f].graph # "none" /\ doc[f].used
RequestIsSound(q) ==
    /\ edit[q].pc = "publish" => edit[q].kind \in {"start", "stop"}
    /\ edit[q].pc = "orphans" => edit[q].kind = "anonymise"
    /\ edit[q].pc = "read" /\ edit[q].kind # "anonymise" => edit[q].seen.exists /\ edit[q].seen.used

EditInv ==
    /\ EditTypeOK /\ (\A f \in EditedFlows : DocIsSound(f)) /\ (\A q \in Edits : RequestIsSound(q))
    /\ \A f \in EditedFlows \ disturbed : FlowInv(f)

----------------------------------------------------------------------------
(* What is left of a sequence without its i-th element.                     *)
LEMMA RemoveAtLeaves ==
    ASSUME NEW S, NEW s \in Seq(S), NEW i \in 1 .. Len(s)
    PROVE  /\ RemoveAt(s, i) \in Seq(S)
           /\ Len(RemoveAt(s, i)) = Len(s) - 1
           /\ \A k \in 1 .. Len(s) - 1 : RemoveAt(s, i)[k] = IF k < i THEN s[k] ELSE s[k + 1]
<1> DEFINE a == SubSeq(s, 1, i - 1)
           b == SubSeq(s, i + 1, Len(s))
<1>1. a \in Seq(S) /\ Len(a) = i - 1 /\ \A k \in 1 .. i - 1 : a[k] = s[k]
  OBVIOUS
<1>2. b \in Seq(S) /\ Len(b) = Len(s) - i /\ \A k \in 1 .. Len(s) - i : b[k] = s[i + k]
  OBVIOUS
<1>3. RemoveAt(s, i) = a \o b
  BY DEF RemoveAt
<1> HIDE DEF a, b
<1>4. /\ a \o b \in Seq(S) /\ Len(a \o b) = Len(s) - 1
      /\ \A k \in 1 .. Len(s) - 1 : (a \o b)[k] = IF k < i THEN a[k] ELSE b[k - i + 1]
  <2>1. /\ a \o b \in Seq(S) /\ Len(a \o b) = Len(a) + Len(b)
        /\ \A k \in 1 .. Len(a) + Len(b) : (a \o b)[k] = IF k <= Len(a) THEN a[k] ELSE b[k - Len(a)]
    BY <1>1, <1>2, ConcatProperties
  <2>2. Len(a) + Len(b) = Len(s) - 1
    BY <1>1, <1>2
  <2>3. \A k \in 1 .. Len(s) - 1 : (k <= Len(a) <=> k < i) /\ k - Len(a) = k - i + 1
    BY <1>1
  <2>4. QED
    BY <2>1, <2>2, <2>3
<1>5. \A k \in 1 .. Len(s) - 1 : k >= i => b[k - i + 1] = s[k + 1]
  BY <1>2
<1>6. QED
  BY <1>1, <1>3, <1>4, <1>5


LEMMA EventTaken ==
    ASSUME NEW s \in Seq(LifeEvents), NEW i \in DOMAIN s, NEW t, t = RemoveAt(s, i)
    PROVE  /\ t \in Seq(LifeEvents)
           /\ AtMostOne(s[i].flow, s) => EventsOf(s[i].flow, t) = {}
           /\ \A f : AtMostOne(f, s) => AtMostOne(f, t)
           /\ \A f : f # s[i].flow => EventsOf(f, t) = EventsOf(f, s)
<1>1. DOMAIN s = 1 .. Len(s) /\ Len(s) \in Nat
  OBVIOUS
<1>2. /\ t \in Seq(LifeEvents) /\ Len(t) = Len(s) - 1
      /\ \A k \in 1 .. Len(s) - 1 : t[k] = IF k < i THEN s[k] ELSE s[k + 1]
  BY <1>1, RemoveAtLeaves
<1>3. DOMAIN t = 1 .. Len(s) - 1
  BY <1>2
<1> DEFINE at(k) == IF k < i THEN k ELSE k + 1
<1>4. \A k \in DOMAIN t : at(k) \in DOMAIN s /\ at(k) # i /\ t[k] = s[at(k)]
  BY <1>1, <1>2, <1>3
<1>5. \A k, l \in DOMAIN t : at(k) = at(l) => k = l
  BY <1>1, <1>3
<1>6. \A j \in DOMAIN s : j # i => \E k \in DOMAIN t : at(k) = j
  <2>1. ASSUME NEW j \in DOMAIN s, j # i PROVE \E k \in DOMAIN t : at(k) = j
    <3>1. CASE j < i
      <4>1. j \in DOMAIN t /\ at(j) = j
        BY <1>1, <1>3, <3>1
      <4>2. QED
        BY <4>1
    <3>2. CASE j > i
      <4>1. j - 1 \in DOMAIN t /\ at(j - 1) = j
        BY <1>1, <1>3, <3>2
      <4>2. QED
        BY <4>1
    <3>3. QED
      BY <1>1, <2>1, <3>1, <3>2
  <2>2. QED
    BY <2>1
<1> HIDE DEF at
<1>7. ASSUME AtMostOne(s[i].flow, s) PROVE EventsOf(s[i].flow, t) = {}
  BY <1>4, <1>7 DEF AtMostOne, EventsOf, ToSet
<1>8. ASSUME NEW f, AtMostOne(f, s) PROVE AtMostOne(f, t)
  BY <1>4, <1>5, <1>8 DEF AtMostOne
<1>9. ASSUME NEW f, f # s[i].flow PROVE EventsOf(f, t) = EventsOf(f, s)
  <2>1. \A e \in EventsOf(f, t) : e \in EventsOf(f, s)
    BY <1>4 DEF EventsOf, ToSet
  <2>2. ASSUME NEW e \in EventsOf(f, s) PROVE e \in EventsOf(f, t)
    <3>1. PICK j \in DOMAIN s : s[j] = e
      BY DEF EventsOf, ToSet
    <3>2. j # i
      BY <1>9, <2>2, <3>1 DEF EventsOf
    <3>3. PICK k \in DOMAIN t : at(k) = j
      BY <1>6, <3>1, <3>2
    <3>4. t[k] = e
      BY <1>4, <3>1, <3>3
    <3>5. QED
      BY <2>2, <3>3, <3>4 DEF EventsOf, ToSet
  <2>3. QED
    BY <2>1, <2>2
<1>10. QED
  BY <1>2, <1>7, <1>8, <1>9

LEMMA EventAdded ==
    ASSUME NEW s \in Seq(LifeEvents), NEW e \in LifeEvents, NEW t, t = Append(s, e)
    PROVE  /\ t \in Seq(LifeEvents)
           /\ EventsOf(e.flow, s) = {} => EventsOf(e.flow, t) = {e} /\ AtMostOne(e.flow, t)
           /\ \A f : f # e.flow => EventsOf(f, t) = EventsOf(f, s) /\ (AtMostOne(f, s) => AtMostOne(f, t))
<1>1. /\ t \in Seq(LifeEvents) /\ Len(t) = Len(s) + 1 /\ Len(s) \in Nat
      /\ \A k \in 1 .. Len(s) : t[k] = s[k]
      /\ t[Len(s) + 1] = e
  OBVIOUS
<1>2. DOMAIN s = 1 .. Len(s) /\ DOMAIN t = 1 .. Len(s) + 1
  BY <1>1
<1>3. \A k \in DOMAIN t : (k \in DOMAIN s /\ t[k] = s[k]) \/ (k = Len(s) + 1 /\ t[k] = e)
  BY <1>1, <1>2
<1>4. \A k \in DOMAIN s : k \in DOMAIN t /\ t[k] = s[k]
  BY <1>1, <1>2
<1>5. ToSet(t) = ToSet(s) \cup {e}
  BY <1>1, <1>2, <1>3, <1>4 DEF ToSet
<1>6. EventsOf(e.flow, s) = {} => \A k \in DOMAIN s : s[k].flow # e.flow
  BY DEF EventsOf, ToSet
<1>7. EventsOf(e.flow, s) = {} => EventsOf(e.flow, t) = {e}
  BY <1>5 DEF EventsOf
<1>8. EventsOf(e.flow, s) = {} => AtMostOne(e.flow, t)
  BY <1>3, <1>6 DEF AtMostOne
<1>9. ASSUME NEW f, f # e.flow PROVE EventsOf(f, t) = EventsOf(f, s) /\ (AtMostOne(f, s) => AtMostOne(f, t))
  BY <1>3, <1>5, <1>9 DEF AtMostOne, EventsOf
<1>10. QED
  BY <1>1, <1>7, <1>8, <1>9

LEMMA EventTakenOf ==
    ASSUME NEW s \in Seq(LifeEvents), NEW i \in DOMAIN s, NEW t, t = RemoveAt(s, i),
           NEW f, f = s[i].flow, AtMostOne(f, s)
    PROVE  t \in Seq(LifeEvents) /\ EventsOf(f, t) = {} /\ AtMostOne(f, t)
<1>1. AtMostOne(s[i].flow, s)
  OBVIOUS
<1>2. t \in Seq(LifeEvents) /\ EventsOf(s[i].flow, t) = {} /\ AtMostOne(s[i].flow, t)
  BY <1>1, EventTaken
<1>3. QED
  BY <1>2

(* Sequence t is s with event e of flow f added.                             *)
Added(f, s, e, t) ==
    /\ t \in Seq(LifeEvents)
    /\ EventsOf(f, s) = {} => EventsOf(f, t) = {e} /\ AtMostOne(f, t)
    /\ \A g : g # f => EventsOf(g, t) = EventsOf(g, s) /\ (AtMostOne(g, s) => AtMostOne(g, t))

LEMMA EventAddedOf ==
    ASSUME NEW s, s \in Seq(LifeEvents), NEW e, e \in LifeEvents, NEW t, t = Append(s, e)
    PROVE  Added(e.flow, s, e, t)
<1>1. /\ t \in Seq(LifeEvents)
      /\ EventsOf(e.flow, s) = {} => EventsOf(e.flow, t) = {e} /\ AtMostOne(e.flow, t)
      /\ \A g : g # e.flow => EventsOf(g, t) = EventsOf(g, s) /\ (AtMostOne(g, s) => AtMostOne(g, t))
  BY EventAdded
<1>2. QED
  BY <1>1 DEF Added

LEMMA NoEvents == \A f : EventsOf(f, <<>>) = {} /\ AtMostOne(f, <<>>)
BY DEF EventsOf, AtMostOne, ToSet

----------------------------------------------------------------------------
(* What a step leaves alone.                                                *)

(* Request q goes on, the others do not.                                    *)
EditMoves(q) ==
    /\ edit' \in [Edits -> Edit]
    /\ edit'[q].kind = edit[q].kind /\ edit'[q].flow = edit[q].flow
    /\ \A p \in Edits : p # q => edit'[p] = edit[p]

RequestsLeft(f) ==
    \A q \in Edits :
        /\ edit'[q].kind = edit[q].kind /\ edit'[q].flow = edit[q].flow
        /\ Concerned(q, f)' => /\ edit'[q].pc = edit[q].pc /\ edit'[q].seen = edit[q].seen
                               /\ (f \in edit'[q].left) = (f \in edit[q].left)
        /\ Publishes(q, f) => Publishes(q, f)'

FlowLeft(f) ==
    /\ doc'[f] = doc[f] /\ fleet'[f] = fleet[f] /\ (f \in declared => f \in declared')
    /\ EventsOf(f, line') = EventsOf(f, line) /\ (AtMostOne(f, line) => AtMostOne(f, line'))
    /\ RequestsLeft(f)

LEMMA FlowIsLeft ==
    ASSUME NEW f \in EditedFlows, FlowInv(f), FlowLeft(f), \A q \in Edits : RequestIsSound(q)'
    PROVE  FlowInv(f)'
<1>1. /\ doc'[f] = doc[f] /\ fleet'[f] = fleet[f] /\ (f \in declared => f \in declared')
      /\ EventsOf(f, line') = EventsOf(f, line) /\ (AtMostOne(f, line) => AtMostOne(f, line'))
  BY DEF FlowLeft
<1>2. \A q \in Edits :
        /\ edit'[q].kind = edit[q].kind /\ edit'[q].flow = edit[q].flow
        /\ Concerned(q, f)' => /\ edit'[q].pc = edit[q].pc /\ edit'[q].seen = edit[q].seen
                               /\ (f \in edit'[q].left) = (f \in edit[q].left)
        /\ Publishes(q, f) => Publishes(q, f)'
  BY DEF FlowLeft, RequestsLeft
<1>3. \A q \in Edits : Concerned(q, f)' => Concerned(q, f)
  BY <1>2 DEF Concerned, UnderWay, Concerns
<1>4. Alone(f)'
  BY <1>1, <1>2, <1>3 DEF FlowInv, Alone
<1>5. EventTells(f)'
  BY <1>1 DEF FlowInv, EventTells
<1>6. RequestTells(f)'
  <2>1. ASSUME NEW q \in Edits PROVE RequestAgrees(q, f)'
    <3>1. RequestAgrees(q, f)
      BY DEF FlowInv, RequestTells
    <3>2. CASE Concerned(q, f)'
      BY <1>1, <1>2, <3>1, <3>2 DEF RequestAgrees, Publishes
    <3>3. CASE ~Concerned(q, f)'
      BY <3>3 DEF RequestAgrees, Publishes, Concerned, Concerns, UnderWay, RequestIsSound
    <3>4. QED
      BY <3>2, <3>3
  <2>2. QED
    BY <2>1 DEF RequestTells
<1>7. QuietTells(f)'
  BY <1>1, <1>2 DEF FlowInv, QuietTells, Agree
<1>8. QED
  BY <1>4, <1>5, <1>6, <1>7 DEF FlowInv

(* A flow that at most request q is about.                                   *)
LEMMA FlowOfOne ==
    ASSUME NEW f \in EditedFlows, NEW q \in Edits, \A p \in Edits : RequestIsSound(p)',
           \A p \in Edits : p # q => ~Concerned(p, f)',
           AtMostOne(f, line'),
           Concerned(q, f)' /\ EventsOf(f, line') # {} =>
               edit'[q].kind = "anonymise" /\ edit'[q].pc = "orphans" /\ f \notin edit'[q].left,
           EventTells(f)', RequestAgrees(q, f)', QuietTells(f)'
    PROVE  FlowInv(f)'
<1>1. Alone(f)'
  BY DEF Alone
<1>2. ASSUME NEW p \in Edits, p # q PROVE RequestAgrees(p, f)'
  BY <1>2 DEF RequestAgrees, Publishes, Concerned, Concerns, UnderWay, RequestIsSound
<1>3. RequestTells(f)'
  BY <1>2 DEF RequestTells
<1>4. QED
  BY <1>1, <1>3 DEF FlowInv

(* The only request about a flow whose event, if any, is not under way.      *)
LEMMA OnlyRequest ==
    ASSUME NEW f \in EditedFlows, FlowInv(f), NEW q \in Edits, Concerned(q, f),
           ~(edit[q].kind = "anonymise" /\ edit[q].pc = "orphans" /\ f \notin edit[q].left)
    PROVE  EventsOf(f, line) = {} /\ \A p \in Edits : p # q => ~Concerned(p, f)
BY DEF FlowInv, Alone

LEMMA UndisturbedIsQuiet ==
    ASSUME NEW f \in EditedFlows, FlowInv(f), Undisturbed(f)
    PROVE  /\ EventsOf(f, line) = {} /\ AtMostOne(f, line) /\ Agree(f)
           /\ \A p \in Edits : ~Concerned(p, f)
<1>1. EventsOf(f, line) = {} /\ AtMostOne(f, line)
  BY DEF Undisturbed, EventsOf, ToSet, AtMostOne
<1>2. \A p \in Edits : ~Concerned(p, f) /\ ~Publishes(p, f)
  BY DEF Undisturbed, Concerned, Publishes, UnderWay, Concerns
<1>3. QED
  BY <1>1, <1>2 DEF FlowInv, QuietTells

----------------------------------------------------------------------------
(* How requests go on.                                                      *)

LEMMA StepMoves ==
    ASSUME edit \in [Edits -> Edit], NEW q \in Edits, NEW pc \in {"new", "read", "publish", "orphans", "done"},
           Step(q, pc)
    PROVE  /\ EditMoves(q) /\ edit'[q].pc = pc
           /\ edit'[q].seen = edit[q].seen /\ edit'[q].left = edit[q].left
<1>1. PICK r : r = edit[q]
  OBVIOUS
<1>2. r \in Edit /\ [r EXCEPT !.pc = pc] \in Edit
  BY <1>1 DEF Edit
<1>3. PICK w : w = [r EXCEPT !.pc = pc]
  OBVIOUS
<1>4. w \in Edit /\ w.kind = r.kind /\ w.flow = r.flow /\ w.pc = pc /\ w.seen = r.seen /\ w.left = r.left
  BY <1>2, <1>3 DEF Edit
<1>5. edit' = [edit EXCEPT ![q] = w]
  BY <1>1, <1>3 DEF Step
<1>6. edit' \in [Edits -> Edit] /\ edit'[q] = w /\ \A p \in Edits : p # q => edit'[p] = edit[p]
  BY <1>4, <1>5
<1>7. QED
  BY <1>1, <1>4, <1>6 DEF EditMoves

LEMMA SeenMoves ==
    ASSUME edit \in [Edits -> Edit], NEW q \in Edits, NEW pc \in {"new", "read", "publish", "orphans", "done"},
           NEW d \in Doc, edit' = [edit EXCEPT ![q].pc = pc, ![q].seen = d]
    PROVE  /\ EditMoves(q) /\ edit'[q].pc = pc
           /\ edit'[q].seen = d /\ edit'[q].left = edit[q].left
<1>1. PICK r : r = edit[q]
  OBVIOUS
<1>2. r \in Edit
  BY <1>1
<1>3. PICK w : w = [r EXCEPT !.pc = pc, !.seen = d]
  OBVIOUS
<1>4. w \in Edit /\ w.kind = r.kind /\ w.flow = r.flow /\ w.pc = pc /\ w.seen = d /\ w.left = r.left
  BY <1>2, <1>3 DEF Edit
<1>5. edit' = [edit EXCEPT ![q] = w]
  BY <1>1, <1>3
<1>6. edit' \in [Edits -> Edit] /\ edit'[q] = w /\ \A p \in Edits : p # q => edit'[p] = edit[p]
  BY <1>4, <1>5
<1>7. QED
  BY <1>1, <1>4, <1>6 DEF EditMoves

LEMMA LeftMoves ==
    ASSUME edit \in [Edits -> Edit], NEW q \in Edits, NEW pc \in {"new", "read", "publish", "orphans", "done"},
           NEW fs \in SUBSET EditedFlows, edit' = [edit EXCEPT ![q].pc = pc, ![q].left = fs]
    PROVE  /\ EditMoves(q) /\ edit'[q].pc = pc
           /\ edit'[q].seen = edit[q].seen /\ edit'[q].left = fs
<1>1. PICK r : r = edit[q]
  OBVIOUS
<1>2. r \in Edit
  BY <1>1
<1>3. PICK w : w = [r EXCEPT !.pc = pc, !.left = fs]
  OBVIOUS
<1>4. w \in Edit /\ w.kind = r.kind /\ w.flow = r.flow /\ w.pc = pc /\ w.seen = r.seen /\ w.left = fs
  BY <1>2, <1>3 DEF Edit
<1>5. edit' = [edit EXCEPT ![q] = w]
  BY <1>1, <1>3
<1>6. edit' \in [Edits -> Edit] /\ edit'[q] = w /\ \A p \in Edits : p # q => edit'[p] = edit[p]
  BY <1>4, <1>5
<1>7. QED
  BY <1>1, <1>4, <1>6 DEF EditMoves

(* A request leaves the flows alone that it is not about.                    *)
LEMMA OtherRequests ==
    ASSUME NEW q \in Edits, EditMoves(q), NEW g,
           ~Concerns(q, g) \/ (~UnderWay(q)' /\ ~Publishes(q, g))
    PROVE  RequestsLeft(g)
<1>1. ~Concerned(q, g)' /\ ~Publishes(q, g)
  BY DEF EditMoves, Concerns, Concerned, Publishes
<1>2. edit'[q].kind = edit[q].kind /\ edit'[q].flow = edit[q].flow
  BY DEF EditMoves
<1>3. \A p \in Edits : p # q => edit'[p] = edit[p]
  BY DEF EditMoves
<1>4. QED
  BY <1>1, <1>2, <1>3 DEF RequestsLeft, Publishes

(* The requests about a flow are sound after a step of request q.            *)
LEMMA OthersAreSound ==
    ASSUME EditInv, NEW q \in Edits, EditMoves(q), RequestIsSound(q)'
    PROVE  \A p \in Edits : RequestIsSound(p)'
<1>1. \A p \in Edits : RequestIsSound(p)
  BY DEF EditInv
<1>2. \A p \in Edits : p # q => edit'[p] = edit[p]
  BY DEF EditMoves
<1>3. QED
  BY <1>1, <1>2 DEF RequestIsSound

LEMMA EditParts ==
    ASSUME EditInv
    PROVE  /\ doc \in [EditedFlows -> Doc] /\ edit \in [Edits -> Edit]
           /\ line \in Seq(LifeEvents) /\ fleet \in [EditedFlows -> Graphs]
           /\ disturbed \subseteq EditedFlows /\ declared \subseteq EditedFlows
           /\ lostEvents \in 0 .. MaxLostEvents
           /\ \A f \in EditedFlows : DocIsSound(f)
           /\ \A q \in Edits : RequestIsSound(q) /\ edit[q] \in Edit /\ edit[q].flow \in EditedFlows
           /\ \A f \in EditedFlows : f \notin disturbed => FlowInv(f)
<1>1. /\ doc \in [EditedFlows -> Doc] /\ edit \in [Edits -> Edit]
      /\ line \in Seq(LifeEvents) /\ fleet \in [EditedFlows -> Graphs]
      /\ disturbed \subseteq EditedFlows /\ declared \subseteq EditedFlows
      /\ lostEvents \in 0 .. MaxLostEvents
  BY DEF EditInv, EditTypeOK
<1>2. \A q \in Edits : edit[q] \in Edit /\ edit[q].flow \in EditedFlows
  BY <1>1 DEF Edit
<1>3. QED
  BY <1>1, <1>2 DEF EditInv

----------------------------------------------------------------------------
(* The steps.                                                               *)

LEMMA EditBegins == EditInit => EditInv
<1> SUFFICES ASSUME EditInit PROVE EditInv
  OBVIOUS
<1> USE EditAssumption
<1>1. doc \in [EditedFlows -> {NoDoc, FirstDoc}]
  BY DEF EditInit
<1>2. edit \in [Edits -> [kind : Wants, pc : {"new"}, flow : EditedFlows, seen : {NoDoc}, left : {{}}]]
  BY DEF EditInit
<1>3. line = <<>> /\ fleet = [f \in EditedFlows |-> "none"] /\ disturbed = {} /\ declared = {} /\ lostEvents = 0
  BY DEF EditInit
<1>4. NoDoc \in Doc /\ FirstDoc \in Doc
  BY DEF NoDoc, FirstDoc, Doc, Graphs, Statuses
<1>5. doc \in [EditedFlows -> Doc]
  BY <1>1, <1>4
<1>6. \A q \in Edits : edit[q] \in Edit /\ edit[q].pc = "new"
  BY <1>2, <1>4 DEF Edit
<1>7. edit \in [Edits -> Edit]
  BY <1>2, <1>6
<1>8. EditTypeOK
  BY <1>3, <1>5, <1>7 DEF EditTypeOK, Graphs
<1>9. \A f \in EditedFlows : DocIsSound(f)
  BY <1>1 DEF DocIsSound, NoDoc, FirstDoc
<1>10. \A q \in Edits : RequestIsSound(q)
  BY <1>6 DEF RequestIsSound
<1>11. ASSUME NEW f \in EditedFlows PROVE FlowInv(f)
  <2>1. EventsOf(f, line) = {} /\ AtMostOne(f, line)
    BY <1>3, NoEvents
  <2>2. \A q \in Edits : ~Concerned(q, f) /\ ~Publishes(q, f) /\ RequestAgrees(q, f)
    BY <1>6 DEF Concerned, UnderWay, Publishes, RequestAgrees
  <2>3. doc[f].status = "inactive" /\ fleet[f] = "none"
    BY <1>1, <1>3 DEF NoDoc, FirstDoc
  <2>4. Agree(f)
    BY <2>3 DEF Agree
  <2>5. QED
    BY <2>1, <2>2, <2>4 DEF FlowInv, Alone, EventTells, RequestTells, QuietTells
<1>12. QED
  BY <1>8, <1>9, <1>10, <1>11 DEF EditInv

LEMMA CreateFlowKeeps ==
    ASSUME EditInv, NEW q \in Edits, CreateFlow(q)
    PROVE  EditInv'
<1>1. PICK f \in EditedFlows : f = edit[q].flow
  BY EditParts
<1>2. PICK d : d = [exists |-> TRUE, used |-> TRUE, owned |-> TRUE, status |-> "inactive", graph |-> q]
  OBVIOUS
<1>3. /\ edit[q].kind = "create" /\ edit[q].pc = "new" /\ ~doc[f].used
      /\ doc' = [doc EXCEPT ![f] = d]
      /\ Step(q, "done")
      /\ line' = line /\ fleet' = fleet /\ disturbed' = disturbed
      /\ declared' = declared /\ lostEvents' = lostEvents
  BY <1>1, <1>2 DEF CreateFlow
<1>4. d \in Doc /\ d.used /\ d.graph # "none" /\ d.status = "inactive"
  BY <1>2, EditAssumption DEF Doc, Graphs, Statuses
<1>5. doc' \in [EditedFlows -> Doc] /\ doc'[f] = d /\ \A g \in EditedFlows : g # f => doc'[g] = doc[g]
  BY <1>3, <1>4, EditParts
<1>6. EditMoves(q) /\ edit'[q].pc = "done"
  BY <1>3, EditParts, StepMoves
<1>7. EditTypeOK'
  BY <1>3, <1>5, <1>6, EditParts DEF EditTypeOK, EditMoves
<1>8. \A g \in EditedFlows : DocIsSound(g)'
  BY <1>4, <1>5, EditParts DEF DocIsSound
<1>9. \A p \in Edits : RequestIsSound(p)'
  BY <1>6, OthersAreSound DEF RequestIsSound
<1>10. ASSUME NEW g \in EditedFlows, g \notin disturbed' PROVE FlowInv(g)'
  <2>1. FlowInv(g)
    BY <1>3, <1>10, EditParts
  <2>2. ~UnderWay(q)' /\ ~Publishes(q, g)
    BY <1>3, <1>6 DEF UnderWay, Publishes
  <2>3. CASE g # f
    <3>1. RequestsLeft(g)
      BY <1>6, <2>2, OtherRequests
    <3>2. FlowLeft(g)
      BY <1>3, <1>5, <2>3, <3>1 DEF FlowLeft
    <3>3. QED
      BY <1>9, <2>1, <3>2, FlowIsLeft
  <2>4. CASE g = f
    <3>1. ~doc[f].exists
      BY <1>3, EditParts DEF DocIsSound
    <3>2. EventsOf(f, line) = {}
      BY <2>1, <2>4, <3>1 DEF FlowInv, EventTells
    <3>3. \A p \in Edits : ~Publishes(p, f)
      BY <2>1, <2>4, <3>1 DEF FlowInv, RequestTells, RequestAgrees
    <3>4. fleet[f] = "none" \/ f \in declared
      BY <2>1, <2>4, <3>1, <3>2, <3>3 DEF FlowInv, QuietTells, Agree
    <3>5. \A p \in Edits : p # q => edit'[p] = edit[p]
      BY <1>6 DEF EditMoves
    <3>6. ASSUME NEW p \in Edits PROVE RequestAgrees(p, f)'
      <4>1. CASE p = q
        BY <1>6, <4>1 DEF RequestAgrees, Publishes
      <4>2. CASE p # q
        <5>1. RequestAgrees(p, f)
          BY <2>1, <2>4 DEF FlowInv, RequestTells
        <5>2. QED
          BY <3>1, <3>5, <4>2, <5>1 DEF RequestAgrees, Publishes
      <4>3. QED
        BY <4>1, <4>2
    <3>7. Alone(f)'
      <4>1. \A p \in Edits : Concerned(p, f)' => Concerned(p, f)
        BY <2>2, <3>5 DEF Concerned, UnderWay, Concerns
      <4>2. QED
        BY <1>3, <2>1, <2>4, <3>2, <4>1 DEF FlowInv, Alone
    <3>8. Agree(f)'
      BY <1>3, <1>4, <1>5, <3>4 DEF Agree
    <3>9. EventTells(f)'
      BY <1>3, <3>2 DEF EventTells
    <3>10. QED
      BY <2>4, <3>6, <3>7, <3>8, <3>9 DEF FlowInv, RequestTells, QuietTells
  <2>5. QED
    BY <2>3, <2>4
<1>11. QED
  BY <1>7, <1>8, <1>9, <1>10 DEF EditInv

LEMMA ReadKeeps ==
    ASSUME EditInv, NEW q \in Edits, ReadFlow(q)
    PROVE  EditInv'
<1>1. PICK f \in EditedFlows : f = edit[q].flow
  BY EditParts
<1>2. /\ edit[q].kind \in {"patch", "bulk", "delete", "start", "stop"} /\ edit[q].pc = "new"
      /\ doc' = doc /\ line' = line /\ fleet' = fleet
      /\ declared' = declared /\ lostEvents' = lostEvents
  BY DEF ReadFlow
<1>3. /\ doc \in [EditedFlows -> Doc] /\ edit \in [Edits -> Edit] /\ doc[f] \in Doc
  BY EditParts
<1>4. CASE Mine(f) /\ GoesOn(edit[q].kind, doc[f].status)
  <2>1. edit' = [edit EXCEPT ![q].pc = "read", ![q].seen = doc[f]] /\ Disturb({f})
    BY <1>1, <1>4 DEF ReadFlow
  <2>2. EditMoves(q) /\ edit'[q].pc = "read" /\ edit'[q].seen = doc[f]
    BY <1>3, <2>1, SeenMoves
  <2>3. disturbed \subseteq disturbed' /\ disturbed' \subseteq EditedFlows /\ (f \notin disturbed' => Undisturbed(f))
    BY <2>1, EditParts DEF Disturb
  <2>4. EditTypeOK'
    BY <1>2, <2>2, <2>3, EditParts DEF EditTypeOK, EditMoves
  <2>5. \A g \in EditedFlows : DocIsSound(g)'
    BY <1>2, EditParts DEF DocIsSound
  <2>6. \A p \in Edits : RequestIsSound(p)'
    <3>1. RequestIsSound(q)'
      BY <1>4, <2>2, EditParts DEF RequestIsSound, Mine, DocIsSound
    <3>2. QED
      BY <2>2, <3>1, OthersAreSound
  <2>7. ASSUME NEW g \in EditedFlows, g \notin disturbed' PROVE FlowInv(g)'
    <3>1. FlowInv(g)
      BY <2>3, <2>7, EditParts
    <3>2. CASE g # f
      <4>1. ~Concerns(q, g)
        BY <1>1, <1>2, <3>2 DEF Concerns
      <4>2. FlowLeft(g)
        BY <1>2, <2>2, <4>1, OtherRequests DEF FlowLeft
      <4>3. QED
        BY <2>6, <3>1, <4>2, FlowIsLeft
    <3>3. CASE g = f
      <4>1. EventsOf(f, line) = {} /\ AtMostOne(f, line) /\ Agree(f) /\ \A p \in Edits : ~Concerned(p, f)
        BY <2>3, <2>7, <3>1, <3>3, UndisturbedIsQuiet
      <4>2. \A p \in Edits : p # q => ~Concerned(p, f)'
        BY <2>2, <4>1 DEF EditMoves, Concerned, UnderWay, Concerns
      <4>3. EventsOf(f, line') = {} /\ AtMostOne(f, line')
        BY <1>2, <4>1
      <4>4. Agree(f)'
        BY <1>2, <4>1 DEF Agree
      <4>5. EventTells(f)' /\ QuietTells(f)'
        BY <4>3, <4>4 DEF EventTells, QuietTells
      <4>6. RequestAgrees(q, f)'
        <5>1. doc[f].exists /\ (edit[q].kind \in {"patch", "delete"} => doc[f].status = "inactive")
          BY <1>4 DEF Mine, GoesOn
        <5>2. QED
          BY <1>2, <2>2, <5>1 DEF RequestAgrees, Publishes, EditMoves
      <4>7. FlowInv(f)'
        BY <2>6, <4>2, <4>3, <4>5, <4>6, FlowOfOne
      <4>8. QED
        BY <3>3, <4>7
    <3>4. QED
      BY <3>2, <3>3
  <2>8. QED
    BY <2>4, <2>5, <2>6, <2>7 DEF EditInv
<1>5. CASE ~(Mine(f) /\ GoesOn(edit[q].kind, doc[f].status))
  <2>1. Step(q, "done") /\ disturbed' = disturbed
    BY <1>1, <1>5 DEF ReadFlow
  <2>2. EditMoves(q) /\ edit'[q].pc = "done"
    BY <1>3, <2>1, StepMoves
  <2>3. EditTypeOK'
    BY <1>2, <2>1, <2>2, EditParts DEF EditTypeOK, EditMoves
  <2>4. \A g \in EditedFlows : DocIsSound(g)'
    BY <1>2, EditParts DEF DocIsSound
  <2>5. \A p \in Edits : RequestIsSound(p)'
    BY <2>2, OthersAreSound DEF RequestIsSound
  <2>6. ASSUME NEW g \in EditedFlows, g \notin disturbed' PROVE FlowInv(g)'
    <3>1. FlowInv(g)
      BY <2>1, <2>6, EditParts
    <3>2. ~UnderWay(q)' /\ ~Publishes(q, g)
      BY <1>2, <2>2 DEF UnderWay, Publishes
    <3>3. FlowLeft(g)
      BY <1>2, <2>2, <3>2, OtherRequests DEF FlowLeft
    <3>4. QED
      BY <2>5, <3>1, <3>3, FlowIsLeft
  <2>7. QED
    BY <2>3, <2>4, <2>5, <2>6 DEF EditInv
<1>6. QED
  BY <1>4, <1>5

(* A request that is about one flow leaves the others alone.                 *)
LEMMA OtherFlowsKeep ==
    ASSUME EditInv, NEW q \in Edits, NEW f \in EditedFlows, f = edit[q].flow, edit[q].kind # "anonymise",
           EditMoves(q), \A p \in Edits : RequestIsSound(p)',
           NEW g \in EditedFlows, g # f, g \notin disturbed,
           doc'[g] = doc[g], fleet'[g] = fleet[g], declared \ {f} \subseteq declared',
           EventsOf(g, line') = EventsOf(g, line), AtMostOne(g, line) => AtMostOne(g, line')
    PROVE  FlowInv(g)'
<1>1. FlowInv(g)
  BY EditParts
<1>2. RequestsLeft(g)
  <2>1. ~Concerns(q, g)
    BY DEF Concerns
  <2>2. QED
    BY <2>1, OtherRequests
<1>3. FlowLeft(g)
  BY <1>2 DEF FlowLeft
<1>4. QED
  BY <1>1, <1>3, FlowIsLeft

(* What holds when an undisturbed flow is written that a request has read.   *)
LEMMA WhatWasRead ==
    ASSUME EditInv, NEW q \in Edits, NEW f \in EditedFlows, f = edit[q].flow, edit[q].kind # "anonymise",
           edit[q].pc = "read", f \notin disturbed
    PROVE  /\ EventsOf(f, line) = {} /\ AtMostOne(f, line)
           /\ \A p \in Edits : p # q => ~Concerned(p, f)
           /\ edit[q].seen = doc[f] /\ doc[f].exists
           /\ edit[q].kind \in {"patch", "delete"} => doc[f].status = "inactive"
           /\ Agree(f)
<1>1. FlowInv(f)
  BY EditParts
<1>2. Concerned(q, f)
  BY DEF Concerned, UnderWay, Concerns
<1>3. EventsOf(f, line) = {} /\ \A p \in Edits : p # q => ~Concerned(p, f)
  BY <1>1, <1>2, OnlyRequest
<1>4. AtMostOne(f, line)
  BY <1>1 DEF FlowInv, Alone
<1>5. RequestAgrees(q, f)
  BY <1>1 DEF FlowInv, RequestTells
<1>6. /\ edit[q].seen = doc[f] /\ doc[f].exists
      /\ edit[q].kind \in {"patch", "delete"} => doc[f].status = "inactive"
  BY <1>5 DEF RequestAgrees
<1>7. \A p \in Edits : ~Publishes(p, f)
  BY <1>3 DEF Publishes, Concerned, UnderWay, Concerns
<1>8. Agree(f)
  BY <1>1, <1>3, <1>7 DEF FlowInv, QuietTells
<1>9. QED
  BY <1>3, <1>4, <1>6, <1>8

(* A document of a flow is written, and the request has ended.               *)
LEMMA DocWritten ==
    ASSUME EditInv, NEW q \in Edits, NEW f \in EditedFlows, f = edit[q].flow, edit[q].kind # "anonymise",
           edit[q].pc = "read", Step(q, "done"),
           NEW d \in Doc, doc' = [doc EXCEPT ![f] = d], d.exists => d.graph # "none" /\ d.used,
           declared \subseteq declared', declared' \subseteq EditedFlows,
           f \notin disturbed => Agree(f)',
           line' = line, fleet' = fleet, disturbed' = disturbed, lostEvents' = lostEvents
    PROVE  EditInv'
<1>1. doc' \in [EditedFlows -> Doc] /\ doc'[f] = d /\ \A g \in EditedFlows : g # f => doc'[g] = doc[g]
  BY EditParts
<1>2. EditMoves(q) /\ edit'[q].pc = "done"
  BY EditParts, StepMoves
<1>3. EditTypeOK'
  BY <1>1, <1>2, EditParts DEF EditTypeOK, EditMoves
<1>4. \A g \in EditedFlows : DocIsSound(g)'
  BY <1>1, EditParts DEF DocIsSound
<1>5. \A p \in Edits : RequestIsSound(p)'
  BY <1>2, OthersAreSound DEF RequestIsSound
<1>6. ASSUME NEW g \in EditedFlows, g \notin disturbed' PROVE FlowInv(g)'
  <2>1. CASE g # f
    BY <1>1, <1>2, <1>5, <1>6, <2>1, OtherFlowsKeep
  <2>2. CASE g = f
    <3>1. /\ EventsOf(f, line) = {} /\ AtMostOne(f, line)
          /\ \A p \in Edits : p # q => ~Concerned(p, f)
      BY <1>6, <2>2, WhatWasRead
    <3>2. \A p \in Edits : p # q => ~Concerned(p, f)'
      BY <1>2, <3>1 DEF EditMoves, Concerned, UnderWay, Concerns
    <3>3. EventsOf(f, line') = {} /\ AtMostOne(f, line')
      BY <3>1
    <3>4. EventTells(f)' /\ QuietTells(f)'
      BY <1>6, <2>2, <3>3 DEF EventTells, QuietTells
    <3>5. RequestAgrees(q, f)'
      BY <1>2 DEF RequestAgrees, Publishes
    <3>6. FlowInv(f)'
      BY <1>5, <3>2, <3>3, <3>4, <3>5, FlowOfOne
    <3>7. QED
      BY <2>2, <3>6
  <2>3. QED
    BY <2>1, <2>2
<1>7. QED
  BY <1>3, <1>4, <1>5, <1>6 DEF EditInv

LEMMA WriteKeeps ==
    ASSUME EditInv, NEW q \in Edits, WriteFlow(q)
    PROVE  EditInv'
<1>1. PICK f \in EditedFlows : f = edit[q].flow
  BY EditParts
<1>2. PICK kind : kind = edit[q].kind
  OBVIOUS
<1>3. /\ kind # "anonymise" /\ edit[q].pc = "read"
      /\ line' = line /\ fleet' = fleet /\ disturbed' = disturbed /\ lostEvents' = lostEvents
  BY <1>2 DEF WriteFlow
<1>4. /\ doc \in [EditedFlows -> Doc] /\ edit \in [Edits -> Edit] /\ doc[f] \in Doc
      /\ edit[q].seen \in Doc /\ declared \subseteq EditedFlows
  BY EditParts DEF Edit
<1>5. edit[q].seen.exists /\ edit[q].seen.used
  BY <1>2, <1>3, EditParts DEF RequestIsSound
<1>6. CASE ~Mine(f) /\ Step(q, "done") /\ UNCHANGED <<doc, declared>>
  <2>1. EditMoves(q) /\ edit'[q].pc = "done"
    BY <1>4, <1>6, StepMoves
  <2>2. EditTypeOK'
    BY <1>3, <1>6, <2>1, EditParts DEF EditTypeOK, EditMoves
  <2>3. \A g \in EditedFlows : DocIsSound(g)'
    BY <1>6, EditParts DEF DocIsSound
  <2>4. \A p \in Edits : RequestIsSound(p)'
    BY <2>1, OthersAreSound DEF RequestIsSound
  <2>5. ASSUME NEW g \in EditedFlows, g \notin disturbed' PROVE FlowInv(g)'
    <3>1. FlowInv(g)
      BY <1>3, <2>5, EditParts
    <3>2. ~UnderWay(q)' /\ ~Publishes(q, g)
      BY <1>3, <2>1 DEF UnderWay, Publishes
    <3>3. FlowLeft(g)
      BY <1>3, <1>6, <2>1, <3>2, OtherRequests DEF FlowLeft
    <3>4. QED
      BY <2>4, <3>1, <3>3, FlowIsLeft
  <2>6. QED
    BY <2>2, <2>3, <2>4, <2>5 DEF EditInv
<1>7. CASE /\ kind \in {"patch", "bulk"}
           /\ doc' = [doc EXCEPT ![f] = [edit[q].seen EXCEPT !.graph = q, !.status = "inactive"]]
           /\ declared' = IF doc[f].status = "inactive" THEN declared ELSE declared \cup {f}
           /\ Step(q, "done")
  <2>1. PICK d : d = [edit[q].seen EXCEPT !.graph = q, !.status = "inactive"]
    OBVIOUS
  <2>2. q \in Graphs /\ q # "none"
    BY EditAssumption DEF Graphs
  <2>3. /\ d \in Doc /\ d.exists = edit[q].seen.exists /\ d.used = edit[q].seen.used
        /\ d.status = "inactive" /\ d.graph = q
    BY <1>4, <2>1, <2>2 DEF Doc, Statuses
  <2>4. /\ declared \subseteq declared' /\ declared' \subseteq EditedFlows
        /\ doc[f].status # "inactive" => f \in declared'
    BY <1>4, <1>7
  <2>5. doc' = [doc EXCEPT ![f] = d] /\ Step(q, "done")
    BY <1>7, <2>1
  <2>6. ASSUME f \notin disturbed PROVE Agree(f)'
    <3>1. Agree(f)
      BY <1>1, <1>2, <1>3, <2>6, WhatWasRead
    <3>2. doc'[f] = d /\ fleet'[f] = fleet[f]
      BY <1>3, <1>4, <2>5
    <3>3. fleet'[f] = "none" \/ f \in declared'
      BY <2>4, <3>1, <3>2 DEF Agree
    <3>4. QED
      BY <2>3, <3>2, <3>3 DEF Agree
  <2>7. QED
    BY <1>1, <1>2, <1>3, <1>5, <2>2, <2>3, <2>4, <2>5, <2>6, DocWritten
<1>8. CASE /\ kind = "delete"
           /\ doc' = [doc EXCEPT ![f] = [NoDoc EXCEPT !.used = TRUE]]
           /\ Step(q, "done")
           /\ UNCHANGED declared
  <2>1. PICK d : d = [NoDoc EXCEPT !.used = TRUE]
    OBVIOUS
  <2>2. d \in Doc /\ ~d.exists /\ d.status = "inactive"
    BY <2>1 DEF Doc, NoDoc, Statuses, Graphs
  <2>3. doc' = [doc EXCEPT ![f] = d] /\ Step(q, "done") /\ declared' = declared
    BY <1>8, <2>1
  <2>4. ASSUME f \notin disturbed PROVE Agree(f)'
    <3>1. Agree(f) /\ doc[f].status = "inactive"
      BY <1>1, <1>2, <1>3, <1>8, <2>4, WhatWasRead
    <3>2. fleet[f] = "none" \/ f \in declared
      BY <3>1 DEF Agree
    <3>3. doc'[f] = d /\ fleet'[f] = fleet[f]
      BY <1>3, <1>4, <2>3
    <3>4. QED
      BY <2>2, <2>3, <3>2, <3>3 DEF Agree
  <2>5. QED
    BY <1>1, <1>2, <1>3, <1>4, <2>2, <2>3, <2>4, DocWritten
<1>9. CASE /\ kind \in {"start", "stop"}
           /\ doc' = [doc EXCEPT ![f].status = IF kind = "start" THEN "starting" ELSE "stopping"]
           /\ edit' = [edit EXCEPT ![q].pc = "publish", ![q].seen = doc'[f]]
           /\ declared' = declared \ {f}
           /\ Mine(f)
  <2>1. PICK st : st = IF kind = "start" THEN "starting" ELSE "stopping"
    OBVIOUS
  <2>2. PICK d : d = [doc[f] EXCEPT !.status = st]
    OBVIOUS
  <2>3. /\ d \in Doc /\ d.exists = doc[f].exists /\ d.used = doc[f].used
        /\ d.status = st /\ d.graph = doc[f].graph
    BY <1>4, <2>1, <2>2 DEF Doc, Statuses
  <2>4. doc' = [doc EXCEPT ![f] = d]
    BY <1>9, <2>1, <2>2
  <2>5. doc' \in [EditedFlows -> Doc] /\ doc'[f] = d /\ \A g \in EditedFlows : g # f => doc'[g] = doc[g]
    BY <1>4, <2>3, <2>4
  <2>6. edit' = [edit EXCEPT ![q].pc = "publish", ![q].seen = d]
    BY <1>9, <2>5
  <2>7. EditMoves(q) /\ edit'[q].pc = "publish" /\ edit'[q].seen = d
    BY <1>4, <2>3, <2>6, SeenMoves
  <2>8. EditTypeOK'
    BY <1>3, <1>4, <1>9, <2>5, <2>7, EditParts DEF EditTypeOK, EditMoves
  <2>9. \A g \in EditedFlows : DocIsSound(g)'
    BY <2>3, <2>5, EditParts DEF DocIsSound
  <2>10. \A p \in Edits : RequestIsSound(p)'
    <3>1. RequestIsSound(q)'
      BY <1>2, <1>9, <2>7 DEF RequestIsSound, EditMoves
    <3>2. QED
      BY <2>7, <3>1, OthersAreSound
  <2>11. ASSUME NEW g \in EditedFlows, g \notin disturbed' PROVE FlowInv(g)'
    <3>1. CASE g # f
      BY <1>1, <1>2, <1>3, <1>9, <2>5, <2>7, <2>10, <2>11, <3>1, OtherFlowsKeep
    <3>2. CASE g = f
      <4>1. /\ EventsOf(f, line) = {} /\ AtMostOne(f, line)
            /\ \A p \in Edits : p # q => ~Concerned(p, f)
            /\ doc[f].exists
        BY <1>1, <1>2, <1>3, <2>11, <3>2, WhatWasRead
      <4>2. \A p \in Edits : p # q => ~Concerned(p, f)'
        BY <2>7, <4>1 DEF EditMoves, Concerned, UnderWay, Concerns
      <4>3. EventsOf(f, line') = {} /\ AtMostOne(f, line')
        BY <1>3, <4>1
      <4>4. Publishes(q, f)'
        BY <1>1, <2>7 DEF Publishes, EditMoves
      <4>5. EventTells(f)' /\ QuietTells(f)'
        BY <4>3, <4>4 DEF EventTells, QuietTells
      <4>6. edit'[q].kind = kind /\ edit'[q].pc = "publish"
        BY <1>2, <2>7 DEF EditMoves
      <4>7. RequestAgrees(q, f)'
        BY <2>1, <2>3, <2>5, <2>7, <4>1, <4>6 DEF RequestAgrees
      <4>8. FlowInv(f)'
        BY <2>10, <4>2, <4>3, <4>5, <4>7, FlowOfOne
      <4>9. QED
        BY <3>2, <4>8
    <3>3. QED
      BY <3>1, <3>2
  <2>12. QED
    BY <2>8, <2>9, <2>10, <2>11 DEF EditInv
<1>10. QED
  BY <1>1, <1>2, <1>6, <1>7, <1>8, <1>9 DEF WriteFlow

LEMMA PublishKeeps ==
    ASSUME EditInv, NEW q \in Edits, PublishFlow(q)
    PROVE  EditInv'
<1>1. PICK f \in EditedFlows : f = edit[q].flow
  BY EditParts
<1>2. PICK kind : kind = IF edit[q].kind = "start" THEN "starting" ELSE "stopping"
  OBVIOUS
<1>3. PICK graph : graph = edit[q].seen.graph
  OBVIOUS
<1>4. /\ edit[q].pc = "publish" /\ PublishOrNot(kind, f, graph) /\ Step(q, "done")
      /\ doc' = doc /\ fleet' = fleet /\ declared' = declared
  BY <1>1, <1>2, <1>3 DEF PublishFlow
<1>5. edit[q].kind \in {"start", "stop"} /\ kind \in OrderKinds /\ graph \in Graphs
  <2>1. edit[q].seen \in Doc
    BY EditParts DEF Edit
  <2>2. QED
    BY <1>2, <1>3, <1>4, <2>1, EditParts DEF RequestIsSound, Doc, OrderKinds
<1>6. EditMoves(q) /\ edit'[q].pc = "done"
  BY <1>4, EditParts, StepMoves
<1>7. \A g \in EditedFlows : DocIsSound(g)'
  BY <1>4, EditParts DEF DocIsSound
<1>8. \A p \in Edits : RequestIsSound(p)'
  BY <1>6, OthersAreSound DEF RequestIsSound
<1>9. CASE line' = Says(kind, f, graph) /\ UNCHANGED <<disturbed, lostEvents>>
  <2>1. PICK e : e = [kind |-> kind, flow |-> f, graph |-> graph]
    OBVIOUS
  <2>2. e \in LifeEvents /\ e.flow = f /\ e.kind = kind /\ e.graph = graph
    BY <1>5, <2>1 DEF LifeEvents
  <2>3. line' = Append(line, e)
    BY <1>9, <2>1 DEF Says
  <2>4. /\ line' \in Seq(LifeEvents)
        /\ EventsOf(f, line) = {} => EventsOf(f, line') = {e} /\ AtMostOne(f, line')
        /\ \A g : g # f => EventsOf(g, line') = EventsOf(g, line) /\ (AtMostOne(g, line) => AtMostOne(g, line'))
    BY <2>2, <2>3, EditParts, EventAdded
  <2>5. EditTypeOK'
    BY <1>4, <1>6, <1>9, <2>4, EditParts DEF EditTypeOK, EditMoves
  <2>6. ASSUME NEW g \in EditedFlows, g \notin disturbed' PROVE FlowInv(g)'
    <3>1. CASE g # f
      BY <1>1, <1>4, <1>5, <1>6, <1>8, <1>9, <2>4, <2>6, <3>1, OtherFlowsKeep
    <3>2. CASE g = f
      <4>1. FlowInv(f)
        BY <1>9, <2>6, <3>2, EditParts
      <4>2. Concerned(q, f)
        BY <1>1, <1>4 DEF Concerned, UnderWay, Concerns
      <4>3. EventsOf(f, line) = {} /\ \A p \in Edits : p # q => ~Concerned(p, f)
        BY <1>4, <4>1, <4>2, OnlyRequest
      <4>4. RequestAgrees(q, f) /\ Publishes(q, f)
        BY <1>1, <1>4, <4>1 DEF FlowInv, RequestTells, Publishes
      <4>5. doc[f].exists /\ graph = doc[f].graph /\ doc[f].status = kind
        BY <1>2, <1>3, <4>4 DEF RequestAgrees
      <4>6. EventsOf(f, line') = {e} /\ AtMostOne(f, line')
        BY <2>4, <4>3
      <4>7. EventTells(f)'
        BY <1>4, <1>5, <2>2, <4>5, <4>6 DEF EventTells, OrderKinds
      <4>8. QuietTells(f)'
        BY <4>6 DEF QuietTells
      <4>9. \A p \in Edits : p # q => ~Concerned(p, f)'
        BY <1>6, <4>3 DEF EditMoves, Concerned, UnderWay, Concerns
      <4>10. RequestAgrees(q, f)' /\ ~Concerned(q, f)'
        BY <1>6 DEF RequestAgrees, Publishes, Concerned, UnderWay
      <4>11. FlowInv(f)'
        BY <1>8, <4>6, <4>7, <4>8, <4>9, <4>10, FlowOfOne
      <4>12. QED
        BY <3>2, <4>11
    <3>3. QED
      BY <3>1, <3>2
  <2>7. QED
    BY <1>7, <1>8, <2>5, <2>6 DEF EditInv
<1>10. CASE /\ lostEvents < MaxLostEvents /\ lostEvents' = lostEvents + 1
            /\ disturbed' = disturbed \cup {f}
            /\ UNCHANGED line
  <2>1. lostEvents' \in 0 .. MaxLostEvents
    BY <1>10, EditParts, EditAssumption
  <2>2. EditTypeOK'
    BY <1>4, <1>6, <1>10, <2>1, EditParts DEF EditTypeOK, EditMoves
  <2>3. ASSUME NEW g \in EditedFlows, g \notin disturbed' PROVE FlowInv(g)'
    BY <1>1, <1>4, <1>5, <1>6, <1>8, <1>10, <2>3, OtherFlowsKeep
  <2>4. QED
    BY <1>7, <1>8, <2>2, <2>3 DEF EditInv
<1>11. QED
  BY <1>4, <1>9, <1>10 DEF PublishOrNot

LEMMA AnonymiseKeeps ==
    ASSUME EditInv, NEW q \in Edits, Anonymise(q)
    PROVE  EditInv'
<1>1. /\ edit[q].kind = "anonymise" /\ edit[q].pc = "new"
      /\ doc' = [f \in EditedFlows |-> [doc[f] EXCEPT !.owned = FALSE]]
      /\ Step(q, "read") /\ Disturb(EditedFlows)
      /\ line' = line /\ fleet' = fleet /\ declared' = declared /\ lostEvents' = lostEvents
  BY DEF Anonymise
<1>2. ASSUME NEW f \in EditedFlows
      PROVE  /\ doc'[f] \in Doc /\ doc'[f].exists = doc[f].exists /\ doc'[f].used = doc[f].used
             /\ doc'[f].status = doc[f].status /\ doc'[f].graph = doc[f].graph
  <2>1. PICK d \in Doc : d = doc[f]
    BY EditParts
  <2>2. doc'[f] = [d EXCEPT !.owned = FALSE]
    BY <1>1, <2>1
  <2>3. PICK w : w = [d EXCEPT !.owned = FALSE]
    OBVIOUS
  <2>4. w \in Doc /\ w.exists = d.exists /\ w.used = d.used /\ w.status = d.status /\ w.graph = d.graph
    BY <2>3 DEF Doc
  <2>5. QED
    BY <2>1, <2>2, <2>3, <2>4
<1>3. doc' \in [EditedFlows -> Doc]
  BY <1>1, <1>2
<1>4. EditMoves(q) /\ edit'[q].pc = "read"
  BY <1>1, EditParts, StepMoves
<1>5. /\ disturbed \subseteq disturbed' /\ disturbed' \subseteq EditedFlows
      /\ \A f \in EditedFlows : f \notin disturbed' => Undisturbed(f)
  BY <1>1, EditParts DEF Disturb
<1>6. EditTypeOK'
  BY <1>1, <1>3, <1>4, <1>5, EditParts DEF EditTypeOK, EditMoves
<1>7. \A f \in EditedFlows : DocIsSound(f)'
  BY <1>2, EditParts DEF DocIsSound
<1>8. \A p \in Edits : RequestIsSound(p)'
  BY <1>1, <1>4, OthersAreSound DEF RequestIsSound, EditMoves
<1>9. ASSUME NEW f \in EditedFlows, f \notin disturbed' PROVE FlowInv(f)'
  <2>1. FlowInv(f)
    BY <1>5, <1>9, EditParts
  <2>2. EventsOf(f, line) = {} /\ AtMostOne(f, line) /\ Agree(f) /\ \A p \in Edits : ~Concerned(p, f)
    BY <1>5, <1>9, <2>1, UndisturbedIsQuiet
  <2>3. \A p \in Edits : p # q => ~Concerned(p, f)'
    BY <1>4, <2>2 DEF EditMoves, Concerned, UnderWay, Concerns
  <2>4. EventsOf(f, line') = {} /\ AtMostOne(f, line')
    BY <1>1, <2>2
  <2>5. Agree(f)'
    BY <1>1, <1>2, <2>2 DEF Agree
  <2>6. EventTells(f)' /\ QuietTells(f)'
    BY <2>4, <2>5 DEF EventTells, QuietTells
  <2>7. RequestAgrees(q, f)'
    BY <1>1, <1>4 DEF RequestAgrees, Publishes, EditMoves
  <2>8. QED
    BY <1>8, <2>3, <2>4, <2>6, <2>7, FlowOfOne
<1>10. QED
  BY <1>6, <1>7, <1>8, <1>9 DEF EditInv

LEMMA OrphansAreFound ==
    ASSUME EditInv, NEW q \in Edits, edit[q].kind = "anonymise", edit[q].pc = "read",
           edit' = [edit EXCEPT ![q].pc = "orphans", ![q].left = Orphans],
           UNCHANGED <<doc, line, fleet, disturbed, declared, lostEvents>>
    PROVE  EditInv'
<1>1. EditMoves(q) /\ edit'[q].pc = "orphans" /\ edit'[q].left = Orphans
  <2>1. Orphans \in SUBSET EditedFlows
    BY DEF Orphans
  <2>2. QED
    BY <2>1, EditParts, LeftMoves
<1>2. EditTypeOK'
  BY <1>1, EditParts DEF EditTypeOK, EditMoves
<1>3. \A f \in EditedFlows : DocIsSound(f)'
  BY EditParts DEF DocIsSound
<1>4. \A p \in Edits : RequestIsSound(p)'
  BY <1>1, OthersAreSound DEF RequestIsSound, EditMoves
<1>5. ASSUME NEW f \in EditedFlows, f \notin disturbed' PROVE FlowInv(f)'
  <2>1. FlowInv(f)
    BY <1>5, EditParts
  <2>2. Concerned(q, f)
    BY DEF Concerned, UnderWay, Concerns
  <2>3. EventsOf(f, line) = {} /\ \A p \in Edits : p # q => ~Concerned(p, f)
    BY <2>1, <2>2, OnlyRequest
  <2>4. AtMostOne(f, line)
    BY <2>1 DEF FlowInv, Alone
  <2>5. Agree(f)
    <3>1. \A p \in Edits : ~Publishes(p, f)
      BY <2>3 DEF Publishes, Concerned, UnderWay, Concerns
    <3>2. QED
      BY <2>1, <2>3, <3>1 DEF FlowInv, QuietTells
  <2>6. \A p \in Edits : p # q => ~Concerned(p, f)'
    BY <1>1, <2>3 DEF EditMoves, Concerned, UnderWay, Concerns
  <2>7. EventsOf(f, line') = {} /\ AtMostOne(f, line')
    BY <2>3, <2>4
  <2>8. Agree(f)'
    BY <2>5 DEF Agree
  <2>9. EventTells(f)' /\ QuietTells(f)'
    BY <2>7, <2>8 DEF EventTells, QuietTells
  <2>10. RequestAgrees(q, f)'
    BY <1>1 DEF RequestAgrees, Publishes, Orphans
  <2>11. QED
    BY <1>4, <2>6, <2>7, <2>9, <2>10, FlowOfOne
<1>6. QED
  BY <1>2, <1>3, <1>4, <1>5 DEF EditInv

LEMMA OrphansAreDone ==
    ASSUME EditInv, NEW q \in Edits, edit[q].pc = "orphans", Step(q, "done"),
           UNCHANGED <<doc, line, fleet, disturbed, declared, lostEvents>>
    PROVE  EditInv'
<1>1. EditMoves(q) /\ edit'[q].pc = "done"
  BY EditParts, StepMoves
<1>2. EditTypeOK'
  BY <1>1, EditParts DEF EditTypeOK, EditMoves
<1>3. \A f \in EditedFlows : DocIsSound(f)'
  BY EditParts DEF DocIsSound
<1>4. \A p \in Edits : RequestIsSound(p)'
  BY <1>1, OthersAreSound DEF RequestIsSound
<1>5. ASSUME NEW f \in EditedFlows, f \notin disturbed' PROVE FlowInv(f)'
  <2>1. FlowInv(f)
    BY <1>5, EditParts
  <2>2. ~UnderWay(q)' /\ ~Publishes(q, f)
    BY <1>1 DEF UnderWay, Publishes
  <2>3. FlowLeft(f)
    BY <1>1, <2>2, OtherRequests DEF FlowLeft
  <2>4. QED
    BY <1>4, <2>1, <2>3, FlowIsLeft
<1>6. QED
  BY <1>2, <1>3, <1>4, <1>5 DEF EditInv

LEMMA OrphanIsStopped ==
    ASSUME EditInv, NEW q \in Edits, edit[q].kind = "anonymise", edit[q].pc = "orphans",
           NEW f \in edit[q].left, PublishOrNot("stopping", f, doc[f].graph),
           edit' = [edit EXCEPT ![q].left = @ \ {f}],
           UNCHANGED <<doc, fleet, declared>>
    PROVE  EditInv'
<1>1. PICK r \in Edit : r = edit[q]
  BY EditParts
<1>2. f \in EditedFlows
  BY <1>1 DEF Edit
<1>3. PICK w : w = [r EXCEPT !.left = r.left \ {f}]
  OBVIOUS
<1>4. /\ w \in Edit /\ w.kind = r.kind /\ w.flow = r.flow /\ w.pc = r.pc /\ w.seen = r.seen
      /\ w.left = r.left \ {f}
  BY <1>3 DEF Edit
<1>5. edit' = [edit EXCEPT ![q] = w]
  BY <1>1, <1>3
<1>6. edit' \in [Edits -> Edit] /\ edit'[q] = w /\ \A p \in Edits : p # q => edit'[p] = edit[p]
  BY <1>4, <1>5, EditParts
<1>7. EditMoves(q) /\ edit'[q].pc = "orphans" /\ edit'[q].left = edit[q].left \ {f}
  BY <1>1, <1>4, <1>6 DEF EditMoves
<1>8. \A g \in EditedFlows : DocIsSound(g)'
  BY EditParts DEF DocIsSound
<1>9. \A p \in Edits : RequestIsSound(p)'
  BY <1>7, OthersAreSound DEF RequestIsSound, EditMoves
<1>10. ASSUME NEW g \in EditedFlows, g # f, g \notin disturbed,
              EventsOf(g, line') = EventsOf(g, line), AtMostOne(g, line) => AtMostOne(g, line')
       PROVE  FlowInv(g)'
  <2>1. FlowInv(g)
    BY <1>10, EditParts
  <2>2. /\ edit'[q].kind = edit[q].kind /\ edit'[q].flow = edit[q].flow
        /\ edit'[q].pc = edit[q].pc /\ edit'[q].seen = edit[q].seen
        /\ (g \in edit'[q].left) = (g \in edit[q].left)
    BY <1>1, <1>4, <1>6, <1>10
  <2>3. RequestsLeft(g)
    BY <1>6, <2>2 DEF RequestsLeft, Publishes
  <2>4. FlowLeft(g)
    BY <1>10, <2>3 DEF FlowLeft
  <2>5. QED
    BY <1>9, <2>1, <2>4, FlowIsLeft
<1>11. CASE line' = Says("stopping", f, doc[f].graph) /\ UNCHANGED <<disturbed, lostEvents>>
  <2>1. PICK e : e = [kind |-> "stopping", flow |-> f, graph |-> doc[f].graph]
    OBVIOUS
  <2>2. e \in LifeEvents /\ e.flow = f /\ e.kind = "stopping"
    <3>1. doc[f].graph \in Graphs
      BY <1>2, EditParts DEF Doc
    <3>2. QED
      BY <1>2, <2>1, <3>1 DEF LifeEvents, OrderKinds
  <2>3. line' = Append(line, e)
    BY <1>11, <2>1 DEF Says
  <2>4. /\ line' \in Seq(LifeEvents)
        /\ EventsOf(f, line) = {} => EventsOf(f, line') = {e} /\ AtMostOne(f, line')
        /\ \A g : g # f => EventsOf(g, line') = EventsOf(g, line) /\ (AtMostOne(g, line) => AtMostOne(g, line'))
    <3>1. PICK s, t : s = line /\ t = line'
      OBVIOUS
    <3>2. s \in Seq(LifeEvents) /\ t = Append(s, e)
      BY <2>3, <3>1, EditParts
    <3>3. /\ t \in Seq(LifeEvents)
          /\ EventsOf(f, s) = {} => EventsOf(f, t) = {e} /\ AtMostOne(f, t)
          /\ \A g : g # f => EventsOf(g, t) = EventsOf(g, s) /\ (AtMostOne(g, s) => AtMostOne(g, t))
      <4>1. Added(e.flow, s, e, t)
        BY <2>2, <3>2, EventAddedOf
      <4>2. QED
        BY <2>2, <4>1 DEF Added
    <3>4. QED
      BY <3>1, <3>3
  <2>5. EditTypeOK'
    BY <1>6, <1>11, <2>4, EditParts DEF EditTypeOK
  <2>6. ASSUME f \notin disturbed PROVE FlowInv(f)'
    <3>1. FlowInv(f)
      BY <1>2, <2>6, EditParts
    <3>2. Concerned(q, f)
      BY DEF Concerned, UnderWay, Concerns
    <3>3. EventsOf(f, line) = {} /\ \A p \in Edits : p # q => ~Concerned(p, f)
      BY <1>2, <3>1, <3>2, OnlyRequest
    <3>4. \A p \in Edits : ~Publishes(p, f)
      BY <3>3 DEF Publishes, Concerned, UnderWay, Concerns
    <3>5. Agree(f)
      BY <3>1, <3>3, <3>4 DEF FlowInv, QuietTells
    <3>6. doc[f].exists /\ doc[f].status = "active" /\ ~doc[f].owned
      BY <3>1 DEF FlowInv, RequestTells, RequestAgrees
    <3>7. fleet[f] # "none"
      BY <1>2, <3>5, <3>6, EditParts DEF Agree, DocIsSound
    <3>8. EventsOf(f, line') = {e} /\ AtMostOne(f, line')
      BY <2>4, <3>3
    <3>9. EventTells(f)'
      BY <2>2, <3>6, <3>7, <3>8 DEF EventTells
    <3>10. QuietTells(f)'
      BY <3>8 DEF QuietTells
    <3>11. \A p \in Edits : p # q => ~Concerned(p, f)'
      BY <1>6, <3>3 DEF Concerned, UnderWay, Concerns
    <3>12. edit'[q].kind = "anonymise" /\ edit'[q].pc = "orphans" /\ f \notin edit'[q].left
      BY <1>7 DEF EditMoves
    <3>13. RequestAgrees(q, f)'
      BY <3>12 DEF RequestAgrees, Publishes
    <3>14. QED
      BY <1>2, <1>9, <3>8, <3>9, <3>10, <3>11, <3>12, <3>13, FlowOfOne
  <2>7. ASSUME NEW g \in EditedFlows, g \notin disturbed' PROVE FlowInv(g)'
    BY <1>10, <1>11, <2>4, <2>6, <2>7
  <2>8. QED
    BY <1>8, <1>9, <2>5, <2>7 DEF EditInv
<1>12. CASE /\ lostEvents < MaxLostEvents /\ lostEvents' = lostEvents + 1
            /\ disturbed' = disturbed \cup {f}
            /\ UNCHANGED line
  <2>1. lostEvents' \in 0 .. MaxLostEvents
    BY <1>12, EditParts, EditAssumption
  <2>2. EditTypeOK'
    BY <1>2, <1>6, <1>12, <2>1, EditParts DEF EditTypeOK
  <2>3. ASSUME NEW g \in EditedFlows, g \notin disturbed' PROVE FlowInv(g)'
    BY <1>10, <1>12, <2>3
  <2>4. QED
    BY <1>8, <1>9, <2>2, <2>3 DEF EditInv
<1>13. QED
  BY <1>11, <1>12 DEF PublishOrNot

LEMMA CleanupKeeps ==
    ASSUME EditInv, NEW q \in Edits, CleanupOrphans(q)
    PROVE  EditInv'
<1>1. edit[q].kind = "anonymise" /\ UNCHANGED <<doc, fleet, declared>>
  BY DEF CleanupOrphans
<1>2. CASE /\ edit[q].pc = "read"
           /\ edit' = [edit EXCEPT ![q].pc = "orphans", ![q].left = Orphans]
           /\ UNCHANGED <<line, disturbed, lostEvents>>
  BY <1>1, <1>2, OrphansAreFound
<1>3. CASE /\ edit[q].pc = "orphans" /\ edit[q].left = {} /\ Step(q, "done")
           /\ UNCHANGED <<line, disturbed, lostEvents>>
  BY <1>1, <1>3, OrphansAreDone
<1>4. CASE \E f \in edit[q].left :
             /\ edit[q].pc = "orphans"
             /\ PublishOrNot("stopping", f, doc[f].graph)
             /\ edit' = [edit EXCEPT ![q].left = @ \ {f}]
  <2>1. PICK f \in edit[q].left :
             /\ edit[q].pc = "orphans"
             /\ PublishOrNot("stopping", f, doc[f].graph)
             /\ edit' = [edit EXCEPT ![q].left = @ \ {f}]
    BY <1>4
  <2>2. QED
    BY <1>1, <2>1, OrphanIsStopped
<1>5. QED
  BY <1>2, <1>3, <1>4 DEF CleanupOrphans

----------------------------------------------------------------------------
(* Events.                                                                  *)

(* Of an undisturbed flow with an event under way, the event is its only     *)
(* one, and no request has read the flow or is about to publish for it.      *)
LEMMA EventAlone ==
    ASSUME EditInv, NEW i \in DOMAIN line, NEW f \in EditedFlows, f = line[i].flow, f \notin disturbed,
           edit' = edit, EventTells(f)', AtMostOne(f, line'), QuietTells(f)'
    PROVE  FlowInv(f)'
<1>1. FlowInv(f)
  BY EditParts
<1>2. line[i] \in EventsOf(f, line)
  BY DEF EventsOf, ToSet
<1>3. \A q \in Edits : Concerned(q, f) =>
          edit[q].kind = "anonymise" /\ edit[q].pc = "orphans" /\ f \notin edit[q].left
  BY <1>1, <1>2 DEF FlowInv, Alone
<1>4. ASSUME NEW q \in Edits PROVE RequestAgrees(q, f)'
  <2>1. CASE Concerned(q, f)
    BY <1>3, <2>1 DEF RequestAgrees, Publishes
  <2>2. CASE ~Concerned(q, f)
    BY <2>2, EditParts DEF RequestAgrees, Publishes, Concerned, Concerns, UnderWay, RequestIsSound
  <2>3. QED
    BY <2>1, <2>2
<1>5. Alone(f)'
  BY <1>1, <1>3 DEF FlowInv, Alone, Concerned, UnderWay, Concerns
<1>6. QED
  BY <1>4, <1>5 DEF FlowInv, RequestTells

(* What the events under way become when the i-th is taken, and when another *)
(* event of the same flow follows it.                                       *)
LEMMA EventFollows ==
    ASSUME EditInv, NEW i \in DOMAIN line, NEW f \in EditedFlows, f = line[i].flow,
           line' = Without(i) \/ \E e \in LifeEvents : e.flow = f /\ line' = Append(Without(i), e)
    PROVE  /\ line' \in Seq(LifeEvents)
           /\ \A g : g # f => EventsOf(g, line') = EventsOf(g, line) /\ (AtMostOne(g, line) => AtMostOne(g, line'))
<1>1. PICK s, t : s = line /\ t = RemoveAt(s, i)
  OBVIOUS
<1>2. s \in Seq(LifeEvents) /\ i \in DOMAIN s /\ f = s[i].flow
  BY <1>1, EditParts
<1>3. /\ t \in Seq(LifeEvents)
      /\ \A g : AtMostOne(g, s) => AtMostOne(g, t)
      /\ \A g : g # f => EventsOf(g, t) = EventsOf(g, s)
  BY <1>1, <1>2, EventTaken
<1>4. CASE line' = Without(i)
  BY <1>1, <1>3, <1>4 DEF Without
<1>5. ASSUME NEW e \in LifeEvents, e.flow = f, line' = Append(Without(i), e)
      PROVE  /\ line' \in Seq(LifeEvents)
             /\ \A g : g # f => EventsOf(g, line') = EventsOf(g, line) /\ (AtMostOne(g, line) => AtMostOne(g, line'))
  <2>1. PICK u : u = Append(t, e)
    OBVIOUS
  <2>2. /\ u \in Seq(LifeEvents)
        /\ \A g : g # f => EventsOf(g, u) = EventsOf(g, t) /\ (AtMostOne(g, t) => AtMostOne(g, u))
    BY <1>3, <1>5, <2>1, EventAdded
  <2>3. line' = u
    BY <1>1, <1>5, <2>1 DEF Without
  <2>4. QED
    BY <1>1, <1>3, <2>2, <2>3
<1>6. QED
  BY <1>4, <1>5

LEMMA FollowedAlone ==
    ASSUME EditInv, NEW i \in DOMAIN line, NEW f \in EditedFlows, f = line[i].flow, f \notin disturbed
    PROVE  /\ line' = Without(i) => EventsOf(f, line') = {} /\ AtMostOne(f, line')
           /\ \A e \in LifeEvents : e.flow = f /\ line' = Append(Without(i), e) =>
                 EventsOf(f, line') = {e} /\ AtMostOne(f, line')
<1>1. PICK s, t : s = line /\ t = RemoveAt(s, i)
  OBVIOUS
<1>2. s \in Seq(LifeEvents) /\ i \in DOMAIN s /\ f = s[i].flow
  BY <1>1, EditParts
<1>3. AtMostOne(f, s)
  <2>1. FlowInv(f)
    BY EditParts
  <2>2. QED
    BY <1>1, <2>1 DEF FlowInv, Alone
<1>4. t \in Seq(LifeEvents) /\ EventsOf(f, t) = {} /\ AtMostOne(f, t)
  BY <1>1, <1>2, <1>3, EventTakenOf
<1>5. line' = Without(i) => EventsOf(f, line') = {} /\ AtMostOne(f, line')
  BY <1>1, <1>4 DEF Without
<1>6. ASSUME NEW e \in LifeEvents, e.flow = f, line' = Append(Without(i), e)
      PROVE  EventsOf(f, line') = {e} /\ AtMostOne(f, line')
  <2>1. PICK u : u = Append(t, e)
    OBVIOUS
  <2>2. EventsOf(f, u) = {e} /\ AtMostOne(f, u)
    <3>1. Added(e.flow, t, e, u)
      BY <1>4, <2>1, EventAddedOf
    <3>2. QED
      BY <1>4, <1>6, <3>1 DEF Added
  <2>3. QED
    BY <1>1, <1>6, <2>1, <2>2 DEF Without
<1>7. QED
  BY <1>5, <1>6

(* A flow whose events, document and orchestrators a step leaves alone.      *)
LEMMA OtherEventsKeep ==
    ASSUME EditInv, edit' = edit, declared' = declared, NEW g \in EditedFlows, g \notin disturbed,
           doc'[g] = doc[g], fleet'[g] = fleet[g],
           EventsOf(g, line') = EventsOf(g, line), AtMostOne(g, line) => AtMostOne(g, line')
    PROVE  FlowInv(g)'
<1>1. FlowInv(g)
  BY EditParts
<1>2. RequestsLeft(g)
  BY DEF RequestsLeft, Publishes
<1>3. FlowLeft(g)
  BY <1>2 DEF FlowLeft
<1>4. \A p \in Edits : RequestIsSound(p)'
  BY EditParts DEF RequestIsSound
<1>5. QED
  BY <1>1, <1>3, <1>4, FlowIsLeft

LEMMA ServeKeeps ==
    ASSUME EditInv, NEW i \in DOMAIN line, OrchestratorsServe(i)
    PROVE  EditInv'
<1>1. PICK e : e = line[i]
  OBVIOUS
<1>2. e \in LifeEvents
  <2>1. line \in Seq(LifeEvents)
    BY EditParts
  <2>2. QED
    BY <1>1, <2>1
<1>3. PICK f \in EditedFlows : f = e.flow
  BY <1>2 DEF LifeEvents
<1>4. /\ doc' = doc /\ edit' = edit /\ disturbed' = disturbed
      /\ declared' = declared /\ lostEvents' = lostEvents
  BY DEF OrchestratorsServe
<1>5. f = line[i].flow /\ e.graph \in Graphs
  BY <1>1, <1>2, <1>3 DEF LifeEvents
<1>6. \A g \in EditedFlows : DocIsSound(g)'
  BY <1>4, EditParts DEF DocIsSound
<1>7. \A p \in Edits : RequestIsSound(p)'
  BY <1>4, EditParts DEF RequestIsSound
<1>8. ASSUME f \notin disturbed
      PROVE  /\ doc[f].exists
             /\ e.kind = "starting" => doc[f].status = "starting" /\ e.graph = doc[f].graph
             /\ e.kind = "stopping" => doc[f].status \in {"stopping", "active"}
             /\ e.kind = "stopping" /\ doc[f].status = "active" => fleet[f] # "none" /\ ~doc[f].owned
  <2>1. FlowInv(f)
    BY <1>8, EditParts
  <2>2. e \in EventsOf(f, line)
    BY <1>1, <1>3 DEF EventsOf, ToSet
  <2>3. QED
    BY <2>1, <2>2 DEF FlowInv, EventTells
<1>9. ASSUME fleet' \in [EditedFlows -> Graphs], \A g \in EditedFlows : g # f => fleet'[g] = fleet[g],
             line' = Without(i) \/ \E r \in LifeEvents : r.flow = f /\ line' = Append(Without(i), r),
             f \notin disturbed => EventTells(f)' /\ AtMostOne(f, line') /\ QuietTells(f)'
      PROVE  EditInv'
  <2>1. /\ line' \in Seq(LifeEvents)
        /\ \A g : g # f => EventsOf(g, line') = EventsOf(g, line) /\ (AtMostOne(g, line) => AtMostOne(g, line'))
    BY <1>5, <1>9, EventFollows
  <2>2. EditTypeOK'
    BY <1>4, <1>9, <2>1, EditParts DEF EditTypeOK
  <2>3. ASSUME NEW g \in EditedFlows, g \notin disturbed' PROVE FlowInv(g)'
    <3>1. CASE g # f
      BY <1>4, <1>9, <2>1, <2>3, <3>1, OtherEventsKeep
    <3>2. CASE g = f
      BY <1>4, <1>5, <1>9, <2>3, <3>2, EventAlone
    <3>3. QED
      BY <3>1, <3>2
  <2>4. QED
    BY <1>6, <1>7, <2>2, <2>3 DEF EditInv
<1>10. CASE /\ e.kind = "starting"
            /\ fleet' = [fleet EXCEPT ![f] = e.graph]
            /\ \E report \in {"started", "failed"} :
                   line' = Append(Without(i), [kind |-> report, flow |-> f, graph |-> e.graph])
  <2>1. PICK report \in {"started", "failed"} :
            line' = Append(Without(i), [kind |-> report, flow |-> f, graph |-> e.graph])
    BY <1>10
  <2>2. PICK r : r = [kind |-> report, flow |-> f, graph |-> e.graph]
    OBVIOUS
  <2>3. r \in LifeEvents /\ r.flow = f /\ r.kind = report /\ r.graph = e.graph
    BY <1>5, <2>2 DEF LifeEvents, ReportKinds
  <2>4. line' = Append(Without(i), r)
    BY <2>1, <2>2
  <2>5. /\ fleet' \in [EditedFlows -> Graphs] /\ fleet'[f] = e.graph
        /\ \A g \in EditedFlows : g # f => fleet'[g] = fleet[g]
    BY <1>5, <1>10, EditParts
  <2>6. ASSUME f \notin disturbed PROVE EventTells(f)' /\ AtMostOne(f, line') /\ QuietTells(f)'
    <3>1. EventsOf(f, line') = {r} /\ AtMostOne(f, line')
      BY <1>5, <2>3, <2>4, <2>6, FollowedAlone
    <3>2. doc[f].exists /\ doc[f].status = "starting" /\ e.graph = doc[f].graph
      BY <1>8, <1>10, <2>6
    <3>3. EventTells(f)'
      BY <1>4, <2>3, <2>5, <3>1, <3>2 DEF EventTells
    <3>4. QuietTells(f)'
      BY <3>1 DEF QuietTells
    <3>5. QED
      BY <3>1, <3>3, <3>4
  <2>7. QED
    BY <1>9, <2>3, <2>4, <2>5, <2>6
<1>11. CASE /\ e.kind = "stopping" /\ fleet[f] # "none"
            /\ fleet' = [fleet EXCEPT ![f] = "none"]
            /\ line' = Append(Without(i), [kind |-> "stopped", flow |-> f, graph |-> e.graph])
  <2>1. PICK r : r = [kind |-> "stopped", flow |-> f, graph |-> e.graph]
    OBVIOUS
  <2>2. r \in LifeEvents /\ r.flow = f /\ r.kind = "stopped"
    BY <1>5, <2>1 DEF LifeEvents, ReportKinds
  <2>3. line' = Append(Without(i), r)
    BY <1>11, <2>1
  <2>4. "none" \in Graphs
    BY DEF Graphs
  <2>5. /\ fleet' \in [EditedFlows -> Graphs] /\ fleet'[f] = "none"
        /\ \A g \in EditedFlows : g # f => fleet'[g] = fleet[g]
    BY <1>11, <2>4, EditParts
  <2>6. ASSUME f \notin disturbed PROVE EventTells(f)' /\ AtMostOne(f, line') /\ QuietTells(f)'
    <3>1. EventsOf(f, line') = {r} /\ AtMostOne(f, line')
      BY <1>5, <2>2, <2>3, <2>6, FollowedAlone
    <3>2. doc[f].exists /\ (doc[f].status = "stopping" \/ (doc[f].status = "active" /\ ~doc[f].owned))
      BY <1>8, <1>11, <2>6
    <3>3. EventTells(f)'
      BY <1>4, <2>2, <2>5, <3>1, <3>2 DEF EventTells
    <3>4. QuietTells(f)'
      BY <3>1 DEF QuietTells
    <3>5. QED
      BY <3>1, <3>3, <3>4
  <2>7. QED
    BY <1>9, <2>2, <2>3, <2>5, <2>6
<1>12. CASE /\ e.kind = "stopping" /\ fleet[f] = "none"
            /\ line' = Without(i)
            /\ UNCHANGED fleet
  <2>1. ASSUME f \notin disturbed PROVE EventTells(f)' /\ AtMostOne(f, line') /\ QuietTells(f)'
    <3>1. EventsOf(f, line') = {} /\ AtMostOne(f, line')
      BY <1>5, <1>12, <2>1, FollowedAlone
    <3>2. doc[f].status = "stopping"
      BY <1>8, <1>12, <2>1
    <3>3. Agree(f)'
      BY <1>4, <1>12, <3>2 DEF Agree
    <3>4. QED
      BY <3>1, <3>3 DEF EventTells, QuietTells
  <2>2. QED
    BY <1>9, <1>12, <2>1, EditParts
<1>13. QED
  BY <1>1, <1>3, <1>10, <1>11, <1>12 DEF OrchestratorsServe

LEMMA ReportKeeps ==
    ASSUME EditInv, NEW i \in DOMAIN line, TakeReport(i)
    PROVE  EditInv'
<1>1. PICK e : e = line[i]
  OBVIOUS
<1>2. e \in LifeEvents
  <2>1. line \in Seq(LifeEvents)
    BY EditParts
  <2>2. QED
    BY <1>1, <2>1
<1>3. PICK f \in EditedFlows : f = e.flow
  BY <1>2 DEF LifeEvents
<1>4. /\ edit' = edit /\ fleet' = fleet /\ disturbed' = disturbed
      /\ declared' = declared /\ lostEvents' = lostEvents
  BY DEF TakeReport
<1>5. PICK st : st = ReportedStatus(e.kind)
  OBVIOUS
<1>6. /\ e.kind \in ReportKinds
      /\ doc' = IF doc[f].exists THEN [doc EXCEPT ![f].status = st] ELSE doc
      /\ line' = IF doc[f].exists /\ e.kind = "failed"
                  THEN Append(Without(i), [kind |-> "stopping", flow |-> f, graph |-> doc[f].graph])
                  ELSE Without(i)
  BY <1>1, <1>3, <1>5 DEF TakeReport, FirstOfKinds
<1>7. /\ st \in Statuses
      /\ e.kind = "started" => st = "active"
      /\ e.kind = "stopped" => st = "inactive"
      /\ e.kind = "failed" => st = "stopping"
  BY <1>5, <1>6 DEF ReportedStatus, ReportKinds, Statuses
<1>8. f = line[i].flow
  BY <1>1, <1>3
<1>9. doc \in [EditedFlows -> Doc] /\ doc[f] \in Doc
  BY EditParts
<1>10. PICK d : d = IF doc[f].exists THEN [doc[f] EXCEPT !.status = st] ELSE doc[f]
  OBVIOUS
<1>11. /\ d \in Doc /\ d.exists = doc[f].exists /\ d.used = doc[f].used /\ d.graph = doc[f].graph
       /\ doc[f].exists => d.status = st
  BY <1>7, <1>9, <1>10 DEF Doc
<1>12. doc' \in [EditedFlows -> Doc] /\ doc'[f] = d /\ \A g \in EditedFlows : g # f => doc'[g] = doc[g]
  <2>1. CASE doc[f].exists
    <3>1. doc' = [doc EXCEPT ![f] = d]
      BY <1>6, <1>10, <2>1
    <3>2. QED
      BY <1>9, <1>11, <3>1
  <2>2. CASE ~doc[f].exists
    BY <1>6, <1>9, <1>10, <2>2
  <2>3. QED
    BY <2>1, <2>2
<1>13. PICK r : r = [kind |-> "stopping", flow |-> f, graph |-> doc[f].graph]
  OBVIOUS
<1>14. r \in LifeEvents /\ r.flow = f /\ r.kind = "stopping"
  <2>1. doc[f].graph \in Graphs
    BY <1>9 DEF Doc
  <2>2. QED
    BY <1>13, <2>1 DEF LifeEvents, OrderKinds
<1>15. /\ doc[f].exists /\ e.kind = "failed" => line' = Append(Without(i), r)
       /\ ~(doc[f].exists /\ e.kind = "failed") => line' = Without(i)
  BY <1>6, <1>13
<1>16. /\ line' \in Seq(LifeEvents)
       /\ \A g : g # f => EventsOf(g, line') = EventsOf(g, line) /\ (AtMostOne(g, line) => AtMostOne(g, line'))
  BY <1>8, <1>14, <1>15, EventFollows
<1>17. EditTypeOK'
  BY <1>4, <1>12, <1>16, EditParts DEF EditTypeOK
<1>18. \A g \in EditedFlows : DocIsSound(g)'
  BY <1>11, <1>12, EditParts DEF DocIsSound
<1>19. \A p \in Edits : RequestIsSound(p)'
  BY <1>4, EditParts DEF RequestIsSound
<1>20. ASSUME f \notin disturbed PROVE FlowInv(f)'
  <2>1. FlowInv(f)
    BY <1>20, EditParts
  <2>2. e \in EventsOf(f, line)
    BY <1>1, <1>3 DEF EventsOf, ToSet
  <2>3. /\ doc[f].exists
        /\ e.kind = "started" => fleet[f] = doc[f].graph
        /\ e.kind = "stopped" => fleet[f] = "none"
    BY <2>1, <2>2 DEF FlowInv, EventTells
  <2>4. doc[f].graph # "none"
    BY <2>3, EditParts DEF DocIsSound
  <2>5. CASE e.kind = "failed"
    <3>1. EventsOf(f, line') = {r} /\ AtMostOne(f, line')
      BY <1>8, <1>14, <1>15, <1>20, <2>3, <2>5, FollowedAlone
    <3>2. EventTells(f)'
      BY <1>7, <1>11, <1>12, <1>14, <2>3, <2>5, <3>1 DEF EventTells
    <3>3. QuietTells(f)'
      BY <3>1 DEF QuietTells
    <3>4. QED
      BY <1>4, <1>8, <1>20, <3>1, <3>2, <3>3, EventAlone
  <2>6. CASE e.kind \in {"started", "stopped"}
    <3>1. EventsOf(f, line') = {} /\ AtMostOne(f, line')
      BY <1>8, <1>15, <1>20, <2>6, FollowedAlone
    <3>2. Agree(f)'
      BY <1>4, <1>7, <1>11, <1>12, <2>3, <2>4, <2>6 DEF Agree
    <3>3. EventTells(f)' /\ QuietTells(f)'
      BY <3>1, <3>2 DEF EventTells, QuietTells
    <3>4. QED
      BY <1>4, <1>8, <1>20, <3>1, <3>3, EventAlone
  <2>7. QED
    BY <1>6, <2>5, <2>6 DEF ReportKinds
<1>21. ASSUME NEW g \in EditedFlows, g \notin disturbed' PROVE FlowInv(g)'
  <2>1. CASE g # f
    BY <1>4, <1>12, <1>16, <1>21, <2>1, OtherEventsKeep
  <2>2. CASE g = f
    BY <1>4, <1>20, <1>21, <2>2
  <2>3. QED
    BY <2>1, <2>2
<1>22. QED
  BY <1>17, <1>18, <1>19, <1>21 DEF EditInv

LEMMA EditStutters == ASSUME EditInv, UNCHANGED EditVars PROVE EditInv'
<1>1. /\ doc' = doc /\ edit' = edit /\ line' = line /\ fleet' = fleet
      /\ disturbed' = disturbed /\ declared' = declared /\ lostEvents' = lostEvents
  BY DEF EditVars
<1>2. EditTypeOK'
  BY <1>1 DEF EditInv, EditTypeOK
<1>3. (\A f \in EditedFlows : DocIsSound(f)') /\ \A q \in Edits : RequestIsSound(q)'
  BY <1>1, EditParts DEF DocIsSound, RequestIsSound
<1>4. ASSUME NEW g \in EditedFlows, g \notin disturbed' PROVE FlowInv(g)'
  BY <1>1, <1>4, OtherEventsKeep
<1>5. QED
  BY <1>2, <1>3, <1>4 DEF EditInv

LEMMA EditStep == EditInv /\ [EditNext]_EditVars => EditInv'
<1> SUFFICES ASSUME EditInv, [EditNext]_EditVars PROVE EditInv'
  OBVIOUS
<1>1. ASSUME NEW q \in Edits, CreateFlow(q) \/ ReadFlow(q) \/ Anonymise(q) PROVE EditInv'
  BY <1>1, CreateFlowKeeps, ReadKeeps, AnonymiseKeeps
<1>2. CASE GoOn
  BY <1>2, WriteKeeps, PublishKeeps, CleanupKeeps DEF GoOn
<1>3. CASE Serve
  BY <1>3, ServeKeeps, ReportKeeps DEF Serve
<1>4. CASE UNCHANGED EditVars
  BY <1>4, EditStutters
<1>5. QED
  BY <1>1, <1>2, <1>3, <1>4 DEF EditNext

LEMMA EditInvHolds == EditSpec => []EditInv
<1>1. QED
  BY EditBegins, EditStep, PTL DEF EditSpec

----------------------------------------------------------------------------
(* The variables of the repository, its requests, its events and the         *)
(* orchestrators keep their types.                                          *)
THEOREM EditTypesHold == EditSpec => []EditTypeOK
<1>1. EditInv => EditTypeOK
  BY DEF EditInv
<1>2. QED
  BY <1>1, EditInvHolds, PTL

(* When nothing is under way for a flow and nothing has overlapped, the      *)
(* orchestrators run the stored graph of an active flow, and nothing for any *)
(* other that no bulk update has declared inactive since it was started or   *)
(* stopped: for any number of flows, requests and lost publishes.           *)
THEOREM QuietFlowsAgreeHolds == EditSpec => []QuietFlowsAgree
<1>1. EditInv => QuietFlowsAgree
  <2> SUFFICES ASSUME EditInv, NEW f \in EditedFlows \ disturbed, Undisturbed(f) PROVE Agree(f)
    BY DEF QuietFlowsAgree, Agree
  <2>1. FlowInv(f)
    BY EditParts
  <2>2. QED
    BY <2>1, UndisturbedIsQuiet
<1>2. QED
  BY <1>1, EditInvHolds, PTL

----------------------------------------------------------------------------
(* The life of a flow.                                                      *)

LEMMA DisturbedLives ==
    ASSUME NEW f \in EditedFlows, disturbed \subseteq disturbed', f \in disturbed'
    PROVE  [Life(f)!Next]_(Life(f)!vars)
<1>1. /\ LifeStatus(f)' = "disturbed" /\ LifeGraph(f)' = "none" /\ LifeRuns(f)' = "none"
      /\ LifeOwned(f)' = FALSE /\ LifeDeclared(f)' = FALSE
  BY DEF LifeStatus, LifeGraph, LifeRuns, LifeOwned, LifeDeclared, Orderly
<1>2. QED
  BY <1>1 DEF Life!Next, Life!Disturb

LEMMA LifeStays ==
    ASSUME NEW f \in EditedFlows, f \notin disturbed, f \notin disturbed',
           doc'[f] = doc[f], fleet'[f] = fleet[f], (f \in declared') = (f \in declared)
    PROVE  [Life(f)!Next]_(Life(f)!vars)
<1>1. /\ LifeStatus(f)' = LifeStatus(f) /\ LifeGraph(f)' = LifeGraph(f) /\ LifeRuns(f)' = LifeRuns(f)
      /\ LifeOwned(f)' = LifeOwned(f) /\ LifeDeclared(f)' = LifeDeclared(f)
  BY DEF LifeStatus, LifeGraph, LifeRuns, LifeOwned, LifeDeclared, Orderly
<1>2. QED
  BY <1>1 DEF Life!vars

LEMMA LifeNow ==
    ASSUME NEW f \in EditedFlows, f \notin disturbed, doc[f].exists
    PROVE  /\ LifeStatus(f) = doc[f].status /\ LifeGraph(f) = doc[f].graph
           /\ LifeRuns(f) = fleet[f] /\ (LifeOwned(f) <=> doc[f].owned)
<1>1. Orderly(f)
  BY DEF Orderly
<1>2. LifeStatus(f) = doc[f].status /\ LifeGraph(f) = doc[f].graph /\ LifeRuns(f) = fleet[f]
  BY <1>1 DEF LifeStatus, LifeGraph, LifeRuns
<1>3. LifeOwned(f) <=> doc[f].owned
  BY <1>1 DEF LifeOwned
<1>4. QED
  BY <1>2, <1>3

(* What is left of the life of a flow that a step has not removed.           *)
LEMMA LifeNext ==
    ASSUME NEW f \in EditedFlows, f \notin disturbed, f \notin disturbed', doc[f].exists, doc'[f].exists
    PROVE  /\ LifeStatus(f)' = doc'[f].status /\ LifeGraph(f)' = doc'[f].graph
           /\ LifeRuns(f)' = fleet'[f]
           /\ doc'[f].owned = doc[f].owned => LifeOwned(f)' = LifeOwned(f)
           /\ ~doc'[f].owned => LifeOwned(f)' = FALSE
           /\ (f \in declared') = (f \in declared) => LifeDeclared(f)' = LifeDeclared(f)
           /\ f \in declared' => LifeDeclared(f)' = TRUE
           /\ f \notin declared' => LifeDeclared(f)' = FALSE
<1>1. Orderly(f) /\ Orderly(f)'
  BY DEF Orderly
<1>2. LifeStatus(f)' = doc'[f].status /\ LifeGraph(f)' = doc'[f].graph /\ LifeRuns(f)' = fleet'[f]
  BY <1>1 DEF LifeStatus, LifeGraph, LifeRuns
<1>3. doc'[f].owned = doc[f].owned => LifeOwned(f)' = LifeOwned(f)
  BY <1>1 DEF LifeOwned
<1>4. ~doc'[f].owned => LifeOwned(f)' = FALSE
  BY <1>1 DEF LifeOwned
<1>5. (f \in declared') = (f \in declared) => LifeDeclared(f)' = LifeDeclared(f)
  BY DEF LifeDeclared
<1>6. f \in declared' => LifeDeclared(f)' = TRUE
  BY DEF LifeDeclared
<1>7. f \notin declared' => LifeDeclared(f)' = FALSE
  BY DEF LifeDeclared
<1>8. QED
  BY <1>2, <1>3, <1>4, <1>5, <1>6, <1>7

(* What a step is in the life of a flow that it does not disturb.           *)
LEMMA LifeCreate ==
    ASSUME EditInv, NEW q \in Edits, CreateFlow(q), NEW f \in EditedFlows, f \notin disturbed
    PROVE  [Life(f)!Next]_(Life(f)!vars)
<1>1. PICK g \in EditedFlows : g = edit[q].flow
  BY EditParts
<1>2. PICK d : d = [exists |-> TRUE, used |-> TRUE, owned |-> TRUE, status |-> "inactive", graph |-> q]
  OBVIOUS
<1>3. /\ ~doc[g].used /\ doc' = [doc EXCEPT ![g] = d]
      /\ fleet' = fleet /\ disturbed' = disturbed /\ declared' = declared
  BY <1>1, <1>2 DEF CreateFlow
<1>4. CASE f # g
  BY <1>3, <1>4, LifeStays, EditParts
<1>5. CASE f = g
  <2>1. ~doc[f].exists /\ ~doc[f].used
    BY <1>3, <1>5, EditParts DEF DocIsSound
  <2>2. doc'[f] = d
    BY <1>3, <1>5, EditParts
  <2>3. LifeStatus(f) = "absent"
    BY <2>1 DEF LifeStatus, Orderly
  <2>4. d.exists /\ d.owned = TRUE /\ d.status = "inactive" /\ d.graph = q
    BY <1>2
  <2>5. Orderly(f)'
    BY <1>3, <2>2, <2>4 DEF Orderly
  <2>6. LifeStatus(f)' = "inactive" /\ LifeGraph(f)' = q
    BY <1>3, <2>2, <2>4, <2>5 DEF LifeStatus, LifeGraph
  <2>7. LifeOwned(f)' = TRUE
    BY <2>2, <2>4, <2>5 DEF LifeOwned
  <2>8. LifeRuns(f)' = LifeRuns(f) /\ LifeDeclared(f)' = LifeDeclared(f)
    BY <1>3 DEF LifeRuns, LifeDeclared
  <2>9. q \in Graphs \ {"none"}
    BY EditAssumption DEF Graphs
  <2>10. QED
    BY <2>3, <2>6, <2>7, <2>8, <2>9 DEF Life!Next, Life!Create
<1>6. QED
  BY <1>4, <1>5

LEMMA LifeWrite ==
    ASSUME EditInv, NEW q \in Edits, WriteFlow(q), NEW f \in EditedFlows, f \notin disturbed
    PROVE  [Life(f)!Next]_(Life(f)!vars)
<1>1. PICK g \in EditedFlows : g = edit[q].flow
  BY EditParts
<1>2. PICK kind : kind = edit[q].kind
  OBVIOUS
<1>3. /\ kind # "anonymise" /\ edit[q].pc = "read"
      /\ fleet' = fleet /\ disturbed' = disturbed
  BY <1>2 DEF WriteFlow
<1>4. /\ doc \in [EditedFlows -> Doc] /\ doc[g] \in Doc /\ edit[q].seen \in Doc
      /\ declared \subseteq EditedFlows
  BY EditParts DEF Edit
<1>5. ASSUME g = f
      PROVE  /\ edit[q].seen = doc[f] /\ doc[f].exists
             /\ kind \in {"patch", "delete"} => doc[f].status = "inactive"
             /\ doc[f].status # "starting"
             /\ LifeStatus(f) = doc[f].status /\ LifeGraph(f) = doc[f].graph
             /\ LifeRuns(f) = fleet[f] /\ (LifeOwned(f) <=> doc[f].owned)
  <2>1. /\ edit[q].seen = doc[f] /\ doc[f].exists /\ Agree(f)
        /\ kind \in {"patch", "delete"} => doc[f].status = "inactive"
    BY <1>1, <1>2, <1>3, <1>5, WhatWasRead
  <2>2. /\ LifeStatus(f) = doc[f].status /\ LifeGraph(f) = doc[f].graph
        /\ LifeRuns(f) = fleet[f] /\ (LifeOwned(f) <=> doc[f].owned)
    BY <2>1, LifeNow
  <2>3. QED
    BY <2>1, <2>2 DEF Agree
<1>6. CASE UNCHANGED <<doc, declared>>
  BY <1>3, <1>6, LifeStays
<1>7. CASE /\ kind \in {"patch", "bulk"}
           /\ doc' = [doc EXCEPT ![g] = [edit[q].seen EXCEPT !.graph = q, !.status = "inactive"]]
           /\ declared' = IF doc[g].status = "inactive" THEN declared ELSE declared \cup {g}
           /\ Mine(g)
  <2>1. PICK d : d = [edit[q].seen EXCEPT !.graph = q, !.status = "inactive"]
    OBVIOUS
  <2>2. q \in Graphs /\ q # "none"
    BY EditAssumption DEF Graphs
  <2>3. /\ d.exists = edit[q].seen.exists /\ d.owned = edit[q].seen.owned
        /\ d.status = "inactive" /\ d.graph = q
    BY <1>4, <2>1, <2>2 DEF Doc
  <2>4. doc' = [doc EXCEPT ![g] = d]
    BY <1>7, <2>1
  <2>5. CASE f # g
    <3>1. doc'[f] = doc[f] /\ (f \in declared') = (f \in declared)
      BY <1>4, <1>7, <2>4, <2>5
    <3>2. QED
      BY <1>3, <3>1, LifeStays
  <2>6. CASE f = g
    <3>1. doc'[f] = d
      BY <1>4, <2>4, <2>6
    <3>2. /\ doc'[f].exists /\ doc'[f].status = "inactive" /\ doc'[f].graph = q
          /\ doc'[f].owned = doc[f].owned /\ doc[f].owned
      BY <1>5, <1>7, <2>3, <2>6, <3>1 DEF Mine
    <3>3. /\ LifeStatus(f)' = "inactive" /\ LifeGraph(f)' = q
          /\ LifeRuns(f)' = LifeRuns(f) /\ LifeOwned(f)' = LifeOwned(f) /\ LifeOwned(f)
          /\ (f \in declared') = (f \in declared) => LifeDeclared(f)' = LifeDeclared(f)
          /\ f \in declared' => LifeDeclared(f)' = TRUE
      BY <1>3, <1>5, <2>6, <3>2, LifeNext
    <3>4. LifeStatus(f) \in {"inactive", "active", "stopping"} /\ LifeStatus(f) = doc[f].status
      BY <1>4, <1>5, <2>6 DEF Doc, Statuses
    <3>5. CASE doc[f].status = "inactive"
      <4>1. LifeDeclared(f)' = LifeDeclared(f)
        BY <1>7, <2>6, <3>3, <3>5
      <4>2. QED
        BY <2>2, <3>3, <3>4, <3>5, <4>1 DEF Life!Next, Life!Change
    <3>6. CASE doc[f].status # "inactive"
      <4>1. LifeDeclared(f)' = TRUE
        BY <1>7, <2>6, <3>3, <3>6
      <4>2. QED
        BY <2>2, <3>3, <3>4, <3>6, <4>1 DEF Life!Next, Life!Declare
    <3>7. QED
      BY <3>5, <3>6
  <2>7. QED
    BY <2>5, <2>6
<1>8. CASE /\ kind = "delete" /\ Mine(g)
           /\ doc' = [doc EXCEPT ![g] = [NoDoc EXCEPT !.used = TRUE]]
           /\ UNCHANGED declared
  <2>1. PICK d : d = [NoDoc EXCEPT !.used = TRUE]
    OBVIOUS
  <2>2. ~d.exists /\ d.used
    BY <2>1 DEF NoDoc
  <2>3. doc' = [doc EXCEPT ![g] = d] /\ declared' = declared
    BY <1>8, <2>1
  <2>4. CASE f # g
    BY <1>3, <1>4, <2>3, <2>4, LifeStays
  <2>5. CASE f = g
    <3>1. doc'[f] = d
      BY <1>4, <2>3, <2>5
    <3>2. /\ LifeStatus(f)' = "deleted" /\ LifeGraph(f)' = "none"
      BY <1>3, <2>2, <3>1 DEF LifeStatus, LifeGraph, Orderly
    <3>3. LifeOwned(f)' = FALSE
      BY <2>2, <3>1 DEF LifeOwned, Orderly
    <3>4. LifeRuns(f)' = LifeRuns(f) /\ LifeDeclared(f)' = LifeDeclared(f)
      BY <1>3, <2>3 DEF LifeRuns, LifeDeclared
    <3>5. LifeOwned(f) /\ LifeStatus(f) = "inactive"
      BY <1>5, <1>8, <2>5 DEF Mine
    <3>6. QED
      BY <3>2, <3>3, <3>4, <3>5 DEF Life!Next, Life!Delete
  <2>6. QED
    BY <2>4, <2>5
<1>9. CASE /\ kind \in {"start", "stop"} /\ Mine(g)
           /\ doc' = [doc EXCEPT ![g].status = IF kind = "start" THEN "starting" ELSE "stopping"]
           /\ declared' = declared \ {g}
  <2>1. PICK st : st = IF kind = "start" THEN "starting" ELSE "stopping"
    OBVIOUS
  <2>2. PICK d : d = [doc[g] EXCEPT !.status = st]
    OBVIOUS
  <2>3. d.exists = doc[g].exists /\ d.owned = doc[g].owned /\ d.status = st /\ d.graph = doc[g].graph
    BY <1>4, <2>2 DEF Doc
  <2>4. doc' = [doc EXCEPT ![g] = d] /\ declared' = declared \ {g}
    BY <1>9, <2>1, <2>2
  <2>5. CASE f # g
    <3>1. doc'[f] = doc[f] /\ (f \in declared') = (f \in declared)
      BY <1>4, <2>4, <2>5
    <3>2. QED
      BY <1>3, <3>1, LifeStays
  <2>6. CASE f = g
    <3>1. doc'[f] = d
      BY <1>4, <2>4, <2>6
    <3>2. /\ doc[f].exists /\ doc[f].owned /\ doc'[f].exists /\ doc'[f].owned = doc[f].owned
          /\ doc'[f].status = st /\ doc'[f].graph = doc[f].graph
      BY <1>9, <2>3, <2>6, <3>1 DEF Mine
    <3>3. /\ LifeStatus(f)' = st /\ LifeGraph(f)' = LifeGraph(f) /\ LifeRuns(f)' = LifeRuns(f)
          /\ LifeOwned(f)' = LifeOwned(f) /\ LifeDeclared(f)' = FALSE /\ LifeOwned(f)
      BY <1>3, <1>5, <2>4, <2>6, <3>2, LifeNext
    <3>4. LifeStatus(f) # "starting"
      BY <1>5, <2>6
    <3>5. CASE kind = "start"
      BY <2>1, <3>3, <3>4, <3>5 DEF Life!Next, Life!Start, Life!Becomes
    <3>6. CASE kind = "stop"
      BY <2>1, <3>3, <3>4, <3>6 DEF Life!Next, Life!Stop, Life!Becomes
    <3>7. QED
      BY <1>9, <3>5, <3>6
  <2>7. QED
    BY <2>5, <2>6
<1>10. QED
  BY <1>1, <1>2, <1>6, <1>7, <1>8, <1>9 DEF WriteFlow

LEMMA LifeAnonymise ==
    ASSUME EditInv, NEW q \in Edits, Anonymise(q), NEW f \in EditedFlows, f \notin disturbed, f \notin disturbed'
    PROVE  [Life(f)!Next]_(Life(f)!vars)
<1>1. PICK d \in Doc : d = doc[f]
  BY EditParts
<1>2. PICK w : w = [d EXCEPT !.owned = FALSE]
  OBVIOUS
<1>3. /\ w.exists = d.exists /\ w.used = d.used /\ w.status = d.status /\ w.graph = d.graph
      /\ ~w.owned
  BY <1>2 DEF Doc
<1>4. doc'[f] = w /\ fleet' = fleet /\ declared' = declared
  BY <1>1, <1>2 DEF Anonymise
<1>5. LifeRuns(f)' = LifeRuns(f) /\ LifeDeclared(f)' = LifeDeclared(f)
  BY <1>4 DEF LifeRuns, LifeDeclared
<1>6. Orderly(f)' = Orderly(f)
  BY <1>1, <1>3, <1>4 DEF Orderly
<1>7. LifeStatus(f)' = LifeStatus(f) /\ LifeGraph(f)' = LifeGraph(f)
  BY <1>1, <1>3, <1>4, <1>6 DEF LifeStatus, LifeGraph
<1>8. LifeOwned(f)' = FALSE
  BY <1>3, <1>4 DEF LifeOwned
<1>9. CASE doc[f].exists
  <2>1. LifeStatus(f) \in Statuses
    BY <1>1, <1>9, LifeNow DEF Doc
  <2>2. QED
    BY <1>5, <1>7, <1>8, <2>1 DEF Life!Next, Life!Disown, Life!Exists, Statuses
<1>10. CASE ~doc[f].exists
  <2>1. LifeOwned(f) = FALSE
    BY <1>10 DEF LifeOwned, Orderly
  <2>2. QED
    BY <1>5, <1>7, <1>8, <2>1 DEF Life!vars
<1>11. QED
  BY <1>9, <1>10

LEMMA LifeServe ==
    ASSUME EditInv, NEW i \in DOMAIN line, OrchestratorsServe(i), NEW f \in EditedFlows, f \notin disturbed
    PROVE  [Life(f)!Next]_(Life(f)!vars)
<1>1. PICK e : e = line[i]
  OBVIOUS
<1>2. PICK g : g = e.flow
  OBVIOUS
<1>3. /\ doc' = doc /\ disturbed' = disturbed /\ declared' = declared
  BY DEF OrchestratorsServe
<1>4. /\ fleet \in [EditedFlows -> Graphs]
      /\ \/ e.kind = "starting" /\ fleet' = [fleet EXCEPT ![g] = e.graph]
         \/ e.kind = "stopping" /\ fleet[g] # "none" /\ fleet' = [fleet EXCEPT ![g] = "none"]
         \/ fleet' = fleet
  BY <1>1, <1>2, EditParts DEF OrchestratorsServe
<1>5. CASE fleet'[f] = fleet[f]
  BY <1>3, <1>5, LifeStays
<1>6. CASE fleet'[f] # fleet[f]
  <2>1. f = g /\ e \in EventsOf(f, line) /\ FlowInv(f)
    BY <1>1, <1>2, <1>4, <1>6, EditParts DEF EventsOf, ToSet
  <2>2. /\ doc[f].exists
        /\ e.kind = "starting" => doc[f].status = "starting" /\ e.graph = doc[f].graph
        /\ e.kind = "stopping" => doc[f].status = "stopping" \/ (doc[f].status = "active" /\ ~doc[f].owned)
    BY <2>1 DEF FlowInv, EventTells
  <2>3. /\ LifeStatus(f) = doc[f].status /\ LifeGraph(f) = doc[f].graph
        /\ LifeRuns(f) = fleet[f] /\ (LifeOwned(f) <=> doc[f].owned)
    BY <2>2, LifeNow
  <2>4. /\ LifeStatus(f)' = LifeStatus(f) /\ LifeGraph(f)' = LifeGraph(f) /\ LifeRuns(f)' = fleet'[f]
        /\ LifeOwned(f)' = LifeOwned(f) /\ LifeDeclared(f)' = LifeDeclared(f)
    BY <1>3, <2>2, <2>3, LifeNext
  <2>5. CASE e.kind = "starting" /\ fleet'[f] = e.graph
    <3>1. LifeStatus(f) = "starting" /\ LifeRuns(f)' = LifeGraph(f)
      BY <2>2, <2>3, <2>4, <2>5
    <3>2. QED
      BY <2>4, <3>1 DEF Life!Next, Life!Launch
  <2>6. CASE e.kind = "stopping" /\ fleet[f] # "none" /\ fleet'[f] = "none"
    <3>1. /\ LifeStatus(f) = "stopping" \/ (LifeStatus(f) = "active" /\ ~LifeOwned(f))
          /\ LifeRuns(f) # "none" /\ LifeRuns(f)' = "none"
      BY <2>2, <2>3, <2>4, <2>6
    <3>2. QED
      BY <2>4, <3>1 DEF Life!Next, Life!Halt, Life!Ending
  <2>7. QED
    BY <1>4, <1>6, <2>1, <2>5, <2>6
<1>7. QED
  BY <1>5, <1>6

LEMMA LifeReport ==
    ASSUME EditInv, NEW i \in DOMAIN line, TakeReport(i), NEW f \in EditedFlows, f \notin disturbed
    PROVE  [Life(f)!Next]_(Life(f)!vars)
<1>1. PICK e : e = line[i]
  OBVIOUS
<1>2. PICK g : g = e.flow
  OBVIOUS
<1>3. PICK st : st = ReportedStatus(e.kind)
  OBVIOUS
<1>4. /\ fleet' = fleet /\ disturbed' = disturbed /\ declared' = declared
      /\ e.kind \in ReportKinds /\ doc \in [EditedFlows -> Doc]
      /\ doc' = IF doc[g].exists THEN [doc EXCEPT ![g].status = st] ELSE doc
  BY <1>1, <1>2, <1>3, EditParts DEF TakeReport, FirstOfKinds
<1>5. CASE doc'[f] = doc[f]
  BY <1>4, <1>5, LifeStays
<1>6. CASE doc'[f] # doc[f]
  <2>1. f = g /\ e \in EventsOf(f, line) /\ FlowInv(f)
    BY <1>1, <1>2, <1>4, <1>6, EditParts DEF EventsOf, ToSet
  <2>2. /\ doc[f].exists
        /\ e.kind \in {"started", "failed"} => doc[f].status = "starting" /\ fleet[f] = doc[f].graph
        /\ e.kind = "stopped" =>
              /\ fleet[f] = "none"
              /\ doc[f].status = "stopping" \/ (doc[f].status = "active" /\ ~doc[f].owned)
    BY <2>1 DEF FlowInv, EventTells
  <2>3. PICK d : d = [doc[f] EXCEPT !.status = st]
    OBVIOUS
  <2>4. d.exists = doc[f].exists /\ d.owned = doc[f].owned /\ d.status = st /\ d.graph = doc[f].graph
    BY <1>4, <2>3 DEF Doc
  <2>5. doc'[f] = d
    BY <1>4, <2>1, <2>2, <2>3
  <2>6. /\ doc'[f].exists /\ doc'[f].owned = doc[f].owned
        /\ doc'[f].status = st /\ doc'[f].graph = doc[f].graph
    BY <2>2, <2>4, <2>5
  <2>7. /\ LifeStatus(f) = doc[f].status /\ LifeGraph(f) = doc[f].graph
        /\ LifeRuns(f) = fleet[f] /\ (LifeOwned(f) <=> doc[f].owned)
    BY <2>2, LifeNow
  <2>8. /\ LifeStatus(f)' = st /\ LifeGraph(f)' = LifeGraph(f) /\ LifeRuns(f)' = LifeRuns(f)
        /\ LifeOwned(f)' = LifeOwned(f) /\ LifeDeclared(f)' = LifeDeclared(f)
    BY <1>4, <2>2, <2>6, <2>7, LifeNext
  <2>9. CASE e.kind = "started"
    <3>1. st = "active" /\ LifeStatus(f) = "starting" /\ LifeRuns(f) = LifeGraph(f)
      BY <1>3, <2>2, <2>7, <2>9 DEF ReportedStatus
    <3>2. QED
      BY <2>8, <3>1 DEF Life!Next, Life!Started, Life!Becomes
  <2>10. CASE e.kind = "failed"
    <3>1. st = "stopping" /\ LifeStatus(f) = "starting" /\ LifeRuns(f) = LifeGraph(f)
      BY <1>3, <2>2, <2>7, <2>10 DEF ReportedStatus
    <3>2. QED
      BY <2>8, <3>1 DEF Life!Next, Life!Failed, Life!Becomes
  <2>11. CASE e.kind = "stopped"
    <3>1. /\ st = "inactive" /\ LifeRuns(f) = "none"
          /\ LifeStatus(f) = "stopping" \/ (LifeStatus(f) = "active" /\ ~LifeOwned(f))
      BY <1>3, <2>2, <2>7, <2>11 DEF ReportedStatus
    <3>2. QED
      BY <2>8, <3>1 DEF Life!Next, Life!Stopped, Life!Ending, Life!Becomes
  <2>12. QED
    BY <1>4, <2>9, <2>10, <2>11 DEF ReportKinds
<1>7. QED
  BY <1>5, <1>6

LEMMA DisturbedStays == [EditNext]_EditVars => disturbed \subseteq disturbed'
BY DEF EditNext, GoOn, Serve, CreateFlow, ReadFlow, Anonymise, WriteFlow, PublishFlow, CleanupOrphans,
       PublishOrNot, Disturb, OrchestratorsServe, TakeReport, EditVars

LEMMA LifeStep ==
    ASSUME EditInv, [EditNext]_EditVars, NEW f \in EditedFlows
    PROVE  [Life(f)!Next]_(Life(f)!vars)
<1>1. disturbed \subseteq disturbed'
  BY DisturbedStays
<1>2. CASE f \in disturbed'
  BY <1>1, <1>2, DisturbedLives
<1>3. CASE f \notin disturbed'
  <2>1. f \notin disturbed
    BY <1>1, <1>3
  <2>2. CASE doc' = doc /\ fleet' = fleet /\ declared' = declared
    BY <1>3, <2>1, <2>2, LifeStays
  <2>3. ASSUME NEW q \in Edits, CreateFlow(q) \/ WriteFlow(q) \/ Anonymise(q)
        PROVE  [Life(f)!Next]_(Life(f)!vars)
    BY <1>3, <2>1, <2>3, LifeCreate, LifeWrite, LifeAnonymise
  <2>4. CASE Serve
    BY <2>1, <2>4, LifeServe, LifeReport DEF Serve
  <2>5. ASSUME NEW q \in Edits, ReadFlow(q) \/ PublishFlow(q) \/ CleanupOrphans(q)
        PROVE  doc' = doc /\ fleet' = fleet /\ declared' = declared
    BY <2>5 DEF ReadFlow, PublishFlow, CleanupOrphans
  <2>6. CASE UNCHANGED EditVars
    BY <2>2, <2>6 DEF EditVars
  <2>7. QED
    BY <2>2, <2>3, <2>4, <2>5, <2>6 DEF EditNext, GoOn
<1>4. QED
  BY <1>2, <1>3

LEMMA LifeBegins == ASSUME EditInit, NEW f \in EditedFlows PROVE Life(f)!Init
<1>1. /\ doc[f] \in {NoDoc, FirstDoc} /\ fleet[f] = "none" /\ disturbed = {} /\ declared = {}
  BY DEF EditInit
<1>2. LifeRuns(f) = "none" /\ LifeDeclared(f) = FALSE
  BY <1>1 DEF LifeRuns, LifeDeclared
<1>3. CASE doc[f] = NoDoc
  <2>1. ~doc[f].exists /\ ~doc[f].used
    BY <1>3 DEF NoDoc
  <2>2. LifeStatus(f) = "absent" /\ LifeGraph(f) = "none"
    BY <1>1, <2>1 DEF LifeStatus, LifeGraph, Orderly
  <2>3. LifeOwned(f) = FALSE
    BY <2>1 DEF LifeOwned, Orderly
  <2>4. QED
    BY <1>2, <2>2, <2>3 DEF Life!Init
<1>4. CASE doc[f] = FirstDoc
  <2>1. doc[f].exists /\ doc[f].owned = TRUE /\ doc[f].status = "inactive" /\ doc[f].graph = "first"
    BY <1>4 DEF FirstDoc
  <2>2. Orderly(f)
    BY <1>1, <2>1 DEF Orderly
  <2>3. LifeStatus(f) = "inactive" /\ LifeGraph(f) = "first"
    BY <1>1, <2>1, <2>2 DEF LifeStatus, LifeGraph
  <2>4. LifeOwned(f) = TRUE
    BY <2>1, <2>2 DEF LifeOwned
  <2>5. "first" \in Graphs \ {"none"}
    BY DEF Graphs
  <2>6. QED
    BY <1>2, <2>3, <2>4, <2>5 DEF Life!Init
<1>5. QED
  BY <1>1, <1>3, <1>4

(* What users ask of a flow and orchestrators report of it, in any number of *)
(* requests that read and write after awaits, amounts to the life of FlowLife*)
(* as long as nothing about the flow overlaps and no publish is lost.        *)
THEOREM LivesAreInOrderHolds == EditSpec => LivesAreInOrder
<1>1. EditInit => \A f \in EditedFlows : Life(f)!Init
  BY LifeBegins
<1>2. EditInv /\ [EditNext]_EditVars => [\A f \in EditedFlows : UNCHANGED Life(f)!vars \/ Life(f)!Next]_EditVars
  BY LifeStep
<1>3. QED
  BY <1>1, <1>2, EditInvHolds, PTL DEF EditSpec, LivesAreInOrder
===============================================================================
