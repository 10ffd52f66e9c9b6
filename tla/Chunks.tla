-------------------------------- MODULE Chunks --------------------------------
(***************************************************************************)
(* The integration layer service puts the records together that several      *)
(* flows deliver in pieces.  POST /chunks looks for the chunk that has the   *)
(* record's common identifier (cid), merges the piece with what it has read  *)
(* and writes the result whole, or makes a chunk.  POST /chunks/split makes  *)
(* chunks without a cid and a def, which a later POST may find.  MongoDB     *)
(* removes a chunk an hour after it was written.                            *)
(*                                                                         *)
(* One integration layer adapter.  Of a request's def only the domain is     *)
(* compared with that of the chunk, beside the cid's name: a key stands for  *)
(* the two.  Its schema, by which the result is judged, is the request's own *)
(* business.  A piece stands for the properties it brings.                   *)
(***************************************************************************)
EXTENDS Naturals

CONSTANTS
    Cids,      \* values of common identifiers
    Keys,      \* what is compared: names of identifiers and domains
    Schemas,
    Pieces,    \* what flows know of a record
    Required,  \* Required[s]: what schema s requires
    Posts,     \* requests POST /chunks, one each
    Splits,    \* requests POST /chunks/split, one each
    ChunkIds

ASSUME ChunkAssumption == Required \in [Schemas -> SUBSET Pieces] /\ "none" \notin Keys

VARIABLES
    chunk,   \* chunk[c]: the document
    post,    \* post[p]: progress of a request
    split,   \* requests POST /chunks/split that were made
    mingled, \* history: identifiers of which two requests overlapped
    lapsed   \* history: identifiers of which a chunk was removed

ChunkVars == <<chunk, post, split, mingled, lapsed>>

NoKey == "none"
Unmade == [exists |-> FALSE, used |-> FALSE, cid |-> "none", key |-> NoKey, pieces |-> {}, valid |-> FALSE]

ChunkTypeOK ==
    /\ chunk \in [ChunkIds -> [exists : BOOLEAN, used : BOOLEAN, cid : Cids \cup {"none"},
                               key : Keys \cup {NoKey}, pieces : SUBSET Pieces, valid : BOOLEAN]]
    /\ post \in [Posts -> [pc : {"new", "found", "missing", "accepted", "refused"},
                           cid : Cids \cup {"none"}, key : Keys \cup {NoKey},
                           schema : Schemas \cup {"none"}, piece : Pieces \cup {"none"}, id : ChunkIds \cup {"none"}, seen : SUBSET Pieces]]
    /\ split \subseteq Splits /\ mingled \subseteq Cids /\ lapsed \subseteq Cids

ChunksInit ==
    /\ chunk = [c \in ChunkIds |-> Unmade]
    /\ post = [p \in Posts |-> [pc |-> "new", cid |-> "none", key |-> NoKey, schema |-> "none",
                                piece |-> "none", id |-> "none", seen |-> {}]]
    /\ split = {} /\ mingled = {} /\ lapsed = {}

ChunksOf(cid) == {c \in ChunkIds : chunk[c].exists /\ chunk[c].cid = cid}
PostsUnderWay(cid) == {p \in Posts : post[p].cid = cid /\ post[p].pc \in {"found", "missing"}}
IsValid(schema, pieces) == Required[schema] \subseteq pieces

----------------------------------------------------------------------------

(* findOne: any chunk that has the cid.                                     *)
FindChunk(p, cid, key, schema, piece) ==
    LET r == [post[p] EXCEPT !.cid = cid, !.key = key, !.schema = schema, !.piece = piece] IN
    /\ post[p].pc = "new"
    /\ \/ \E c \in ChunksOf(cid) :
            post' = [post EXCEPT ![p] = [r EXCEPT !.pc = "found", !.id = c, !.seen = chunk[c].pieces]]
       \/ /\ ChunksOf(cid) = {}
          /\ post' = [post EXCEPT ![p] = [r EXCEPT !.pc = "missing"]]
    /\ mingled' = IF PostsUnderWay(cid) = {} THEN mingled ELSE mingled \cup {cid}
    /\ UNCHANGED <<chunk, split, lapsed>>

Unused == {c \in ChunkIds : ~chunk[c].used}

MakeChunk(cid, key, pieces, valid) ==
    /\ Unused # {}
    /\ LET c == CHOOSE u \in Unused : TRUE IN
           chunk' = [chunk EXCEPT ![c] = [exists |-> TRUE, used |-> TRUE, cid |-> cid, key |-> key,
                                            pieces |-> pieces, valid |-> valid]]

Answer(p, pc) == post' = [post EXCEPT ![p].pc = pc, ![p].id = "none", ![p].seen = {}]

CreateChunk(p) ==
    /\ post[p].pc = "missing"
    /\ MakeChunk(post[p].cid, post[p].key, {post[p].piece}, IsValid(post[p].schema, {post[p].piece}))
    /\ Answer(p, "accepted")
    /\ UNCHANGED <<split, mingled, lapsed>>

(* Slip: the payload of the request is stored in place of the merged one.    *)
MergedOnlyNew(p) == {post[p].piece}
Merged(p) == post[p].seen \cup {post[p].piece}

(* A chunk with another key, or one of a split, is not touched.  One that was *)
(* removed in the meantime is not made again, and the answer is 200.         *)
UpdateChunk(p) ==
    LET r == post[p] IN
    /\ r.pc = "found"
    /\ \/ /\ chunk[r.id].key # r.key
          /\ Answer(p, "refused")
          /\ UNCHANGED chunk
       \/ /\ chunk[r.id].key = r.key
          /\ Answer(p, "accepted")
          /\ chunk' = IF chunk[r.id].exists
                      THEN [chunk EXCEPT ![r.id].pieces = Merged(p), ![r.id].valid = IsValid(r.schema, Merged(p))]
                      ELSE chunk
    /\ UNCHANGED <<split, mingled, lapsed>>

(* splitChunk: a chunk with some of the payload's properties.               *)
SplitChunk(z) ==
    /\ z \notin split
    /\ split' = split \cup {z}
    /\ \E cid \in Cids, piece \in Pieces : MakeChunk(cid, NoKey, {piece}, FALSE)
    /\ UNCHANGED <<post, mingled, lapsed>>

(* The index on expireAt.  The key stays: it is part of what was read.       *)
ExpireChunk(c) ==
    /\ chunk[c].exists
    /\ chunk' = [chunk EXCEPT ![c].exists = FALSE]
    /\ lapsed' = lapsed \cup {chunk[c].cid}
    /\ UNCHANGED <<post, split, mingled>>

ChunksNext ==
    \/ \E p \in Posts :
          \/ \E cid \in Cids, key \in Keys, schema \in Schemas, piece \in Pieces :
                FindChunk(p, cid, key, schema, piece)
          \/ CreateChunk(p) \/ UpdateChunk(p)
    \/ \E z \in Splits : SplitChunk(z)
    \/ \E c \in ChunkIds : ExpireChunk(c)

ChunksSpec == ChunksInit /\ [][ChunksNext]_ChunkVars

----------------------------------------------------------------------------

Accepted(cid) == {p \in Posts : post[p].cid = cid /\ post[p].pc = "accepted"}

(* Pieces that were accepted for a record meet in one chunk, with the same    *)
(* key, which is valid exactly if they are complete for a schema that one of  *)
(* them named: for the schema, if all named the same.  Pieces are refused     *)
(* rather than put elsewhere.  Not so if two requests for the record          *)
(* overlapped, which both make a chunk or of which one forgets the other's    *)
(* piece, or if a chunk of it has expired.                                   *)
AcceptedPiecesMeet ==
    \A cid \in Cids \ (mingled \cup lapsed) :
        PostsUnderWay(cid) = {} /\ Accepted(cid) # {} =>
            \E c \in ChunksOf(cid) :
                /\ ChunksOf(cid) \cap {d \in ChunkIds : chunk[d].key # NoKey} = {c}
                /\ \A p \in Accepted(cid) : chunk[c].key = post[p].key
                /\ chunk[c].pieces = {post[p].piece : p \in Accepted(cid)}
                /\ \E p \in Accepted(cid) : chunk[c].valid = IsValid(post[p].schema, chunk[c].pieces)
=============================================================================
