------------------------------ MODULE Embeddings ------------------------------
(***************************************************************************)
(* The vectors of semantic search (src/src/embeddings.rs, embeddings/),    *)
(* kept in a database of their own for the messages of the email index.    *)
(* A run asks the provider for one message after another; with --rebuild   *)
(* it keeps the answers until the end and then replaces what is there.     *)
(* A message stands for its chunks, whose ids carry its id and content;    *)
(* the store is the one of a single provider and model.                    *)
(***************************************************************************)
EXTENDS EmailIndex

CONSTANTS
  Embedders,   \* processes that embed
  NoLimit,     \* no --limit
  AllIds       \* no restriction to the messages of a sync

(* A setting says, beside what EmailIndex has:                              *)
(*   embeddings   the options an embedding run may have: rebuild, limit,    *)
(*                handles (AllIds or the messages a sync stored)            *)

ASSUME EmbeddingAssumption ==
  \A s \in Settings : \A options \in s.embeddings :
    /\ options.rebuild \in BOOLEAN
    /\ options.handles = AllIds \/ options.handles \subseteq Ids

Chunks == [id : Ids, content : Contents]

VARIABLES
  vectors,     \* chunks with a vector in the store
  embedders

embedVars == <<vectors, embedders>>

NotEmbedding == [pc |-> "idle", rebuild |-> FALSE, limited |-> FALSE, listed |-> {},
                 todo |-> {}, errors |-> FALSE, retained |-> {}, staged |-> {}]

EmbedInit ==
  /\ vectors = {}
  /\ embedders = [e \in Embedders |-> NotEmbedding]

EmbedAt(e, pc) == embedders[e].pc = pc

\* list_messages: rows of the index, with the content they have by now.
IndexedChunks(ids) ==
  {[id |-> id, content |-> catalog[id].content] : id \in {id \in ids : indexed[id] # NoRow}}

Filtered(handles) == IF handles = AllIds THEN IndexedChunks(Ids)
                     ELSE IndexedChunks(handles)

Limited(chunks, limit) ==
  IF limit = NoLimit THEN chunks
  ELSE {c \in chunks : Cardinality({d \in chunks : d.id < c.id}) < limit}

StartEmbedding(e) ==
  /\ EmbedAt(e, "idle")
  /\ \E options \in setting.embeddings :
       LET listed == Filtered(options.handles) IN
       embedders' = [embedders EXCEPT
                       ![e] = [NotEmbedding EXCEPT
                                 !.pc = "reading", !.rebuild = options.rebuild,
                                 !.limited = options.limit # NoLimit,
                                 !.listed = listed,
                                 !.todo = Limited(listed, options.limit)]]
  /\ UNCHANGED <<indexVars, vectors>>

First(chunks) == CHOOSE c \in chunks : \A d \in chunks : c.id <= d.id

\* Mutant: any vector of the message will do.
HasEmbeddingOfMessage(chunk) == \E c \in vectors : c.id = chunk.id

HasEmbedding(chunk) == chunk \in vectors

(* The message's blob is read and cut into chunks; what has no vector yet,  *)
(* and in a rebuild everything, goes to the provider.                       *)
ReadChunks(e) ==
  LET chunk == First(embedders[e].todo) IN
  /\ EmbedAt(e, "reading")
  /\ embedders[e].todo # {}
  /\ embedders' =
       IF chunk.content \in unreadable
       THEN [embedders EXCEPT ![e].errors = TRUE, ![e].todo = @ \ {chunk}]
       ELSE IF HasEmbedding(chunk) /\ ~embedders[e].rebuild
       THEN [embedders EXCEPT ![e].retained = @ \union {chunk}, ![e].todo = @ \ {chunk}]
       ELSE [embedders EXCEPT ![e].pc = "waiting"]
  /\ UNCHANGED <<indexVars, vectors>>

\* The provider's answer is stored, or kept until the end of a rebuild.
VectorsArrive(e) ==
  LET chunk == First(embedders[e].todo) IN
  /\ EmbedAt(e, "waiting")
  /\ embedders' = [embedders EXCEPT
                     ![e].pc = "reading",
                     ![e].todo = @ \ {chunk},
                     ![e].retained = @ \union {chunk},
                     ![e].staged = IF embedders[e].rebuild THEN @ \union {chunk} ELSE @]
  /\ vectors' = IF embedders[e].rebuild THEN vectors ELSE vectors \union {chunk}
  /\ UNCHANGED indexVars

\* Mutant: a message that could not be read does not stand in the way.
MayReplaceDespiteErrors(run) == run.rebuild /\ ~run.limited

MayReplace(run) == run.rebuild /\ ~run.limited /\ ~run.errors

(* A rebuild that read every message of the account replaces its vectors;   *)
(* any other only adds what it has.                                         *)
FinishEmbedding(e) ==
  LET run == embedders[e] IN
  /\ EmbedAt(e, "reading") /\ run.todo = {}
  /\ vectors' = IF MayReplace(run) THEN run.staged \union (vectors \intersect run.retained)
                ELSE vectors \union run.staged
  /\ embedders' = [embedders EXCEPT ![e] = NotEmbedding]
  /\ UNCHANGED indexVars

\* A provider that fails or miscounts, an error of the store, or a crash.
EmbeddingFails(e) ==
  /\ setting.fails
  /\ ~EmbedAt(e, "idle")
  /\ embedders' = [embedders EXCEPT ![e] = NotEmbedding]
  /\ UNCHANGED <<indexVars, vectors>>

EmbedStep(e) ==
  StartEmbedding(e) \/ ReadChunks(e) \/ VectorsArrive(e) \/ FinishEmbedding(e)

EmbedNext == \E e \in Embedders \intersect setting.working : EmbedStep(e) \/ EmbeddingFails(e)

(* What a semantic search shows for the vectors it scored: messages the     *)
(* index has, with the content that was embedded.                           *)
Hydrated(found) == {c \in found : indexed[c.id] # NoRow /\ catalog[c.id].content = c.content}

-----------------------------------------------------------------------------
EmbedTypeOK ==
  /\ vectors \subseteq Chunks
  /\ embedders \in [Embedders -> [pc : {"idle", "reading", "waiting"},
                                  rebuild : BOOLEAN, limited : BOOLEAN,
                                  listed : SUBSET Chunks, todo : SUBSET Chunks,
                                  errors : BOOLEAN, retained : SUBSET Chunks,
                                  staged : SUBSET Chunks]]

(* A vector goes only by a rebuild that did not find its message in the     *)
(* index: one that was cut short by a limit, an unreadable message or an    *)
(* error of the provider takes nothing away (index_embeddings_with_provider).*)
VectorsKept ==
  [][\A c \in vectors \ vectors' :
       \E e \in Embedders : ~EmbedAt(e, "idle") /\ c \notin embedders[e].listed]_vectors
=============================================================================
