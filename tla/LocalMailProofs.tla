---------------------------- MODULE LocalMailProofs ----------------------------
(***************************************************************************)
(* What holds of an account's stored mail for any messages, processes and  *)
(* settings: the state is well typed, vectors are kept, a handle goes on   *)
(* meaning what it was shown for, and threads are a partition.             *)
(***************************************************************************)
EXTENDS LocalMail, FiniteSetTheorems, NaturalsInduction, TLAPS

-----------------------------------------------------------------------------
(* Types *)

\* The foreign key of the index.
ForeignKeys == \A id \in Ids : indexed[id] # NoRow => Exists(id)

IndexInv == IndexTypeOK /\ ForeignKeys

Runs == [pc : RebuildPcs, seen : Versions, listing : [Ids -> Contents \union {NoRow}]]

LEMMA AtRestTyped == AtRest \in Runs
BY DEF AtRest, Runs, RebuildPcs, Versions

LEMMA IndexAtFirst == LocalInit => IndexInv
<1> SUFFICES ASSUME LocalInit PROVE IndexInv
  OBVIOUS
<1>1. /\ setting \in Settings /\ catalog = setting.start /\ unreadable = {} /\ changed = 0
      /\ version = setting.version
      /\ indexed = [id \in Ids |-> IF version = "3" /\ catalog[id] # NoRow
                                   THEN catalog[id].content ELSE NoRow]
      /\ docs = [id \in Ids |-> NoRow] /\ rebuilds = [x \in Rebuilders |-> AtRest]
  BY DEF LocalInit, IndexInit
<1>2. /\ catalog \in [Ids -> Rows \union {NoRow}] /\ version \in Versions /\ setting.most \in Nat
  BY <1>1, IndexAssumption
<1>3. indexed \in [Ids -> Contents \union {NoRow}]
  <2>1. \A id \in Ids : catalog[id] # NoRow => catalog[id].content \in Contents
    BY <1>2 DEF Rows
  <2>2. QED
    BY <1>1, <2>1
<1>4. ForeignKeys
  BY <1>1 DEF ForeignKeys, Exists
<1>5. docs \in [Ids -> Contents \union {NoRow}] /\ rebuilds \in [Rebuilders -> Runs]
  BY <1>1, AtRestTyped
<1>6. changed \in 0..setting.most
  BY <1>1, <1>2
<1>7. QED
  BY <1>1, <1>2, <1>3, <1>4, <1>5, <1>6 DEF IndexInv, IndexTypeOK, Runs

LEMMA MailChangesTyped ==
  ASSUME IndexInv, MailChanges
  PROVE  IndexInv' /\ setting' = setting
<1>1. /\ setting \in Settings /\ setting.most \in Nat
      /\ catalog \in [Ids -> Rows \union {NoRow}]
      /\ unreadable \subseteq Contents /\ changed \in 0..setting.most
      /\ indexed \in [Ids -> Contents \union {NoRow}]
      /\ docs \in [Ids -> Contents \union {NoRow}]
  BY IndexAssumption DEF IndexInv, IndexTypeOK
<1>2. ASSUME NEW id \in Ids, NEW new \in Rows \union {NoRow}, Change(id, new), UNCHANGED docs,
             \/ UNCHANGED indexed /\ new # NoRow
             \/ indexed' = [indexed EXCEPT ![id] = NoRow]
      PROVE  IndexInv' /\ setting' = setting
  <2>1. /\ changed < setting.most /\ changed' = changed + 1
        /\ catalog' = [catalog EXCEPT ![id] = new]
        /\ UNCHANGED <<setting, unreadable, version, rebuilds, docs>>
    BY <1>2 DEF Change
  <2>2. changed' \in 0..setting.most
    BY <1>1, <2>1
  <2>3. catalog' \in [Ids -> Rows \union {NoRow}] /\ indexed' \in [Ids -> Contents \union {NoRow}]
    BY <1>1, <1>2, <2>1
  <2>4. ForeignKeys'
    BY <1>1, <1>2, <2>1 DEF IndexInv, ForeignKeys, Exists
  <2>5. QED
    BY <1>1, <2>1, <2>2, <2>3, <2>4 DEF IndexInv, IndexTypeOK
<1>3. ASSUME NEW id \in Ids, NEW content \in Contents, NEW folder \in Folders,
             Ingest(id, content, folder)
      PROVE  IndexInv' /\ setting' = setting
  <2>1. PICK new \in Rows : new = [content |-> content, folder |-> folder, deleted |-> FALSE]
    BY DEF Rows
  <2>2. Change(id, new) /\ UNCHANGED <<indexed, docs>>
    BY <1>3, <2>1 DEF Ingest
  <2>3. QED
    BY <1>2, <2>2, IndexAssumption
<1>4. ASSUME NEW id \in Ids, Exists(id) PROVE catalog[id] \in Rows
  BY <1>1, <1>4 DEF Exists
<1>5. ASSUME NEW id \in Ids, NEW folder \in Folders, Move(id, folder)
      PROVE  IndexInv' /\ setting' = setting
  <2>1. PICK new \in Rows : new = [catalog[id] EXCEPT !.folder = folder]
    <3>1. PICK row \in Rows : row = catalog[id]
      BY <1>4, <1>5 DEF Move
    <3>2. [row EXCEPT !.folder = folder] \in Rows
      BY DEF Rows
    <3>3. QED
      BY <3>1, <3>2
  <2>2. Change(id, new) /\ UNCHANGED <<indexed, docs>>
    BY <1>5, <2>1 DEF Move
  <2>3. QED
    BY <1>2, <2>2, IndexAssumption
<1>6. ASSUME NEW id \in Ids, MarkDeleted(id)
      PROVE  IndexInv' /\ setting' = setting
  <2>1. PICK new \in Rows : new = [catalog[id] EXCEPT !.deleted = TRUE]
    <3>1. PICK row \in Rows : row = catalog[id]
      BY <1>4, <1>6 DEF MarkDeleted, Live
    <3>2. [row EXCEPT !.deleted = TRUE] \in Rows
      BY DEF Rows
    <3>3. QED
      BY <3>1, <3>2
  <2>2. Change(id, new) /\ UNCHANGED <<indexed, docs>>
    BY <1>6, <2>1 DEF MarkDeleted
  <2>3. QED
    BY <1>2, <2>2, IndexAssumption
<1>7. ASSUME NEW id \in Ids, RemoveEntry(id)
      PROVE  IndexInv' /\ setting' = setting
  BY <1>2, <1>7 DEF RemoveEntry
<1>8. ASSUME NEW content \in Contents, LoseBlob(content)
      PROVE  IndexInv' /\ setting' = setting
  <2>1. /\ unreadable' \subseteq Contents /\ changed' \in 0..setting.most
        /\ UNCHANGED <<setting, catalog, version, indexed, docs, rebuilds>>
    BY <1>1, <1>8 DEF LoseBlob
  <2>2. QED
    BY <1>1, <2>1 DEF IndexInv, IndexTypeOK, ForeignKeys, Exists
<1>9. QED
  BY <1>3, <1>5, <1>6, <1>7, <1>8 DEF MailChanges

\* A rebuild, whoever does it.
LEMMA RebuildTyped ==
  ASSUME IndexInv, NEW x \in Rebuilders, RebuildStep(x) \/ RebuildFails(x)
  PROVE  IndexInv' /\ setting' = setting
<1>1. /\ catalog \in [Ids -> Rows \union {NoRow}] /\ version \in Versions
      /\ indexed \in [Ids -> Contents \union {NoRow}]
      /\ docs \in [Ids -> Contents \union {NoRow}]
      /\ rebuilds \in [Rebuilders -> Runs]
      /\ \A id \in Ids : indexed[id] # NoRow => Exists(id)
  BY DEF IndexInv, IndexTypeOK, ForeignKeys, Runs
<1>2. ASSUME NEW run \in Runs, rebuilds' = [rebuilds EXCEPT ![x] = run], UNCHANGED mailVars,
             version' \in Versions,
             indexed' \in [Ids -> Contents \union {NoRow}],
             docs' \in [Ids -> Contents \union {NoRow}],
             \A id \in Ids : indexed'[id] # NoRow => Exists(id)
      PROVE  IndexInv' /\ setting' = setting
  <2>1. rebuilds' \in [Rebuilders -> Runs]
    BY <1>1, <1>2
  <2>2. QED
    BY <1>2, <2>1 DEF IndexInv, IndexTypeOK, ForeignKeys, Exists, mailVars, Runs
<1>3. PICK run \in Runs : run = rebuilds[x]
  BY <1>1
<1>4. CASE OpenIndex(x)
  <2>1. PICK new \in Runs : new = [run EXCEPT !.pc = "opening", !.seen = version]
    <3>1. [run EXCEPT !.pc = "opening", !.seen = version] \in Runs
      BY <1>1 DEF Runs, RebuildPcs
    <3>2. QED
      BY <3>1
  <2>2. rebuilds' = [rebuilds EXCEPT ![x] = new]
    BY <1>1, <1>3, <1>4, <2>1 DEF OpenIndex, Runs
  <2>3. QED
    BY <1>1, <1>2, <1>4, <2>2 DEF OpenIndex
<1>5. CASE EnsureSchema(x)
  <2>1. PICK new \in Runs : new = [run EXCEPT !.pc = "opened"]
    <3>1. [run EXCEPT !.pc = "opened"] \in Runs
      BY DEF Runs, RebuildPcs
    <3>2. QED
      BY <3>1
  <2>2. rebuilds' = [rebuilds EXCEPT ![x] = new]
    BY <1>1, <1>3, <1>5, <2>1 DEF EnsureSchema, Runs
  <2>3. Backfilled \in [Ids -> Contents \union {NoRow}]
    <3>1. \A id \in Ids : indexed[id] # NoRow => catalog[id].content \in Contents
      BY <1>1 DEF Exists, Rows
    <3>2. QED
      BY <3>1 DEF Backfilled
  <2>4. /\ indexed' = indexed \/ indexed' = [id \in Ids |-> NoRow]
        /\ \/ docs' = Backfilled \/ docs' = docs
           \/ docs' = [id \in Ids |-> NoRow]
        /\ version' = "4" /\ UNCHANGED mailVars
    BY <1>5 DEF EnsureSchema
  <2>5. /\ indexed' \in [Ids -> Contents \union {NoRow}]
        /\ \A id \in Ids : indexed'[id] # NoRow => Exists(id)
    BY <1>1, <2>4
  <2>6. docs' \in [Ids -> Contents \union {NoRow}]
    BY <1>1, <2>3, <2>4
  <2>7. QED
    BY <1>2, <2>2, <2>4, <2>5, <2>6 DEF Versions
<1>6. CASE ListCatalog(x)
  <2>1. PICK listing \in [Ids -> Contents \union {NoRow}] :
          listing = [id \in Ids |-> IF Live(id) THEN catalog[id].content ELSE NoRow]
    <3>1. \A id \in Ids : Live(id) => catalog[id].content \in Contents
      BY <1>1 DEF Live, Exists, Rows
    <3>2. QED
      BY <3>1
  <2>2. PICK new \in Runs : new = [run EXCEPT !.pc = "listed", !.listing = listing]
    <3>1. [run EXCEPT !.pc = "listed", !.listing = listing] \in Runs
      BY DEF Runs, RebuildPcs
    <3>2. QED
      BY <3>1
  <2>3. rebuilds' = [rebuilds EXCEPT ![x] = new]
    BY <1>1, <1>3, <1>6, <2>1, <2>2 DEF ListCatalog, Runs
  <2>4. QED
    BY <1>1, <1>2, <1>6, <2>3 DEF ListCatalog
<1>7. CASE Commit(x)
  <2>1. PICK listing \in [Ids -> Contents \union {NoRow}] : listing = run.listing
    BY DEF Runs
  <2>2. /\ ForeignKeysHold(listing)
        /\ indexed' = IndexRebuilt(listing) /\ docs' = DocsRebuilt(listing)
        /\ rebuilds' = [rebuilds EXCEPT ![x] = AtRest]
        /\ UNCHANGED <<mailVars, version>>
    BY <1>3, <1>7, <2>1 DEF Commit
  <2>3. indexed' \in [Ids -> Contents \union {NoRow}]
    BY <1>1, <2>2 DEF IndexRebuilt
  <2>4. docs' \in [Ids -> Contents \union {NoRow}]
    BY <1>1, <2>2 DEF DocsRebuilt
  <2>5. ASSUME NEW id \in Ids, indexed'[id] # NoRow PROVE Exists(id)
    BY <1>1, <2>2, <2>5 DEF IndexRebuilt, ForeignKeysHold
  <2>6. QED
    BY <1>1, <1>2, <2>2, <2>3, <2>4, <2>5, AtRestTyped
<1>8. CASE RebuildFails(x)
  BY <1>1, <1>2, <1>8, AtRestTyped DEF RebuildFails
<1>9. QED
  BY <1>4, <1>5, <1>6, <1>7, <1>8 DEF RebuildStep

\* The index, whatever runs.
LEMMA IndexStays ==
  ASSUME IndexInv, [LocalNext]_localVars
  PROVE  IndexInv' /\ setting' = setting
<1>1. ASSUME UNCHANGED indexVars PROVE IndexInv' /\ setting' = setting
  BY <1>1 DEF indexVars, mailVars, IndexInv, IndexTypeOK, ForeignKeys, Exists
<1>2. CASE UNCHANGED localVars
  BY <1>1, <1>2 DEF localVars
<1>3. CASE MailChanges
  BY <1>3, MailChangesTyped
<1>4. ASSUME NEW x \in Rebuilders, RebuildStep(x) \/ RebuildFails(x)
      PROVE  IndexInv' /\ setting' = setting
  BY <1>4, RebuildTyped
<1>5. CASE EmbedNext
  BY <1>1, <1>5 DEF EmbedNext, EmbedStep, StartEmbedding, ReadChunks, VectorsArrive,
     FinishEmbedding, EmbeddingFails
<1>6. CASE AgentNext
  <2>1. ASSUME NEW p \in Pollers, PollRebuilds(p) PROVE IndexInv' /\ setting' = setting
    <3>1. p \in Rebuilders
      BY AgentAssumption
    <3>2. RebuildStep(p) \/ RebuildFails(p)
      BY <2>1 DEF PollRebuilds, RebuildStep
    <3>3. QED
      BY <1>4, <3>1, <3>2
  <2>2. ASSUME NEW p \in Pollers, Kill(p) PROVE IndexInv' /\ setting' = setting
    <3>1. /\ rebuilds' = [rebuilds EXCEPT ![p] = AtRest]
          /\ UNCHANGED <<mailVars, version, indexed, docs>>
      BY <2>2 DEF Kill
    <3>2. rebuilds' \in [Rebuilders -> Runs]
      BY <3>1, AtRestTyped DEF IndexInv, IndexTypeOK, Runs
    <3>3. QED
      BY <3>1, <3>2 DEF IndexInv, IndexTypeOK, ForeignKeys, Exists, mailVars, Runs
  <2>3. ASSUME NEW p \in Pollers, PollStep(p), ~PollRebuilds(p)
        PROVE  IndexInv' /\ setting' = setting
    <3>1. UNCHANGED indexVars
      BY <2>3 DEF PollStep, TryAcquire, ListMessages, PickBatch, InsertBatch, ClaimMessage,
         Claimed, WritePrompt, StartCommand, CommandEnds, FinishBatch, FinishMessages,
         ReleaseLock
    <3>2. QED
      BY <1>1, <3>1
  <2>4. CASE RemoveLock
    BY <1>1, <2>4 DEF RemoveLock
  <2>5. QED
    BY <1>6, <2>1, <2>2, <2>3, <2>4 DEF AgentNext
<1>7. CASE HandlesNext
  BY <1>1, <1>7 DEF HandlesNext, ShowMessage, ResolveId, LocateMessage, ResolveAs
<1>8. QED
  BY <1>2, <1>3, <1>4, <1>5, <1>6, <1>7 DEF LocalNext

-----------------------------------------------------------------------------
(* Embeddings *)

EmbedRuns == [pc : {"idle", "reading", "waiting"}, rebuild : BOOLEAN, limited : BOOLEAN,
              listed : SUBSET Chunks, todo : SUBSET Chunks, errors : BOOLEAN,
              retained : SUBSET Chunks, staged : SUBSET Chunks]

LEMMA NotEmbeddingTyped == NotEmbedding \in EmbedRuns /\ NotEmbedding.pc = "idle"
BY DEF NotEmbedding, EmbedRuns

LEMMA EmbedAtFirst == LocalInit => EmbedTypeOK
BY NotEmbeddingTyped DEF LocalInit, EmbedInit, EmbedTypeOK, EmbedRuns

(* What a run that goes on has from the listing it began with: without      *)
(* limit or error it retains all that it has been through.                  *)
RunInv(run) ==
  run.pc # "idle" =>
    /\ run.pc = "waiting" => run.todo # {}
    /\ run.todo \subseteq run.listed
    /\ ~run.limited /\ ~run.errors => run.listed \subseteq run.todo \union run.retained

VectorsInv == \A e \in Embedders, run \in EmbedRuns : run = embedders[e] => RunInv(run)

\* What a run becomes.
EmbedsOn(e, run) == embedders' = [embedders EXCEPT ![e] = run]

LEMMA ListedTyped ==
  ASSUME IndexInv, NEW options, options.handles = AllIds \/ options.handles \subseteq Ids
  PROVE  Filtered(options.handles) \subseteq Chunks
<1>1. ASSUME NEW ids \in SUBSET Ids PROVE IndexedChunks(ids) \subseteq Chunks
  <2>1. \A id \in ids : indexed[id] # NoRow => catalog[id].content \in Contents
    BY DEF IndexInv, IndexTypeOK, ForeignKeys, Exists, Rows
  <2>2. QED
    BY <2>1 DEF IndexedChunks, Chunks
<1>2. QED
  BY <1>1 DEF Filtered

LEMMA StartEmbeddingIs ==
  ASSUME IndexInv, EmbedTypeOK, NEW e \in Embedders, StartEmbedding(e)
  PROVE  \E run \in EmbedRuns : EmbedsOn(e, run) /\ RunInv(run) /\ vectors' = vectors
<1>1. PICK options \in setting.embeddings :
        embedders' = [embedders EXCEPT
                        ![e] = [NotEmbedding EXCEPT
                                 !.pc = "reading", !.rebuild = options.rebuild,
                                 !.limited = options.limit # NoLimit,
                                 !.listed = Filtered(options.handles),
                                 !.todo = Limited(Filtered(options.handles), options.limit)]]
  BY DEF StartEmbedding
<1>2. /\ options.rebuild \in BOOLEAN
      /\ options.handles = AllIds \/ options.handles \subseteq Ids
  BY EmbeddingAssumption DEF IndexInv, IndexTypeOK
<1>3. PICK listed \in SUBSET Chunks : listed = Filtered(options.handles)
  BY <1>2, ListedTyped
<1>4. PICK todo \in SUBSET listed :
        /\ todo = Limited(listed, options.limit)
        /\ options.limit = NoLimit => todo = listed
  BY DEF Limited
<1>5. PICK rebuild \in BOOLEAN : rebuild = options.rebuild
  BY <1>2
<1>6. PICK limited \in BOOLEAN : limited = (options.limit # NoLimit)
  OBVIOUS
<1>7. PICK first \in EmbedRuns :
        /\ first = [NotEmbedding EXCEPT !.pc = "reading", !.rebuild = rebuild, !.limited = limited]
        /\ first.pc = "reading" /\ first.limited = limited
  <2>1. PICK idle \in EmbedRuns : idle = NotEmbedding
    BY NotEmbeddingTyped
  <2>2. PICK first : first = [idle EXCEPT !.pc = "reading", !.rebuild = rebuild,
                                          !.limited = limited]
    OBVIOUS
  <2>3. first \in EmbedRuns /\ first.pc = "reading" /\ first.limited = limited
    BY <2>2 DEF EmbedRuns
  <2>4. QED
    BY <2>1, <2>2, <2>3
<1>8. PICK run \in EmbedRuns :
        /\ run = [first EXCEPT !.listed = listed, !.todo = todo]
        /\ run.pc = first.pc /\ run.limited = first.limited /\ run.listed = listed /\ run.todo = todo
  <2>1. PICK run : run = [first EXCEPT !.listed = listed, !.todo = todo]
    OBVIOUS
  <2>2. /\ run \in EmbedRuns
        /\ run.pc = first.pc /\ run.limited = first.limited /\ run.listed = listed /\ run.todo = todo
    BY <2>1 DEF EmbedRuns
  <2>3. QED
    BY <2>1, <2>2
<1>9. run = [NotEmbedding EXCEPT !.pc = "reading", !.rebuild = rebuild, !.limited = limited,
                                 !.listed = listed, !.todo = todo]
  BY <1>7, <1>8, Zenon
<1>10. EmbedsOn(e, run)
  BY <1>1, <1>3, <1>4, <1>5, <1>6, <1>9 DEF EmbedsOn
<1>11. RunInv(run)
  BY <1>4, <1>6, <1>7, <1>8 DEF RunInv
<1>12. QED
  BY <1>8, <1>10, <1>11 DEF StartEmbedding

LEMMA NatLeast ==
  ASSUME NEW S \in SUBSET Nat, S # {}
  PROVE  \E n \in S : \A k \in S : n <= k
<1>1. PICK n \in S : \A k \in S : <<k, n>> \notin OpToRel(<, Nat)
  BY WFMin, NatLessThanWellFounded, Zenon
<1>2. n \in Nat /\ \A k \in S : k \in Nat /\ ~(k < n)
  BY <1>1, Zenon DEF OpToRel
<1>3. QED
  BY <1>2

LEMMA FirstIs ==
  ASSUME NEW chunks \in SUBSET Chunks, chunks # {}
  PROVE  First(chunks) \in chunks
<1> DEFINE ids == {c.id : c \in chunks}
<1>1. ids \in SUBSET Nat /\ ids # {}
  <2>1. Ids \subseteq Nat
    BY IndexAssumption
  <2>2. \A c \in chunks : c.id \in Nat
    BY <2>1 DEF Chunks
  <2>3. QED
    BY <2>2
<1>2. PICK id \in ids : \A other \in ids : id <= other
  BY <1>1, NatLeast
<1>3. \E c \in chunks : \A d \in chunks : c.id <= d.id
  BY <1>2
<1>4. QED
  BY <1>3 DEF First

\* What a run has done with a chunk.
Past(run, chunk) == [run EXCEPT !.todo = @ \ {chunk}]

LEMMA ReadChunksIs ==
  ASSUME NEW e \in Embedders, embedders \in [Embedders -> EmbedRuns],
         NEW run \in EmbedRuns, run = embedders[e], RunInv(run), ReadChunks(e)
  PROVE  \E new \in EmbedRuns : EmbedsOn(e, new) /\ RunInv(new) /\ vectors' = vectors
<1>1. PICK chunk \in run.todo : chunk = First(run.todo)
  <2>1. run.todo \in SUBSET Chunks /\ run.todo # {}
    BY DEF ReadChunks, EmbedRuns
  <2>2. QED
    BY <2>1, FirstIs
<1>2. chunk \in Chunks /\ run.pc = "reading" /\ vectors' = vectors
  BY <1>1 DEF EmbedRuns, ReadChunks, EmbedAt
<1>3. \/ \E flag : /\ flag = TRUE
                   /\ EmbedsOn(e, [run EXCEPT !.errors = flag, !.todo = @ \ {chunk}])
      \/ EmbedsOn(e, [run EXCEPT !.retained = @ \union {chunk}, !.todo = @ \ {chunk}])
      \/ EmbedsOn(e, [run EXCEPT !.pc = "waiting"])
  <2>1. embedders' =
       IF chunk.content \in unreadable
       THEN [embedders EXCEPT ![e].errors = TRUE, ![e].todo = @ \ {chunk}]
       ELSE IF HasEmbedding(chunk) /\ ~embedders[e].rebuild
       THEN [embedders EXCEPT ![e].retained = @ \union {chunk}, ![e].todo = @ \ {chunk}]
       ELSE [embedders EXCEPT ![e].pc = "waiting"]
    BY <1>1 DEF ReadChunks
  <2>2. ASSUME NEW flag
        PROVE  [embedders EXCEPT ![e].errors = flag, ![e].todo = @ \ {chunk}]
                 = [embedders EXCEPT ![e] = [run EXCEPT !.errors = flag, !.todo = @ \ {chunk}]]
    BY DEF EmbedRuns
  <2>4. [embedders EXCEPT ![e].retained = @ \union {chunk}, ![e].todo = @ \ {chunk}]
          = [embedders EXCEPT ![e] = [run EXCEPT !.retained = @ \union {chunk},
                                                 !.todo = @ \ {chunk}]]
    BY DEF EmbedRuns
  <2>5. [embedders EXCEPT ![e].pc = "waiting"]
          = [embedders EXCEPT ![e] = [run EXCEPT !.pc = "waiting"]]
    BY DEF EmbedRuns
  <2>3. QED
    <3>1. CASE chunk.content \in unreadable
      <4>1. PICK flag : flag = TRUE
        OBVIOUS
      <4>2. embedders' = [embedders EXCEPT ![e].errors = flag, ![e].todo = @ \ {chunk}]
        <5>1. embedders' = [embedders EXCEPT ![e].errors = TRUE, ![e].todo = @ \ {chunk}]
          BY <2>1, <3>1, Zenon
        <5>2. QED
          BY <4>1, <5>1, Zenon
      <4>3. EmbedsOn(e, [run EXCEPT !.errors = flag, !.todo = @ \ {chunk}])
        BY <2>2, <4>2 DEF EmbedsOn
      <4>4. QED
        BY <4>1, <4>3
    <3>2. CASE chunk.content \notin unreadable
      <4>1. \/ embedders' = [embedders EXCEPT ![e].retained = @ \union {chunk},
                                              ![e].todo = @ \ {chunk}]
            \/ embedders' = [embedders EXCEPT ![e].pc = "waiting"]
        BY <2>1, <3>2
      <4>2. QED
        BY <2>4, <2>5, <4>1 DEF EmbedsOn
    <3>3. QED
      BY <3>1, <3>2
<1>4. ASSUME NEW flag, flag = TRUE, NEW new, new = [run EXCEPT !.errors = flag, !.todo = @ \ {chunk}]
      PROVE  new \in EmbedRuns /\ RunInv(new)
  <2>1. /\ new \in EmbedRuns /\ new.errors /\ new.todo = run.todo \ {chunk}
        /\ new.pc = run.pc /\ new.listed = run.listed
    BY <1>4 DEF EmbedRuns
  <2>2. QED
    BY <1>2, <2>1 DEF RunInv
<1>5. ASSUME NEW new, new = [run EXCEPT !.retained = @ \union {chunk}, !.todo = @ \ {chunk}]
      PROVE  new \in EmbedRuns /\ RunInv(new)
  <2>1. /\ new \in EmbedRuns /\ new.errors = run.errors /\ new.limited = run.limited
        /\ new.todo = run.todo \ {chunk} /\ new.retained = run.retained \union {chunk}
        /\ new.pc = run.pc /\ new.listed = run.listed
    BY <1>2, <1>5 DEF EmbedRuns
  <2>2. QED
    BY <1>2, <2>1 DEF RunInv
<1>6. ASSUME NEW new, new = [run EXCEPT !.pc = "waiting"]
      PROVE  new \in EmbedRuns /\ RunInv(new)
  <2>1. /\ new \in EmbedRuns /\ new.errors = run.errors /\ new.limited = run.limited
        /\ new.todo = run.todo /\ new.retained = run.retained
        /\ new.listed = run.listed
    BY <1>6 DEF EmbedRuns
  <2>2. QED
    BY <1>1, <1>2, <2>1 DEF RunInv
<1>7. QED
  BY <1>2, <1>3, <1>4, <1>5, <1>6

LEMMA VectorsArriveIs ==
  ASSUME NEW e \in Embedders, embedders \in [Embedders -> EmbedRuns], vectors \subseteq Chunks,
         NEW run \in EmbedRuns, run = embedders[e], RunInv(run), VectorsArrive(e)
  PROVE  /\ \E new \in EmbedRuns : EmbedsOn(e, new) /\ RunInv(new)
         /\ vectors \subseteq vectors' /\ vectors' \subseteq Chunks
<1>1. PICK chunk \in run.todo : chunk = First(run.todo)
  <2>1. run.todo \in SUBSET Chunks /\ run.todo # {}
    BY DEF EmbedRuns, RunInv, VectorsArrive, EmbedAt
  <2>2. QED
    BY <2>1, FirstIs
<1>2. chunk \in Chunks /\ run.pc = "waiting"
  BY <1>1 DEF EmbedRuns, VectorsArrive, EmbedAt
<1>3. PICK staged \in SUBSET Chunks :
        staged = IF run.rebuild THEN run.staged \union {chunk} ELSE run.staged
  BY <1>2 DEF EmbedRuns
<1>4. PICK half : half = [run EXCEPT !.pc = "reading", !.todo = @ \ {chunk}]
  OBVIOUS
<1>5. PICK new : new = [half EXCEPT !.retained = @ \union {chunk}, !.staged = staged]
  OBVIOUS
<1>6. /\ half \in EmbedRuns /\ half.errors = run.errors /\ half.limited = run.limited
      /\ half.todo = run.todo \ {chunk} /\ half.retained = run.retained
      /\ half.pc = "reading" /\ half.listed = run.listed
  BY <1>4 DEF EmbedRuns
<1>7. /\ new \in EmbedRuns /\ new.errors = run.errors /\ new.limited = run.limited
      /\ new.todo = run.todo \ {chunk} /\ new.retained = run.retained \union {chunk}
      /\ new.pc = "reading" /\ new.listed = run.listed
  BY <1>2, <1>5, <1>6 DEF EmbedRuns
<1>8. RunInv(new)
  BY <1>2, <1>7 DEF RunInv
<1>9. EmbedsOn(e, new)
  BY <1>1, <1>3, <1>4, <1>5 DEF VectorsArrive, EmbedsOn, EmbedRuns
<1>10. vectors \subseteq vectors' /\ vectors' \subseteq Chunks
  BY <1>1, <1>2 DEF VectorsArrive
<1>11. QED
  BY <1>7, <1>8, <1>9, <1>10

LEMMA FinishEmbeddingIs ==
  ASSUME NEW e \in Embedders, vectors \subseteq Chunks,
         NEW run \in EmbedRuns, run = embedders[e], RunInv(run), FinishEmbedding(e)
  PROVE  /\ \E new \in EmbedRuns : EmbedsOn(e, new) /\ RunInv(new)
         /\ vectors' \subseteq Chunks
         /\ \A c \in vectors \ vectors' : run.pc # "idle" /\ c \notin run.listed
<1>1. run.pc = "reading" /\ run.todo = {}
  BY DEF FinishEmbedding, EmbedAt
<1>2. \E new \in EmbedRuns : EmbedsOn(e, new) /\ RunInv(new)
  BY NotEmbeddingTyped DEF FinishEmbedding, EmbedsOn, RunInv
<1>3. vectors' = IF MayReplace(run) THEN run.staged \union (vectors \intersect run.retained)
                 ELSE vectors \union run.staged
  BY DEF FinishEmbedding
<1>4. run.staged \subseteq Chunks
  BY DEF EmbedRuns
<1>5. ASSUME NEW c \in vectors \ vectors' PROVE c \notin run.listed
  <2>1. MayReplace(run) /\ c \notin run.retained
    BY <1>3, <1>5
  <2>2. run.listed \subseteq run.retained
    BY <1>1, <2>1 DEF RunInv, MayReplace
  <2>3. QED
    BY <2>1, <2>2
<1>6. QED
  BY <1>1, <1>2, <1>3, <1>4, <1>5

\* The claim about one step.
VectorsStay ==
  \A c \in vectors \ vectors' :
    \E e \in Embedders : ~EmbedAt(e, "idle") /\ c \notin embedders[e].listed

EmbedInv == EmbedTypeOK /\ VectorsInv

LEMMA EmbedStays ==
  ASSUME IndexInv, EmbedInv, [LocalNext]_localVars
  PROVE  EmbedInv' /\ VectorsStay
<1>1. /\ embedders \in [Embedders -> EmbedRuns] /\ vectors \subseteq Chunks
      /\ \A e \in Embedders, run \in EmbedRuns : run = embedders[e] => RunInv(run)
  BY DEF EmbedInv, EmbedTypeOK, EmbedRuns, VectorsInv
<1>2. ASSUME UNCHANGED embedVars PROVE EmbedInv' /\ VectorsStay
  BY <1>2 DEF embedVars, EmbedInv, EmbedTypeOK, VectorsInv, VectorsStay
<1>3. ASSUME NEW e \in Embedders, NEW new \in EmbedRuns, EmbedsOn(e, new), RunInv(new),
             vectors' \subseteq Chunks
      PROVE  EmbedInv'
  <2>1. embedders' \in [Embedders -> EmbedRuns]
    BY <1>1, <1>3 DEF EmbedsOn
  <2>2. ASSUME NEW other \in Embedders, NEW run \in EmbedRuns, run = embedders'[other]
        PROVE  RunInv(run)
    BY <1>1, <1>3, <2>2 DEF EmbedsOn
  <2>3. QED
    BY <1>3, <2>1, <2>2 DEF EmbedInv, EmbedTypeOK, EmbedRuns, VectorsInv
<1>4. ASSUME NEW e \in Embedders, EmbedStep(e) \/ EmbeddingFails(e)
      PROVE  EmbedInv' /\ VectorsStay
  <2>1. PICK run \in EmbedRuns : run = embedders[e] /\ RunInv(run)
    BY <1>1
  <2>2. CASE StartEmbedding(e)
    <3>1. /\ \E new \in EmbedRuns : EmbedsOn(e, new) /\ RunInv(new)
          /\ vectors' = vectors
      BY <2>2, StartEmbeddingIs DEF EmbedInv
    <3>2. QED
      BY <1>1, <1>3, <3>1 DEF VectorsStay
  <2>3. CASE ReadChunks(e)
    <3>1. \E new \in EmbedRuns : EmbedsOn(e, new) /\ RunInv(new) /\ vectors' = vectors
      BY <1>1, <2>1, <2>3, ReadChunksIs
    <3>2. QED
      BY <1>1, <1>3, <3>1 DEF VectorsStay
  <2>4. CASE VectorsArrive(e)
    BY <1>1, <1>3, <2>1, <2>4, VectorsArriveIs DEF VectorsStay
  <2>5. CASE FinishEmbedding(e)
    BY <1>1, <1>3, <2>1, <2>5, FinishEmbeddingIs DEF VectorsStay, EmbedAt
  <2>6. CASE EmbeddingFails(e)
    <3>1. /\ \E new \in EmbedRuns : EmbedsOn(e, new) /\ RunInv(new)
          /\ vectors' = vectors
      BY <2>6, NotEmbeddingTyped DEF EmbeddingFails, EmbedsOn, RunInv
    <3>2. QED
      BY <1>1, <1>3, <3>1 DEF VectorsStay
  <2>7. QED
    BY <1>4, <2>2, <2>3, <2>4, <2>5, <2>6 DEF EmbedStep
<1>5. QED
  BY <1>2, <1>4 DEF LocalNext, localVars, EmbedNext

-----------------------------------------------------------------------------
(* Agent polls *)

PollRuns == [pc : PollPcs, dry : BOOLEAN, candidates : Candidates, thread : SUBSET Contents,
             claims : SUBSET Ids, batch : Nat, outcome : Statuses]

\* Batches that were inserted.
Inserted(poll) == poll.batch <= Len(batches)

AgentInv ==
  /\ lock \in Pollers \union {NoPoller}
  /\ polls \in [Pollers -> PollRuns]
  /\ \A p \in Pollers, poll \in PollRuns : poll = polls[p] => Inserted(poll)
  /\ ledger \in [Ids -> Statuses]
  /\ batchOf \in [Ids -> Nat]
  /\ \A id \in Ids : batchOf[id] <= Len(batches)
  /\ batches \in Seq(Statuses)
  /\ given \subseteq Ids
  /\ kills \in 0..setting.kills

LEMMA AgentInvSays == AgentInv => AgentTypeOK
<1> SUFFICES ASSUME AgentInv PROVE AgentTypeOK
  OBVIOUS
<1>1. Len(batches) \in Nat
  BY DEF AgentInv
<1>2. ASSUME NEW p \in Pollers
      PROVE  polls[p] \in [pc : PollPcs, dry : BOOLEAN, candidates : Candidates,
                           thread : SUBSET Contents, claims : SUBSET Ids,
                           batch : 0..Len(batches), outcome : Statuses]
  <2>1. PICK poll \in PollRuns : poll = polls[p] /\ poll.batch <= Len(batches)
    BY DEF AgentInv, Inserted
  <2>2. poll.batch \in 0..Len(batches)
    BY <1>1, <2>1 DEF PollRuns
  <2>3. QED
    BY <2>1, <2>2 DEF PollRuns
<1>3. batchOf \in [Ids -> 0..Len(batches)]
  BY <1>1 DEF AgentInv
<1>4. QED
  BY <1>2, <1>3 DEF AgentInv, AgentTypeOK

LEMMA NotPollingTyped ==
  ASSUME Len(batches) \in Nat
  PROVE  NotPolling \in PollRuns /\ Inserted(NotPolling)
<1>1. [id \in Ids |-> NoRow] \in Candidates
  BY DEF Candidates
<1>2. NotPolling \in PollRuns /\ NotPolling.batch = 0
  BY <1>1 DEF NotPolling, PollRuns, PollPcs, Statuses
<1>3. QED
  BY <1>2 DEF Inserted

LEMMA AgentAtFirst == LocalInit => AgentInv
<1> SUFFICES ASSUME LocalInit PROVE AgentInv
  OBVIOUS
<1>1. /\ lock = NoPoller /\ polls = [p \in Pollers |-> NotPolling]
      /\ ledger = [id \in Ids |-> "none"] /\ batchOf = [id \in Ids |-> 0]
      /\ batches = <<>> /\ given = {} /\ kills = 0 /\ setting \in Settings
  BY DEF LocalInit, AgentInit, IndexInit
<1>2. Len(batches) \in Nat /\ batches \in Seq(Statuses) /\ setting.kills \in Nat
  BY <1>1, AgentAssumption
<1>3. NotPolling \in PollRuns /\ Inserted(NotPolling)
  BY <1>2, NotPollingTyped
<1>4. QED
  BY <1>1, <1>2, <1>3 DEF AgentInv, Statuses

\* What a poll becomes.
PollsOn(p, poll) == polls' = [polls EXCEPT ![p] = poll]

\* A step that leaves the ledger alone.
LEMMA PollMoves ==
  ASSUME AgentInv, NEW p \in Pollers, NEW poll \in PollRuns, Inserted(poll), PollsOn(p, poll),
         UNCHANGED <<setting, ledger, batchOf, batches, kills>>,
         lock' \in Pollers \union {NoPoller}, given' \subseteq Ids
  PROVE  AgentInv'
<1>1. polls' \in [Pollers -> PollRuns]
  BY DEF AgentInv, PollsOn
<1>2. ASSUME NEW other \in Pollers, NEW now \in PollRuns, now = polls'[other]
      PROVE  Inserted(now)
  BY <1>2 DEF AgentInv, PollsOn
<1>3. \A other \in Pollers, now \in PollRuns : now = polls'[other] => Inserted(now)'
  BY <1>2 DEF Inserted
<1>4. QED
  BY <1>1, <1>3 DEF AgentInv

LEMMA GotoTyped ==
  ASSUME AgentInv, NEW p \in Pollers, NEW pc \in PollPcs, Goto(p, pc)
  PROVE  \E poll \in PollRuns : Inserted(poll) /\ PollsOn(p, poll)
<1>1. PICK poll \in PollRuns : poll = polls[p] /\ Inserted(poll)
  BY DEF AgentInv
<1>2. PICK new : new = [poll EXCEPT !.pc = pc]
  OBVIOUS
<1>3. new \in PollRuns /\ new.batch = poll.batch
  BY <1>2 DEF PollRuns
<1>4. PollsOn(p, new)
  BY <1>1, <1>2 DEF Goto, PollsOn, AgentInv, PollRuns
<1>5. QED
  BY <1>1, <1>3, <1>4 DEF Inserted

LEMMA SmallestIs ==
  ASSUME NEW ids \in SUBSET Ids, ids # {}
  PROVE  Smallest(ids) \in ids
<1>1. ids \in SUBSET Nat
  BY IndexAssumption
<1>2. \E id \in ids : \A other \in ids : id <= other
  BY <1>1, NatLeast
<1>3. QED
  BY <1>2 DEF Smallest

LEMMA ThreadTyped ==
  ASSUME IndexInv, NEW seed \in Ids
  PROVE  /\ Thread(seed) \subseteq Ids
         /\ {catalog[id].content : id \in Thread(seed)} \subseteq Contents
<1>1. Thread(seed) \subseteq Ids /\ \A id \in Thread(seed) : indexed[id] # NoRow
  BY DEF Thread, LinkingTo
<1>2. \A id \in Thread(seed) : catalog[id] \in Rows
  BY <1>1 DEF IndexInv, IndexTypeOK, ForeignKeys, Exists
<1>3. QED
  BY <1>1, <1>2 DEF Rows

LEMMA PickBatchTyped ==
  ASSUME IndexInv, AgentInv, NEW p \in Pollers, PickBatch(p)
  PROVE  \E poll \in PollRuns : Inserted(poll) /\ PollsOn(p, poll)
<1>1. PICK poll \in PollRuns : poll = polls[p] /\ Inserted(poll)
  BY DEF AgentInv
<1>2. ASSUME Goto(p, "done")
      PROVE  \E new \in PollRuns : Inserted(new) /\ PollsOn(p, new)
  BY <1>2, GotoTyped DEF PollPcs
<1>3. ASSUME ~Goto(p, "done")
      PROVE  \E new \in PollRuns : Inserted(new) /\ PollsOn(p, new)
  <2>1. Deciding(p) # {} /\ Deciding(p) \subseteq Ids
    BY <1>3 DEF PickBatch, Deciding
  <2>2. PICK seed \in Ids : seed = Smallest(Deciding(p))
    BY <2>1, SmallestIs
  <2>3. polls' = [polls EXCEPT
                    ![p].pc = "claim",
                    ![p].thread = {catalog[id].content : id \in Thread(seed)},
                    ![p].claims = Claimable(Thread(seed))]
    BY <1>3, <2>1, <2>2 DEF PickBatch
  <2>4. PICK thread \in SUBSET Contents : thread = {catalog[id].content : id \in Thread(seed)}
    BY ThreadTyped
  <2>5. PICK claims \in SUBSET Ids : claims = Claimable(Thread(seed))
    BY ThreadTyped DEF Claimable
  <2>6. PICK new : new = [poll EXCEPT !.pc = "claim", !.thread = thread, !.claims = claims]
    OBVIOUS
  <2>7. new \in PollRuns /\ new.batch = poll.batch
    BY <2>6 DEF PollRuns, PollPcs
  <2>8. polls' = [polls EXCEPT ![p].pc = "claim", ![p].thread = thread, ![p].claims = claims]
    BY <2>3, <2>4, <2>5
  <2>9. PollsOn(p, new)
    BY <1>1, <2>6, <2>8 DEF PollsOn, AgentInv, PollRuns
  <2>10. QED
    BY <1>1, <2>7, <2>9 DEF Inserted
<1>4. QED
  BY <1>2, <1>3

\* The steps that touch neither the ledger nor its batches.
LEMMA PollTyped ==
  ASSUME IndexInv, AgentInv, setting' = setting, NEW p \in Pollers,
         \/ TryAcquire(p) \/ PollRebuilds(p) \/ ListMessages(p) \/ PickBatch(p)
         \/ Claimed(p) \/ WritePrompt(p) \/ StartCommand(p) \/ CommandEnds(p) \/ ReleaseLock(p)
  PROVE  AgentInv'
<1>1. PICK poll \in PollRuns : poll = polls[p] /\ Inserted(poll)
  BY DEF AgentInv
<1>2. lock \in Pollers \union {NoPoller} /\ given \subseteq Ids /\ Len(batches) \in Nat
  BY DEF AgentInv
<1>3. ASSUME NEW new \in PollRuns, Inserted(new), PollsOn(p, new),
             UNCHANGED <<ledger, batchOf, batches, kills>>,
             lock' \in Pollers \union {NoPoller}, given' \subseteq Ids
      PROVE  AgentInv'
  BY <1>3, PollMoves
<1>4. ASSUME NEW pc \in PollPcs, Goto(p, pc),
             UNCHANGED <<ledger, batchOf, batches, kills>>,
             lock' \in Pollers \union {NoPoller}, given' \subseteq Ids
      PROVE  AgentInv'
  BY <1>3, <1>4, GotoTyped
<1>5. CASE TryAcquire(p)
  <2>1. PICK dry \in BOOLEAN :
          polls' = [polls EXCEPT ![p] = [NotPolling EXCEPT !.pc = "locked", !.dry = dry]]
    <3>1. setting.dry \subseteq BOOLEAN
      BY AgentAssumption DEF IndexInv, IndexTypeOK
    <3>2. QED
      BY <1>5, <3>1 DEF TryAcquire
  <2>2. PICK idle \in PollRuns : idle = NotPolling /\ Inserted(idle)
    BY <1>2, NotPollingTyped
  <2>3. PICK new : new = [idle EXCEPT !.pc = "locked", !.dry = dry]
    OBVIOUS
  <2>4. new \in PollRuns /\ new.batch = idle.batch
    BY <2>3 DEF PollRuns, PollPcs
  <2>5. PollsOn(p, new)
    BY <2>1, <2>2, <2>3 DEF PollsOn
  <2>6. Inserted(new)
    BY <2>2, <2>4 DEF Inserted
  <2>7. QED
    BY <1>2, <1>3, <1>5, <2>4, <2>5, <2>6 DEF TryAcquire
<1>6. CASE PollRebuilds(p)
  <2>1. CASE UNCHANGED agentVars
    BY <2>1 DEF agentVars, AgentInv, Inserted
  <2>2. CASE /\ \E pc \in PollPcs : Goto(p, pc)
             /\ UNCHANGED <<lock, ledger, batchOf, batches, given, kills>>
    BY <1>2, <1>4, <2>2
  <2>3. QED
    BY <1>6, <2>1, <2>2 DEF PollRebuilds, PollPcs
<1>7. CASE ListMessages(p)
  <2>1. PICK candidates \in Candidates :
          candidates = [id \in Ids |-> IF indexed[id] = NoRow THEN NoRow ELSE catalog[id]]
    BY DEF IndexInv, IndexTypeOK, Candidates
  <2>2. polls' = [polls EXCEPT ![p].pc = "pick", ![p].candidates = candidates]
    BY <1>7, <2>1 DEF ListMessages
  <2>3. PICK new : new = [poll EXCEPT !.pc = "pick", !.candidates = candidates]
    OBVIOUS
  <2>4. new \in PollRuns /\ new.batch = poll.batch
    BY <2>3 DEF PollRuns, PollPcs
  <2>5. PollsOn(p, new)
    BY <1>1, <2>2, <2>3 DEF PollsOn, AgentInv, PollRuns
  <2>6. QED
    BY <1>1, <1>2, <1>3, <1>7, <2>4, <2>5 DEF ListMessages, Inserted
<1>8. CASE PickBatch(p)
  BY <1>2, <1>3, <1>8, PickBatchTyped DEF PickBatch
<1>9. CASE Claimed(p)
  BY <1>2, <1>4, <1>9 DEF Claimed, PollPcs
<1>10. CASE WritePrompt(p)
  BY <1>2, <1>4, <1>10 DEF WritePrompt, PollPcs
<1>11. ASSUME NEW outcome \in Statuses,
              polls' = [polls EXCEPT ![p].pc = "finish", ![p].outcome = outcome],
              UNCHANGED <<lock, ledger, batchOf, batches, given, kills>>
       PROVE  AgentInv'
  <2>1. PICK new : new = [poll EXCEPT !.pc = "finish", !.outcome = outcome]
    OBVIOUS
  <2>2. new \in PollRuns /\ new.batch = poll.batch
    BY <2>1 DEF PollRuns, PollPcs
  <2>3. PollsOn(p, new)
    BY <1>1, <1>11, <2>1 DEF PollsOn, AgentInv, PollRuns
  <2>4. QED
    BY <1>1, <1>2, <1>3, <1>11, <2>2, <2>3 DEF Inserted
<1>12. CASE StartCommand(p)
  <2>1. CASE Goto(p, "running") /\ given' = given \union InBatch(p)
    BY <1>2, <1>4, <1>12, <2>1 DEF StartCommand, InBatch, PollPcs
  <2>2. CASE ~(Goto(p, "running") /\ given' = given \union InBatch(p))
    BY <1>11, <1>12, <2>2 DEF StartCommand, Statuses
  <2>3. QED
    BY <2>1, <2>2
<1>13. CASE CommandEnds(p)
  BY <1>11, <1>13 DEF CommandEnds, Statuses
<1>14. CASE ReleaseLock(p)
  BY <1>2, <1>3, <1>14, NotPollingTyped DEF ReleaseLock, PollsOn
<1>15. QED
  BY <1>5, <1>6, <1>7, <1>8, <1>9, <1>10, <1>12, <1>13, <1>14

\* The steps that write the ledger or its batches.
LEMMA LedgerTyped ==
  ASSUME AgentInv, setting' = setting, NEW p \in Pollers,
         InsertBatch(p) \/ ClaimMessage(p) \/ FinishBatch(p) \/ FinishMessages(p)
  PROVE  AgentInv'
<1>1. PICK poll \in PollRuns : poll = polls[p] /\ Inserted(poll)
  BY DEF AgentInv
<1>2. /\ lock \in Pollers \union {NoPoller} /\ given \subseteq Ids /\ Len(batches) \in Nat
      /\ batches \in Seq(Statuses) /\ ledger \in [Ids -> Statuses] /\ batchOf \in [Ids -> Nat]
      /\ polls \in [Pollers -> PollRuns]
  BY DEF AgentInv
<1>3. ASSUME NEW new \in PollRuns, PollsOn(p, new), new.batch <= Len(batches'),
             Len(batches') \in Nat, Len(batches) <= Len(batches'), batches' \in Seq(Statuses),
             ledger' \in [Ids -> Statuses], batchOf' \in [Ids -> Nat],
             \A id \in Ids : batchOf'[id] <= Len(batches'),
             UNCHANGED <<lock, given, kills>>
      PROVE  AgentInv'
  <2>1. polls' \in [Pollers -> PollRuns]
    BY <1>2, <1>3 DEF PollsOn
  <2>2. ASSUME NEW other \in Pollers, NEW now \in PollRuns, now = polls'[other]
        PROVE  now.batch <= Len(batches')
    <3>1. CASE other = p
      BY <1>2, <1>3, <2>2, <3>1 DEF PollsOn
    <3>2. CASE other # p
      <4>1. now = polls[other] /\ now.batch <= Len(batches) /\ now.batch \in Nat
        BY <1>2, <1>3, <2>2, <3>2 DEF PollsOn, AgentInv, Inserted, PollRuns
      <4>2. QED
        BY <1>2, <1>3, <4>1
    <3>3. QED
      BY <3>1, <3>2
  <2>3. QED
    BY <1>3, <2>1, <2>2 DEF AgentInv, Inserted
<1>4. CASE InsertBatch(p)
  <2>1. batches' = Append(batches, "running") /\ "running" \in Statuses
    BY <1>4 DEF InsertBatch, Statuses
  <2>2. batches' \in Seq(Statuses) /\ Len(batches') = Len(batches) + 1
    BY <1>2, <2>1
  <2>3. PICK count \in Nat : count = Len(batches) + 1
    BY <1>2
  <2>4. PICK new : new = [poll EXCEPT !.pc = "claiming", !.batch = count]
    OBVIOUS
  <2>5. new \in PollRuns /\ new.batch = count
    BY <2>4 DEF PollRuns, PollPcs
  <2>6. polls' = [polls EXCEPT ![p].pc = "claiming", ![p].batch = count]
    BY <1>4, <2>3 DEF InsertBatch
  <2>7. PollsOn(p, new)
    BY <1>1, <1>2, <2>4, <2>6 DEF PollsOn, PollRuns
  <2>8. UNCHANGED <<ledger, batchOf, lock, given, kills>>
    BY <1>4 DEF InsertBatch
  <2>9. \A id \in Ids : batchOf'[id] <= Len(batches')
    BY <1>2, <2>2, <2>8 DEF AgentInv
  <2>10. Len(batches') \in Nat /\ Len(batches) <= Len(batches') /\ new.batch <= Len(batches')
    BY <1>2, <2>2, <2>3, <2>5
  <2>11. QED
    BY <1>2, <1>3, <2>2, <2>5, <2>7, <2>8, <2>9, <2>10
<1>5. ASSUME NEW pc \in PollPcs, Goto(p, pc),
             Len(batches') = Len(batches), batches' \in Seq(Statuses),
             ledger' \in [Ids -> Statuses], UNCHANGED <<lock, batchOf, given, kills>>
      PROVE  AgentInv'
  <2>1. PICK new \in PollRuns : Inserted(new) /\ PollsOn(p, new)
    BY <1>5, GotoTyped
  <2>2. \A id \in Ids : batchOf'[id] <= Len(batches')
    BY <1>5 DEF AgentInv
  <2>3. new.batch <= Len(batches')
    BY <1>5, <2>1 DEF Inserted
  <2>4. Len(batches') \in Nat /\ Len(batches) <= Len(batches')
    BY <1>2, <1>5
  <2>5. QED
    BY <1>2, <1>3, <1>5, <2>1, <2>2, <2>3, <2>4
<1>6. CASE ClaimMessage(p)
  <2> DEFINE id == Smallest(polls[p].claims)
  <2>1. CASE ledger[id] # "none"
    BY <1>2, <1>5, <1>6, <2>1 DEF ClaimMessage, PollPcs
  <2>2. CASE ledger[id] = "none"
    <3>1. /\ ledger' = [ledger EXCEPT ![id] = "running"]
          /\ batchOf' = [batchOf EXCEPT ![id] = poll.batch]
          /\ polls' = [polls EXCEPT ![p].claims = @ \ {id}]
          /\ UNCHANGED <<lock, batches, given, kills>>
      BY <1>1, <1>6, <2>2 DEF ClaimMessage
    <3> HIDE DEF id
    <3>2. ledger' \in [Ids -> Statuses]
      BY <1>2, <3>1 DEF Statuses
    <3>3. poll.batch \in Nat /\ poll.batch <= Len(batches)
      BY <1>1 DEF PollRuns, Inserted
    <3>4. batchOf' \in [Ids -> Nat] /\ \A other \in Ids : batchOf'[other] <= Len(batches')
      BY <1>2, <3>1, <3>3 DEF AgentInv
    <3>5. PICK new : new = [poll EXCEPT !.claims = @ \ {id}]
      OBVIOUS
    <3>6. new \in PollRuns /\ new.batch = poll.batch
      BY <3>5 DEF PollRuns
    <3>7. PollsOn(p, new)
      BY <1>1, <1>2, <3>1, <3>5 DEF PollsOn, PollRuns
    <3>8. /\ Len(batches') \in Nat /\ Len(batches) <= Len(batches')
          /\ batches' \in Seq(Statuses) /\ UNCHANGED <<lock, given, kills>>
          /\ new.batch <= Len(batches')
      BY <1>2, <3>1, <3>3, <3>6
    <3>9. QED
      BY <1>3, <3>2, <3>4, <3>6, <3>7, <3>8
  <2>3. QED
    BY <2>1, <2>2
<1>7. CASE FinishBatch(p)
  <2>1. poll.outcome \in Statuses
    BY DEF PollRuns
  <2>2. batches' = [batches EXCEPT ![poll.batch] = poll.outcome]
    BY <1>1, <1>7 DEF FinishBatch
  <2>3. batches' \in Seq(Statuses) /\ Len(batches') = Len(batches)
    <3>1. DOMAIN batches' = DOMAIN batches /\ DOMAIN batches = 1..Len(batches)
      BY <1>2, <2>2
    <3>2. \A i \in 1..Len(batches) : batches'[i] \in Statuses
      BY <1>2, <2>1, <2>2
    <3>3. batches' = [i \in 1..Len(batches) |-> batches'[i]]
      BY <2>2, <3>1
    <3>4. batches' \in [1..Len(batches) -> Statuses]
      BY <3>2, <3>3
    <3>5. QED
      BY <1>2, <3>4
  <2>4. QED
    BY <1>2, <1>5, <1>7, <2>3 DEF FinishBatch, PollPcs
<1>8. CASE FinishMessages(p)
  <2>1. poll.outcome \in Statuses
    BY DEF PollRuns
  <2>2. ledger' \in [Ids -> Statuses]
    BY <1>1, <1>2, <1>8, <2>1 DEF FinishMessages
  <2>3. QED
    BY <1>2, <1>5, <1>8, <2>2 DEF FinishMessages, PollPcs
<1>9. QED
  BY <1>4, <1>6, <1>7, <1>8

LEMMA AgentStays ==
  ASSUME IndexInv, AgentInv, [LocalNext]_localVars
  PROVE  AgentInv'
<1>1. setting' = setting
  BY IndexStays
<1>2. ASSUME UNCHANGED agentVars PROVE AgentInv'
  BY <1>1, <1>2 DEF agentVars, AgentInv, Inserted
<1>3. ASSUME NEW p \in Pollers, PollStep(p) PROVE AgentInv'
  BY <1>1, <1>3, PollTyped, LedgerTyped DEF PollStep
<1>4. ASSUME NEW p \in Pollers, Kill(p) PROVE AgentInv'
  <2>1. /\ kills < setting.kills /\ kills' = kills + 1 /\ setting.kills \in Nat
        /\ PollsOn(p, NotPolling)
        /\ UNCHANGED <<lock, ledger, batchOf, batches, given>>
    BY <1>4, AgentAssumption DEF Kill, PollsOn, IndexInv, IndexTypeOK
  <2>2. polls \in [Pollers -> PollRuns] /\ kills \in 0..setting.kills /\ Len(batches) \in Nat
    BY DEF AgentInv
  <2>3. kills' \in 0..setting'.kills
    BY <1>1, <2>1, <2>2
  <2>4. PICK idle \in PollRuns : idle = NotPolling /\ Inserted(idle)
    BY <2>2, NotPollingTyped
  <2>5. polls' \in [Pollers -> PollRuns]
    BY <2>1, <2>2, <2>4 DEF PollsOn
  <2>6. ASSUME NEW other \in Pollers, NEW now \in PollRuns, now = polls'[other]
        PROVE  Inserted(now)
    BY <2>1, <2>2, <2>4, <2>6 DEF PollsOn, AgentInv
  <2>7. \A other \in Pollers, now \in PollRuns : now = polls'[other] => Inserted(now)'
    BY <2>1, <2>6 DEF Inserted
  <2>8. QED
    BY <2>1, <2>3, <2>5, <2>7 DEF AgentInv
<1>5. CASE RemoveLock
  BY <1>1, <1>5 DEF RemoveLock, AgentInv, Inserted
<1>6. QED
  BY <1>2, <1>3, <1>4, <1>5 DEF LocalNext, localVars, AgentNext

-----------------------------------------------------------------------------
(* Handles *)

Lookups == [pc : ReaderPcs, id : Ids \union {NoRow}, token : Tokens \union {NoToken},
            result : Ids \union {Refused}]

\* While a handle is in use it is the short one of the message shown.
Shows(reader) ==
  reader.pc \in {"shown", "resolved"} => reader.id \in Ids /\ reader.token = ShortHandle[reader.id]

HandlesInv ==
  /\ readers \in [Readers -> Lookups]
  /\ \A r \in Readers, reader \in Lookups : reader = readers[r] => Shows(reader)

LEMMA MatchesAre ==
  ASSUME NEW token
  PROVE  Matches(token) \subseteq Ids /\ IsFiniteSet(Matches(token))
<1>1. Matches(token) \subseteq Ids
  BY DEF Matches, ActiveIds, ContentMatches
<1>2. QED
  BY <1>1, IndexAssumption, FS_Subset

LEMMA ResolvesTo ==
  ASSUME NEW token
  PROVE  ResolveMessageToken(token) \in Matches(token) \union {Refused}
<1>1. CASE Cardinality(Matches(token)) = 1
  <2>1. Matches(token) # {}
    BY <1>1, MatchesAre, FS_EmptySet
  <2>2. QED
    BY <1>1, <2>1 DEF ResolveMessageToken
<1>2. CASE Cardinality(Matches(token)) # 1
  BY <1>2 DEF ResolveMessageToken
<1>3. QED
  BY <1>1, <1>2

\* The handle of a message that is there resolves to it, or to nothing.
LEMMA HandleResolves ==
  ASSUME NEW id \in Ids, Live(id)
  PROVE  ResolveMessageToken(ShortHandle[id]) \in {id, Refused}
<1> DEFINE token == ShortHandle[id]
<1>1. id \in ActiveIds
  BY DEF ActiveIds
<1>2. \A other \in Ids : FullId(other) = token => other = id
  BY HandleAssumption
<1>3. id \in Matches(token)
  BY <1>1, <1>2 DEF Matches, ActiveIds
<1> HIDE DEF token
<1>4. CASE Cardinality(Matches(token)) = 1
  <2>1. Matches(token) = {id}
    <3>1. PICK only : Matches(token) = {only}
      BY <1>4, MatchesAre, FS_Singleton
    <3>2. QED
      BY <1>3, <3>1
  <2>2. QED
    BY <1>4, <2>1 DEF ResolveMessageToken, token
<1>5. CASE Cardinality(Matches(token)) # 1
  BY <1>5 DEF ResolveMessageToken, token
<1>6. QED
  BY <1>4, <1>5

LEMMA HandlesAtFirst == LocalInit => HandlesInv
<1>1. NotReading \in Lookups /\ NotReading.pc = "idle"
  BY DEF NotReading, Lookups, ReaderPcs
<1>2. QED
  BY <1>1 DEF LocalInit, HandlesInit, HandlesInv, Shows

\* The claim about one step.
HandleMeans ==
  \A r \in Readers :
    readers'[r].result # readers[r].result /\ Live(readers[r].id) =>
      readers'[r].result \in {readers[r].id, Refused}

\* What a reader becomes.
ReadsOn(r, reader) == readers' = [readers EXCEPT ![r] = reader]

LEMMA ShowMessageIs ==
  ASSUME NEW r \in Readers, ShowMessage(r)
  PROVE  \E new \in Lookups : ReadsOn(r, new) /\ Shows(new) /\ new.result = Refused
<1>1. PICK id \in ActiveIds :
        readers' = [readers EXCEPT ![r] = [NotReading EXCEPT !.pc = "shown", !.id = id,
                                                             !.token = DisplayHandle(id)]]
  BY DEF ShowMessage
<1>2. PICK token \in Tokens : token = DisplayHandle(id) /\ token = ShortHandle[id]
  BY DEF ActiveIds, DisplayHandle, Tokens
<1>3. PICK new : new = [NotReading EXCEPT !.pc = "shown", !.id = id, !.token = token]
  OBVIOUS
<1>4. new = [pc |-> "shown", id |-> id, token |-> token, result |-> Refused]
  BY <1>3 DEF NotReading
<1>5. id \in Ids
  BY DEF ActiveIds
<1>6. new \in Lookups /\ Shows(new) /\ new.result = Refused
  BY <1>2, <1>4, <1>5 DEF Lookups, ReaderPcs, Shows
<1>7. ReadsOn(r, new)
  BY <1>1, <1>2, <1>3 DEF ReadsOn
<1>8. QED
  BY <1>6, <1>7

LEMMA ResolveIs ==
  ASSUME HandlesInv, NEW r \in Readers, ResolveId(r) \/ LocateMessage(r),
         NEW reader \in Lookups, reader = readers[r]
  PROVE  /\ reader.id \in Ids
         /\ \E new \in Lookups :
              /\ ReadsOn(r, new) /\ Shows(new)
              /\ Live(reader.id) => new.result \in {reader.id, Refused}
<1>1. reader.pc \in {"shown", "resolved"} /\ \E pc \in {"resolved", "done"} : ResolveAs(r, pc)
  BY DEF ResolveId, LocateMessage
<1>2. PICK pc \in {"resolved", "done"} : ResolveAs(r, pc)
  BY <1>1
<1>3. reader.id \in Ids /\ reader.token = ShortHandle[reader.id]
  BY <1>1 DEF HandlesInv, Shows
<1>4. PICK found \in Ids \union {Refused} : found = ResolveMessageToken(reader.token)
  BY ResolvesTo, MatchesAre
<1>5. PICK next \in {"resolved", "done"} : next = IF found = Refused THEN "done" ELSE pc
  OBVIOUS
<1>6. PICK new : new = [reader EXCEPT !.pc = next, !.result = found]
  OBVIOUS
<1>7. /\ new \in Lookups /\ new.id = reader.id /\ new.token = reader.token
      /\ new.result = found
  BY <1>6 DEF Lookups, ReaderPcs
<1>8. readers' = [readers EXCEPT ![r].pc = next, ![r].result = found]
  BY <1>2, <1>4, <1>5 DEF ResolveAs
<1>9. ReadsOn(r, new)
  BY <1>6, <1>8 DEF ReadsOn, HandlesInv, Lookups
<1>10. Live(reader.id) => found \in {reader.id, Refused}
  BY <1>3, <1>4, HandleResolves
<1>11. QED
  BY <1>3, <1>7, <1>9, <1>10 DEF Shows

LEMMA HandlesStay ==
  ASSUME HandlesInv, [LocalNext]_localVars
  PROVE  HandlesInv' /\ HandleMeans
<1>1. ASSUME UNCHANGED readers PROVE HandlesInv' /\ HandleMeans
  BY <1>1 DEF HandlesInv, HandleMeans
<1>2. ASSUME NEW r \in Readers, NEW new \in Lookups, ReadsOn(r, new), Shows(new),
             Live(readers[r].id) => new.result \in {readers[r].id, Refused}
      PROVE  HandlesInv' /\ HandleMeans
  <2>1. readers' \in [Readers -> Lookups] /\ readers'[r] = new
    BY <1>2 DEF HandlesInv, ReadsOn
  <2>2. \A other \in Readers \ {r} : readers'[other] = readers[other]
    BY <1>2 DEF HandlesInv, ReadsOn
  <2>3. ASSUME NEW other \in Readers, NEW reader \in Lookups, reader = readers'[other]
        PROVE  Shows(reader)
    BY <1>2, <2>1, <2>2, <2>3 DEF HandlesInv
  <2>4. HandlesInv'
    BY <2>1, <2>3 DEF HandlesInv
  <2>5. HandleMeans
    BY <1>2, <2>1, <2>2 DEF HandleMeans
  <2>6. QED
    BY <2>4, <2>5
<1>3. ASSUME NEW r \in Readers, ShowMessage(r) PROVE HandlesInv' /\ HandleMeans
  BY <1>2, <1>3, ShowMessageIs
<1>4. ASSUME NEW r \in Readers, ResolveId(r) \/ LocateMessage(r)
      PROVE  HandlesInv' /\ HandleMeans
  <2>1. PICK reader \in Lookups : reader = readers[r]
    BY DEF HandlesInv
  <2>2. QED
    BY <1>2, <1>4, <2>1, ResolveIs
<1>5. QED
  BY <1>1, <1>3, <1>4 DEF LocalNext, localVars, HandlesNext

-----------------------------------------------------------------------------
(* Threads.  ThreadIds is the round the walk has come to when it has gone   *)
(* once for every Message-ID there is; by then it has come to all.          *)

Last == Cardinality(Rfcs)

Round(seed, rfcs) == SeedIds(seed) \union UNION {RelatedIds(id) : id \in LinkingTo(rfcs)}

\* The first rounds of the walk.
IsWalk(seed, walk, n) ==
  walk = [k \in 0..n |-> IF k = 0 THEN SeedIds(seed) ELSE Round(seed, walk[k - 1])]

LEMMA LastIsNat == Last \in Nat
BY FS_CardinalityType, IndexAssumption DEF Last

LEMMA WalkGoesOn ==
  ASSUME NEW seed, NEW n \in Nat, n # 0, NEW walk, IsWalk(seed, walk, n - 1)
  PROVE  \E longer : IsWalk(seed, longer, n)
<1> DEFINE longer == [k \in 0..n |-> IF k = n THEN Round(seed, walk[n - 1]) ELSE walk[k]]
<1>1. \A k \in 0..(n - 1) :
        walk[k] = IF k = 0 THEN SeedIds(seed) ELSE Round(seed, walk[k - 1])
  BY DEF IsWalk
<1>2. \A k \in 0..(n - 1) : k \in 0..n /\ k # n /\ longer[k] = walk[k]
  OBVIOUS
<1>3. ASSUME NEW k \in 0..n
      PROVE  longer[k] = IF k = 0 THEN SeedIds(seed) ELSE Round(seed, longer[k - 1])
  <2>1. CASE k = n
    <3>1. n - 1 \in 0..(n - 1)
      OBVIOUS
    <3>2. longer[n - 1] = walk[n - 1]
      BY <1>2, <3>1
    <3>3. longer[k] = Round(seed, walk[n - 1])
      BY <2>1
    <3>4. QED
      BY <2>1, <3>2, <3>3
  <2>2. CASE k # n
    <3>1. k \in 0..(n - 1) /\ (k # 0 => k - 1 \in 0..(n - 1))
      BY <2>2
    <3>2. longer[k] = walk[k] /\ (k # 0 => longer[k - 1] = walk[k - 1])
      BY <1>2, <3>1
    <3>3. QED
      BY <1>1, <3>1, <3>2
  <2>3. QED
    BY <2>1, <2>2
<1>4. longer = [k \in 0..n |-> longer[k]]
  OBVIOUS
<1> HIDE DEF longer
<1>5. IsWalk(seed, longer, n)
  BY <1>3, <1>4 DEF IsWalk
<1>6. QED
  BY <1>5

LEMMA WalkExists ==
  ASSUME NEW seed, NEW n \in Nat
  PROVE  \E walk : IsWalk(seed, walk, n)
<1> DEFINE None == {k \in Nat : ~(\E walk : IsWalk(seed, walk, k))}
<1>1. SUFFICES ASSUME None # {} PROVE FALSE
  OBVIOUS
<1>2. PICK k \in None : \A other \in None : k <= other
  BY <1>1, NatLeast
<1>3. CASE k = 0
  <2>1. PICK walk : walk = [j \in 0..0 |-> SeedIds(seed)]
    OBVIOUS
  <2>2. \A j \in 0..0 : j = 0
    OBVIOUS
  <2>3. IsWalk(seed, walk, 0)
    BY <2>1, <2>2 DEF IsWalk
  <2>4. QED
    BY <1>2, <1>3, <2>3
<1>4. CASE k # 0
  <2>1. k - 1 \in Nat /\ k - 1 \notin None
    BY <1>2, <1>4
  <2>2. QED
    BY <1>2, <1>4, <2>1, WalkGoesOn
<1>5. QED
  BY <1>3, <1>4

LEMMA ThreadIdsIs ==
  ASSUME NEW seed
  PROVE  \E walk : IsWalk(seed, walk, Last) /\ ThreadIds(seed) = walk[Last]
<1> DEFINE chosen == CHOOSE walk : IsWalk(seed, walk, Last)
<1>1. IsWalk(seed, chosen, Last)
  BY WalkExists, LastIsNat
<1>2. ThreadIds(seed) = chosen[Last]
  BY DEF ThreadIds, IsWalk, Round, Last
<1>3. QED
  BY <1>1, <1>2

Linking == \A id \in Ids : RelatedIds(id) \subseteq Rfcs

LEMMA LinkingSays ==
  ASSUME IndexTypeOK
  PROVE  /\ Linking
         /\ \A id \in Ids : InStep(id) => SeedIds(id) = RelatedIds(id)
<1>1. /\ indexed \in [Ids -> Contents \union {NoRow}]
      /\ RfcOf \in [Contents -> Rfcs \union {NoRfc}] /\ Mentions \in [Contents -> SUBSET Rfcs]
  BY IndexAssumption DEF IndexTypeOK
<1>2. ASSUME NEW content \in Contents
      PROVE  Linked(content) \subseteq Rfcs
  BY <1>1 DEF Linked
<1>3. ASSUME NEW id \in Ids
      PROVE  RelatedIds(id) \subseteq Rfcs
  <2>1. indexed[id] # NoRow => indexed[id] \in Contents
    BY <1>1
  <2>2. QED
    BY <2>1, <1>2 DEF RelatedIds
<1>4. ASSUME NEW id \in Ids, InStep(id)
      PROVE  SeedIds(id) = RelatedIds(id)
  BY <1>4 DEF InStep, SeedIds, RelatedIds, Linked
<1>5. QED
  BY <1>3, <1>4 DEF Linking

LEMMA LinkingToHas ==
  ASSUME NEW rfcs, NEW id
  PROVE  id \in LinkingTo(rfcs) <=> id \in Ids /\ \E rfc \in rfcs : rfc \in RelatedIds(id)
BY DEF LinkingTo

LEMMA RoundHas ==
  ASSUME NEW seed, NEW rfcs, NEW rfc
  PROVE  rfc \in Round(seed, rfcs) <=>
           \/ rfc \in SeedIds(seed)
           \/ \E id \in LinkingTo(rfcs) : rfc \in RelatedIds(id)
<1>1. ASSUME rfc \in Round(seed, rfcs), rfc \notin SeedIds(seed)
      PROVE  \E id \in LinkingTo(rfcs) : rfc \in RelatedIds(id)
  BY <1>1 DEF Round
<1>2. rfc \in SeedIds(seed) => rfc \in Round(seed, rfcs)
  BY DEF Round
<1>3. ASSUME NEW id \in LinkingTo(rfcs), rfc \in RelatedIds(id)
      PROVE  rfc \in Round(seed, rfcs)
  BY <1>3 DEF Round
<1>4. QED
  BY <1>1, <1>2, <1>3

LEMMA RoundGrows ==
  ASSUME NEW seed, NEW rfcs, NEW more, rfcs \subseteq more
  PROVE  Round(seed, rfcs) \subseteq Round(seed, more)
<1>1. LinkingTo(rfcs) \subseteq LinkingTo(more)
  BY LinkingToHas
<1>2. QED
  BY <1>1, RoundHas

LEMMA WalkIs ==
  ASSUME NEW seed, NEW walk, IsWalk(seed, walk, Last)
  PROVE  /\ walk[0] = SeedIds(seed)
         /\ \A n \in 1..Last : n - 1 \in 0..Last /\ walk[n] = Round(seed, walk[n - 1])
<1>1. 0 \in 0..Last /\ \A n \in 1..Last : n \in 0..Last /\ n - 1 \in 0..Last /\ n # 0
  BY LastIsNat
<1>2. QED
  BY <1>1 DEF IsWalk

\* Least counterexamples stand for inductions over the rounds.
LEMMA WalkStaysIn ==
  ASSUME NEW seed, NEW walk, IsWalk(seed, walk, Last), NEW rfcs,
         SeedIds(seed) \subseteq rfcs,
         \A id \in LinkingTo(rfcs) : RelatedIds(id) \subseteq rfcs
  PROVE  \A n \in 0..Last : walk[n] \subseteq rfcs
<1> DEFINE Outside == {n \in 0..Last : ~(walk[n] \subseteq rfcs)}
<1>1. SUFFICES ASSUME Outside # {} PROVE FALSE
  OBVIOUS
<1>2. Outside \in SUBSET Nat
  BY LastIsNat
<1>3. PICK n \in Outside : \A other \in Outside : n <= other
  BY <1>1, <1>2, NatLeast
<1>4. n # 0
  BY <1>3, WalkIs
<1>5. n \in 1..Last
  BY <1>3, <1>4, LastIsNat
<1>6. n - 1 \in 0..Last /\ walk[n] = Round(seed, walk[n - 1])
  BY <1>5, WalkIs
<1>7. walk[n - 1] \subseteq rfcs
  BY <1>3, <1>5, <1>6
<1>8. walk[n] \subseteq Round(seed, rfcs)
  BY <1>6, <1>7, RoundGrows
<1>9. Round(seed, rfcs) \subseteq rfcs
  BY RoundHas
<1>10. QED
  BY <1>3, <1>8, <1>9

LEMMA WalkGrows ==
  ASSUME NEW seed, NEW walk, IsWalk(seed, walk, Last)
  PROVE  \A n \in 1..Last : walk[n - 1] \subseteq walk[n]
<1> DEFINE Fewer == {n \in 1..Last : ~(walk[n - 1] \subseteq walk[n])}
<1>1. SUFFICES ASSUME Fewer # {} PROVE FALSE
  OBVIOUS
<1>2. Fewer \in SUBSET Nat
  BY LastIsNat
<1>3. PICK n \in Fewer : \A other \in Fewer : n <= other
  BY <1>1, <1>2, NatLeast
<1>4. walk[n] = Round(seed, walk[n - 1])
  BY <1>3, WalkIs
<1>5. CASE n = 1
  <2>1. walk[n - 1] = SeedIds(seed)
    BY <1>5, WalkIs
  <2>2. QED
    BY <1>3, <1>4, <2>1, RoundHas
<1>6. CASE n # 1
  <2>1. n - 1 \in 1..Last /\ n - 1 \notin Fewer
    BY <1>3, <1>6, LastIsNat
  <2>2. walk[n - 1] = Round(seed, walk[(n - 1) - 1]) /\ walk[(n - 1) - 1] \subseteq walk[n - 1]
    BY <2>1, WalkIs
  <2>3. QED
    BY <1>3, <1>4, <2>2, RoundGrows
<1>7. QED
  BY <1>5, <1>6

\* Each round adds a Message-ID, or no later one does.
LEMMA WalkAdds ==
  ASSUME NEW seed, SeedIds(seed) \subseteq Rfcs, Linking,
         NEW walk, IsWalk(seed, walk, Last)
  PROVE  \A n \in 1..Last : walk[n] = walk[n - 1] \/ Cardinality(walk[n]) >= n
<1> DEFINE Short == {n \in 1..Last : walk[n] # walk[n - 1] /\ ~(Cardinality(walk[n]) >= n)}
<1>1. SUFFICES ASSUME Short # {} PROVE FALSE
  OBVIOUS
<1>2. Short \in SUBSET Nat
  BY LastIsNat
<1>3. PICK n \in Short : \A other \in Short : n <= other
  BY <1>1, <1>2, NatLeast
<1>4. /\ n \in 1..Last /\ n - 1 \in 0..Last /\ n \in 0..Last
      /\ walk[n] = Round(seed, walk[n - 1]) /\ walk[n - 1] \subseteq walk[n]
      /\ walk[n - 1] # walk[n]
  BY <1>3, WalkIs, WalkGrows
<1>5. \A k \in 0..Last : walk[k] \subseteq Rfcs
  <2>1. \A id \in LinkingTo(Rfcs) : RelatedIds(id) \subseteq Rfcs
    BY LinkingToHas DEF Linking
  <2>2. QED
    BY <2>1, WalkStaysIn
<1>6. IsFiniteSet(walk[n]) /\ Cardinality(walk[n]) \in Nat
  BY <1>4, <1>5, IndexAssumption, FS_Subset, FS_CardinalityType
<1>7. IsFiniteSet(walk[n - 1]) /\ Cardinality(walk[n - 1]) \in Nat
      /\ Cardinality(walk[n - 1]) < Cardinality(walk[n])
  BY <1>4, <1>6, FS_Subset, FS_CardinalityType
<1>8. Cardinality(walk[n - 1]) < n - 1
  BY <1>3, <1>4, <1>6, <1>7
<1>9. n - 1 \in 1..Last /\ n - 1 \notin Short
  BY <1>3, <1>4, <1>7, <1>8, LastIsNat
<1>10. walk[n - 1] = walk[(n - 1) - 1]
  BY <1>7, <1>8, <1>9, LastIsNat
<1>11. walk[n - 1] = Round(seed, walk[(n - 1) - 1])
  BY <1>9, WalkIs
<1>12. QED
  BY <1>4, <1>10, <1>11

(* The walk ends with a set that is closed under links.                     *)
LEMMA ThreadIdsClosed ==
  ASSUME NEW seed, SeedIds(seed) \subseteq Rfcs, Linking
  PROVE  /\ SeedIds(seed) \subseteq ThreadIds(seed)
         /\ \A id \in LinkingTo(ThreadIds(seed)) : RelatedIds(id) \subseteq ThreadIds(seed)
<1>1. PICK walk : IsWalk(seed, walk, Last) /\ ThreadIds(seed) = walk[Last]
  BY ThreadIdsIs
<1>2. \A id \in LinkingTo(Rfcs) : RelatedIds(id) \subseteq Rfcs
  BY LinkingToHas DEF Linking
<1>3. walk[Last] \subseteq Rfcs
  BY <1>1, <1>2, WalkStaysIn, LastIsNat
<1>4. CASE Last = 0
  <2>1. walk[Last] = SeedIds(seed)
    BY <1>1, <1>4, WalkIs
  <2>2. Rfcs = {}
    BY <1>4, IndexAssumption, FS_EmptySet DEF Last
  <2>3. QED
    BY <1>1, <1>2, <2>1, <2>2, LinkingToHas
<1>5. CASE Last # 0
  <2>1. /\ Last \in 1..Last /\ walk[Last] = Round(seed, walk[Last - 1])
        /\ walk[Last] = walk[Last - 1] \/ Cardinality(walk[Last]) >= Last
    BY <1>1, <1>5, WalkIs, WalkAdds, LastIsNat
  <2>2. SeedIds(seed) \subseteq walk[Last]
    BY <2>1, RoundHas
  <2>3. CASE walk[Last] = walk[Last - 1]
    <3>1. walk[Last] = Round(seed, walk[Last])
      BY <2>1, <2>3
    <3>2. QED
      BY <1>1, <2>2, <3>1, RoundHas
  <2>4. CASE Cardinality(walk[Last]) >= Last
    <3>1. walk[Last] = Rfcs
      BY <1>3, <2>4, IndexAssumption, FS_Subset, FS_CardinalityType, LastIsNat DEF Last
    <3>2. QED
      BY <1>1, <1>2, <2>2, <3>1
  <2>5. QED
    BY <2>1, <2>3, <2>4
<1>6. QED
  BY <1>4, <1>5

\* And with the least such set.
LEMMA ThreadIdsLeast ==
  ASSUME NEW seed, NEW rfcs, SeedIds(seed) \subseteq rfcs,
         \A id \in LinkingTo(rfcs) : RelatedIds(id) \subseteq rfcs
  PROVE  ThreadIds(seed) \subseteq rfcs
<1>1. PICK walk : IsWalk(seed, walk, Last) /\ ThreadIds(seed) = walk[Last]
  BY ThreadIdsIs
<1>2. QED
  BY <1>1, WalkStaysIn, LastIsNat

(* What one starts from in a thread makes no difference: the Message-IDs a  *)
(* second walk would leave out are closed under links too.                  *)
LEMMA ThreadsAgree ==
  ASSUME Linking, NEW seed \in Ids, SeedIds(seed) = RelatedIds(seed),
         NEW id \in Ids, SeedIds(id) = RelatedIds(id),
         id \in LinkingTo(ThreadIds(seed))
  PROVE  /\ ThreadIds(id) = ThreadIds(seed)
         /\ seed \in LinkingTo(ThreadIds(seed))
<1>1. /\ RelatedIds(seed) \subseteq ThreadIds(seed)
      /\ \A x \in LinkingTo(ThreadIds(seed)) : RelatedIds(x) \subseteq ThreadIds(seed)
  BY ThreadIdsClosed DEF Linking
<1>2. /\ RelatedIds(id) \subseteq ThreadIds(id)
      /\ \A x \in LinkingTo(ThreadIds(id)) : RelatedIds(x) \subseteq ThreadIds(id)
  BY ThreadIdsClosed DEF Linking
<1>3. ThreadIds(id) \subseteq ThreadIds(seed)
  BY <1>1, ThreadIdsLeast
<1> DEFINE rest == ThreadIds(seed) \ ThreadIds(id)
<1>4. ASSUME NEW x \in LinkingTo(rest)
      PROVE  RelatedIds(x) \subseteq rest
  <2>1. x \in Ids /\ \E rfc \in rest : rfc \in RelatedIds(x)
    BY <1>4, LinkingToHas
  <2>2. RelatedIds(x) \subseteq ThreadIds(seed)
    BY <1>1, <2>1, LinkingToHas
  <2>3. x \notin LinkingTo(ThreadIds(id))
    BY <1>2, <2>1
  <2>4. QED
    BY <2>1, <2>2, <2>3, LinkingToHas
<1>5. seed \in LinkingTo(ThreadIds(id))
  <2>1. SUFFICES ASSUME seed \notin LinkingTo(ThreadIds(id)) PROVE FALSE
    OBVIOUS
  <2>2. SeedIds(seed) \subseteq rest
    BY <1>1, <2>1, LinkingToHas
  <2>3. ThreadIds(seed) \subseteq rest
    BY <1>4, <2>2, ThreadIdsLeast
  <2>4. \E rfc \in ThreadIds(seed) : rfc \in RelatedIds(id)
    BY LinkingToHas
  <2>5. QED
    BY <1>2, <2>3, <2>4
<1>6. ThreadIds(seed) \subseteq ThreadIds(id)
  BY <1>2, <1>5, ThreadIdsLeast
<1>7. ThreadIds(id) = ThreadIds(seed)
  BY <1>3, <1>6
<1>8. QED
  BY <1>5, <1>7

LEMMA PartitionHolds == IndexTypeOK => ThreadsPartition
<1> SUFFICES ASSUME IndexTypeOK,
                    NEW seed \in Ids, InStep(seed),
                    NEW id \in Thread(seed), InStep(id)
             PROVE  Thread(id) = Thread(seed)
  BY DEF ThreadsPartition
<1>1. CASE id = seed
  BY <1>1
<1>2. CASE id # seed
  <2>1. id \in LinkingTo(ThreadIds(seed)) /\ id \in Ids
    BY <1>2, LinkingToHas DEF Thread
  <2>2. Linking /\ SeedIds(id) = RelatedIds(id) /\ SeedIds(seed) = RelatedIds(seed)
    BY <2>1, LinkingSays
  <2>3. ThreadIds(id) = ThreadIds(seed) /\ seed \in LinkingTo(ThreadIds(seed))
    BY <2>1, <2>2, ThreadsAgree
  <2>4. QED
    BY <2>1, <2>3 DEF Thread
<1>3. QED
  BY <1>1, <1>2

-----------------------------------------------------------------------------
(* The theorems *)

Inv == IndexInv /\ EmbedInv /\ AgentInv /\ HandlesInv

LEMMA InvAtFirst == LocalInit => Inv
<1>1. LocalInit => VectorsInv
  BY NotEmbeddingTyped DEF LocalInit, EmbedInit, VectorsInv, RunInv
<1>2. QED
  BY <1>1, IndexAtFirst, EmbedAtFirst, AgentAtFirst, HandlesAtFirst DEF Inv, EmbedInv

LEMMA InvStays == Inv /\ [LocalNext]_localVars => Inv'
BY IndexStays, EmbedStays, AgentStays, HandlesStay DEF Inv

(* The index, the vectors, the polls and the lookups stay well typed, which *)
(* says that no index row, vector or claim is ever for a message or content *)
(* that was not stored; the foreign key of the index is needed for it.      *)
THEOREM TypeCorrect == LocalSpec => []LocalTypeOK
<1>1. Inv => LocalTypeOK
  BY AgentInvSays DEF Inv, LocalTypeOK, IndexInv, EmbedInv, HandlesInv, HandlesTypeOK, Lookups
<1>2. QED
  BY <1>1, InvAtFirst, InvStays, PTL DEF LocalSpec

(* For any runs side by side, limits, errors and lost blobs, a vector goes  *)
(* only by a rebuild that did not find its message in the index             *)
(* (index_embeddings_with_provider): such a rebuild has retained all that   *)
(* it listed.                                                               *)
THEOREM VectorsAreKept == LocalSpec => VectorsKept
<1>1. Inv /\ [LocalNext]_localVars => VectorsStay
  BY EmbedStays DEF Inv
<1>2. VectorsStay => [\A c \in vectors \ vectors' :
                        \E e \in Embedders : ~EmbedAt(e, "idle")
                                             /\ c \notin embedders[e].listed]_vectors
  BY DEF VectorsStay
<1>3. QED
  BY <1>1, <1>2, InvAtFirst, InvStays, PTL DEF LocalSpec, VectorsKept

(* For any handles, however many messages share one, and any prefixes: a    *)
(* handle that was shown resolves to its message or to nothing while the    *)
(* message is there (resolve_message_token).                                *)
THEOREM HandlesKeepMeaning == LocalSpec => HandleMeansWhatWasShown
<1>1. Inv /\ [LocalNext]_localVars => HandleMeans
  BY HandlesStay DEF Inv
<1>2. HandleMeans => [\A r \in Readers :
                        readers'[r].result # readers[r].result /\ Live(readers[r].id) =>
                          readers'[r].result \in {readers[r].id, Refused}]_readers
  BY DEF HandleMeans
<1>3. QED
  BY <1>1, <1>2, InvAtFirst, InvStays, PTL DEF LocalSpec, HandleMeansWhatWasShown

(* For any Message-IDs and any references among them, circular ones         *)
(* included: the indexed messages of a thread all have that same thread     *)
(* (thread_message_ids).                                                    *)
THEOREM ThreadsArePartition == LocalSpec => []ThreadsPartition
<1>1. Inv => ThreadsPartition
  BY PartitionHolds DEF Inv, IndexInv
<1>2. QED
  BY <1>1, InvAtFirst, InvStays, PTL DEF LocalSpec
=============================================================================
