------------------------------ MODULE EmailIndex ------------------------------
(***************************************************************************)
(* The derived index of an account's mail (src/src/email_index): its rows, *)
(* the links between messages and the full-text documents, beside the      *)
(* messages table they are derived from.  A rebuild opens the index, lists *)
(* the messages and writes the index in one transaction; other processes   *)
(* change the messages and rebuild meanwhile.                              *)
(***************************************************************************)
EXTENDS Naturals, FiniteSets

CONSTANTS
  Ids,         \* local message ids, numbered as listings order them (date, id)
  Contents,    \* content ids: raw messages
  Folders,     \* local roles
  Rfcs,        \* normalized Message-IDs
  NoRfc,       \* the message has no Message-ID
  RfcOf,       \* the Message-ID of each content
  Mentions,    \* the Message-IDs it refers to (In-Reply-To, References)
  Rebuilders,  \* processes that rebuild the index
  NoRow,
  Settings

(* A setting says                                                           *)
(*   start    the messages table before                                     *)
(*   version  the version of the index schema on disk                       *)
(*   changes  what may happen to the messages, and how many times in all    *)
(*   working  the processes that run                                        *)
Rows == [content : Contents, folder : Folders, deleted : BOOLEAN]

Versions == {"none", "3", "4"}

ASSUME IndexAssumption ==
  /\ Ids \subseteq Nat /\ IsFiniteSet(Ids) /\ IsFiniteSet(Rfcs)
  /\ NoRow \notin Rows
  /\ RfcOf \in [Contents -> Rfcs \union {NoRfc}]
  /\ Mentions \in [Contents -> SUBSET Rfcs]
  /\ \A s \in Settings : /\ s.start \in [Ids -> Rows \union {NoRow}]
                        /\ s.version \in Versions /\ s.most \in Nat

RebuildPcs == {"idle", "opening", "opened", "listed"}

VARIABLES
  setting,
  catalog,     \* messages: the row of each id
  unreadable,  \* contents whose blob cannot be read
  changed,     \* how many changes there were
  version,     \* index_metadata: the schema version
  indexed,     \* indexed_messages: content whose links are stored
  docs,        \* message_search_fts: content the document was made of
  rebuilds     \* the rebuild each process is in

mailVars == <<setting, catalog, unreadable, changed>>
indexVars == <<mailVars, version, indexed, docs, rebuilds>>

AtRest == [pc |-> "idle", seen |-> "none", listing |-> [id \in Ids |-> NoRow]]

IndexInit ==
  /\ setting \in Settings
  /\ catalog = setting.start
  /\ unreadable = {}
  /\ changed = 0
  /\ version = setting.version
  /\ indexed = [id \in Ids |-> IF version = "3" /\ catalog[id] # NoRow
                               THEN catalog[id].content ELSE NoRow]
  /\ docs = [id \in Ids |-> NoRow]
  /\ rebuilds = [x \in Rebuilders |-> AtRest]

-----------------------------------------------------------------------------
(* What syncs and mutations do to the messages table *)

Exists(id) == catalog[id] # NoRow

Live(id) == Exists(id) /\ ~catalog[id].deleted

Change(id, new) ==
  /\ changed < setting.most
  /\ catalog' = [catalog EXCEPT ![id] = new]
  /\ changed' = changed + 1
  /\ UNCHANGED <<setting, unreadable, version, rebuilds>>

\* A message is stored, for the first time or again.
Ingest(id, content, folder) ==
  /\ [op |-> "ingest", id |-> id, content |-> content, folder |-> folder]
       \in setting.changes
  /\ Change(id, [content |-> content, folder |-> folder, deleted |-> FALSE])
  /\ UNCHANGED <<indexed, docs>>

\* A mutation files the message elsewhere.
Move(id, folder) ==
  /\ [op |-> "move", id |-> id, folder |-> folder] \in setting.changes
  /\ Exists(id) /\ catalog[id].folder # folder
  /\ Change(id, [catalog[id] EXCEPT !.folder = folder])
  /\ UNCHANGED <<indexed, docs>>

\* A Proton deletion keeps the row.
MarkDeleted(id) ==
  /\ [op |-> "mark_deleted", id |-> id] \in setting.changes
  /\ Live(id)
  /\ Change(id, [catalog[id] EXCEPT !.deleted = TRUE])
  /\ UNCHANGED <<indexed, docs>>

(* A hard expunge removes the row.  Index row and links go with it by ON    *)
(* DELETE CASCADE; the full-text table knows no foreign key.                *)
RemoveEntry(id) ==
  /\ [op |-> "remove", id |-> id] \in setting.changes
  /\ Exists(id)
  /\ Change(id, NoRow)
  /\ indexed' = [indexed EXCEPT ![id] = NoRow]
  /\ UNCHANGED docs

\* A blob is lost to the program, or back again.
LoseBlob(content) ==
  /\ changed < setting.most
  /\ [op |-> "lose", content |-> content] \in setting.changes
  /\ unreadable' = IF content \in unreadable THEN unreadable \ {content}
                   ELSE unreadable \union {content}
  /\ changed' = changed + 1
  /\ UNCHANGED <<setting, catalog, version, indexed, docs, rebuilds>>

MailChanges ==
  \/ \E id \in Ids, content \in Contents, folder \in Folders :
       Ingest(id, content, folder)
  \/ \E id \in Ids, folder \in Folders : Move(id, folder)
  \/ \E id \in Ids : MarkDeleted(id) \/ RemoveEntry(id)
  \/ \E content \in Contents : LoseBlob(content)

-----------------------------------------------------------------------------
(* A rebuild *)

At(x, pc) == rebuilds[x].pc = pc

\* EmailIndex::open reads the schema version outside of any transaction.
OpenIndex(x) ==
  /\ At(x, "idle")
  /\ rebuilds' = [rebuilds EXCEPT ![x].pc = "opening", ![x].seen = version]
  /\ UNCHANGED <<mailVars, version, indexed, docs>>

\* Documents for the rows of a version 3 index.
Backfilled == [id \in Ids |-> IF indexed[id] = NoRow THEN NoRow ELSE catalog[id].content]

(* Any version but 3 and 4 has its tables dropped; 3 has none of the         *)
(* documents yet.                                                           *)
EnsureSchema(x) ==
  /\ At(x, "opening")
  /\ indexed' = IF rebuilds[x].seen \in {"3", "4"} THEN indexed
                ELSE [id \in Ids |-> NoRow]
  /\ docs' = CASE rebuilds[x].seen = "3" -> Backfilled
               [] rebuilds[x].seen = "4" -> docs
               [] OTHER -> [id \in Ids |-> NoRow]
  /\ version' = "4"
  /\ rebuilds' = [rebuilds EXCEPT ![x].pc = "opened"]
  /\ UNCHANGED mailVars

\* The messages that are not deleted, read before the transaction begins.
ListCatalog(x) ==
  /\ At(x, "opened")
  /\ rebuilds' = [rebuilds EXCEPT
                    ![x].pc = "listed",
                    ![x].listing = [id \in Ids |-> IF Live(id) THEN catalog[id].content
                                                   ELSE NoRow]]
  /\ UNCHANGED <<mailVars, version, indexed, docs>>

Written(listing, id) == listing[id] # NoRow /\ listing[id] \notin unreadable

\* Mutant: what the listing lacks stays in the index.
IndexKept(listing) ==
  [id \in Ids |-> IF Written(listing, id) THEN listing[id] ELSE indexed[id]]

(* Each listed message whose blob can be read is written; rows of messages  *)
(* that were not listed are pruned.                                         *)
IndexRebuilt(listing) ==
  [id \in Ids |-> CASE Written(listing, id) -> listing[id]
                    [] listing[id] = NoRow -> NoRow
                    [] OTHER -> indexed[id]]

\* Documents are pruned by the rows of the index.
DocsRebuilt(listing) ==
  [id \in Ids |-> CASE Written(listing, id) -> listing[id]
                    [] listing[id] = NoRow /\ indexed[id] # NoRow -> NoRow
                    [] OTHER -> docs[id]]

\* An index row refers to a row of the messages table.
ForeignKeysHold(listing) == \A id \in Ids : Written(listing, id) => Exists(id)

Commit(x) ==
  LET listing == rebuilds[x].listing IN
  /\ At(x, "listed")
  /\ ForeignKeysHold(listing)
  /\ indexed' = IndexRebuilt(listing)
  /\ docs' = DocsRebuilt(listing)
  /\ rebuilds' = [rebuilds EXCEPT ![x] = AtRest]
  /\ UNCHANGED <<mailVars, version>>

\* The transaction is rolled back: a foreign key, a database that is busy, a crash.
RebuildFails(x) ==
  /\ ~At(x, "idle")
  /\ \/ At(x, "listed") /\ ~ForeignKeysHold(rebuilds[x].listing)
     \/ setting.fails
  /\ rebuilds' = [rebuilds EXCEPT ![x] = AtRest]
  /\ UNCHANGED <<mailVars, version, indexed, docs>>

RebuildStep(x) ==
  \/ OpenIndex(x) \/ EnsureSchema(x) \/ ListCatalog(x) \/ Commit(x)
  \/ RebuildFails(x) /\ ~setting.fails

-----------------------------------------------------------------------------
(* What is read of the index *)

Linked(content) ==
  Mentions[content] \union ({RfcOf[content]} \ {NoRfc})

\* message_links: the Message-IDs an indexed message is linked to.
RelatedIds(id) == IF indexed[id] = NoRow THEN {} ELSE Linked(indexed[id])

LinkingTo(rfcs) == UNION {{id \in Ids : rfc \in RelatedIds(id)} : rfc \in rfcs}

\* A seed's Message-ID is read of the row it has by now.
SeedIds(seed) == RelatedIds(seed) \union ({RfcOf[catalog[seed].content]} \ {NoRfc})

\* Mutant: the messages that share a Message-ID with the seed, and no further.
DirectlyLinked(seed) == SeedIds(seed)

(* The Message-IDs the walk comes to see, a round at a time: those of the   *)
(* messages that are linked to one it has seen.  The walk's queue takes     *)
(* them one by one, with the same result below THREAD_WALK_LIMIT.           *)
ThreadIds(seed) ==
  LET seen[n \in 0..Cardinality(Rfcs)] ==
        IF n = 0 THEN SeedIds(seed)
        ELSE SeedIds(seed) \union UNION {RelatedIds(id) : id \in LinkingTo(seen[n - 1])}
  IN  seen[Cardinality(Rfcs)]

\* thread_messages; the seed has to be indexed.
Thread(seed) == {id \in LinkingTo(ThreadIds(seed)) \union {seed} : indexed[id] # NoRow}

\* What a search counts, and what its pages show, of the messages with a text.
Counted(content) == {id \in Ids : docs[id] = content /\ Live(id)}

Shown(content) == {id \in Counted(content) : indexed[id] # NoRow}

-----------------------------------------------------------------------------
IndexTypeOK ==
  /\ setting \in Settings
  /\ catalog \in [Ids -> Rows \union {NoRow}]
  /\ unreadable \subseteq Contents
  /\ changed \in 0..setting.most
  /\ version \in Versions
  /\ indexed \in [Ids -> Contents \union {NoRow}]
  /\ docs \in [Ids -> Contents \union {NoRow}]
  /\ rebuilds \in [Rebuilders -> [pc : RebuildPcs, seen : Versions,
                                  listing : [Ids -> Contents \union {NoRow}]]]

(* Threads partition the indexed messages: whichever message of a           *)
(* conversation one starts from, the same messages are shown                *)
(* (thread_message_ids).  A message that was stored anew since the last     *)
(* rebuild may start from a Message-ID the index does not have for it.      *)
InStep(id) == indexed[id] # NoRow /\ indexed[id] = catalog[id].content

ThreadsPartition ==
  \A seed \in {id \in Ids : InStep(id)} : \A id \in Thread(seed) :
    InStep(id) => Thread(id) = Thread(seed)
=============================================================================
