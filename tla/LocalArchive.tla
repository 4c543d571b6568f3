---------------------------- MODULE LocalArchive ----------------------------
(***************************************************************************)
(* The message rows and remote bindings of an account's storage.sqlite     *)
(* (src/src/storage and src/src/catalog), as a set of rows.  A message id  *)
(* is the hash of what the message was when it was stored, and stays the   *)
(* same when the row changes afterwards.  Each operator is one autocommit  *)
(* statement or one transaction.  The column "stale" of a binding is       *)
(* written and read by nothing, and is left out.                           *)
(***************************************************************************)
EXTENDS ImapServer

CONSTANTS
  Roles,        \* local roles: inbox, archive, trash, sent, drafts
  NoBinding,    \* the row has no remote binding
  NoId,         \* the message has no Message-ID header
  Rfc,          \* the Message-ID of each message
  Size,         \* the size of each message, which the server reports
  HeaderSize    \* the size of its headers

\* What of a message is stored, after the account's storage mode.
Parts == {"headers", "full"}

Contents == [mail : Mails, part : Parts]

Identities == [box : Mailboxes, validity : Nat, uid : Nat]

Ids == [role : Roles, content : Contents, identity : Identities]

Rows == [id : Ids, role : Roles, content : Contents, read : BOOLEAN,
         starred : BOOLEAN, binding : Identities \union {NoBinding}]

HasRow(rows, id) == \E row \in rows : row.id = id

BoundElsewhere(rows, id, identity) ==
  \E row \in rows : row.binding = identity /\ row.id # id

-----------------------------------------------------------------------------
(* Ingest: one transaction *)

IngestId(role, content, identity) ==
  [role |-> role, content |-> content, identity |-> identity]

\* The transaction rolls back when another row holds the remote identity.
CanIngest(rows, row) == ~BoundElsewhere(rows, row.id, row.binding)

Ingest(rows, row) == {other \in rows : other.id # row.id} \union {row}

-----------------------------------------------------------------------------
(* Statements of a mutation's reconciliation *)

UpdateLocalState(rows, id, role, read, starred) ==
  {IF row.id = id
   THEN [row EXCEPT !.role = role, !.read = read, !.starred = starred]
   ELSE row : row \in rows}

\* A binding can be written only for a row that exists, and only once.
CanBind(rows, id, binding) ==
  \/ binding = NoBinding
  \/ HasRow(rows, id) /\ ~BoundElsewhere(rows, id, binding)

UpdateRemoteBinding(rows, id, binding) ==
  {IF row.id = id THEN [row EXCEPT !.binding = binding] ELSE row : row \in rows}

RemoveEntry(rows, id) == {row \in rows : row.id # id}

-----------------------------------------------------------------------------
(* What a sync reads and refreshes *)

\* Mutant: a refresh forgets the star.
UpdateReadFlag(rows, identity, seen, flagged) ==
  {IF row.binding = identity THEN [row EXCEPT !.read = seen] ELSE row : row \in rows}

UpdateRemoteFlags(rows, identity, seen, flagged) ==
  {IF row.binding = identity
   THEN [row EXCEPT !.read = seen, !.starred = flagged]
   ELSE row : row \in rows}

BlobSize(content) ==
  IF content.part = "full" THEN Size[content.mail] ELSE HeaderSize[content.mail]

RfcIndexByRole(rows, role) ==
  {Rfc[row.content.mail] : row \in {row \in rows : row.role = role}} \ {NoId}

\* The size of the stored blob, under the key {role}-{uidvalidity}-{uid}.
SizeOf(row) ==
  [validity |-> row.binding.validity, uid |-> row.binding.uid,
   size |-> BlobSize(row.content)]

SizesOf(rows, role) ==
  {SizeOf(row) : row \in {row \in rows : row.role = role /\ row.binding # NoBinding}}

SameKey(one, other) == one.validity = other.validity /\ one.uid = other.uid

(* The maps that the role may be read as.  A key has one size: of the rows  *)
(* that share it, that of the last one listed.  Rows are listed by their    *)
(* date, which is left out here: it may be any of them.                     *)
LocalSizesByRole(rows, role) ==
  {sizes \in SUBSET SizesOf(rows, role) :
     \A size \in SizesOf(rows, role) :
       \E kept \in sizes :
         {other \in sizes : SameKey(other, size)} = {kept}}
=============================================================================
