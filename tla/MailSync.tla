------------------------------ MODULE MailSync ------------------------------
(***************************************************************************)
(* `vivi-mail sync` on an IMAP account, beside the mutations: for each     *)
(* folder of its plan a sync lists the mailbox, refreshes the flags of the *)
(* rows it knows, finds the messages the archive lacks, and has workers    *)
(* fetch and store them (src/src/imap/sync.rs, imap/sync/download.rs,      *)
(* imap/query.rs).  The listing, the reads of the archive, the fetches and *)
(* the stores are separate steps that other processes interleave with.     *)
(***************************************************************************)
EXTENDS RemoteMutations

CONSTANTS
  Syncers,     \* processes that sync; workers that outlive a failed sync too
  NoLimit      \* sync without --limit

(* A setting says of the syncs, beside what RemoteMutations has:            *)
(*   sync.plans    the sequences of roles that a sync may cover             *)
(*   sync.parts    what the account's storage mode may be                   *)
(*   sync.limits   what --limit may be                                      *)
(*   sync.fails    whether a sync may fail                                  *)
(*   arriving      the messages that may come in                            *)
ASSUME SyncAssumption ==
  /\ Size \in [Mails -> Nat] /\ HeaderSize \in [Mails -> Nat]
  /\ \A s \in Settings :
       /\ s.sync.plans \subseteq Seq(Roles) \ {<<>>}
       /\ s.sync.parts \subseteq Parts
       /\ s.sync.limits \subseteq Nat \union {NoLimit}
       /\ s.sync.fails \in BOOLEAN
       /\ s.arriving \subseteq Mails

SyncPcs == {"idle", "list", "refresh", "sizes", "index", "find", "download"}

\* What FETCH says of a message.
Listed == [uid : Uids, mail : Mails, seen : BOOLEAN, flagged : BOOLEAN]

ScannedRoles == Roles \union {"archive", "inbox", "sent", "drafts"}

SyncStates == [pc       : SyncPcs,
               plan     : Seq(Roles),      \* the folders still to sync
               part     : Parts,
               limit    : Nat \union {NoLimit},
               validity : Nat,             \* UIDVALIDITY of the listing
               listing  : SUBSET Listed,
               todo     : SUBSET Uids,     \* flags still to refresh
               sizes    : SUBSET [validity : Nat, uid : Nat, size : Nat],
               scan     : Seq(ScannedRoles), \* Message-IDs still to read
               index    : SUBSET {Rfc[mail] : mail \in Mails},
               missing  : SUBSET Uids,     \* still to fetch
               fetched  : SUBSET [uid : Uids, content : Contents]]

VARIABLE syncs

allVars == <<vars, syncs>>

AtRest == [pc |-> "idle", plan |-> <<>>, part |-> "full", limit |-> NoLimit,
           validity |-> 0, listing |-> {}, todo |-> {}, sizes |-> {},
           scan |-> <<>>, index |-> {}, missing |-> {}, fetched |-> {}]

SyncInit == Init /\ syncs = [s \in Syncers |-> AtRest]

SyncAt(s, pc) == syncs[s].pc = pc

Role(s) == Head(syncs[s].plan)

\* The folder is done; the sync goes on to the next one.
NextFolder(s) ==
  LET rest == Tail(syncs[s].plan) IN
  syncs' = [syncs EXCEPT
              ![s] = IF rest = <<>> THEN AtRest
                     ELSE [AtRest EXCEPT !.pc = "list", !.plan = rest,
                                         !.part = syncs[s].part,
                                         !.limit = syncs[s].limit]]

StartSync(s) ==
  /\ SyncAt(s, "idle")
  /\ \E plan \in setting.sync.plans, part \in setting.sync.parts,
        limit \in setting.sync.limits :
       syncs' = [syncs EXCEPT ![s].pc = "list", ![s].plan = plan,
                              ![s].part = part, ![s].limit = limit]
  /\ UNCHANGED vars

-----------------------------------------------------------------------------
(* One folder *)

Listing(box) ==
  {[uid |-> uid, mail |-> server[box].msgs[uid].mail,
    seen |-> server[box].msgs[uid].seen,
    flagged |-> server[box].msgs[uid].flagged] : uid \in UidsIn(server, box)}

\* An empty mailbox ends the folder before anything is refreshed.
ListFolder(s) ==
  LET box == Folder[Role(s)] IN
  /\ SyncAt(s, "list")
  /\ IF UidsIn(server, box) = {}
     THEN NextFolder(s)
     ELSE syncs' = [syncs EXCEPT ![s].pc = "refresh",
                                 ![s].validity = server[box].validity,
                                 ![s].listing = Listing(box),
                                 ![s].todo = UidsIn(server, box)]
  /\ UNCHANGED vars

\* Mutant: the UIDVALIDITY is the mailbox's at the time of use.
CurrentIdentity(s, uid) ==
  [box |-> Folder[Role(s)], validity |-> server[Folder[Role(s)]].validity, uid |-> uid]

ListedIdentity(s, uid) ==
  [box |-> Folder[Role(s)], validity |-> syncs[s].validity, uid |-> uid]

Entry(s, uid) == CHOOSE listed \in syncs[s].listing : listed.uid = uid

Smallest(uids) == CHOOSE uid \in uids : \A other \in uids : uid <= other

\* One UPDATE for each listed message, in order.
RefreshFlags(s) ==
  LET uid == Smallest(syncs[s].todo)
      rest == syncs[s].todo \ {uid}
  IN  /\ SyncAt(s, "refresh")
      /\ rows' = UpdateRemoteFlags(rows, ListedIdentity(s, uid),
                                   Entry(s, uid).seen, Entry(s, uid).flagged)
      /\ syncs' = [syncs EXCEPT ![s].todo = rest,
                                ![s].pc = IF rest = {} THEN "sizes" ELSE "refresh"]
      /\ UNCHANGED <<setting, server, audit, synced, mutators, runs, commanded>>

(* The archive folder is compared with the Message-IDs of four roles, any   *)
(* other folder with those of its own role.                                 *)
DedupeScope(role) ==
  IF role = "archive" THEN <<"archive", "inbox", "sent", "drafts">> ELSE <<role>>

ReadSizes(s) ==
  /\ SyncAt(s, "sizes")
  /\ \E sizes \in LocalSizesByRole(rows, Role(s)) :
       syncs' = [syncs EXCEPT ![s].pc = "index", ![s].sizes = sizes,
                              ![s].scan = DedupeScope(Role(s))]
  /\ UNCHANGED vars

ReadIndex(s) ==
  LET scan == syncs[s].scan IN
  /\ SyncAt(s, "index")
  /\ syncs' = [syncs EXCEPT ![s].index = @ \union RfcIndexByRole(rows, Head(scan)),
                            ![s].scan = Tail(scan),
                            ![s].pc = IF Tail(scan) = <<>> THEN "find" ELSE "index"]
  /\ UNCHANGED vars

\* Mutant: the size key is {role}-{uid}.
SizeOfUid(s, listed) ==
  \E key \in syncs[s].sizes : key.uid = listed.uid /\ key.size = Size[listed.mail]

\* The size stored under the key {role}-{uidvalidity}-{uid} is the one listed.
SizeMatches(s, listed) ==
  [validity |-> syncs[s].validity, uid |-> listed.uid, size |-> Size[listed.mail]]
    \in syncs[s].sizes

Lacks(s, listed) ==
  /\ Rfc[listed.mail] \notin syncs[s].index
  /\ ~SizeMatches(s, listed)

\* The first uids, as many as the limit admits.
Truncate(uids, limit) ==
  IF limit = NoLimit THEN uids
  ELSE {uid \in uids : Cardinality({other \in uids : other < uid}) < limit}

\* Mutant: the limit applies to the listing, before what is there is left out.
FirstLacking(s) ==
  {uid \in Truncate({listed.uid : listed \in syncs[s].listing}, syncs[s].limit) :
     Lacks(s, Entry(s, uid))}

Selected(s) ==
  Truncate({listed.uid : listed \in {listed \in syncs[s].listing : Lacks(s, listed)}},
           syncs[s].limit)

FindMissing(s) ==
  /\ SyncAt(s, "find")
  /\ IF Selected(s) = {}
     THEN NextFolder(s)
     ELSE syncs' = [syncs EXCEPT ![s].pc = "download", ![s].missing = Selected(s)]
  /\ UNCHANGED vars

\* Mutant: what was listed is stored though the message is gone.
FetchListed(s, uid) ==
  LET content == [mail |-> Entry(s, uid).mail, part |-> syncs[s].part] IN
  /\ SyncAt(s, "download")
  /\ uid \in syncs[s].missing
  /\ syncs' = [syncs EXCEPT ![s].missing = @ \ {uid},
                            ![s].fetched = @ \union {[uid |-> uid, content |-> content]}]
  /\ UNCHANGED vars

(* A worker opens the mailbox again and fetches; what it gets is the        *)
(* message that has the UID by then, if any.                                *)
FetchMessage(s, uid) ==
  LET box == Folder[Role(s)]
      content == [mail |-> server[box].msgs[uid].mail, part |-> syncs[s].part]
  IN  /\ SyncAt(s, "download")
      /\ uid \in syncs[s].missing
      /\ syncs' = [syncs EXCEPT
                     ![s].missing = @ \ {uid},
                     ![s].fetched = IF Present(server, box, uid)
                                    THEN @ \union {[uid |-> uid, content |-> content]}
                                    ELSE @]
      /\ UNCHANGED vars

\* Mutant: the row gets the name of the remote mailbox as its role.
StoredByMailbox(s, message) ==
  LET identity == ListedIdentity(s, message.uid) IN
  [id |-> IngestId(Role(s), message.content, identity),
   role |-> identity.box, content |-> message.content,
   read |-> Entry(s, message.uid).seen, starred |-> Entry(s, message.uid).flagged,
   binding |-> identity]

\* The row is bound to the identity that was listed.
StoredRow(s, message) ==
  LET identity == ListedIdentity(s, message.uid) IN
  [id |-> IngestId(Role(s), message.content, identity),
   role |-> Role(s), content |-> message.content,
   read |-> Entry(s, message.uid).seen, starred |-> Entry(s, message.uid).flagged,
   binding |-> identity]

\* When the remote identity belongs to another row the whole sync fails.
StoreMessage(s, message) ==
  /\ SyncAt(s, "download")
  /\ message \in syncs[s].fetched
  /\ IF CanIngest(rows, StoredRow(s, message))
     THEN /\ rows' = Ingest(rows, StoredRow(s, message))
          /\ syncs' = [syncs EXCEPT ![s].fetched = @ \ {message}]
     ELSE /\ syncs' = [syncs EXCEPT ![s] = AtRest]
          /\ UNCHANGED rows
  /\ UNCHANGED <<setting, server, audit, synced, mutators, runs, commanded>>

Downloaded(s) ==
  /\ SyncAt(s, "download")
  /\ syncs[s].missing = {} /\ syncs[s].fetched = {}
  /\ NextFolder(s)
  /\ UNCHANGED vars

\* A connection, fetch or database error, or a crash, ends the sync.
SyncFails(s) ==
  /\ setting.sync.fails
  /\ ~SyncAt(s, "idle")
  /\ syncs' = [syncs EXCEPT ![s] = AtRest]
  /\ UNCHANGED vars

\* A message that is nowhere on the server comes in.
Deliver(box, mail) ==
  /\ mail \in setting.arriving \ Located(server)
  /\ HasRoom(server, box)
  /\ server' = Deposit(server, box, [mail |-> mail, seen |-> FALSE,
                                     flagged |-> FALSE, deleted |-> FALSE])
  /\ UNCHANGED <<setting, rows, audit, synced, mutators, runs, commanded, syncs>>

-----------------------------------------------------------------------------
SyncStep(s) ==
  \/ StartSync(s) \/ ListFolder(s) \/ RefreshFlags(s) \/ ReadSizes(s)
  \/ ReadIndex(s) \/ FindMissing(s) \/ Downloaded(s)
  \/ \E uid \in syncs[s].missing : FetchMessage(s, uid)
  \/ \E message \in syncs[s].fetched : StoreMessage(s, message)

-----------------------------------------------------------------------------
SyncTypeOK ==
  /\ TypeOK
  /\ syncs \in [Syncers -> SyncStates]

\* The archive holds the message, or one with its Message-ID.
Mirrored(archive, mail) ==
  \E row \in archive :
    \/ row.content.mail = mail
    \/ Rfc[mail] # NoId /\ Rfc[row.content.mail] = Rfc[mail]

(* The sizes read are told apart by {role}-{uidvalidity}-{uid}, without the *)
(* mailbox: the archive has a row of another mailbox with the UIDVALIDITY,  *)
(* the UID and the size of the message listed.  It counts as that message   *)
(* if it is read between the two statements of a move (reconcile_success).  *)
Confusable(s, listed) ==
  \E row \in rows :
    /\ row.id.identity.box # Folder[Role(s)]
    /\ row.id.identity.validity = syncs[s].validity
    /\ row.id.identity.uid = listed.uid
    /\ BlobSize(row.content) = Size[listed.mail]

(* A sync without a limit skips nothing: when it is done with a folder,     *)
(* every message it listed that is still there is in the archive, whatever  *)
(* UIDs were used before (find_missing, download_missing).  A hard expunge  *)
(* may take the row that a sync has read; rows of other mailboxes may be    *)
(* confusable.                                                              *)
FolderDone(s) ==
  \/ Downloaded(s)
  \/ FindMissing(s) /\ Selected(s) = {}

Expunges == \E action \in setting.actions : action.kind = "expunge"

NothingSkipped ==
  [][\A s \in Syncers :
       FolderDone(s) /\ syncs[s].limit = NoLimit /\ ~Expunges =>
         \A listed \in syncs[s].listing :
           LET box == Folder[Role(s)] IN
           /\ server[box].validity = syncs[s].validity
           /\ Present(server, box, listed.uid)
           => Mirrored(rows, listed.mail) \/ Confusable(s, listed)]_allVars

\* Somebody syncs again and again, and no sync fails.
SyncsRepeat == setting.sync.plans # {} /\ ~setting.sync.fails

(* With syncs repeated, the flags of a row end up as the server has them:   *)
(* a refresh that raced a mutation is made good by a later one              *)
(* (refresh_remote_flags).                                                  *)
FlagsAgree ==
  \A row \in rows :
    row.binding # NoBinding =>
      LET box == row.binding.box
          uid == row.binding.uid
      IN  /\ row.binding.validity = server[box].validity
          /\ Present(server, box, uid)
          => /\ row.read = server[box].msgs[uid].seen
             /\ row.starred = server[box].msgs[uid].flagged

FlagsConverge == <>[](SyncsRepeat => FlagsAgree)

(* With syncs repeated, every message that stays in a folder of the plan is *)
(* in the archive, even if each sync may download no more than its limit    *)
(* (truncate_missing after find_missing).                                   *)
ArchiveComplete ==
  \A plan \in setting.sync.plans : \A i \in DOMAIN plan :
    \A uid \in UidsIn(server, Folder[plan[i]]) :
      Mirrored(rows, server[Folder[plan[i]]].msgs[uid].mail)

ArchiveConverges == <>[](SyncsRepeat => ArchiveComplete)
=============================================================================
