--------------------------- MODULE RemoteMutations ---------------------------
(***************************************************************************)
(* The vivi-mail processes that carry out archive, delete, move and flag   *)
(* commands: resolve the handle, append "approved" to the audit file, run  *)
(* the IMAP command, append "executed", write the outcome to the local     *)
(* archive, append "reconciled" (src/src/mutation_runner.rs,               *)
(* mutation_command.rs and imap/mutate.rs).  Nothing locks the rows or the *)
(* mailbox; a process may die, and an IMAP reply may get lost, at any      *)
(* step, and other mail clients work on the same mailboxes.                *)
(***************************************************************************)
EXTENDS LocalArchive, Sequences

CONSTANTS
  Mutators,         \* processes that run mutations
  Folder,           \* the account's mailbox for each role
  VirtualMailboxes, \* aggregate views, such as All Mail
  NoRow,            \* a mutator that holds no catalog entry
  Settings,         \* the circumstances a behaviour may have, see below
  MaxRuns,          \* bound: mutations begun
  MaxValidity       \* bound: UIDVALIDITY of a mailbox

OtherClients == {"other_move", "other_expunge", "other_flag", "renumber"}

AllEvents == OtherClients \union
  {"crash", "power_loss", "refuse", "lost_reply", "audit_error", "database_error"}

FlagNames == {"seen", "flagged"}

AllActions ==
  [kind : {"move"}, role : Roles]           \* archive, delete and move
    \union [kind : {"expunge"}, confirm : BOOLEAN]
    \union [kind : {"flag"}, flag : FlagNames, value : BOOLEAN]

ServerCapabilities == {"MOVE", "UIDPLUS"}

(* A setting is fixed for a behaviour:                                      *)
(*   server        what the server holds at first                           *)
(*   capabilities  what it supports                                         *)
(*   stored        the roles an earlier sync has stored, headers or full,   *)
(*                 and the virtual mailboxes a release before 11.0 did      *)
(*   mutators      the processes at work                                    *)
(*   actions       the mutations that are requested, `runs` of them at most *)
(*   events        what may happen to them                                  *)
ASSUME MutationAssumption ==
  /\ Folder \in [Roles -> Mailboxes]
  /\ VirtualMailboxes \subseteq Mailboxes
  /\ \A role \in Roles : Folder[role] \notin VirtualMailboxes
  /\ MaxRuns \in Nat
  /\ NoRow \notin Rows
  /\ NoBinding \notin Identities
  /\ NoMessage \notin Messages
  /\ \A s \in Settings :
       /\ s.server \in Servers /\ Numbered(s.server)
       /\ s.capabilities \subseteq ServerCapabilities
       /\ s.stored \in [roles : SUBSET Roles, part : Parts,
                        views : SUBSET VirtualMailboxes]
       /\ s.stored.views # {} => "archive" \in Roles
       /\ \A one, other \in s.stored.roles :  \* an identity is stored once
            Folder[one] = Folder[other] => one = other
       /\ s.mutators \subseteq Mutators
       /\ s.actions \subseteq AllActions
       /\ s.runs \in 0..MaxRuns
       /\ s.events \subseteq AllEvents

Runs == 1..MaxRuns

AuditStatuses == {"planned", "approved", "executed", "reconciled", "failed"}

\* The field "run" is history: the code's records have a timestamp instead.
AuditRecords == [run : Runs, handle : Ids, status : AuditStatuses]

Pcs == {"idle", "approve", "select", "uid_move", "uid_copy", "store_deleted",
        "expunge_copied", "uid_store", "uid_expunge", "executed", "local_state",
        "remote_binding", "remove_entry", "reconciled", "failed"}

MutatorStates == [pc     : Pcs,
                  action : AllActions \union {NoRow},
                  entry  : Rows \union {NoRow},   \* the prepared catalog entry
                  run    : 0..MaxRuns,
                  session : Nat]  \* UIDVALIDITY of the selected mailbox

-----------------------------------------------------------------------------
VARIABLES
  setting,   \* the circumstances, fixed at first
  server,    \* the IMAP server
  rows,      \* message rows and bindings in storage.sqlite
  audit,     \* the records of mutations.jsonl
  synced,    \* how many of them are on disk for good (fsynced)
  mutators,  \* the processes
  runs,      \* history: mutations begun
  commanded  \* history: the runs that sent a command to the server

vars == <<setting, server, rows, audit, synced, mutators, runs, commanded>>

Idle == [pc |-> "idle", action |-> NoRow, entry |-> NoRow, run |-> 0,
         session |-> 0]

\* The identity of a message at one place on the server.
IdentityAt(box, uid) ==
  [box |-> box, validity |-> server[box].validity, uid |-> uid]

\* The row a sync makes of the message there.
RowAt(role, box, uid, part) ==
  LET message == server[box].msgs[uid]
      content == [mail |-> message.mail, part |-> part]
  IN  [id |-> IngestId(role, content, IdentityAt(box, uid)),
       role |-> role, content |-> content, read |-> message.seen,
       starred |-> message.flagged, binding |-> IdentityAt(box, uid)]

\* The roles and the mailboxes that have been synced.
PlacesOf(stored) ==
  {<<role, Folder[role]>> : role \in stored.roles} \union ({"archive"} \X stored.views)

RowsOf(role, box, part) ==
  {RowAt(role, box, uid, part) : uid \in UidsIn(server, box)}

Init ==
  /\ setting \in Settings
  /\ server = setting.server
  /\ LET stored == setting.stored IN
     rows = UNION {RowsOf(place[1], place[2], stored.part) : place \in PlacesOf(stored)}
  /\ audit = <<>>
  /\ synced = 0
  /\ mutators = [m \in Mutators |-> Idle]
  /\ runs = 0
  /\ commanded = {}

Enabled(event) == event \in setting.events

At(m, pc) == mutators[m].pc = pc

Goto(m, pc) == mutators' = [mutators EXCEPT ![m].pc = pc]

Rest(m) == mutators' = [mutators EXCEPT ![m] = Idle]

-----------------------------------------------------------------------------
(* The audit file: each record is appended and fsynced *)

\* Mutant: the record is appended and not fsynced.
RecordUnsynced(handle, run, status) ==
  /\ audit' = Append(audit, [run |-> run, handle |-> handle, status |-> status])
  /\ UNCHANGED synced

Record(handle, run, status) ==
  /\ audit' = Append(audit, [run |-> run, handle |-> handle, status |-> status])
  /\ synced' = Len(audit')

\* Append the record the process is at, and go on to pc.
Audited(m, status, pc) ==
  /\ Record(mutators[m].entry.id, mutators[m].run, status)
  /\ IF pc = "idle" THEN Rest(m) ELSE Goto(m, pc)
  /\ UNCHANGED <<setting, server, rows, runs, commanded>>

-----------------------------------------------------------------------------
(* Preparing a mutation *)

\* Mutant: a move without MOVE starts by marking the source \Deleted.
StoreDeletedFirst(action) ==
  CASE action.kind = "flag" -> "uid_store"
    [] action.kind = "expunge" -> "uid_expunge"
    [] OTHER -> "store_deleted"

Supported(capability) == capability \in setting.capabilities

\* Without MOVE a move needs UIDPLUS; so does a hard expunge.
CommandPath(action) ==
  CASE action.kind = "flag" -> "uid_store"
    [] action.kind = "move" /\ Supported("MOVE") -> "uid_move"
    [] ~Supported("UIDPLUS") -> "refused"
    [] action.kind = "move" -> "uid_copy"
    [] OTHER -> "uid_expunge"

Confirmed(action) == action.kind = "expunge" => action.confirm

(* The handle resolves to a live row with a remote identity in a mailbox    *)
(* that is not virtual, and the server has the commands the action needs.   *)
CanPrepare(row, action) ==
  /\ row.binding # NoBinding
  /\ row.binding.box \notin VirtualMailboxes
  /\ CommandPath(action) # "refused"

Prepare(m, row, action) ==
  /\ At(m, "idle")
  /\ runs < setting.runs
  /\ CanPrepare(row, action)
  /\ Confirmed(action)
  /\ runs' = runs + 1
  /\ mutators' = [mutators EXCEPT ![m] = [pc |-> "approve", action |-> action,
                                          entry |-> row, run |-> runs + 1,
                                          session |-> 0]]
  /\ UNCHANGED <<setting, server, rows, audit, synced, commanded>>

\* --dry-run needs no confirmation, and leaves one record.
DryRun(m, row, action) ==
  /\ At(m, "idle")
  /\ runs < setting.runs
  /\ CanPrepare(row, action)
  /\ runs' = runs + 1
  /\ Record(row.id, runs + 1, "planned")
  /\ UNCHANGED <<setting, server, rows, mutators, commanded>>

Approve(m) == At(m, "approve") /\ Audited(m, "approved", "select")

-----------------------------------------------------------------------------
(* The IMAP commands, each its own step *)

Binding(m) == mutators[m].entry.binding
Target(m) == Folder[mutators[m].action.role]

\* Mutant: SELECT is enough.
AnyUidvalidity(m, current) == TRUE

VerifyUidvalidity(m, current) == Binding(m).validity = current

(* Connect and SELECT the mailbox of the binding; anything but the stored   *)
(* UIDVALIDITY is an error before any command.                              *)
Select(m) ==
  /\ At(m, "select")
  /\ LET current == server[Binding(m).box].validity IN
     \/ /\ VerifyUidvalidity(m, current)
        /\ mutators' = [mutators EXCEPT ![m].pc = CommandPath(mutators[m].action),
                                        ![m].session = current]
     \/ /\ ~VerifyUidvalidity(m, current) \/ Enabled("refuse")
        /\ Goto(m, "failed")
  /\ UNCHANGED <<setting, server, rows, audit, synced, runs, commanded>>

\* The server drops a session whose mailbox has a new UIDVALIDITY.
SessionHolds(m) == mutators[m].session = server[Binding(m).box].validity

\* Mutant: a refused command counts as done.
CommandUnchecked(m, pc, possible, effect, next) ==
  /\ At(m, pc)
  /\ commanded' = commanded \union {mutators[m].run}
  /\ Goto(m, next)
  /\ \/ SessionHolds(m) /\ possible /\ server' = effect
     \/ UNCHANGED server
  /\ UNCHANGED <<setting, rows, audit, synced, runs>>

(* One command: it is done and confirmed, done and its reply is lost, or    *)
(* refused.                                                                 *)
Command(m, pc, possible, effect, next) ==
  /\ At(m, pc)
  /\ commanded' = commanded \union {mutators[m].run}
  /\ \/ /\ SessionHolds(m) /\ possible
        /\ server' = effect
        /\ Goto(m, next) \/ (Enabled("lost_reply") /\ Goto(m, "failed"))
     \/ /\ ~SessionHolds(m) \/ ~possible \/ Enabled("refuse")
        /\ Goto(m, "failed")
        /\ UNCHANGED server
  /\ UNCHANGED <<setting, rows, audit, synced, runs>>

\* The target mailbox can take another message.
TargetHasRoom(m) == HasRoom(server, Target(m))

UidMoveStep(m) ==
  Command(m, "uid_move", TargetHasRoom(m),
          UidMove(server, Binding(m).box, Binding(m).uid, Target(m)), "executed")

\* Mutant: the source is deleted even if the copy was refused.
CopyUnchecked(m) ==
  CommandUnchecked(m, "uid_copy", TargetHasRoom(m),
                   Copy(server, Binding(m).box, Binding(m).uid, Target(m)),
                   "store_deleted")

UidCopyStep(m) ==
  Command(m, "uid_copy", TargetHasRoom(m),
          Copy(server, Binding(m).box, Binding(m).uid, Target(m)), "store_deleted")

StoreDeletedStep(m) ==
  Command(m, "store_deleted", TRUE,
          SetFlag(server, Binding(m).box, Binding(m).uid, "deleted", TRUE),
          "expunge_copied")

ExpungeCopiedStep(m) ==
  Command(m, "expunge_copied", TRUE,
          Expunge(server, Binding(m).box, Binding(m).uid), "executed")

UidStoreStep(m) ==
  Command(m, "uid_store", TRUE,
          SetFlag(server, Binding(m).box, Binding(m).uid,
                  mutators[m].action.flag, mutators[m].action.value), "executed")

\* A hard expunge is the one command UID EXPUNGE.
UidExpungeStep(m) ==
  Command(m, "uid_expunge", TRUE,
          Expunge(server, Binding(m).box, Binding(m).uid), "executed")

RemoteStep(m) ==
  \/ UidMoveStep(m) \/ UidCopyStep(m) \/ StoreDeletedStep(m)
  \/ ExpungeCopiedStep(m) \/ UidStoreStep(m) \/ UidExpungeStep(m)

-----------------------------------------------------------------------------
(* Reconciling the local archive with what was done *)

Executed(m) ==
  /\ At(m, "executed")
  /\ Audited(m, "executed", IF mutators[m].action.kind = "expunge"
                            THEN "remove_entry" ELSE "local_state")

\* Mutant: the row gets the name of the remote mailbox as its role.
RoleIsMailbox(m) ==
  IF mutators[m].action.kind = "move" THEN Folder[mutators[m].action.role]
                                      ELSE mutators[m].entry.role

\* A flag command keeps the role and the binding of the prepared entry.
ReconciledRole(m) ==
  IF mutators[m].action.kind = "move" THEN mutators[m].action.role
                                      ELSE mutators[m].entry.role

ReconciledBinding(m) ==
  IF mutators[m].action.kind = "move" THEN NoBinding ELSE mutators[m].entry.binding

UpdatedFlag(m, flag, old) ==
  IF mutators[m].action.kind = "flag" /\ mutators[m].action.flag = flag
  THEN mutators[m].action.value ELSE old

\* A statement takes effect if it can, or it fails.
Statement(m, pc, possible, effect, next) ==
  /\ At(m, pc)
  /\ \/ possible /\ rows' = effect /\ Goto(m, next)
     \/ /\ ~possible \/ Enabled("database_error")
        /\ Goto(m, "failed")
        /\ UNCHANGED rows
  /\ UNCHANGED <<setting, server, audit, synced, runs, commanded>>

WriteLocalState(m) ==
  LET entry == mutators[m].entry IN
  Statement(m, "local_state", HasRow(rows, entry.id),
            UpdateLocalState(rows, entry.id, ReconciledRole(m),
                             UpdatedFlag(m, "seen", entry.read),
                             UpdatedFlag(m, "flagged", entry.starred)),
            "remote_binding")

WriteRemoteBinding(m) ==
  LET id == mutators[m].entry.id IN
  Statement(m, "remote_binding", CanBind(rows, id, ReconciledBinding(m)),
            UpdateRemoteBinding(rows, id, ReconciledBinding(m)), "reconciled")

RemoveRow(m) ==
  LET id == mutators[m].entry.id IN
  Statement(m, "remove_entry", HasRow(rows, id), RemoveEntry(rows, id),
            "reconciled")

Reconciled(m) == At(m, "reconciled") /\ Audited(m, "reconciled", "idle")

Failed(m) == At(m, "failed") /\ Audited(m, "failed", "idle")

-----------------------------------------------------------------------------
(* Failures *)

\* What is appended at each step of the audit trail.
StatusAt == [approve |-> "approved", executed |-> "executed",
             reconciled |-> "reconciled", failed |-> "failed"]

(* The record cannot be written, or is written and not fsynced: the command *)
(* ends there.                                                              *)
AuditFails(m) ==
  /\ Enabled("audit_error")
  /\ mutators[m].pc \in DOMAIN StatusAt
  /\ \/ UNCHANGED audit
     \/ audit' = Append(audit, [run |-> mutators[m].run,
                                handle |-> mutators[m].entry.id,
                                status |-> StatusAt[mutators[m].pc]])
  /\ Rest(m)
  /\ UNCHANGED <<setting, server, rows, synced, runs, commanded>>

Crash(m) ==
  /\ Enabled("crash")
  /\ ~At(m, "idle")
  /\ Rest(m)
  /\ UNCHANGED <<setting, server, rows, audit, synced, runs, commanded>>

\* SQLite commits are durable; audit records are once they are fsynced.
PowerLoss ==
  /\ Enabled("power_loss")
  /\ mutators' = [m \in Mutators |-> Idle]
  /\ \E n \in synced..Len(audit) : audit' = SubSeq(audit, 1, n)
  /\ UNCHANGED <<setting, server, rows, synced, runs, commanded>>

-----------------------------------------------------------------------------
(* Other mail clients, and the server *)

OtherMove(box, uid, target) ==
  /\ Enabled("other_move")
  /\ target \notin VirtualMailboxes \union {box} /\ HasRoom(server, target)
  /\ server' = UidMove(server, box, uid, target)

OtherExpunge(box, uid) ==
  /\ Enabled("other_expunge")
  /\ server' = Remove(server, box, uid)

OtherFlag(box, uid, flag) ==
  /\ Enabled("other_flag")
  /\ server' = SetFlag(server, box, uid, flag, ~server[box].msgs[uid][flag])

\* In a mailbox that never held a message no UID can get stale.
NewUidvalidity(box) ==
  /\ Enabled("renumber")
  /\ server[box].next > 1
  /\ server[box].validity < MaxValidity
  /\ server' = Renumber(server, box)

ServerEvent ==
  /\ \E box \in Mailboxes :
       \/ NewUidvalidity(box)
       \/ \E uid \in UidsIn(server, box) :
            \/ \E target \in Mailboxes : OtherMove(box, uid, target)
            \/ OtherExpunge(box, uid)
            \/ \E flag \in FlagNames : OtherFlag(box, uid, flag)
  /\ UNCHANGED <<setting, rows, audit, synced, mutators, runs, commanded>>

-----------------------------------------------------------------------------
Step(m) ==
  \/ Approve(m) \/ Select(m) \/ RemoteStep(m) \/ Executed(m)
  \/ WriteLocalState(m) \/ WriteRemoteBinding(m) \/ RemoveRow(m)
  \/ Reconciled(m) \/ Failed(m)

Request(m) ==
  \E row \in rows, action \in setting.actions :
    Prepare(m, row, action) \/ DryRun(m, row, action)

Next ==
  \/ \E m \in setting.mutators : Request(m) \/ Step(m) \/ AuditFails(m) \/ Crash(m)
  \/ PowerLoss
  \/ ServerEvent

Spec == Init /\ [][Next]_vars

-----------------------------------------------------------------------------
\* No other process or mail client changes the mailboxes.
Alone ==
  /\ \A m, n \in setting.mutators : m = n
  /\ setting.events \cap OtherClients = {}

TypeOK ==
  /\ setting \in Settings
  /\ server \in Servers
  /\ rows \subseteq Rows
  /\ audit \in Seq(AuditRecords)
  /\ synced \in 0..Len(audit)
  /\ mutators \in [Mutators -> MutatorStates]
  /\ runs \in 0..MaxRuns
  /\ commanded \subseteq Runs

(* Write-ahead audit: a run has sent a command to the server only when its  *)
(* "approved" record is on disk for good, so that no power loss hides that  *)
(* the mailbox may have changed (run_prepared_mutation, append_audit).      *)
ApprovedOnDisk ==
  \A run \in commanded :
    \E i \in 1..synced : audit[i].run = run /\ audit[i].status = "approved"

(* What a mutation changes on the server is the message its handle stands   *)
(* for, although the UID it uses was stored by an earlier sync and the      *)
(* mailbox may have been renumbered or emptied since (verify_uidvalidity).  *)
OnlyTouches(mail, before, after) ==
  \A box \in Mailboxes, uid \in Uids :
    before[box].msgs[uid] # after[box].msgs[uid] =>
      \A state \in {before, after} :
        Present(state, box, uid) => state[box].msgs[uid].mail = mail

ActsOnDenotedMessage ==
  [][\A m \in Mutators :
       RemoteStep(m) =>
         OnlyTouches(mutators[m].entry.content.mail, server, server')]_vars

(* A move never makes a message vanish, wherever it stops: as long as other *)
(* clients delete nothing, a message that had a copy not marked \Deleted    *)
(* still has one after every command of a move (execute_move).              *)
Kept(state) ==
  {state[at[1]].msgs[at[2]].mail :
     at \in {at \in Mailboxes \X Uids :
               Present(state, at[1], at[2]) /\ ~state[at[1]].msgs[at[2]].deleted}}

MoveKeepsMail ==
  [][\A m \in Mutators :
       /\ ~Enabled("other_expunge")
       /\ RemoteStep(m) /\ mutators[m].action.kind = "move"
       => Kept(server) \subseteq Kept(server')]_vars

(* The audit file accounts for every difference between the archive and the *)
(* server: with one process, no other client and no rows of an aggregate    *)
(* view, a row whose folder does not hold the message, or holds it with     *)
(* other flags, has a run that was approved and not reconciled              *)
(* (reconcile_success after execute_remote, each with its record).          *)
SamePlace(row, message) == message.mail = row.content.mail

SameFlags(row, message) == message.seen = row.read /\ message.flagged = row.starred

InItsFolder(row) ==
  \E uid \in UidsIn(server, Folder[row.role]) :
    SamePlace(row, server[Folder[row.role]].msgs[uid])

Agrees(row) ==
  \E uid \in UidsIn(server, Folder[row.role]) :
    /\ SamePlace(row, server[Folder[row.role]].msgs[uid])
    /\ SameFlags(row, server[Folder[row.role]].msgs[uid])

Unsettled(handle) ==
  \E i \in DOMAIN audit :
    /\ audit[i].handle = handle
    /\ audit[i].status = "approved"
    /\ \A j \in DOMAIN audit :
         audit[j].run = audit[i].run => audit[j].status # "reconciled"

MirrorIsTrueOrUnsettled ==
  Alone /\ setting.stored.views = {} =>
    \A row \in rows : Agrees(row) \/ Unsettled(row.id)

(* A hard expunge that was executed has removed the message from its        *)
(* mailbox (hard_expunge).                                                  *)
ExpungeRemoves ==
  [][\A m \in Mutators :
       At(m, "uid_expunge") /\ mutators'[m].pc = "executed" =>
         ~Present(server', Binding(m).box, Binding(m).uid)]_vars
=============================================================================
