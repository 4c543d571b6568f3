----------------------------- MODULE SendQueue ------------------------------
(***************************************************************************)
(* The command queue of one account: one JSON file per queued command,     *)
(* written in place, and the vivi-mail processes that enqueue, drop and    *)
(* run the items.  A send item records its Message-ID with the status      *)
(* "sending" before SMTP is called (src/src/queue.rs, queue_runner.rs and  *)
(* send_path of draft_runner.rs).  There is no lock: every process reads   *)
(* and writes the files on its own, and may die between any two steps.     *)
(***************************************************************************)
EXTENDS MutationPolicy, Integers, FiniteSets

CONSTANTS
  Runners,      \* processes that run `queue run`
  Clients,      \* processes that run `enqueue`, `queue drop` and `exec send`
  MaxItems,     \* bound: how many items are ever created
  Keys,         \* send dedupe keys: a Message-ID, or a content hash without one
  NoKey,        \* no key recorded; for a file: the file does not exist
  Paths,        \* .eml files named by send commands
  LocalDrafts,  \* the paths that lie in the account's drafts folder
  Commands,     \* the commands that are queued
  TrashFolder,  \* the account's trash folder
  InitialFiles, \* what the .eml files hold at first
  Events        \* which of the environment's events below may happen

Procs == Runners \union Clients
Items == 1..MaxItems

AllEvents == {"crash", "power_loss", "write_error", "lost_reply",
              "reconcile_error", "edit", "policy", "hand_written", "drop",
              "exec_send"}

ASSUME ConstantsAssumption ==
  /\ MaxItems \in Nat
  /\ NoKey \notin Keys
  /\ LocalDrafts \subseteq Paths
  /\ InitialFiles \in [Paths -> Keys \union {NoKey}]
  /\ \A c \in Commands : c.op = "send" => c.path \in Paths
  /\ Events \subseteq AllEvents

-----------------------------------------------------------------------------
(* Queue items *)

\* Mutant: the queue before it recorded the intent to send.
StatusesWithoutIntent == {"pending", "executed", "failed", "dropped"}

Statuses == {"pending", "sending", "executed", "failed", "dropped"}

\* Mutant: only a confirmed send blocks its key.
BlocksOnlyExecuted == {"executed"}

BlocksResend == {"sending", "executed"}

(* What load makes of a file: no file, a file truncated and not yet         *)
(* written, or text that is not the JSON of an item.                        *)
Unreadable == {"empty", "torn"}
FileStates == Statuses \union Unreadable \union {"absent"}

NoCommand == [op |-> "none"]

Records == [status  : FileStates,
            command : Commands \union {NoCommand},
            key     : Keys \union {NoKey}]

NoRecord == [status |-> "absent", command |-> NoCommand, key |-> NoKey]

Pcs == {"idle", "next", "read_draft", "history", "write", "writing", "smtp",
        "reconcile", "perform"}

-----------------------------------------------------------------------------
VARIABLES
  disk,       \* the item files as processes read them
  durable,    \* the item files as they are after a power loss (fsynced)
  issued,     \* how many item ids have been handed out
  eml,        \* the key of the message each .eml file holds
  policy,     \* the account's policy in accounts.toml
  procs,      \* the processes
  calls,      \* history: SMTP submissions made for each item
  submitted,  \* history: the recorded key of each item handed to SMTP
  handed,     \* history: the key of the message that was handed over for it
  released,   \* history: items whose Failed or Dropped record was fsynced
  accepted    \* history: queued submissions the server accepted, per key

diskVars == <<disk, durable, released>>
netVars  == <<calls, submitted, handed, accepted>>
vars     == <<disk, durable, issued, eml, policy, procs, calls, submitted,
              handed, released, accepted>>

\* A process that is not running: the values of its locals do not matter.
Idle == [pc |-> "idle", policy |-> "full_write", batch |-> {}, item |-> 0,
         rec |-> NoRecord, then |-> "idle"]

ProcStates == [pc : Pcs, policy : Policies, batch : SUBSET Items,
               item : 0..MaxItems, rec : Records, then : {"idle", "next", "smtp"}]

Init ==
  /\ disk = [i \in Items |-> NoRecord]
  /\ durable = [i \in Items |-> NoRecord]
  /\ issued = 0
  /\ eml = InitialFiles
  /\ policy = "full_write"
  /\ procs = [p \in Procs |-> Idle]
  /\ calls = [i \in Items |-> 0]
  /\ submitted = [i \in Items |-> NoKey]
  /\ handed = [i \in Items |-> NoKey]
  /\ released = {}
  /\ accepted = [k \in Keys |-> 0]

-----------------------------------------------------------------------------
(* Helpers *)

\* Mutant: the policy is asked at enqueue only.
PermittedWhenQueued(p, command) == TRUE

Permitted(p, command) == Authorize(procs[p].policy, TrashFolder, command)

Pending(i) == disk[i].status = "pending"

\* Mutant: list() skips the files it cannot parse.
ListSkipsUnreadable == TRUE

\* list() parses every file and fails on the first that is not an item.
Listable == \A i \in Items : disk[i].status \notin Unreadable

PendingIds == {i \in Items : Pending(i)}

SendAlreadyAttempted(key, except) ==
  \E i \in Items \ {except} : disk[i].key = key /\ disk[i].status \in BlocksResend

\* p goes on at pc with its item set to rec.
Goto(p, pc, rec) ==
  procs' = [procs EXCEPT ![p] = [@ EXCEPT !.pc = pc, !.rec = rec]]

Stop(p) == procs' = [procs EXCEPT ![p] = Idle]

\* p takes item i from its batch.
Take(p, i, pc, rec) ==
  procs' = [procs EXCEPT ![p] =
              [procs[p] EXCEPT !.pc = pc, !.batch = procs[p].batch \ {i}, !.item = i,
                               !.rec = rec, !.then = "idle"]]

\* mark() and save(): the file is written by the next steps, then p goes on.
Save(p, rec, then) ==
  procs' = [procs EXCEPT ![p] = [@ EXCEPT !.pc = "write", !.rec = rec, !.then = then]]

\* An error ends the command, and with it the batch; a queued item is saved Failed.
Fail(p) ==
  IF procs[p].item = 0 THEN Stop(p)
  ELSE Save(p, [procs[p].rec EXCEPT !.status = "failed"], "idle")

Succeed(p) ==
  IF procs[p].item = 0 THEN Stop(p)
  ELSE Save(p, [procs[p].rec EXCEPT !.status = "executed"], "next")

-----------------------------------------------------------------------------
(* `queue run`: the process reads accounts.toml and takes its ids. *)

StartRun(p, ids) ==
  /\ procs[p].pc = "idle"
  /\ procs' = [procs EXCEPT ![p] = [Idle EXCEPT !.pc = "next", !.policy = policy,
                                               !.batch = ids]]
  /\ UNCHANGED <<diskVars, issued, eml, policy, netVars>>

\* --all takes a snapshot of the pending ids, and fails if the queue does not list.
StartRunAll(p) ==
  /\ Listable
  /\ PendingIds # {}
  /\ StartRun(p, PendingIds)

\* Bound: an explicit batch names one id.
StartRunOne(p, i) == i =< issued /\ StartRun(p, {i})

FinishRun(p) ==
  /\ procs[p].pc = "next"
  /\ procs[p].batch = {}
  /\ Stop(p)
  /\ UNCHANGED <<diskVars, issued, eml, policy, netVars>>

(* run_one_queued_item up to its first effect, with the authorization at    *)
(* the head of run_queued_send and execute_queued: all of it depends on one *)
(* read of the item's file and on the policy p read when it started.  The   *)
(* ids are taken in the order of creation, which is the order of the ids.   *)
LoadItem(p) ==
  /\ procs[p].pc = "next"
  /\ \E i \in procs[p].batch :
       /\ \A j \in procs[p].batch \ {i} : i < j
       /\ \/ /\ disk[i].status = "sending"
             /\ procs' = [procs EXCEPT ![p].batch = @ \ {i}]
          \/ /\ disk[i].status \notin {"sending", "pending"}
             /\ Stop(p)
          \/ /\ disk[i].status = "pending"
             /\ ~Permitted(p, disk[i].command)
             /\ Take(p, i, "write", [disk[i] EXCEPT !.status = "failed"])
          \/ /\ disk[i].status = "pending"
             /\ Permitted(p, disk[i].command)
             /\ disk[i].command.op = "send"
             /\ Take(p, i, "read_draft", disk[i])
          \/ /\ disk[i].status = "pending"
             /\ Permitted(p, disk[i].command)
             /\ disk[i].command.op # "send"
             /\ Take(p, i, "perform", disk[i])
  /\ UNCHANGED <<diskVars, issued, eml, policy, netVars>>

\* run_queued_send reads the draft for its key; a missing file leaves the item pending.
ReadDraft(p) ==
  LET key == eml[procs[p].rec.command.path] IN
  /\ procs[p].pc = "read_draft"
  /\ IF key = NoKey THEN Stop(p)
     ELSE Goto(p, "history", [procs[p].rec EXCEPT !.key = key])
  /\ UNCHANGED <<diskVars, issued, eml, policy, netVars>>

\* Mutant: SMTP first, the intent is not recorded.
CheckHistoryUnrecorded(p) ==
  /\ procs[p].pc = "history"
  /\ Goto(p, "smtp", procs[p].rec)
  /\ UNCHANGED <<diskVars, issued, eml, policy, netVars>>

\* Mutant: an item that was already sent is left as it is.
CheckHistoryUnmarked(p) ==
  LET rec == procs[p].rec IN
  /\ procs[p].pc = "history"
  /\ IF Listable /\ ~SendAlreadyAttempted(rec.key, procs[p].item)
     THEN Save(p, [rec EXCEPT !.status = "sending"], "smtp")
     ELSE Stop(p)
  /\ UNCHANGED <<diskVars, issued, eml, policy, netVars>>

\* The history of all items decides between "already sent" and recording the intent.
CheckHistory(p) ==
  LET rec == procs[p].rec IN
  /\ procs[p].pc = "history"
  /\ \/ ~Listable /\ Stop(p)
     \/ /\ Listable
        /\ SendAlreadyAttempted(rec.key, procs[p].item)
        /\ Save(p, [rec EXCEPT !.status = "executed"], "next")
     \/ /\ Listable
        /\ ~SendAlreadyAttempted(rec.key, procs[p].item)
        /\ Save(p, [rec EXCEPT !.status = "sending"], "smtp")
  /\ UNCHANGED <<diskVars, issued, eml, policy, netVars>>

-----------------------------------------------------------------------------
(* write_item: open and truncate, write, fsync. *)

Truncate(p) ==
  /\ procs[p].pc = "write"
  /\ disk' = [disk EXCEPT ![procs[p].item].status = "empty"]
  /\ Goto(p, "writing", procs[p].rec)
  /\ UNCHANGED <<durable, released, issued, eml, policy, netVars>>

\* Mutant: no fsync.
WriteWithoutSync(p) ==
  /\ procs[p].pc = "writing"
  /\ disk' = [disk EXCEPT ![procs[p].item] = procs[p].rec]
  /\ IF procs[p].then = "idle" THEN Stop(p) ELSE Goto(p, procs[p].then, procs[p].rec)
  /\ UNCHANGED <<durable, released, issued, eml, policy, netVars>>

(* If another process wrote the file since p truncated it, p overwrites     *)
(* from offset 0 and a longer old text leaves a tail that does not parse.   *)
WriteAndSync(p) ==
  LET i   == procs[p].item
      rec == procs[p].rec
      torn == [disk[i] EXCEPT !.status = "torn"] IN
  /\ procs[p].pc = "writing"
  /\ \E content \in IF disk[i].status = "empty" THEN {rec} ELSE {rec, torn} :
       /\ disk' = [disk EXCEPT ![i] = content]
       /\ durable' = [durable EXCEPT ![i] = content]
       /\ released' = IF content.status \in {"failed", "dropped"}
                      THEN released \union {i} ELSE released
  /\ IF procs[p].then = "idle" THEN Stop(p) ELSE Goto(p, procs[p].then, rec)
  /\ UNCHANGED <<issued, eml, policy, netVars>>

\* Opening fails, or the disk is full: the command ends and the file is left as it is.
WriteError(p) ==
  /\ "write_error" \in Events
  /\ procs[p].pc \in {"write", "writing"}
  /\ Stop(p)
  /\ UNCHANGED <<diskVars, issued, eml, policy, netVars>>

-----------------------------------------------------------------------------
(* send_path: the draft is read again, handed to SMTP (or the Proton API),  *)
(* and the sent copy and the local draft are reconciled.                    *)

Submitted(p, key) ==
  IF procs[p].item = 0 THEN UNCHANGED <<calls, submitted, handed>>
  ELSE /\ calls' = [calls EXCEPT ![procs[p].item] = @ + 1]
       /\ submitted' = [submitted EXCEPT ![procs[p].item] = procs[p].rec.key]
       /\ handed' = [handed EXCEPT ![procs[p].item] = key]

Accepted(p, key) ==
  accepted' = IF procs[p].item = 0 THEN accepted
              ELSE [accepted EXCEPT ![key] = @ + 1]

SmtpCall(p) ==
  LET key == eml[procs[p].rec.command.path] IN
  /\ procs[p].pc = "smtp"
  /\ \/ /\ key = NoKey             \* the file vanished since the key was taken
        /\ Fail(p)
        /\ UNCHANGED netVars
     \/ /\ key # NoKey             \* refused: nothing was delivered
        /\ Submitted(p, key)
        /\ Fail(p)
        /\ UNCHANGED accepted
     \/ /\ key # NoKey             \* accepted, but the answer is lost
        /\ "lost_reply" \in Events
        /\ Submitted(p, key)
        /\ Accepted(p, key)
        /\ Fail(p)
     \/ /\ key # NoKey
        /\ Submitted(p, key)
        /\ Accepted(p, key)
        /\ Goto(p, "reconcile", procs[p].rec)
  /\ UNCHANGED <<diskVars, issued, eml, policy>>

\* reconcile_sent: the sent copy is stored, then a local draft is removed.
Reconcile(p) ==
  LET path == procs[p].rec.command.path IN
  /\ procs[p].pc = "reconcile"
  /\ \/ /\ eml' = [eml EXCEPT ![path] = IF path \in LocalDrafts THEN NoKey ELSE @]
        /\ Succeed(p)
     \/ /\ "reconcile_error" \in Events
        /\ Fail(p)
        /\ UNCHANGED eml
  /\ UNCHANGED <<diskVars, issued, policy, netVars>>

\* A mutation or a reply draft (execute_queued); nothing is recorded before it.
Perform(p) ==
  /\ procs[p].pc = "perform"
  /\ Succeed(p) \/ Fail(p)
  /\ UNCHANGED <<diskVars, issued, eml, policy, netVars>>

-----------------------------------------------------------------------------
(* The other commands *)

Enqueue(p, command) ==
  /\ procs[p].pc = "idle"
  /\ issued < MaxItems
  /\ Authorize(policy, TrashFolder, command)
  /\ issued' = issued + 1
  /\ procs' = [procs EXCEPT ![p] =
                 [Idle EXCEPT !.pc = "write", !.policy = policy, !.item = issued + 1,
                    !.rec = [status |-> "pending", command |-> command, key |-> NoKey]]]
  /\ UNCHANGED <<diskVars, eml, policy, netVars>>

\* A file put into the queue directory by hand: no policy is asked.
HandWrite(command) ==
  LET rec == [status |-> "pending", command |-> command, key |-> NoKey] IN
  /\ "hand_written" \in Events
  /\ issued < MaxItems
  /\ issued' = issued + 1
  /\ disk' = [disk EXCEPT ![issued + 1] = rec]
  /\ durable' = [durable EXCEPT ![issued + 1] = rec]
  /\ UNCHANGED <<released, eml, policy, procs, netVars>>

\* queue_drop marks any readable item, whatever its status.
Drop(p, i) ==
  /\ "drop" \in Events
  /\ procs[p].pc = "idle"
  /\ disk[i].status \in Statuses
  /\ procs' = [procs EXCEPT ![p] =
                 [Idle EXCEPT !.pc = "write", !.item = i, !.policy = policy,
                              !.rec = [disk[i] EXCEPT !.status = "dropped"]]]
  /\ UNCHANGED <<diskVars, issued, eml, policy, netVars>>

\* `exec send` sends at once: no queue item and no history check.
ExecSend(p, command) ==
  /\ "exec_send" \in Events
  /\ procs[p].pc = "idle"
  /\ command.op = "send"
  /\ Authorize(policy, TrashFolder, command)
  /\ procs' = [procs EXCEPT ![p] =
                 [Idle EXCEPT !.pc = "smtp", !.policy = policy,
                              !.rec = [NoRecord EXCEPT !.command = command]]]
  /\ UNCHANGED <<diskVars, issued, eml, policy, netVars>>

-----------------------------------------------------------------------------
(* The environment *)

\* The process is killed: what it wrote stays in the page cache.
Crash(p) ==
  /\ "crash" \in Events
  /\ procs[p].pc # "idle"
  /\ Stop(p)
  /\ UNCHANGED <<diskVars, issued, eml, policy, netVars>>

\* All processes die; what was not fsynced may be lost, file by file.
PowerLoss ==
  /\ "power_loss" \in Events
  /\ \E lost \in SUBSET {i \in Items : disk[i] # durable[i]} :
       disk' = [i \in Items |-> IF i \in lost THEN durable[i] ELSE disk[i]]
  /\ durable' = disk'
  /\ procs' = [p \in Procs |-> Idle]
  /\ UNCHANGED <<released, issued, eml, policy, netVars>>

\* The user writes, rewrites or removes a message file.
EditMessage(path, key) ==
  /\ "edit" \in Events
  /\ eml' = [eml EXCEPT ![path] = key]
  /\ UNCHANGED <<diskVars, issued, policy, procs, netVars>>

SetPolicy(q) ==
  /\ "policy" \in Events
  /\ policy' = q
  /\ UNCHANGED <<diskVars, issued, eml, procs, netVars>>

-----------------------------------------------------------------------------
\* What a started process does next.
Step(p) ==
  \/ FinishRun(p) \/ LoadItem(p) \/ ReadDraft(p) \/ CheckHistory(p)
  \/ Truncate(p) \/ WriteAndSync(p)
  \/ SmtpCall(p) \/ Reconcile(p) \/ Perform(p)

RunQueue(p) == StartRunAll(p) \/ \E i \in Items : StartRunOne(p, i)

Command(p) ==
  \/ \E c \in Commands : Enqueue(p, c) \/ ExecSend(p, c)
  \/ \E i \in Items : Drop(p, i)

Environment ==
  \/ PowerLoss
  \/ \E c \in Commands : HandWrite(c)
  \/ \E path \in Paths, key \in Keys \union {NoKey} : EditMessage(path, key)
  \/ \E q \in Policies : SetPolicy(q)

Next ==
  \/ \E p \in Procs : Step(p) \/ WriteError(p) \/ Crash(p)
  \/ \E p \in Runners : RunQueue(p)
  \/ \E p \in Clients : Command(p)
  \/ Environment

Spec == Init /\ [][Next]_vars

(* A started process keeps running, and the user (or a scheduler) calls     *)
(* `queue run --all` again and again, whatever other runs are made between. *)
FairSpec == /\ Spec
            /\ \A p \in Procs : WF_vars(Step(p))
            /\ \A p \in Runners : SF_vars(StartRunAll(p))

-----------------------------------------------------------------------------
(* Properties *)

TypeOK ==
  /\ disk \in [Items -> Records]
  /\ durable \in [Items -> Records]
  /\ issued \in 0..MaxItems
  /\ eml \in [Paths -> Keys \union {NoKey}]
  /\ policy \in Policies
  /\ procs \in [Procs -> ProcStates]
  /\ calls \in [Items -> Nat]
  /\ submitted \in [Items -> Keys \union {NoKey}]
  /\ handed \in [Items -> Keys \union {NoKey}]
  /\ released \subseteq Items
  /\ accepted \in [Keys -> Nat]

\* A file that keeps a key blocked: it records the key, or it stops every send.
Holds(rec, key) ==
  \/ rec.status \in Unreadable
  \/ rec.key = key /\ rec.status \in BlocksResend

(* "Recorded before talking to SMTP" (README.md 309-310): once an item was   *)
(* handed to SMTP its file, and what a power loss leaves of it, blocks the   *)
(* key or makes the queue unreadable, until a Failed or Dropped record is    *)
(* written.  No interleaving, kill or power loss shows the item as pending.  *)
IntentIsDurable ==
  \A i \in Items :
    submitted[i] # NoKey /\ i \notin released
      => Holds(disk[i], submitted[i]) /\ Holds(durable[i], submitted[i])

\* No item is handed to SMTP twice, however often the queue is run (queue_runner.rs 143-156).
CallOnce == \A i \in Items : calls[i] =< 1

(* "A later run never resends a sending or executed item with that key"      *)
(* (README.md 310-311): a second submission with a key needs a Failed or     *)
(* Dropped record of one of the two items.                                   *)
ResendOnlyAfterRelease ==
  \A i, j \in Items :
    i # j /\ submitted[i] # NoKey /\ submitted[i] = submitted[j]
      => i \in released \/ j \in released

(* At-most-once as the recipient sees it: a Message-ID is accepted once, and *)
(* once more for each item of that message that was recorded Failed or       *)
(* Dropped, or recorded another key: the file is read for its key and read   *)
(* again for the call (queue_runner.rs 196, draft_runner.rs 57), and may be  *)
(* edited between.                                                           *)
Excused(i) == i \in released \/ submitted[i] # handed[i]

AtMostOnce ==
  \A k \in Keys :
    accepted[k] =< 1 + Cardinality({i \in Items : handed[i] = k /\ Excused(i)})

(* "A stale or hand-written queued item cannot bypass" the policy            *)
(* (README.md 276-277): a process about to cause a remote effect read a      *)
(* policy that permits the command, whoever wrote the item and whatever the  *)
(* policy was when it was queued.                                            *)
EffectsArePermitted ==
  \A p \in Procs :
    LET mutation == Classify(TrashFolder, procs[p].rec.command) IN
    procs[p].pc \in {"smtp", "reconcile", "perform"}
      => mutation = NoMutation \/ PolicyAllows(procs[p].policy, mutation)

(* The durable intent alone, without the release by a Failed record: a       *)
(* message the server accepted is not sent again unless the user dropped it. *)
AcceptedIsNotResent ==
  \A k \in Keys :
    accepted[k] =< 1 + Cardinality({i \in released : submitted[i] = k
                                                   /\ disk[i].status = "dropped"})

\* A send whose message is gone stays pending and ends every batch that reaches it.
Blocked(i) ==
  \E j \in 1..i : /\ Pending(j)
                  /\ disk[j].command.op = "send"
                  /\ eml[disk[j].command.path] = NoKey

\* A file that stops every listing, and that nobody is about to write.
Ruined ==
  \E i \in Items : /\ disk[i].status \in Unreadable
                   /\ \A p \in Procs : ~(procs[p].pc = "writing" /\ procs[p].item = i)

(* What may put a run off: a kill, a power loss, a full disk, a concurrent   *)
(* `queue drop`; not a step that only ends as a kill would.                  *)
Disturbance ==
  /\ ~\E p \in Procs : Step(p)
  /\ \/ \E p \in Procs : Crash(p) \/ WriteError(p)
     \/ PowerLoss
     \/ \E p \in Clients, i \in Items : Drop(p, i)

(* Whatever was killed, lost or dropped before, once that ends the queue     *)
(* drains: a pending item is executed or failed, unless it or an earlier one *)
(* is a send whose message is gone, or a file was left that cannot be read   *)
(* (queue_runner.rs 115-156, 196-218).                                       *)
QueueDrains ==
  <>[][~Disturbance]_vars =>
    \A i \in Items : Pending(i) ~> ~Pending(i) \/ Blocked(i) \/ Ruined

-----------------------------------------------------------------------------
(* The inductive invariant behind the at-most-once properties.  It holds     *)
(* when at most one process at a time runs the queue, while any number of    *)
(* others enqueue, drop and send.                                            *)

OneRunner == \A p, q \in Runners : p = q

\* Ids that were not handed out have no trace anywhere.
FreshIds ==
  /\ \A i \in Items : i > issued =>
       /\ disk[i].status = "absent" /\ durable[i].status = "absent"
       /\ submitted[i] = NoKey
  /\ \A p \in Procs : procs[p].item =< issued

\* What was handed to SMTP is pending in no copy of its file.
PendingIsUnsent ==
  \A i \in Items :
    disk[i].status = "pending" \/ durable[i].status = "pending"
      => submitted[i] = NoKey

CallsAreCounted ==
  \A i \in Items : calls[i] = IF submitted[i] = NoKey THEN 0 ELSE 1

\* No item but i holds the key.
OnlyHolder(i, key) ==
  \A j \in Items \ {i} : submitted[j] = key => j \in released

\* What a process may be about to write over an item.
WriterInv(p) ==
  LET i == procs[p].item
      rec == procs[p].rec IN
  procs[p].pc \in {"write", "writing"} =>
    /\ i \in Items
    /\ \/ /\ rec.status = "pending" /\ procs[p].then = "idle"
          /\ submitted[i] = NoKey
          /\ disk[i].status \in {"absent", "empty"}
          /\ durable[i].status = "absent"
          /\ \A q \in Procs \ {p} : procs[q].item # i
       \/ /\ rec.status = "sending" /\ procs[p].then = "smtp"
          /\ p \in Runners
          /\ submitted[i] = NoKey /\ rec.key # NoKey
          /\ OnlyHolder(i, rec.key)
       \/ /\ rec.status = "executed" /\ procs[p].then = "next"
          /\ p \in Runners
          /\ submitted[i] \in {NoKey, rec.key}
       \/ /\ rec.status \in {"failed", "dropped"} /\ procs[p].then = "idle"

\* What the runner knows of the item it works on, before and after the SMTP call.
RunnerInv(p) ==
  LET i == procs[p].item
      rec == procs[p].rec IN
  /\ procs[p].pc = "next" => p \in Runners
  /\ procs[p].pc \in {"read_draft", "history", "perform"} =>
       p \in Runners /\ i \in Items /\ submitted[i] = NoKey
  /\ procs[p].pc = "history" => rec.key # NoKey
  /\ procs[p].pc = "smtp" /\ i # 0 =>
       /\ p \in Runners
       /\ submitted[i] = NoKey /\ rec.key # NoKey
       /\ OnlyHolder(i, rec.key)
       /\ disk[i].status # "pending" /\ durable[i].status # "pending"
       /\ i \in released \/ (Holds(disk[i], rec.key) /\ Holds(durable[i], rec.key))
  /\ procs[p].pc = "reconcile" /\ i # 0 =>
       p \in Runners /\ submitted[i] = rec.key

QueueInv ==
  /\ FreshIds
  /\ PendingIsUnsent
  /\ IntentIsDurable
  /\ CallsAreCounted
  /\ ResendOnlyAfterRelease
  /\ \A p \in Procs : WriterInv(p) /\ RunnerInv(p)

\* The queue implements its promise.
Promise == INSTANCE AtMostOnceSend WITH
  Items <- Items, Keys <- Keys, NoKey <- NoKey,
  calls <- calls, submitted <- submitted, released <- released
RefinesAtMostOnce == Promise!Spec
=============================================================================
