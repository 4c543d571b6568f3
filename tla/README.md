# A TLA+ development of vivi-mail

vivi-mail is a command-line mail client for agents.  It syncs mail from IMAP or from
the Proton API into a local archive (`storage.sqlite` and a blob directory for each
account), searches it, and runs the mutations and sends that the account's policy
allows, at once (`exec`) or later (`enqueue`, `queue run`).  There is no daemon: every
command is a process of its own, several may run at the same time, and almost nothing
locks anything.  What makes the code hard is therefore not in one function.  It is in
what other processes, other mail clients, the server, a kill or a power loss may do
between two of its steps.

This directory holds TLA+ modules for the parts of the program where that matters, TLC
configurations that check them on small instances, and TLAPS proofs about all of them:
every safety property that a passing run checks is also a theorem for every value of the
constants.
Paths below are relative to `src/src/` of the repository.

## Inventory

| component | state it keeps | operations | interacts with |
|---|---|---|---|
| Command queue (`queue.rs`, `queue_runner.rs`) | one JSON file for each item: command, status, recorded Message-ID | `enqueue`, `queue list/drop/run`, `exec` | policy, send path, mutations, SMTP |
| Mutation policy (`policy.rs`) | none; the policy is a field of `accounts.toml` | classify a command, authorize it | queue, mutations, send |
| Send path (`draft_runner.rs`, `smtp.rs`, `proton_send.rs`) | message files, local drafts, the sent copy | send, reconcile the sent copy, remove the draft | queue, catalog, SMTP or Proton |
| Remote mutations (`mutation_runner.rs`, `mutation_command.rs`, `imap/mutate.rs`) | the audit file `mutations.jsonl`; rows of the archive | archive, delete, move, flag, expunge | IMAP server, local archive |
| Local archive (`storage/`, `catalog/`, `store.rs`) | message rows, remote bindings, blobs, handle cache | ingest, flag and role updates, binding updates, removal, listing | everything |
| IMAP sync (`imap/sync.rs`, `imap/sync/`, `imap/query.rs`) | none between runs | list a folder, refresh flags, find what is missing, download, store | IMAP server, local archive |
| Sync selection and reset (`sync.rs`, `sync_command.rs`, `imap/sync/plan.rs`) | none | options to folder plan; delete an account's directory | sync, file system |
| Proton sync, events and session (`proton_sync.rs`, `proton_events.rs`, `proton_api/`) | cursor file, session file, raw cache | page walk, event poll, token refresh | Proton API, local archive |
| Inbox watch (`watch_inbox.rs`, `imap/idle.rs`) | none between runs | IDLE, sync, announce | IMAP server, sync |
| Agent poll (`agent.rs`, `agent_runner.rs`) | lock file, ledger of claimed messages | claim a batch, run a command, record its outcome | local archive, an external command |
| Email index and threads (`email_index/`, `thread.rs`) | derived tables | rebuild, search, thread walk | local archive |
| Embeddings (`embeddings/`) | chunks and vectors for each provider and model | rebuild, semantic search | email index, a provider |
| Handles (`storage/handles.rs`) | handle cache | shortest unique prefix, resolve | local archive, every command |
| Configuration, rendering, OAuth, transport, compose | files read once, or nothing | parse, print, connect | - |

What must hold of each, and what is hard about it:

- **Queue.** A message whose send may have reached SMTP is never sent again by the
  program itself: after kills, power loss, lost replies, failed writes, and with other
  processes at work.  The queue knows a message by the key it read before the call, and
  reads the file again for the call: an edit between the two sends another message under
  the recorded key.  Nothing takes effect that the policy
  forbids at the time it is run.  Every item gets done.  Hard: the item file is rewritten
  in place, there is no lock, and the intent, the call and the outcome are three steps.
- **Mutations.** The audit file is written ahead and accounts for every difference
  between the server and the archive; a command hits the message its handle denotes,
  never another one that has its UID by now; a move loses no message wherever it stops.
  Hard: up to ten steps in three places, with other clients and processes in between.
- **Sync.** Nothing that stays on the server is skipped; nothing stale is put back;
  flags and contents converge.  Hard: the listing is old by the time it is used, the
  mailbox is opened a second time for the download, UIDs get reused after renumbering.
- **Proton.** Every event up to the saved cursor is applied; a deleted message stays
  deleted; the session survives a refresh.  Hard: cursor, rows and session are three
  files with no transaction across them.
- **Watch.** Each new message is announced once.  Hard: what comes in between a sync and
  the next IDLE, and a sync that fails half-way.
- **Agent.** A message is handed to the command at most once.  Hard: a kill between the
  claim and the command; a lock file that outlives its process.
- **Index, embeddings.** The derived tables are a function of the archive.  Hard: two
  rebuilds, and archive changes during one.
- **Handles.** A handle that was shown means that message or nothing.  Hard: messages
  with the same prefix come and go between the two commands, and within the second.
- **`sync` and its reset.** What a reset takes is the account's own; the folder plan
  covers what was asked for, once; the accounts that are done have what they asked for, and
  those to come what they had.  Hard:
  paths through links and mail roots anywhere; a reset before the checks that follow it;
  one account of several failing.

`PROJECT.json` lists the hazards with their lines and the properties that cover them.

## Modules

| module | models | builds on |
|---|---|---|
| `MutationPolicy` | `policy.rs`: classification of a command and the policy table, as operators | - |
| `AtMostOnceSend` | what the queue promises: a key is submitted, and submitted again only after a release | - |
| `SendQueue` | `queue.rs`, `queue_runner.rs`, `send_path` and `reconcile_sent` of `draft_runner.rs` | `MutationPolicy`, refines `AtMostOnceSend` |
| `SendQueueProofs`, `SendQueuePolicyProofs` | theorems about `SendQueue` | `SendQueue` |
| `ImapServer` | the server (external): mailboxes, UIDs, UIDVALIDITY and the commands the client uses | - |
| `LocalArchive` | rows and bindings of `storage.sqlite`, one operator for each statement or transaction | `ImapServer` |
| `RemoteMutations` | `mutation_runner.rs`, `mutation_command.rs`, its `audit.rs`, `imap/mutate.rs` | `LocalArchive` |
| `RemoteMutationsProofs` | theorems about mutations | `RemoteMutations` |
| `MailSync` | `imap/sync.rs`, `imap/sync/download.rs`, `imap/query.rs`, beside the mutations | `RemoteMutations` |
| `ProtonServer` | the Proton API (external): message list, event log, sessions | - |
| `ProtonClient` | requests with their one retry, the session, cursor and cache files, `proton login` and `session-check` | `ProtonServer` |
| `ProtonEvents` | `proton_events.rs`, `proton_sync.rs` and its `events.rs`: polls and syncs | `ProtonClient` |
| `ProtonSend` | `proton_send.rs`, `proton_api/send.rs`, beside polls and syncs | `ProtonEvents`, refines `SendCall` |
| `ProtonProofs` | theorems about polls, syncs and sends | `ProtonSend` |
| `SendCall` | what a caller of `send_raw` may count on | - |
| `WatchInbox` | `watch_inbox.rs`, `imap/idle.rs`: a watcher whose syncs are steps of `MailSync` | `MailSync` |
| `MailSyncProofs` | theorems about syncs and watchers beside mutations | `WatchInbox`, `RemoteMutationsProofs` |
| `EmailIndex` | `email_index.rs`, `email_index/`: rebuilds, search, the thread walk | - |
| `Embeddings` | `embeddings.rs`, `embeddings/`: embedding runs, semantic search | `EmailIndex` |
| `AgentPoll` | `agent.rs`: lock, ledger, batches, the command | `EmailIndex`, refines `InstructionDelivery` |
| `InstructionDelivery` | what `agent poll` promises: an instruction is given at most once | - |
| `MessageHandles` | `storage/handles.rs`: tokens and what they resolve to | `EmailIndex` |
| `LocalMail` | these side by side on one account | `Embeddings`, `AgentPoll`, `MessageHandles` |
| `AgentPollProofs`, `LocalMailProofs` | theorems about polls; about the index, vectors, handles and threads | `LocalMail` |
| `SyncPlan` | `imap/sync/plan.rs`, `imap/folders.rs`: from options to folders, as operators | - |
| `AccountReset` | the checks of `reset_account_cache` on paths and links, as operators | - |
| `SyncCommand` | `sync_command.rs`, `sync.rs`: the whole command over all accounts | `SyncPlan`, `AccountReset` |
| `SyncCommandProofs` | theorems about resets, folder plans and the whole command | `SyncCommand` |
| `MCSendQueue`, `MCRemoteMutations`, `MCMailSync`, `MCProton`, `MCLocalMail`, `MCSyncCommand` | instances for TLC | |

### SendQueue

`disk` is what a process reads of the item files, `durable` what a power loss leaves of
them: `write_item` truncates, writes and fsyncs in place, so `Truncate` and
`WriteAndSync` are two steps, and a file may be `empty` or `torn` in between, which
makes every listing fail (`Listable`).  If another process has written since the
truncation, the overwrite may leave a tail of the longer text.  `procs` holds each
process: its program counter, the policy it read at its start, its batch of ids and the
item in its memory.  The actions follow `queue_run` (`StartRunAll`, `StartRunOne`,
`FinishRun`), `run_one_queued_item` (`LoadItem`: one read of the file decides between
skip, error, refusal and execution), `run_queued_send` (`ReadDraft`, `CheckHistory`),
`send_path` (`SmtpCall`, which reads the file again, and `Reconcile`) and
`execute_queued` for the other commands (`Perform`).  `Enqueue`, `Drop` and `ExecSend`
are the other commands, `HandWrite`, `EditMessage` and `SetPolicy` the user.
`calls`, `submitted`, `released` and `accepted` are history and are read by no guard.

The directory entry of a new item is taken to be durable with the file (the code does
not fsync the directory), and ids are handed out in order without collisions (they are
nanosecond timestamps).  A draft's key is its Message-ID, or a hash if it has none: a
member of `Keys`.

### RemoteMutations

`setting` is the circumstances of a behaviour: what the server holds and supports,
which processes, actions and failures there are.  It never changes; it lets one run
cover the circumstances that need different servers and failures without taking their
product.  A mutator goes through `approve`, `select`, the IMAP commands of its path
(`UID MOVE`; or `UID COPY`, `UID STORE +FLAGS \Deleted`, `UID EXPUNGE`; or `UID STORE`; or
`UID EXPUNGE` alone), `executed`, the statements of the reconciliation, and
`reconciled`, or from anywhere to `failed`.  Each IMAP command is a step that is done and
confirmed, done with its reply lost, or refused.  The prepared entry stays in memory
while others change the row.  `audit` is the audit file and `synced` the part of it that
is fsynced.  `commanded` and the field `run` of a record are history.

A batch of handles is a sequence of runs.  The roles stand for the folder names: the
lookup of a configured folder name is left out.  It is assumed that a server ends a
session whose selected mailbox gets a new UIDVALIDITY (`SessionHolds`); RFC 3501 allows
no other way to tell the client.  The column `stale` of a binding is written and read by
nothing, and left out.

### MailSync

One action for each step of `sync_folder`: `ListFolder` (SELECT and FETCH of the whole
mailbox), `RefreshFlags` (one UPDATE for each listed message), `ReadSizes` and `ReadIndex`
(the two reads of the archive, one for each role of the dedupe scope), `FindMissing`
(which applies `--limit`), `FetchMessage` (a worker's second SELECT and FETCH, so what it
gets is what has the UID by then), `StoreMessage` (one ingest transaction, which rolls
back when another row holds the remote identity, and ends the sync), `Downloaded`.  A
message is a chunk of its own; in the code up to a hundred are fetched together.  Workers
that outlive a failed sync are what a sync that has not failed yet does.  `--since` and
`--before` are left out.

A move that is reconciled leaves its row without a binding, so a later sync does not recognise a
message without Message-ID in its new folder and stores a second row of it; with a Message-ID the
same may happen when it reads the Message-IDs of the folder's role before the row has that role.
A move of the second row then leaves the first one in a role that its message left, although
its own run was reconciled long ago.
`PlaceIsTrueOrUnsettled` names that case (`ApprovedForOther`): the audit file still tells of it, by
the run on the other row.  Its proof came upon this, and the setting `MovedBack` reaches it.
Left out by name are `--headers-only` storage, where a message without Message-ID is fetched though
it is a row, and two syncs at once, which may both fetch what neither has stored.

A message without Message-ID that was stored as headers and is fetched in full later gets another
id, while its identity is still bound to the old row: the transaction fails (`storage/schema.rs:77`)
and ends that sync and every later one.  `ArchiveConverges` does not hold across such a change of
the storage mode, and is checked in one mode.

The sizes that `ReadSizes` reads are told apart by role, UIDVALIDITY and UID, as in the code
(`storage.rs:370`, `local_sizes_by_role`), and not by mailbox.  A move writes a row's role and
its binding in two autocommit statements (`update_message_state`, `catalog/local.rs:47-48`).  Between
them the row has the new role and the UID of its old mailbox, and a sync of the new folder can
take it for another message that has that UID there, if both mailboxes have the same UIDVALIDITY
and the sizes are equal; for good, if the process dies at that point.
`docs/release-v11.0.0.md:66-68` says that "a reused UID cannot skip new mail".  The proof of
`NothingSkipped` came upon this: the property names such a row (`Confusable`).

The map of sizes has one size to a key, that of the last row listed (`query.rs:173-197`; rows are
listed by date, which the model leaves out, so `LocalSizesByRole` is the set of maps that may come
of it).  A row between the two statements of a move, or left there by a crash, may so hide the size
of the folder's own row with that UIDVALIDITY and UID.  If that message has no Message-ID it is
fetched and stored again, announced again if the folder is the watched inbox, and put back in the
role that it may have left by then.  `AnnouncedOnce` and `PlaceIsTrueOrUnsettled` have the premise
`KeysTellApart` for this: where rows are moved, no two mailboxes have one UIDVALIDITY (and none
gets a new one).  The run gives its mailboxes different UIDVALIDITYs, so it meets neither case.

### ProtonClient and ProtonEvents

A process makes one request at a time: `Ask` with the session as it is, after a 401
`RefreshSession`, which uses up the refresh token, and `Ask` once more.  With an answer
the session file is written (`Truncate`, `Write`), and only then is the answer used
(`Answered`).  `Begin` starts a sync inside a poll: it loads the session again, and the
poll goes on with the one it had (`outer`), which the server may have replaced by then.
An event answer is applied in the order of the code: deletions (`MarkDeleted`), then each
message that was created or updated (`Item`: from the raw cache, or fetched and cached;
`Ingest`: one transaction), then the cursor is saved.  A refresh walks the list page by
page instead.  `vivi sync` walks the same pages; its window may skip any message
(`SkipMessage`) and its limit may end it after any.

Two losses are in the model and in no property, since the code promises nothing there: a kill
between `Truncate` and `Write` leaves a torn file, and every later run that reads it stops with an
error; and when the request that is tried again after `RefreshSession` fails, the new session is
never saved, and the old one is no longer accepted until the user logs in.

Event ids are positions in `log`, and an answer merges what follows an id, up to
`merge` events, to one change for each message, the last.  `since` is history: the last
event id that the cursor was set to without applying what came before it.  The server
accepts one session at a time; an access token that was just handed out is good for one
request (`Expire`).  The user logs in again when the session on disk is lost and nothing
runs.  Of a message, its labels and unread flag are kept; a body that cannot be decrypted
is ingested like any other.  The role falls out of the labels; `starred` is always FALSE
in the code and left out.

### ProtonSend

A send is a chain of requests of `ProtonClient`: the public keys of each recipient in
turn, the account's keys, the draft, the call that sends it.  Every one may expire, be
refreshed and asked once more, or lose its answer.  `StartSend` and `SendAnswered` are the
steps of `send_raw`; `Package` says which recipients the call names, and how each gets the
key.  `outgoing` is what was sent in each caller's last call, and how many calls returned
without an error.  `SendCall` is the contract `SendQueue` assumes of its `SmtpCall`:
sent at most once in a call, sent if there is no error, either if there is one.  Encryption
and MIME are left out.

### WatchInbox

A watcher waits (`Wake`: a change, the end of IDLE after 29 minutes, or 30 seconds where
there is no IDLE; all three may happen at any time), syncs the inbox by the steps of
`MailSync` (`WatchSyncs`, `WatchStores`, `WatchSynced`) and announces what its sync stored.
An event names a message by its remote identity, and `announced` keeps what each watcher's
events named.  `WatchFails` is a failed sync, a failed
extraction or a kill: what was stored is not announced.

### EmailIndex, Embeddings, AgentPoll, MessageHandles, LocalMail

`catalog` is the rows of `storage.sqlite`, changed by syncs and mutations (`MailChanges`)
at any time; `indexed` and `docs` are the two derived tables, of which only the first has a
foreign key.  A rebuild is `OpenIndex` (which reads the schema version), `EnsureSchema` (one
transaction), `ListCatalog` (outside of any) and `Commit`.  An embedding run lists the
index once, asks for one message after another, and with `--rebuild` replaces the
account's vectors at its end (`FinishEmbedding`).  A poll takes the lock file, rebuilds the
index as above, lists it, picks a thread with the code's walk over links (`Thread`), claims
message by message, runs the command and records the outcome; `Kill` leaves the lock.  A
message has one chunk, one provider and model are used, and a conversation is below the
limit of the walk.

### SyncPlan, AccountReset, SyncCommand

Paths are sequences of names; a symbolic link replaces its prefix.  `MayReset` is
`validate_reset` with the checks it calls, `PlansFor` the folder selection.  `SyncCommand`
takes the accounts in order through `reset`, `select`, `prepare`, `folders`, `index`, `embed`:
an error anywhere ends the command.  What a directory holds is a set of kinds (the mail of
a role, the index, the vectors, the Proton session) that are old or new.

`reset_account_cache` says of itself that "root, home, cwd, repository roots, and symlink
escapes are always rejected" (`sync.rs:156-161`).  Of managed accounts that is so, with home, cwd
and repository as the environment names them.  Of custom directories it is not:
`reject_dangerous_target` (`sync.rs:302-309`) looks for direct parents only, so with
`--confirm-reset` a custom `mail_dir` two levels or more above home, cwd or the repository is
removed with them.  `ResetIsContained` says this as it is (`FarBelow`): the resets of `/srv` with
the process in `/srv/work/repo/src` are in the run.  And the home directory is compared by the name
the environment gives it: if that is a link, what it leads to is not recognised, and no property
speaks of it.

## Runs

| run | instance | shows |
|---|---|---|
| `SendQueueClients` | one runner, one process that enqueues and drops, two items (a send, a move) of one message file; kills, power loss, failed writes, lost replies, failed reconciliation, the message file removed and put back; fairness | the inductive invariant `QueueInv` (which holds `IntentIsDurable` and implies `CallOnce`), `ResendOnlyAfterRelease`, `AtMostOnce`, the refinement of `AtMostOnceSend`, and `QueueDrains`: no item waits for ever once nothing is killed or dropped, except behind a send whose file is gone or a file that cannot be read |
| `SendQueuePolicy` | two runners at once, one of which also enqueues and sends; hand-written items, a changing policy, power loss | `EffectsArePermitted`; what holds without a lock: `IntentIsDurable` |
| `SendQueueTwoRunnersResend` | two runners, one item | **violated**: `AtMostOnce`.  Both read the history before either records its intent |
| `SendQueueReconcileResend` | one process, two items | **violated**: `AcceptedIsNotResent`.  A send that was accepted is recorded Failed when its reconciliation fails, and a second item sends it again |
| `Mutations` | the settings `Trail`, `StaleUids`, `CopyPath`, `CopyPathTwice`, `View` | `ApprovedOnDisk`, `MirrorIsTrueOrUnsettled`, `ActsOnDenotedMessage`, `MoveKeepsMail` |
| `MutationsExpungeKeeps` | one hard expunge | **violated**: `ExpungeRemoves`.  Nothing marks the message `\Deleted`, so UID EXPUNGE removes nothing, and the row is removed and audited all the same |
| `MailSync` | ten settings (`NewUids` three times, `BesideMutations`, `MovedBack`, `Renumbered`, `RacingFlags`, `OneAtATime`, `Watched`, `WatchedAndSynced`), fairness | `NothingSkipped` (no hard expunge is run, and mailboxes differ in UIDVALIDITY, so neither of its exceptions occurs), `PlaceIsTrueOrUnsettled` (its premise holds in `BesideMutations` and `MovedBack`; in the second a sync stores a row where a message was moved to, and that row is moved back), `ActsOnDenotedMessage` beside a sync; `FlagsConverge`, `ArchiveConverges`; of the watcher `AnnouncedOnce`, `ArrivalsAnnounced` |
| `Proton` | the settings `Poller`, `Walk`, `Session`, `TwoPollers`, `Expiring`, `Deleting`, `Sender`, `TwoSenders`, fairness | `NothingMissed`, `DeletedStays`, `SessionHeld`; `CaughtUp` where nothing fails for good; `SendsAtMostOnce`, the refinement of `SendCall` |
| `ProtonUpdateFromCache` | one poller, two events, no failure | **violated**: `UpdatesReachRows`.  An update of a message in the raw cache is answered from the cache |
| `LocalMail` | ten settings: racing rebuilds, upgrades of the schema, racing and interrupted embedding runs, polls (two at once, killed, with the lock removed), lookups; fairness | `ThreadsPartition`, `IndexSettles`, `VectorsKept`, `EmbeddingsSettle`, `OnePollAtATime`, `InstructionsSettle`, the refinement of `InstructionDelivery` (`DeliversAtMostOnce`), `HandleMeansWhatWasShown` |
| `SyncCommand` | resets in every place of a tree of 14 directories, with links; every selection of up to two names on three folder layouts; two accounts with failures at any step | `ResetIsContained`, `PlansAreSound`, `SyncedIsThere` |
| `SyncProtonReset` | one Proton API account, nothing fails | **violated**: `ResetIsResynced`.  The reset removes the session together with the account's directory, and the sync that should download everything again fails at once |

Each run also checks the type invariant of its modules.

### Bounds

- `MaxItems` is 2: each hazard of the queue is between an item and one other with its
  key, or between two processes on one item.  `AtMostOnceSend` with any number of items
  is what the proofs are for.
- `MaxRuns` is 3 in `Trail` (a move, its way back, and a run on the row in between), 2 with
  two processes.  `MaxUid` is 4 for mutations (two messages, a used UID before them, and
  room for a message that comes back) and 3 for syncs (two listed, one that comes in).
- `MaxValidity` is 2: a mailbox gets new UIDs once, which is enough for a UID to denote
  another message.  A mailbox that never held a message is not renumbered.
- Proton: `MaxMsgs` is 3 (a page before and one after the message that moves), two or
  three events in the log (a message that comes, changes and goes; a refresh in front of
  another event), `MaxSessions` is 3: a session lost, replaced, and expired again.  The
  page size is 1 where pages matter and the whole list elsewhere; the code's is 150.
- Local mail: three message ids and four contents: two messages that refer to each other,
  one that answers the second, and a new version of the second.  That is the smallest
  conversation in which the thread walk needs a second round and in which a rebuild, a
  removal and a new version can touch different messages.
- `sync`: the selections have up to two names, which is all that `AlreadySelected` compares;
  paths have at most five names, so that a directory may be two levels above another.
- A watcher's inbox gets two messages, one while it syncs and one while it waits; a send
  has one or two recipients, of each kind of key, and there are two sends.
- An explicit batch of `queue run` names one id; `--all` takes all that are pending.
- The history variables `calls` and `accepted` are not bounded: `CallOnce` bounds them.

### Fairness

- Queue: `WF` on what a started process does next (nothing in it waits for anyone) and
  `SF` on `queue run --all`, which the user or a scheduler calls again and again; strong,
  because the call fails while an item file is being written and `--all` may find
  nothing.  No fairness on SMTP's answer: an error records Failed, which is progress.
  `QueueDrains` has a premise of its own: from some point on nothing is killed, no disk is
  full and nothing is dropped (`Disturbance`).  Before that point anything may happen, so it
  says that no wreckage other than an unreadable file stops the queue.
- Sync: `WF` on a sync's next step, its start included: syncs are repeated, and one that
  was started goes on.  No fairness for mutations, for mail that comes in, or for other
  clients.  The liveness properties are claimed in the settings where `SyncFails` is off: a
  sync that fails for ever converges to nothing.
- Watch: `WF` on a watcher's next step: a wait ends by its timeout if by nothing else.  A
  watcher that an error ended is started again.
- Local mail: `WF` on the next step of each rebuild, embedding run and poll: a timer or the
  user repeats them, and nothing in them waits for anyone but the lock, which a poll does
  not wait for either (it gives up).  No fairness for changes of the mail, kills and the
  removal of lock files.  `IndexSettles`, `EmbeddingsSettle` and `InstructionsSettle` are
  claimed where something is repeated and no failure is injected, and only after the mail
  has stopped changing (its changes are bounded).
- Proton: `WF` on a process's next step and `WF` on starting a poll: `sync-events --watch`
  polls at an interval, and a watch that an error ended is started again.  `CaughtUp` is
  claimed where no failure is injected and no message that an answer names can be gone
  for good without the next answer saying so (`Reliable`).

## Proofs

All theorems are for any processes, servers, messages, items, keys, polls, paths, commands and
events that the named assumptions on the constants allow.  These only type the settings and say
what states a behaviour may begin in; each is evaluated by a run.

**Queue** (`SendQueueProofs`, `SendQueuePolicyProofs`)

- `TypeCorrect`: the type invariant.
- `QueueInvariant`: `QueueInv`, under `OneRunner` (at most one process runs the queue at a
  time; others enqueue, drop and send).  `ResendOnlyAfterRelease` is not inductive: it says
  nothing of a runner that is about to call SMTP.  `QueueInv` adds that a process between
  the history check and the call holds the only item with its key (`RunnerInv`,
  `OnlyHolder`), that whatever a process is about to write over an item is no step back
  (`WriterInv`), that what was handed over is pending in no copy of its file
  (`PendingIsUnsent`), and that ids not handed out have no trace (`FreshIds`).  The proof
  has a step for each action, on top of lemmas that say what `Goto`, `Take`, `Save` and
  `Fail` change.
- `IntentStaysDurable`, `CalledOnce`, `NoResendBeforeRelease`: consequences of it.
- `AcceptedAtMostOnce`: `AtMostOnce`, under `OneRunner`.  The server knows a message by what
  its file holds when it is handed over (`handed`), the queue by what it held when its key
  was recorded (`submitted`).  Files may be edited at any time: an item whose file was
  edited between the two reads is excused, as a released one is.  Two facts carry it: no
  more is accepted than was handed over (`AcceptedWereHanded`), and of the items handed over
  with one key at most one is neither released nor edited, since those share a recorded key.
  The run has one key, so its edits only remove the file and put it back; edits to another
  message are the theorem's.
- `QueueKeepsPromise`: `SendQueue` implements `AtMostOnceSend`; every step is a submission,
  a release or a stutter of the abstract queue.
- `OnlyPermittedEffects`: `EffectsArePermitted` for any number of runners: the policy a process
  has read permits what it is about to do, at every program counter from the authorization to
  the effect.

**Mutations** (`RemoteMutationsProofs`)

- `TypeCorrect`: the type invariant, with what it needs to be inductive: a process at work has a row
  with a remote identity, a path for its action, and mailboxes whose UIDs are below `UIDNEXT`.
- `AuditIsWrittenAhead`: `ApprovedOnDisk`.  Every process past its approval has the record in the
  synced part of the file (`ApprovalInv`); a power loss takes only what lies behind it.
- `HandlesDenote`: `ActsOnDenotedMessage`.  An identity (mailbox, UIDVALIDITY, UID) denotes a message
  if the server has no other under it, nor will have: a server only moves on, to UIDs above those
  it has handed out or to a higher UIDVALIDITY (`Continues`).  Every row, and the entry of every process, denotes its message, and a
  process that sends commands has the mailbox open at the UIDVALIDITY of the entry (`HandlesInv`).
- `MovesKeep`: `MoveKeepsMail`.  A process about to mark the original `\Deleted` has copied it, so a
  second undeleted copy exists (`CopiesInv`); COPY and MOVE take none away, and EXPUNGE only what is
  marked.
- `MirrorIsTrue`: `MirrorIsTrueOrUnsettled`, for one process and no other client.  A row that
  the folder does not agree with is explained by an open run on it: approved, in the synced
  part of the file, not reconciled.  Every other row stands for what its folder holds
  (`Stands`): a bound row for the message at its binding, an unbound one for a message at a place
  that no stored identity denotes, so that no later command on another row can move it away.
  The invariant (`MirrorInv`) also keeps rows apart (`RowsApart`: no two rows denote one
  message), holds what a process is about to write to the row against what the server has
  done (`OutcomeInSight`), and ties the row in hand to its open run (`RunIsOpen`,
  `RowInHand`).  Rows of an aggregate view are excluded: they have the role `archive` without
  being in that folder (releases before 11.0 filled archives from such views), so they never agree.
  That no two stored roles share a folder is an assumption on the settings, which the
  UNIQUE constraint on a binding enforces (`storage/schema.rs:77`).

**Syncs and watchers** (`MailSyncProofs`), beside any mutations, mail clients and each other

- `SystemTypeCorrect`: `WatchTypeOK`.
- `HandlesDenoteBesideSyncs`: the same property as `HandlesDenote`, in the system where syncs store
  rows.  What a sync has listed and fetched is denoted by the identity it will store it under
  (`SyncsReliable`), although the listing may be old and the mailbox was opened again: the
  listing's UIDVALIDITY goes into the identity, not the current one.
- `NothingIsSkipped`: `NothingSkipped`.  A row keeps its id and content however often it is moved
  or bound (`RowsLinked`) and without hard expunges no row goes (`Spared`), so that the sizes and
  Message-IDs a sync has read stay backed by rows (`Backed`).  Each listed message is then on its
  way, in the archive, gone, or taken for a row with its key (`Accounted`), and that row is the
  message's or `Confusable`.
- `NothingIsAnnouncedTwice`: `AnnouncedOnce`, for any number of watchers beside other syncs.  A
  watcher syncs the inbox alone (`InboxesSynced`).  A row keeps the role and binding it was stored
  with as long as its UID names the message, since a move writes them only once the message has
  left (`PlacesKept`).  A remote identity is bound to one row, a row was stored from its role's mailbox,
  and UIDVALIDITYs stay where nobody renumbers (`KeysTold`), so that rows of one role with one key
  are one row (`OneKey`), and whatever map a role is read as has the size of each row that is where
  it was stored (`SizeIsKept`).  What was announced is a row, so a later sync that lists its place
  reads its size, or finds its UID empty (`NothingTwice`).  The premise `Recognised` names where the
  code gives no such guarantee: `--headers-only` storage, hard expunges, and moves among mailboxes
  of which two have one UIDVALIDITY or one gets a new one (`KeysTellApart`).
- `PlacesAreAccountedFor`: `PlaceIsTrueOrUnsettled`, for one process that syncs in full, one that
  mutates and no other mail client, where `KeysTellApart`.  The invariant (`PlaceInv`) has a part
  for each of three.
  Every row is `Known`: its own run is open, a run was approved on another row of its message, or
  it is `Held`, that is, its folder has the message and the place it is bound to is not empty.
  What a mutator holds is `EntryInHand` (its row stays, with the role the move gave it) and
  `Foreseen`: a row not yet touched is held, a move that was carried out has brought the message
  to a UID of the target folder that was not handed out before (`Landed`), and what is reconciled
  is held.  A sync is `Careful`: a listed message whose size it did not read back is no row of
  that place unless it has left (`Unkept`).  What it fetched is no row yet, and it is where it was
  listed or a run was approved on another row of the message (`Newly`): no other run can reach
  it.  So a store beside a move is right or accounted for.

**Proton** (`ProtonProofs`)

- `TypeCorrect`: the type invariant, with what each call leaves in a process.  It shows that a
  merged answer has one change per message, a page is a slice of the list, and the page walk
  asks for no page behind the last.
- `NothingIsMissed`: `NothingMissed`, for any number of pollers.  A message that came in since the
  first cursor, up to a process's cursor, and has no row is owed by it: still to be listed by its
  refresh, in its items, in its changes, or the cursor is the first (`Owes`, `CursorInv`); an answer in
  hand names what is lacking up to its end (`AnswerInv`).  The invariant is claimed under the
  property's own premise that deletions do not shift pages (`Stable`).
- `SessionIsHeld`: `SessionHeld`.  Only the process that is alone acts (`OneWorker`, `JobsInv`).
  The session file is the server's last session whenever an answer is in use
  (`SessionOnDisk`); before that, the session in hand is the last one when it is saved or the request
  tried again with it (`SessionInHand`).  Without deletions what is about to be fetched
  is on the server (`ThereInv`), so the request after a refresh is answered and the refreshed session saved.
- `DeletedStayDeleted`: `DeletedStays`.  A deleted message is gone from the server and no later
  event names it (`Departures`); the cursor in hand is the one on disk or follows it
  (`CursorInHand`); an answer names what it deletes and nothing else that was deleted
  (`AnswerApart`); what the process holds is apart from what was deleted (`HandApart`); and the
  deletions up to the cursor on disk have no row (`CursorDead`).
- `SendIsACall`: `SendsAtMostOnce`, that a send of `ProtonSend` implements `SendCall`.  Nothing has
  been sent for a process until its last call is answered, and something has from then on
  (`SendInv`).

**Local mail** (`AgentPollProofs`, `LocalMailProofs`)

- `InstructionsGivenOnce`: `DeliversAtMostOnce`, that `AgentPoll` implements
  `InstructionDelivery`, however many polls run at once and with the lock file removed at any
  time.  So it is the claim in the ledger that keeps the promise, not the lock.
  The invariant (`DeliveryInv`): a batch belongs to one poll (`BatchesApart`), its messages
  are `running` as long as that poll has it, and they are given once its command has started
  and not before (`BatchInv`); what has no row in the ledger has not been given
  (`LedgerInv`).
- `LockKeepsPollsApart`: `OnePollAtATime`.  Whoever polls holds the lock (`LockInv`), unless
  lock files are removed under polls that run.
- `TypeCorrect`: `LocalTypeOK`.  It needs the foreign key of the index (`ForeignKeys`): a vector
  or a claim is for a message that was stored.
- `VectorsAreKept`: `VectorsKept`.  A run without limit or error has retained all that it listed
  and has been through (`RunInv`), so its rebuild takes only what it did not list.
- `HandlesKeepMeaning`: `HandleMeansWhatWasShown`.  A handle in use is the short one of the message
  shown (`Shows`), which is among what it matches while that message is there; and a token that
  matches two is refused.
- `ThreadsArePartition`: `ThreadsPartition`.  After one round for each Message-ID the walk of
  `ThreadIds` has come to the least set that holds its seeds and is closed under links, and links go
  both ways.

**`sync` and its reset** (`SyncCommandProofs`)

- `ManagedResetIsSafe`: what `validate_reset` accepts of managed accounts, for every path, link and
  environment.  `CustomResetRule`: exactly which custom directories it accepts, the ones far above
  home, cwd or repository among them.  Of two directories above a path one is above the other
  (`AboveOneAnother`), so a target that is neither inside nor the parent of something dangerous is
  beside it or far above it (`HowFarAbove`).
- `ResetStaysContained`: `Spec => ResetIsContained`, without a premise.  The invariant behind it
  (`Grounds`) says that the setting, the tree and the account are what the checks take them for;
  only `ResetAccount` and `ResetFails` take anything away, and only what is in the account's
  directory.
- `TypeCorrect`: the type invariant.
- `NamedPlansAreSound`: `PlansAreSound`.  The plans of the first names cover these and repeat nothing;
  shown for the least number of names for which it would fail.
- `SyncedMailIsThere`: `SyncedIsThere`, of every state and so after every error.  The accounts that
  were dealt with hold what they asked for (`Served`), the account at work holds the folders that
  were synced (`Underway`), the accounts to come hold what they held (`Untouched`); a reset of one
  account, whole or cut short, takes nothing from another whose directory is apart.  What the
  account at work has lost when its selection is refused after its reset (`sync_command.rs:135-143`)
  no property restores: `SyncProtonReset` shows that order at work.

`OneRunner` is the assumption the queue needs and does not enforce: the run
`SendQueueTwoRunnersResend` is the counterexample without it.

What a recursive function computes (`ThreadIds`, `NamedPlans`) is proved where the claim is by the
least number at which it would fail (`NatLeast`, from the well-foundedness of the natural
numbers): the induction theorems of the library take an operator as their parameter, which the
provers cannot instantiate.

Only model-checked:

- liveness (`QueueDrains`, `FlagsConverge`, `ArchiveConverges`, `ArrivalsAnnounced`, `CaughtUp`,
  `IndexSettles`, `EmbeddingsSettle`, `InstructionsSettle`): fairness and ENABLED are out of the
  prover's reach.

## Plan

All components with state that other processes, a kill or the server can disturb are
modelled, and every invariant and action property of a passing run is proved.  Liveness stays
with TLC.

## Not modelled

The components with status `not_modelled` in `PROJECT.json`, each with its reason:

- Drafts, compose and reply, labels: one user and one file, or one remote read; no
  state that a second step relies on.  What they put into the queue or send is an input of
  `SendQueue`.
- OAuth: a browser's flow behind a build feature, with one file at its end.
- SMTP and IMAP transport: connections and credentials.  Their failures are the failing and
  lost calls of the other modules.
- Configuration, command line, rendering: parsing and printing, with no state beyond one
  command.  The policy, the folder names and the mail root they yield are constants or
  settings.

Of the modelled components: cryptography, MIME, HTTP and TLS; the ranking of a search
and its filters; batches of several explicit ids; the chunks of a download; date
filters of an IMAP sync; blobs (content-addressed, never changed, here readable or not).
A reset is in `SyncCommand` and nowhere else: it removes the queue and the audit file with
the rest, and `SendQueue` does not have it, so at-most-once is not claimed across one.  The
several chunks of one message, several providers, and the limit of the thread
walk are left out of `LocalMail`.
