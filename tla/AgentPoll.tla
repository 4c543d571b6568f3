------------------------------- MODULE AgentPoll -------------------------------
(***************************************************************************)
(* `vivi-mail agent poll` (src/src/agent.rs): rebuilds the index, picks    *)
(* the first thread with a message of the trusted sender that the ledger   *)
(* does not have, claims that sender's messages in it one by one, and      *)
(* gives the thread to a command.  A lock file keeps polls apart; a kill   *)
(* leaves it behind.                                                       *)
(***************************************************************************)
EXTENDS EmailIndex, Sequences

CONSTANTS
  Pollers,      \* processes that poll, among the Rebuilders
  AgentFolder,  \* the folder polled
  Trusted,      \* contents from the trusted sender
  NoPoller

(* A setting says, beside what EmailIndex has:                              *)
(*   dry      whether a poll may be a dry run                               *)
(*   kills    how many polls may be killed                                  *)
(*   unlock   when someone removes the lock file: never, once its holder is *)
(*            "dead", or "any" time                                         *)
ASSUME AgentAssumption ==
  /\ Pollers \subseteq Rebuilders /\ NoPoller \notin Pollers
  /\ \A s \in Settings : s.dry \subseteq BOOLEAN /\ s.kills \in Nat

PollPcs == {"idle", "locked", "rebuilding", "rebuilt", "pick", "claim", "claiming",
            "prompt", "start", "running", "finish", "finishing", "done"}

Statuses == {"none", "running", "processed", "failed"}

Candidates == [Ids -> Rows \union {NoRow}]

NotPolling == [pc |-> "idle", dry |-> FALSE, candidates |-> [id \in Ids |-> NoRow],
               thread |-> {}, claims |-> {}, batch |-> 0, outcome |-> "none"]

VARIABLES
  lock,       \* who made the lock file
  polls,
  ledger,     \* agent_messages: the status of each id
  batchOf,    \* and its batch
  batches,    \* agent_batches: the status of each
  given,      \* messages a command was started with
  kills

agentVars == <<lock, polls, ledger, batchOf, batches, given, kills>>

AgentInit ==
  /\ lock = NoPoller
  /\ polls = [p \in Pollers |-> NotPolling]
  /\ ledger = [id \in Ids |-> "none"]
  /\ batchOf = [id \in Ids |-> 0]
  /\ batches = <<>>
  /\ given = {}
  /\ kills = 0

PollAt(p, pc) == polls[p].pc = pc

Goto(p, pc) == polls' = [polls EXCEPT ![p].pc = pc]

\* Mutant: the file is created or overwritten.
OverwriteLock(p) ==
  /\ PollAt(p, "idle")
  /\ lock' = p
  /\ \E dry \in setting.dry :
       polls' = [polls EXCEPT ![p] = [NotPolling EXCEPT !.pc = "locked", !.dry = dry]]
  /\ UNCHANGED <<indexVars, ledger, batchOf, batches, given, kills>>

\* create_new fails when the file is there: the poll is over.
TryAcquire(p) ==
  /\ PollAt(p, "idle") /\ lock = NoPoller
  /\ lock' = p
  /\ \E dry \in setting.dry :
       polls' = [polls EXCEPT ![p] = [NotPolling EXCEPT !.pc = "locked", !.dry = dry]]
  /\ UNCHANGED <<indexVars, ledger, batchOf, batches, given, kills>>

\* The poll's own rebuild; when it fails so does the poll.
PollRebuilds(p) ==
  \/ /\ PollAt(p, "locked")
     /\ OpenIndex(p)
     /\ Goto(p, "rebuilding")
     /\ UNCHANGED <<lock, ledger, batchOf, batches, given, kills>>
  \/ /\ PollAt(p, "rebuilding")
     /\ EnsureSchema(p) \/ ListCatalog(p)
     /\ UNCHANGED agentVars
  \/ /\ PollAt(p, "rebuilding")
     /\ \/ Commit(p) /\ Goto(p, "rebuilt")
        \/ RebuildFails(p) /\ Goto(p, "done")
     /\ UNCHANGED <<lock, ledger, batchOf, batches, given, kills>>

ListMessages(p) ==
  /\ PollAt(p, "rebuilt")
  /\ polls' = [polls EXCEPT
                 ![p].pc = "pick",
                 ![p].candidates = [id \in Ids |-> IF indexed[id] = NoRow THEN NoRow
                                                   ELSE catalog[id]]]
  /\ UNCHANGED <<indexVars, lock, ledger, batchOf, batches, given, kills>>

Instructs(row) == row # NoRow /\ row.folder = AgentFolder /\ row.content \in Trusted

\* The messages of a thread that the batch claims.
Claimable(thread) == {id \in thread : Instructs(catalog[id]) /\ ledger[id] = "none"}

Candidate(p, id) == Instructs(polls[p].candidates[id]) /\ ledger[id] = "none"

Smallest(ids) == CHOOSE id \in ids : \A other \in ids : id <= other

\* Candidates without anything to claim in their thread are passed over.
Deciding(p) ==
  {id \in Ids : /\ Candidate(p, id)
                /\ indexed[id] = NoRow \/ Claimable(Thread(id)) # {}}

(* The first thread with something to claim.  A candidate that has left the *)
(* index since it was listed ends the poll.                                 *)
PickBatch(p) ==
  /\ PollAt(p, "pick")
  /\ IF Deciding(p) = {}
     THEN Goto(p, "done")
     ELSE \E seed \in {Smallest(Deciding(p))} :
            IF indexed[seed] = NoRow \/ polls[p].dry
            THEN Goto(p, "done")
            ELSE \E thread \in {Thread(seed)} :
                   polls' = [polls EXCEPT
                               ![p].pc = "claim",
                               ![p].thread = {catalog[id].content : id \in thread},
                               ![p].claims = Claimable(thread)]
  /\ UNCHANGED <<indexVars, lock, ledger, batchOf, batches, given, kills>>

\* Mutant: the batch is numbered and not inserted.
NumberBatch(p) ==
  /\ PollAt(p, "claim")
  /\ polls' = [polls EXCEPT ![p].pc = "claiming", ![p].batch = Len(batches) + 1]
  /\ UNCHANGED <<indexVars, lock, ledger, batchOf, batches, given, kills>>

InsertBatch(p) ==
  /\ PollAt(p, "claim")
  /\ batches' = Append(batches, "running")
  /\ polls' = [polls EXCEPT ![p].pc = "claiming", ![p].batch = Len(batches) + 1]
  /\ UNCHANGED <<indexVars, lock, ledger, batchOf, given, kills>>

\* Mutant: INSERT OR REPLACE.
ClaimAgain(p) ==
  LET id == Smallest(polls[p].claims) IN
  /\ PollAt(p, "claiming") /\ polls[p].claims # {}
  /\ ledger' = [ledger EXCEPT ![id] = "running"]
  /\ batchOf' = [batchOf EXCEPT ![id] = polls[p].batch]
  /\ polls' = [polls EXCEPT ![p].claims = @ \ {id}]
  /\ UNCHANGED <<indexVars, lock, batches, given, kills>>

\* One INSERT for each message; a message that is there already ends the poll.
ClaimMessage(p) ==
  LET id == Smallest(polls[p].claims) IN
  /\ PollAt(p, "claiming") /\ polls[p].claims # {}
  /\ IF ledger[id] = "none"
     THEN /\ ledger' = [ledger EXCEPT ![id] = "running"]
          /\ batchOf' = [batchOf EXCEPT ![id] = polls[p].batch]
          /\ polls' = [polls EXCEPT ![p].claims = @ \ {id}]
     ELSE Goto(p, "done") /\ UNCHANGED <<ledger, batchOf>>
  /\ UNCHANGED <<indexVars, lock, batches, given, kills>>

Claimed(p) ==
  /\ PollAt(p, "claiming") /\ polls[p].claims = {}
  /\ Goto(p, "prompt")
  /\ UNCHANGED <<indexVars, lock, ledger, batchOf, batches, given, kills>>

\* The messages of the thread are read; one that cannot be ends the poll.
WritePrompt(p) ==
  /\ PollAt(p, "prompt")
  /\ IF polls[p].thread \intersect unreadable # {}
     THEN Goto(p, "done")
     ELSE Goto(p, "start")
  /\ UNCHANGED <<indexVars, lock, ledger, batchOf, batches, given, kills>>

InBatch(p) == {id \in Ids : batchOf[id] = polls[p].batch}

StartCommand(p) ==
  /\ PollAt(p, "start")
  /\ \/ Goto(p, "running") /\ given' = given \union InBatch(p)
     \/ /\ polls' = [polls EXCEPT ![p].pc = "finish", ![p].outcome = "failed"]
        /\ UNCHANGED given
  /\ UNCHANGED <<indexVars, lock, ledger, batchOf, batches, kills>>

CommandEnds(p) ==
  /\ PollAt(p, "running")
  /\ \E outcome \in {"processed", "failed"} :
       polls' = [polls EXCEPT ![p].pc = "finish", ![p].outcome = outcome]
  /\ UNCHANGED <<indexVars, lock, ledger, batchOf, batches, given, kills>>

\* Mutant: the messages of the batch are left as they are.
FinishBatchOnly(p) ==
  /\ PollAt(p, "finish")
  /\ batches' = [batches EXCEPT ![polls[p].batch] = polls[p].outcome]
  /\ Goto(p, "done")
  /\ UNCHANGED <<indexVars, lock, ledger, batchOf, given, kills>>

FinishBatch(p) ==
  /\ PollAt(p, "finish")
  /\ batches' = [batches EXCEPT ![polls[p].batch] = polls[p].outcome]
  /\ Goto(p, "finishing")
  /\ UNCHANGED <<indexVars, lock, ledger, batchOf, given, kills>>

FinishMessages(p) ==
  /\ PollAt(p, "finishing")
  /\ ledger' = [id \in Ids |-> IF id \in InBatch(p) THEN polls[p].outcome ELSE ledger[id]]
  /\ Goto(p, "done")
  /\ UNCHANGED <<indexVars, lock, batchOf, batches, given, kills>>

\* Drop removes the lock file, whoever made it.
ReleaseLock(p) ==
  /\ PollAt(p, "done")
  /\ lock' = NoPoller
  /\ polls' = [polls EXCEPT ![p] = NotPolling]
  /\ UNCHANGED <<indexVars, ledger, batchOf, batches, given, kills>>

\* The process is killed: nothing is dropped.
Kill(p) ==
  /\ ~PollAt(p, "idle")
  /\ kills < setting.kills
  /\ kills' = kills + 1
  /\ polls' = [polls EXCEPT ![p] = NotPolling]
  /\ rebuilds' = [rebuilds EXCEPT ![p] = AtRest]
  /\ UNCHANGED <<mailVars, version, indexed, docs, lock, ledger, batchOf, batches, given>>

\* Someone removes a lock file.
RemoveLock ==
  /\ lock # NoPoller
  /\ \/ setting.unlock = "any"
     \/ setting.unlock = "dead" /\ PollAt(lock, "idle")
  /\ lock' = NoPoller
  /\ UNCHANGED <<indexVars, polls, ledger, batchOf, batches, given, kills>>

PollStep(p) ==
  \/ TryAcquire(p) \/ PollRebuilds(p) \/ ListMessages(p) \/ PickBatch(p)
  \/ InsertBatch(p) \/ ClaimMessage(p) \/ Claimed(p) \/ WritePrompt(p)
  \/ StartCommand(p) \/ CommandEnds(p) \/ FinishBatch(p) \/ FinishMessages(p)
  \/ ReleaseLock(p)

AgentNext ==
  \/ \E p \in Pollers \intersect setting.working : PollStep(p) \/ Kill(p)
  \/ RemoveLock

AgentTypeOK ==
  /\ lock \in Pollers \union {NoPoller}
  /\ polls \in [Pollers -> [pc : PollPcs, dry : BOOLEAN, candidates : Candidates,
                            thread : SUBSET Contents, claims : SUBSET Ids,
                            batch : 0..Len(batches), outcome : Statuses]]
  /\ ledger \in [Ids -> Statuses]
  /\ batchOf \in [Ids -> 0..Len(batches)]
  /\ batches \in Seq(Statuses)
  /\ given \subseteq Ids
  /\ kills \in 0..setting.kills

-----------------------------------------------------------------------------
(* Polls deliver each instruction at most once, though polls are killed and *)
(* lock files removed under a poll that still runs, and though another poll *)
(* may have picked the same thread (AgentLedger::claim_batch).              *)
Fate ==
  [id \in Ids |-> IF ledger[id] = "running"
                  THEN IF id \in given THEN "given" ELSE "claimed"
                  ELSE IF ledger[id] = "none" THEN "new" ELSE ledger[id]]

Delivery == INSTANCE InstructionDelivery WITH Instructions <- Ids, fate <- Fate

DeliversAtMostOnce == Delivery!Spec

(* Polls do not run side by side unless the lock file is removed under one  *)
(* of them, though polls are killed and the file they left is removed       *)
(* (AgentLock::try_acquire, drop).                                          *)
OnePollAtATime ==
  \A p, q \in Pollers :
    ~PollAt(p, "idle") /\ ~PollAt(q, "idle") => p = q \/ setting.unlock = "any"

(* With polls repeated, and none killed, every message of the trusted sender*)
(* in the folder is taken up and said to be processed or failed, though the *)
(* messages and the index change while a poll picks its batch (next_batch). *)
PollsRepeat ==
  /\ Pollers \intersect setting.working # {} /\ setting.kills = 0
  /\ setting.unlock # "any"

InstructionsSettle ==
  <>[](PollsRepeat /\ setting.dry = {FALSE} /\ unreadable = {} =>
         \A id \in Ids : Live(id) /\ Instructs(catalog[id]) =>
           ledger[id] \in {"processed", "failed"})
=============================================================================
