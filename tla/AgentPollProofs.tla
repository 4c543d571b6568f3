---------------------------- MODULE AgentPollProofs ----------------------------
(***************************************************************************)
(* `agent poll` keeps the promise of InstructionDelivery for any messages, *)
(* pollers and settings: polls may be killed, their lock files removed, and *)
(* the mail and the index may change at any time.                          *)
(***************************************************************************)
EXTENDS LocalMail, SequenceTheorems, TLAPS

LedgerVars == <<ledger, batchOf, batches, given>>

-----------------------------------------------------------------------------
(* The inductive invariant *)

\* A poll has the fields of NotPolling.
Shaped(poll) ==
  poll = [pc |-> poll.pc, dry |-> poll.dry, candidates |-> poll.candidates,
          thread |-> poll.thread, claims |-> poll.claims, batch |-> poll.batch,
          outcome |-> poll.outcome]

Typed ==
  /\ ledger \in [Ids -> Statuses]
  /\ batchOf \in [Ids -> Nat]
  /\ batches \in Seq(Statuses)
  /\ given \in SUBSET Ids
  /\ polls = [p \in Pollers |-> polls[p]]
  /\ \A p \in Pollers : Shaped(polls[p])

Unheld == {"claiming", "prompt", "start"}
Ended == {"finish", "finishing"}
HasBatch == Unheld \union {"running"} \union Ended

\* What the ledger says of the messages of no batch, and of those of the batches.
LedgerInv ==
  \A id \in Ids :
    /\ batchOf[id] =< Len(batches)
    /\ ledger[id] = "none" => batchOf[id] = 0 /\ id \notin given

\* A batch belongs to one poll.
BatchesApart ==
  /\ \A p \in Pollers : polls[p].pc \in HasBatch => polls[p].batch \in 1..Len(batches)
  /\ \A p, q \in Pollers :
       p # q /\ polls[p].pc \in HasBatch /\ polls[q].pc \in HasBatch =>
         polls[p].batch # polls[q].batch

\* The messages of a batch are running, and given once the command has started.
BatchInv(p) ==
  /\ \A id \in Ids :
       batchOf[id] = polls[p].batch =>
         /\ polls[p].pc \in HasBatch => ledger[id] = "running"
         /\ polls[p].pc \in Unheld => id \notin given
         /\ polls[p].pc = "running" => id \in given
         /\ polls[p].pc \in Ended /\ polls[p].outcome = "processed" => id \in given
  /\ polls[p].pc \in Ended => polls[p].outcome \in {"processed", "failed"}

DeliveryInv == Typed /\ LedgerInv /\ BatchesApart /\ \A p \in Pollers : BatchInv(p)

-----------------------------------------------------------------------------
\* A poll keeps its fields when one of them is set.
LEMMA FieldSet ==
  ASSUME NEW poll, Shaped(poll), NEW value
  PROVE  /\ Shaped([poll EXCEPT !.pc = value]) /\ Shaped([poll EXCEPT !.dry = value])
         /\ Shaped([poll EXCEPT !.candidates = value]) /\ Shaped([poll EXCEPT !.thread = value])
         /\ Shaped([poll EXCEPT !.claims = value]) /\ Shaped([poll EXCEPT !.batch = value])
         /\ Shaped([poll EXCEPT !.outcome = value])
<1>1. Shaped([poll EXCEPT !.pc = value]) /\ Shaped([poll EXCEPT !.dry = value])
  BY DEF Shaped
<1>2. Shaped([poll EXCEPT !.candidates = value]) /\ Shaped([poll EXCEPT !.thread = value])
  BY DEF Shaped
<1>3. Shaped([poll EXCEPT !.claims = value]) /\ Shaped([poll EXCEPT !.batch = value])
  BY DEF Shaped
<1>4. Shaped([poll EXCEPT !.outcome = value])
  BY DEF Shaped
<1>5. QED
  BY <1>1, <1>2, <1>3, <1>4

LEMMA FieldsSet ==
  ASSUME NEW poll, Shaped(poll), NEW pc, NEW value, NEW other
  PROVE  /\ Shaped([poll EXCEPT !.pc = pc, !.dry = value])
         /\ Shaped([poll EXCEPT !.pc = pc, !.candidates = value])
         /\ Shaped([poll EXCEPT !.pc = pc, !.batch = value])
         /\ Shaped([poll EXCEPT !.pc = pc, !.outcome = value])
         /\ Shaped([poll EXCEPT !.pc = pc, !.thread = value, !.claims = other])
<1> DEFINE moved == [poll EXCEPT !.pc = pc]
           threaded == [moved EXCEPT !.thread = value]
<1>1. /\ [poll EXCEPT !.pc = pc, !.dry = value] = [moved EXCEPT !.dry = value]
      /\ [poll EXCEPT !.pc = pc, !.candidates = value] = [moved EXCEPT !.candidates = value]
      /\ [poll EXCEPT !.pc = pc, !.batch = value] = [moved EXCEPT !.batch = value]
      /\ [poll EXCEPT !.pc = pc, !.outcome = value] = [moved EXCEPT !.outcome = value]
      /\ [poll EXCEPT !.pc = pc, !.thread = value, !.claims = other]
           = [threaded EXCEPT !.claims = other]
  BY Zenon
<1>2. Shaped(moved)
  BY FieldSet
<1> HIDE DEF moved
<1>3. Shaped(threaded)
  BY <1>2, FieldSet
<1> HIDE DEF threaded
<1>4. QED
  BY <1>1, <1>2, <1>3, FieldSet

LEMMA Idle ==
  Shaped(NotPolling) /\ NotPolling.pc = "idle"
BY DEF NotPolling, Shaped

LEMMA DeliveryInit == LocalInit => DeliveryInv
<1> SUFFICES ASSUME LocalInit PROVE DeliveryInv
  OBVIOUS
<1> USE DEF LocalInit, AgentInit, NotPolling
<1>1. \A p \in Pollers : polls[p] = NotPolling
  OBVIOUS
<1>2. Typed
  <2>1. \A p \in Pollers : Shaped(polls[p])
    BY <1>1 DEF Shaped
  <2>2. polls = [p \in Pollers |-> polls[p]]
    OBVIOUS
  <2>3. /\ ledger \in [Ids -> Statuses] /\ batchOf \in [Ids -> Nat]
        /\ batches \in Seq(Statuses) /\ given \in SUBSET Ids
    BY DEF Statuses
  <2>4. QED
    BY <2>1, <2>2, <2>3 DEF Typed
<1>3. \A p \in Pollers : polls[p].pc = "idle"
  BY <1>1
<1>4. LedgerInv
  BY DEF LedgerInv
<1>5. BatchesApart /\ \A p \in Pollers : BatchInv(p)
  BY <1>3 DEF BatchesApart, BatchInv, HasBatch, Unheld, Ended
<1>6. QED
  BY <1>2, <1>4, <1>5 DEF DeliveryInv

\* The ledger stays, and one poll goes on, with its batch or without.
LEMMA PollGoesOn ==
  ASSUME DeliveryInv, NEW p \in Pollers, NEW new,
         UNCHANGED LedgerVars,
         polls' = [polls EXCEPT ![p] = new], Shaped(new),
         new.pc \in HasBatch => new.batch = polls[p].batch /\ polls[p].pc \in HasBatch,
         new.pc \in Unheld => polls[p].pc \in Unheld,
         new.pc # "running",
         new.pc \in Ended =>
           /\ new.outcome \in {"processed", "failed"}
           /\ new.outcome = "processed" => polls[p].pc = "running"
  PROVE  DeliveryInv'
<1>1. polls'[p] = new /\ \A q \in Pollers \ {p} : polls'[q] = polls[q]
  BY DEF DeliveryInv, Typed
<1>2. Typed'
  <2>1. \A q \in Pollers : Shaped(polls'[q])
    BY <1>1 DEF DeliveryInv, Typed
  <2>2. polls' = [q \in Pollers |-> polls'[q]]
    BY DEF DeliveryInv, Typed
  <2>3. QED
    BY <2>1, <2>2 DEF DeliveryInv, Typed, LedgerVars, Shaped
<1>3. LedgerInv'
  BY DEF DeliveryInv, LedgerInv, LedgerVars
<1>4. BatchesApart'
  BY <1>1 DEF DeliveryInv, BatchesApart, LedgerVars
<1>5. BatchInv(p)'
  BY <1>1 DEF DeliveryInv, BatchInv, LedgerVars, HasBatch, Unheld, Ended
<1>6. \A q \in Pollers \ {p} : BatchInv(q)'
  BY <1>1 DEF DeliveryInv, BatchInv, LedgerVars
<1>7. QED
  BY <1>2, <1>3, <1>4, <1>5, <1>6 DEF DeliveryInv

LEMMA GotoGoesOn ==
  ASSUME DeliveryInv, NEW p \in Pollers, NEW pc, Goto(p, pc), UNCHANGED LedgerVars,
         pc \notin Ended, pc # "running", pc \in Unheld => polls[p].pc \in Unheld
  PROVE  DeliveryInv'
<1> DEFINE new == [polls[p] EXCEPT !.pc = pc]
<1>1. polls' = [polls EXCEPT ![p] = new]
  BY DEF Goto
<1>2. Shaped(polls[p])
  BY DEF DeliveryInv, Typed
<1>3. new.pc = pc /\ new.batch = polls[p].batch /\ Shaped(new)
  BY <1>2 DEF Shaped
<1> HIDE DEF new
<1>4. QED
  BY <1>1, <1>3, PollGoesOn DEF HasBatch, Unheld, Ended

-----------------------------------------------------------------------------
(* Steps that leave the ledger as it is *)

\* A poll that begins, ends or is killed.
LEMMA OutsideBatch ==
  ASSUME DeliveryInv, NEW p \in Pollers, TryAcquire(p) \/ ReleaseLock(p) \/ Kill(p)
  PROVE  DeliveryInv' /\ UNCHANGED <<ledger, given>>
<1>1. UNCHANGED LedgerVars
  BY DEF TryAcquire, ReleaseLock, Kill, LedgerVars
<1>2. DeliveryInv'
  <2>1. CASE TryAcquire(p)
    <3>1. PICK dry :
            polls' = [polls EXCEPT ![p] = [NotPolling EXCEPT !.pc = "locked", !.dry = dry]]
      BY <2>1 DEF TryAcquire
    <3> DEFINE new == [NotPolling EXCEPT !.pc = "locked", !.dry = dry]
    <3>2. Shaped(new)
      BY Idle, FieldsSet
    <3>3. new.pc = "locked"
      BY DEF NotPolling
    <3>4. polls' = [polls EXCEPT ![p] = new]
      BY <3>1
    <3> HIDE DEF new
    <3>5. QED
      BY <1>1, <3>2, <3>3, <3>4, PollGoesOn DEF HasBatch, Unheld, Ended
  <2>2. CASE ReleaseLock(p) \/ Kill(p)
    <3>1. polls' = [polls EXCEPT ![p] = NotPolling]
      BY <2>2 DEF ReleaseLock, Kill
    <3>2. QED
      BY <1>1, <3>1, Idle, PollGoesOn DEF HasBatch, Unheld, Ended
  <2>3. QED
    BY <2>1, <2>2
<1>3. QED
  BY <1>1, <1>2 DEF LedgerVars

LEMMA SamePolls ==
  ASSUME DeliveryInv, UNCHANGED agentVars
  PROVE  DeliveryInv' /\ UNCHANGED <<ledger, given>>
BY DEF DeliveryInv, Typed, LedgerInv, BatchesApart, BatchInv, agentVars, Shaped

LEMMA BeforeClaims ==
  ASSUME DeliveryInv, NEW p \in Pollers, PollRebuilds(p) \/ ListMessages(p)
  PROVE  DeliveryInv' /\ UNCHANGED <<ledger, given>>
<1>1. CASE UNCHANGED agentVars
  BY <1>1, SamePolls
<1>2. CASE UNCHANGED LedgerVars /\ \E pc \in {"rebuilding", "rebuilt", "done"} : Goto(p, pc)
  <2>1. DeliveryInv'
    BY <1>2, GotoGoesOn DEF Ended, Unheld
  <2>2. QED
    BY <1>2, <2>1 DEF LedgerVars
<1>3. CASE ListMessages(p)
  <2>1. PICK candidates :
          polls' = [polls EXCEPT ![p] = [polls[p] EXCEPT !.pc = "pick",
                                                         !.candidates = candidates]]
    BY <1>3 DEF ListMessages
  <2> DEFINE new == [polls[p] EXCEPT !.pc = "pick", !.candidates = candidates]
  <2>2. Shaped(polls[p])
    BY DEF DeliveryInv, Typed
  <2>3. new.pc = "pick" /\ Shaped(new)
    <3>1. new.pc = "pick"
      BY <2>2 DEF Shaped
    <3>2. QED
      BY <2>2, <3>1, FieldsSet
  <2>4. UNCHANGED LedgerVars
    BY <1>3 DEF ListMessages, LedgerVars
  <2>5. polls' = [polls EXCEPT ![p] = new]
    BY <2>1
  <2> HIDE DEF new
  <2>6. DeliveryInv'
    BY <2>3, <2>4, <2>5, PollGoesOn DEF HasBatch, Unheld, Ended
  <2>7. QED
    BY <2>4, <2>6 DEF LedgerVars
<1>4. QED
  BY <1>1, <1>2, <1>3 DEF PollRebuilds, LedgerVars

LEMMA BatchPicked ==
  ASSUME DeliveryInv, NEW p \in Pollers, PickBatch(p)
  PROVE  DeliveryInv' /\ UNCHANGED <<ledger, given>>
<1>1. UNCHANGED LedgerVars
  BY DEF PickBatch, LedgerVars
<1>2. CASE Goto(p, "done")
  <2>1. DeliveryInv'
    BY <1>1, <1>2, GotoGoesOn DEF Ended, Unheld
  <2>2. QED
    BY <1>1, <2>1 DEF LedgerVars
<1>3. CASE \E thread, claims :
             polls' = [polls EXCEPT ![p] = [polls[p] EXCEPT !.pc = "claim", !.thread = thread,
                                                            !.claims = claims]]
  <2>1. PICK thread, claims :
             polls' = [polls EXCEPT ![p] = [polls[p] EXCEPT !.pc = "claim", !.thread = thread,
                                                            !.claims = claims]]
    BY <1>3
  <2> DEFINE new == [polls[p] EXCEPT !.pc = "claim", !.thread = thread, !.claims = claims]
  <2>2. Shaped(polls[p])
    BY DEF DeliveryInv, Typed
  <2>3. new.pc = "claim" /\ Shaped(new)
    <3>1. new.pc = "claim"
      BY <2>2 DEF Shaped
    <3>2. QED
      BY <2>2, <3>1, FieldsSet
  <2>4. polls' = [polls EXCEPT ![p] = new]
    BY <2>1
  <2> HIDE DEF new
  <2>5. DeliveryInv'
    BY <1>1, <2>3, <2>4, PollGoesOn DEF HasBatch, Unheld, Ended
  <2>6. QED
    BY <1>1, <2>5 DEF LedgerVars
<1>4. CASE ~Goto(p, "done")
  <2>1. Deciding(p) # {}
    BY <1>4 DEF PickBatch
  <2>2. PICK seed : \E thread \in {Thread(seed)} :
                      polls' = [polls EXCEPT ![p].pc = "claim",
                                             ![p].thread = {catalog[id].content : id \in thread},
                                             ![p].claims = Claimable(thread)]
    BY <1>4, <2>1, Zenon DEF PickBatch
  <2>3. PICK thread : polls' = [polls EXCEPT ![p].pc = "claim",
                                             ![p].thread = {catalog[id].content : id \in thread},
                                             ![p].claims = Claimable(thread)]
    BY <2>2, Zenon
  <2>4. \E content, claims :
             polls' = [polls EXCEPT ![p] = [polls[p] EXCEPT !.pc = "claim", !.thread = content,
                                                            !.claims = claims]]
    BY <2>3, Zenon
  <2>5. QED
    BY <1>3, <2>4
<1>5. QED
  BY <1>2, <1>4

\* The messages are all claimed, or read, or a claim is refused.
LEMMA WithBatch ==
  ASSUME DeliveryInv, NEW p \in Pollers,
         \/ Claimed(p) \/ WritePrompt(p)
         \/ ClaimMessage(p) /\ UNCHANGED ledger /\ Goto(p, "done") /\ UNCHANGED batchOf
  PROVE  DeliveryInv' /\ UNCHANGED <<ledger, given>>
<1>1. UNCHANGED LedgerVars
  BY DEF Claimed, WritePrompt, ClaimMessage, LedgerVars
<1>2. \/ Goto(p, "done")
      \/ polls[p].pc = "claiming" /\ Goto(p, "prompt")
      \/ polls[p].pc = "prompt" /\ Goto(p, "start")
  BY DEF Claimed, WritePrompt, PollAt
<1>3. DeliveryInv'
  BY <1>1, <1>2, GotoGoesOn DEF Ended, Unheld
<1>4. QED
  BY <1>1, <1>3 DEF LedgerVars

\* The command cannot be started, or ends.
LEMMA OutcomeKnown ==
  ASSUME DeliveryInv, NEW p \in Pollers, NEW outcome \in {"processed", "failed"},
         polls' = [polls EXCEPT ![p].pc = "finish", ![p].outcome = outcome],
         UNCHANGED LedgerVars,
         \/ polls[p].pc = "running"
         \/ polls[p].pc = "start" /\ outcome = "failed"
  PROVE  DeliveryInv' /\ UNCHANGED <<ledger, given>>
<1> DEFINE new == [polls[p] EXCEPT !.pc = "finish", !.outcome = outcome]
<1>1. polls' = [polls EXCEPT ![p] = new]
  OBVIOUS
<1>2. Shaped(polls[p])
  BY DEF DeliveryInv, Typed
<1>3. new.pc = "finish" /\ new.outcome = outcome /\ new.batch = polls[p].batch /\ Shaped(new)
  <2>1. new.pc = "finish" /\ new.outcome = outcome /\ new.batch = polls[p].batch
    BY <1>2 DEF Shaped
  <2>2. QED
    BY <1>2, <2>1, FieldsSet
<1> HIDE DEF new
<1>4. DeliveryInv'
  BY <1>1, <1>3, PollGoesOn DEF HasBatch, Unheld, Ended
<1>5. QED
  BY <1>4 DEF LedgerVars

-----------------------------------------------------------------------------
(* Steps that change the ledger *)

\* What one poll's step leaves of the others.
LEMMA OthersStay ==
  ASSUME DeliveryInv, NEW p \in Pollers, NEW new,
         polls' = [polls EXCEPT ![p] = new], Shaped(new)
  PROVE  /\ polls'[p] = new /\ \A q \in Pollers \ {p} : polls'[q] = polls[q]
         /\ polls' = [q \in Pollers |-> polls'[q]]
         /\ \A q \in Pollers : Shaped(polls[q]) /\ Shaped(polls'[q])
BY DEF DeliveryInv, Typed

LEMMA BatchInserted ==
  ASSUME DeliveryInv, NEW p \in Pollers, InsertBatch(p)
  PROVE  DeliveryInv' /\ UNCHANGED <<ledger, given>>
<1> DEFINE b == Len(batches) + 1
           new == [polls[p] EXCEPT !.pc = "claiming", !.batch = b]
<1>1. polls' = [polls EXCEPT ![p] = new]
  BY DEF InsertBatch
<1>2. new.pc = "claiming" /\ new.batch = b /\ Shaped(new)
  <2>1. Shaped(polls[p])
    BY DEF DeliveryInv, Typed
  <2>2. new.pc = "claiming" /\ new.batch = b
    BY <2>1 DEF Shaped
  <2>3. QED
    BY <2>1, <2>2, FieldsSet
<1>3. UNCHANGED <<ledger, batchOf, given>> /\ batches' = Append(batches, "running")
  BY DEF InsertBatch
<1> HIDE DEF new
<1>4. /\ polls'[p] = new /\ \A q \in Pollers \ {p} : polls'[q] = polls[q]
      /\ polls' = [q \in Pollers |-> polls'[q]]
      /\ \A q \in Pollers : Shaped(polls'[q])
  BY <1>1, <1>2, OthersStay
<1>5. batches \in Seq(Statuses)
  BY DEF DeliveryInv, Typed
<1>6. batches' \in Seq(Statuses) /\ Len(batches') = b /\ Len(batches) \in Nat
  BY <1>3, <1>5 DEF Statuses
<1>7. Typed'
  BY <1>3, <1>4, <1>6 DEF DeliveryInv, Typed, Shaped
<1>8. LedgerInv'
  <2>1. \A id \in Ids : batchOf[id] \in Nat
    BY DEF DeliveryInv, Typed
  <2>2. QED
    BY <1>3, <1>6, <2>1 DEF DeliveryInv, LedgerInv
<1>9. BatchesApart'
  BY <1>2, <1>4, <1>6 DEF DeliveryInv, BatchesApart
<1>10. BatchInv(p)'
  <2>1. \A id \in Ids : batchOf'[id] # b
    BY <1>3, <1>6 DEF DeliveryInv, LedgerInv, Typed
  <2>2. QED
    BY <1>2, <1>4, <2>1 DEF BatchInv, Ended
<1>11. \A q \in Pollers \ {p} : BatchInv(q)'
  BY <1>3, <1>4 DEF DeliveryInv, BatchInv
<1>12. QED
  BY <1>3, <1>7, <1>8, <1>9, <1>10, <1>11 DEF DeliveryInv

LEMMA MessageClaimed ==
  ASSUME DeliveryInv, NEW p \in Pollers, NEW id \in Ids,
         PollAt(p, "claiming"), ledger[id] = "none",
         ledger' = [ledger EXCEPT ![id] = "running"],
         batchOf' = [batchOf EXCEPT ![id] = polls[p].batch],
         NEW claims, polls' = [polls EXCEPT ![p].claims = claims],
         UNCHANGED <<batches, given>>
  PROVE  DeliveryInv'
<1> DEFINE new == [polls[p] EXCEPT !.claims = claims]
<1>1. polls' = [polls EXCEPT ![p] = new]
  OBVIOUS
<1>2. new.pc = "claiming" /\ new.batch = polls[p].batch /\ Shaped(new)
  <2>1. Shaped(polls[p])
    BY DEF DeliveryInv, Typed
  <2>2. QED
    BY <2>1 DEF Shaped, PollAt
<1> HIDE DEF new
<1>3. /\ polls'[p] = new /\ \A q \in Pollers \ {p} : polls'[q] = polls[q]
      /\ polls' = [q \in Pollers |-> polls'[q]]
      /\ \A q \in Pollers : Shaped(polls'[q])
  BY <1>1, <1>2, OthersStay
<1>4. /\ ledger \in [Ids -> Statuses] /\ batchOf \in [Ids -> Nat]
      /\ polls[p].batch \in 1..Len(batches) /\ Len(batches) \in Nat
  BY DEF DeliveryInv, Typed, BatchesApart, PollAt, HasBatch, Unheld
<1>5. /\ ledger'[id] = "running" /\ batchOf'[id] = polls[p].batch
      /\ \A other \in Ids \ {id} : ledger'[other] = ledger[other] /\ batchOf'[other] = batchOf[other]
  BY <1>4
<1>6. Typed'
  <2>1. ledger' \in [Ids -> Statuses] /\ batchOf' \in [Ids -> Nat]
    BY <1>4 DEF Statuses
  <2>2. QED
    BY <1>3, <2>1 DEF DeliveryInv, Typed, Shaped
<1>7. LedgerInv'
  BY <1>4, <1>5 DEF DeliveryInv, LedgerInv
<1>8. BatchesApart'
  BY <1>2, <1>3 DEF DeliveryInv, BatchesApart, PollAt
<1>9. id \notin given
  BY DEF DeliveryInv, LedgerInv
<1>10. BatchInv(p)'
  BY <1>2, <1>3, <1>5, <1>9 DEF DeliveryInv, BatchInv, PollAt, HasBatch, Unheld, Ended
<1>11. \A q \in Pollers \ {p} : BatchInv(q)'
  <2> SUFFICES ASSUME NEW q \in Pollers \ {p} PROVE BatchInv(q)'
    OBVIOUS
  <2>1. polls[q].pc \in HasBatch => polls[q].batch # polls[p].batch
    BY DEF DeliveryInv, BatchesApart, PollAt, HasBatch, Unheld
  <2>2. CASE polls[q].pc \in HasBatch
    BY <1>3, <1>5, <2>1, <2>2 DEF DeliveryInv, BatchInv
  <2>3. CASE polls[q].pc \notin HasBatch
    BY <1>3, <2>3 DEF DeliveryInv, BatchInv, HasBatch, Unheld, Ended
  <2>4. QED
    BY <2>2, <2>3
<1>12. QED
  BY <1>6, <1>7, <1>8, <1>10, <1>11 DEF DeliveryInv

LEMMA CommandStarted ==
  ASSUME DeliveryInv, NEW p \in Pollers, PollAt(p, "start"), Goto(p, "running"),
         given' = given \union InBatch(p), UNCHANGED <<ledger, batchOf, batches>>
  PROVE  DeliveryInv'
<1> DEFINE new == [polls[p] EXCEPT !.pc = "running"]
<1>1. polls' = [polls EXCEPT ![p] = new]
  BY DEF Goto
<1>2. new.pc = "running" /\ new.batch = polls[p].batch /\ Shaped(new)
  <2>1. Shaped(polls[p])
    BY DEF DeliveryInv, Typed
  <2>2. QED
    BY <2>1 DEF Shaped
<1> HIDE DEF new
<1>3. /\ polls'[p] = new /\ \A q \in Pollers \ {p} : polls'[q] = polls[q]
      /\ polls' = [q \in Pollers |-> polls'[q]]
      /\ \A q \in Pollers : Shaped(polls'[q])
  BY <1>1, <1>2, OthersStay
<1>4. Typed'
  BY <1>3 DEF DeliveryInv, Typed, Shaped, InBatch
<1>5. \A id \in InBatch(p) : ledger[id] = "running"
  BY DEF DeliveryInv, BatchInv, PollAt, InBatch, HasBatch, Unheld
<1>6. LedgerInv'
  BY <1>5 DEF DeliveryInv, LedgerInv
<1>7. BatchesApart'
  BY <1>2, <1>3 DEF DeliveryInv, BatchesApart, PollAt, HasBatch, Unheld
<1>8. BatchInv(p)'
  BY <1>2, <1>3, <1>5 DEF BatchInv, InBatch, Unheld, Ended
<1>9. \A q \in Pollers \ {p} : BatchInv(q)'
  <2> SUFFICES ASSUME NEW q \in Pollers \ {p} PROVE BatchInv(q)'
    OBVIOUS
  <2>1. polls[q].pc \in HasBatch => \A id \in InBatch(p) : batchOf[id] # polls[q].batch
    BY DEF DeliveryInv, BatchesApart, PollAt, HasBatch, Unheld, InBatch
  <2>2. CASE polls[q].pc \in HasBatch
    BY <1>3, <2>1, <2>2 DEF DeliveryInv, BatchInv
  <2>3. CASE polls[q].pc \notin HasBatch
    BY <1>3, <2>3 DEF DeliveryInv, BatchInv, HasBatch, Unheld, Ended
  <2>4. QED
    BY <2>2, <2>3
<1>10. QED
  BY <1>4, <1>6, <1>7, <1>8, <1>9 DEF DeliveryInv

LEMMA BatchFinished ==
  ASSUME DeliveryInv, NEW p \in Pollers, FinishBatch(p)
  PROVE  DeliveryInv' /\ UNCHANGED <<ledger, given>>
<1> DEFINE new == [polls[p] EXCEPT !.pc = "finishing"]
<1>1. polls' = [polls EXCEPT ![p] = new] /\ polls[p].pc = "finish"
  BY DEF FinishBatch, Goto, PollAt
<1>2. /\ new.pc = "finishing" /\ new.batch = polls[p].batch /\ new.outcome = polls[p].outcome
      /\ Shaped(new)
  <2>1. Shaped(polls[p])
    BY DEF DeliveryInv, Typed
  <2>2. QED
    BY <2>1 DEF Shaped
<1> HIDE DEF new
<1>3. /\ polls'[p] = new /\ \A q \in Pollers \ {p} : polls'[q] = polls[q]
      /\ polls' = [q \in Pollers |-> polls'[q]]
      /\ \A q \in Pollers : Shaped(polls'[q])
  BY <1>1, <1>2, OthersStay
<1>4. UNCHANGED <<ledger, batchOf, given>>
      /\ batches' = [batches EXCEPT ![polls[p].batch] = polls[p].outcome]
  BY DEF FinishBatch
<1>5. /\ polls[p].outcome \in Statuses /\ batches \in Seq(Statuses)
      /\ polls[p].batch \in 1..Len(batches)
  BY <1>1 DEF DeliveryInv, Typed, BatchInv, BatchesApart, HasBatch, Ended, Statuses
<1>6. batches' \in Seq(Statuses) /\ Len(batches') = Len(batches)
  BY <1>4, <1>5, ExceptSeq
<1>7. Typed'
  BY <1>3, <1>4, <1>6 DEF DeliveryInv, Typed, Shaped
<1>8. LedgerInv'
  BY <1>4, <1>6 DEF DeliveryInv, LedgerInv
<1>9. BatchesApart'
  BY <1>1, <1>2, <1>3, <1>6 DEF DeliveryInv, BatchesApart, HasBatch, Ended
<1>10. BatchInv(p)'
  BY <1>1, <1>2, <1>3, <1>4 DEF DeliveryInv, BatchInv, HasBatch, Unheld, Ended
<1>11. \A q \in Pollers \ {p} : BatchInv(q)'
  BY <1>3, <1>4 DEF DeliveryInv, BatchInv
<1>12. QED
  BY <1>4, <1>7, <1>8, <1>9, <1>10, <1>11 DEF DeliveryInv

LEMMA MessagesFinished ==
  ASSUME DeliveryInv, NEW p \in Pollers, FinishMessages(p)
  PROVE  DeliveryInv'
<1> DEFINE new == [polls[p] EXCEPT !.pc = "done"]
<1>1. polls' = [polls EXCEPT ![p] = new] /\ polls[p].pc = "finishing"
  BY DEF FinishMessages, Goto, PollAt
<1>2. new.pc = "done" /\ Shaped(new)
  <2>1. Shaped(polls[p])
    BY DEF DeliveryInv, Typed
  <2>2. QED
    BY <2>1 DEF Shaped
<1> HIDE DEF new
<1>3. /\ polls'[p] = new /\ \A q \in Pollers \ {p} : polls'[q] = polls[q]
      /\ polls' = [q \in Pollers |-> polls'[q]]
      /\ \A q \in Pollers : Shaped(polls'[q])
  BY <1>1, <1>2, OthersStay
<1>4. /\ UNCHANGED <<batchOf, batches, given>>
      /\ \A id \in Ids : ledger'[id] = IF id \in InBatch(p) THEN polls[p].outcome ELSE ledger[id]
  BY DEF FinishMessages
<1>5. polls[p].outcome \in {"processed", "failed"}
  BY <1>1 DEF DeliveryInv, BatchInv, Ended
<1>6. Typed'
  <2>1. ledger' \in [Ids -> Statuses]
    BY <1>5 DEF FinishMessages, DeliveryInv, Typed, Statuses
  <2>2. QED
    BY <1>3, <1>4, <2>1 DEF DeliveryInv, Typed, Shaped
<1>7. LedgerInv'
  BY <1>4, <1>5 DEF DeliveryInv, LedgerInv
<1>8. BatchesApart'
  BY <1>2, <1>3, <1>4 DEF DeliveryInv, BatchesApart, HasBatch, Unheld, Ended
<1>9. BatchInv(p)'
  BY <1>2, <1>3 DEF BatchInv, HasBatch, Unheld, Ended
<1>10. \A q \in Pollers \ {p} : BatchInv(q)'
  <2> SUFFICES ASSUME NEW q \in Pollers \ {p} PROVE BatchInv(q)'
    OBVIOUS
  <2>1. polls[q].pc \in HasBatch => \A id \in InBatch(p) : batchOf[id] # polls[q].batch
    BY <1>1 DEF DeliveryInv, BatchesApart, HasBatch, Ended, InBatch
  <2>2. CASE polls[q].pc \in HasBatch
    BY <1>3, <1>4, <2>1, <2>2 DEF DeliveryInv, BatchInv
  <2>3. CASE polls[q].pc \notin HasBatch
    BY <1>3, <1>4, <2>3 DEF DeliveryInv, BatchInv, HasBatch, Unheld, Ended
  <2>4. QED
    BY <2>2, <2>3
<1>11. QED
  BY <1>6, <1>7, <1>8, <1>9, <1>10 DEF DeliveryInv

-----------------------------------------------------------------------------
(* Every step is a step of InstructionDelivery, or changes no fate *)

LEMMA SameLedgerSameFate ==
  ASSUME UNCHANGED <<ledger, given>>
  PROVE  UNCHANGED Fate
BY DEF Fate

\* A step that sets the fate of some messages and leaves the others alone.
LEMMA FateBecomes ==
  ASSUME NEW some \in SUBSET Ids, NEW what,
         \A id \in some : Fate'[id] = what,
         \A id \in Ids \ some : Fate'[id] = Fate[id]
  PROVE  Delivery!Become(some, what)
BY DEF Delivery!Become, Fate

LEMMA ClaimDelivers ==
  ASSUME DeliveryInv, NEW id \in Ids, ledger[id] = "none",
         ledger' = [ledger EXCEPT ![id] = "running"], UNCHANGED given
  PROVE  Delivery!Next
<1>1. /\ ledger'[id] = "running" /\ id \notin given
      /\ \A other \in Ids \ {id} : ledger'[other] = ledger[other]
  BY DEF DeliveryInv, Typed, LedgerInv
<1>2. Fate[id] = "new" /\ Fate'[id] = "claimed"
  BY <1>1 DEF Fate
<1>3. \A other \in Ids \ {id} : Fate'[other] = Fate[other]
  BY <1>1 DEF Fate
<1>4. Delivery!Become({id}, "claimed")
  BY <1>2, <1>3, FateBecomes
<1>5. QED
  BY <1>2, <1>4 DEF Delivery!Next, Delivery!Claim

LEMMA StartDelivers ==
  ASSUME DeliveryInv, NEW p \in Pollers, PollAt(p, "start"),
         given' = given \union InBatch(p), UNCHANGED ledger
  PROVE  Delivery!Next
<1>1. InBatch(p) \in SUBSET Ids
  BY DEF InBatch
<1>2. \A id \in InBatch(p) : ledger[id] = "running" /\ id \notin given
  BY DEF DeliveryInv, BatchInv, PollAt, InBatch, HasBatch, Unheld
<1>3. \A id \in InBatch(p) : Fate[id] = "claimed" /\ Fate'[id] = "given"
  BY <1>1, <1>2 DEF Fate
<1>4. \A id \in Ids \ InBatch(p) : Fate'[id] = Fate[id]
  BY DEF Fate
<1>5. Delivery!Become(InBatch(p), "given")
  BY <1>1, <1>3, <1>4, FateBecomes
<1>6. QED
  BY <1>1, <1>3, <1>5 DEF Delivery!Next, Delivery!Give

LEMMA FinishDelivers ==
  ASSUME DeliveryInv, NEW p \in Pollers, FinishMessages(p)
  PROVE  Delivery!Next
<1> DEFINE outcome == polls[p].outcome
<1>1. InBatch(p) \in SUBSET Ids
  BY DEF InBatch
<1>2. /\ outcome \in {"processed", "failed"}
      /\ \A id \in InBatch(p) : ledger[id] = "running" /\ (outcome = "processed" => id \in given)
  BY DEF FinishMessages, PollAt, DeliveryInv, BatchInv, InBatch, HasBatch, Ended
<1>3. /\ UNCHANGED given
      /\ \A id \in Ids : ledger'[id] = IF id \in InBatch(p) THEN outcome ELSE ledger[id]
  BY DEF FinishMessages
<1>4. \A id \in InBatch(p) : Fate'[id] = outcome
  BY <1>1, <1>2, <1>3 DEF Fate
<1>5. \A id \in Ids \ InBatch(p) : Fate'[id] = Fate[id]
  BY <1>3 DEF Fate
<1>6. Delivery!Become(InBatch(p), outcome)
  BY <1>1, <1>4, <1>5, FateBecomes
<1>7. CASE outcome = "processed"
  <2>1. \A id \in InBatch(p) : Fate[id] = "given"
    BY <1>1, <1>2, <1>7 DEF Fate
  <2>2. QED
    BY <1>1, <1>6, <1>7, <2>1 DEF Delivery!Next, Delivery!Process
<1>8. CASE outcome = "failed"
  <2>1. \A id \in InBatch(p) : Fate[id] \in {"claimed", "given"}
    BY <1>1, <1>2 DEF Fate
  <2>2. QED
    BY <1>1, <1>6, <1>8, <2>1 DEF Delivery!Next, Delivery!Fail
<1>9. QED
  BY <1>2, <1>7, <1>8

\* What a step does to the ledger.
DeliversOrNot == Delivery!Next \/ UNCHANGED <<ledger, given>>

LEMMA ClaimStep ==
  ASSUME DeliveryInv, NEW p \in Pollers, ClaimMessage(p)
  PROVE  DeliveryInv' /\ DeliversOrNot
<1> DEFINE id == Smallest(polls[p].claims)
<1>1. CASE id \in Ids /\ ledger[id] = "none"
  <2>1. /\ PollAt(p, "claiming")
        /\ ledger' = [ledger EXCEPT ![id] = "running"]
        /\ batchOf' = [batchOf EXCEPT ![id] = polls[p].batch]
        /\ polls' = [polls EXCEPT ![p].claims = polls[p].claims \ {id}]
        /\ UNCHANGED <<batches, given>>
    BY <1>1 DEF ClaimMessage
  <2> HIDE DEF id
  <2>2. DeliveryInv'
    BY <1>1, <2>1, MessageClaimed
  <2>3. Delivery!Next
    BY <1>1, <2>1, ClaimDelivers
  <2>4. QED
    BY <2>2, <2>3 DEF DeliversOrNot
<1>2. CASE ledger[id] # "none"
  <2>1. UNCHANGED ledger /\ Goto(p, "done") /\ UNCHANGED batchOf
    BY <1>2 DEF ClaimMessage
  <2>2. QED
    BY <2>1, WithBatch DEF DeliversOrNot
<1>3. CASE id \notin Ids /\ ledger[id] = "none"
  <2> DEFINE rest == polls[p].claims \ {id}
             new == [polls[p] EXCEPT !.claims = rest]
  <2>1. /\ polls' = [polls EXCEPT ![p] = new]
        /\ polls[p].pc = "claiming"
        /\ ledger' = [ledger EXCEPT ![id] = "running"]
        /\ batchOf' = [batchOf EXCEPT ![id] = polls[p].batch]
        /\ UNCHANGED <<batches, given>>
    BY <1>3 DEF ClaimMessage, PollAt
  <2>2. Shaped(polls[p])
    BY DEF DeliveryInv, Typed
  <2>3. new.pc = "claiming" /\ new.batch = polls[p].batch /\ Shaped(new)
    <3> HIDE DEF id, rest
    <3>1. new.pc = "claiming" /\ new.batch = polls[p].batch
      BY <2>1, <2>2 DEF Shaped
    <3>2. QED
      BY <2>2, <3>1, FieldSet
  <2> HIDE DEF id, rest, new
  <2>4. UNCHANGED LedgerVars
    BY <1>3, <2>1 DEF DeliveryInv, Typed, LedgerVars
  <2>5. DeliveryInv'
    BY <2>1, <2>3, <2>4, PollGoesOn DEF HasBatch, Unheld, Ended
  <2>6. QED
    BY <2>4, <2>5 DEF DeliversOrNot, LedgerVars
<1>4. QED
  BY <1>1, <1>2, <1>3

LEMMA PollStepDelivers ==
  ASSUME DeliveryInv, NEW p \in Pollers, PollStep(p) \/ Kill(p)
  PROVE  DeliveryInv' /\ DeliversOrNot
<1> USE DEF DeliversOrNot
<1>1. CASE TryAcquire(p) \/ ReleaseLock(p) \/ Kill(p)
  BY <1>1, OutsideBatch
<1>2. CASE PollRebuilds(p) \/ ListMessages(p)
  BY <1>2, BeforeClaims
<1>3. CASE PickBatch(p)
  BY <1>3, BatchPicked
<1>4. CASE InsertBatch(p)
  BY <1>4, BatchInserted
<1>5. CASE ClaimMessage(p)
  BY <1>5, ClaimStep
<1>6. CASE Claimed(p) \/ WritePrompt(p)
  BY <1>6, WithBatch
<1>7. CASE StartCommand(p)
  <2>1. CASE Goto(p, "running") /\ given' = given \union InBatch(p)
    <3>1. PollAt(p, "start") /\ UNCHANGED <<ledger, batchOf, batches>>
      BY <1>7 DEF StartCommand
    <3>2. QED
      BY <2>1, <3>1, CommandStarted, StartDelivers
  <2>2. CASE /\ polls' = [polls EXCEPT ![p].pc = "finish", ![p].outcome = "failed"]
             /\ UNCHANGED given
    <3>1. polls[p].pc = "start" /\ UNCHANGED LedgerVars
      BY <1>7, <2>2 DEF StartCommand, PollAt, LedgerVars
    <3>2. QED
      BY <2>2, <3>1, OutcomeKnown
  <2>3. QED
    BY <1>7, <2>1, <2>2 DEF StartCommand
<1>8. CASE CommandEnds(p)
  <2>1. PICK outcome \in {"processed", "failed"} :
          polls' = [polls EXCEPT ![p].pc = "finish", ![p].outcome = outcome]
    BY <1>8 DEF CommandEnds
  <2>2. polls[p].pc = "running" /\ UNCHANGED LedgerVars
    BY <1>8 DEF CommandEnds, PollAt, LedgerVars
  <2>3. QED
    BY <2>1, <2>2, OutcomeKnown
<1>9. CASE FinishBatch(p)
  BY <1>9, BatchFinished
<1>10. CASE FinishMessages(p)
  BY <1>10, MessagesFinished, FinishDelivers
<1>11. QED
  BY <1>1, <1>2, <1>3, <1>4, <1>5, <1>6, <1>7, <1>8, <1>9, <1>10 DEF PollStep

LEMMA StepDelivers == DeliveryInv /\ [LocalNext]_localVars => DeliveryInv' /\ DeliversOrNot
<1> SUFFICES ASSUME DeliveryInv, [LocalNext]_localVars
             PROVE  DeliveryInv' /\ DeliversOrNot
  OBVIOUS
<1>1. CASE UNCHANGED agentVars
  BY <1>1, SamePolls DEF DeliversOrNot
<1>2. CASE RemoveLock
  <2>1. UNCHANGED LedgerVars /\ UNCHANGED polls
    BY <1>2 DEF RemoveLock, LedgerVars
  <2>2. DeliveryInv'
    BY <2>1 DEF DeliveryInv, Typed, LedgerInv, BatchesApart, BatchInv, LedgerVars, Shaped
  <2>3. QED
    BY <2>1, <2>2 DEF DeliversOrNot, LedgerVars
<1>3. CASE \E p \in Pollers : PollStep(p) \/ Kill(p)
  BY <1>3, PollStepDelivers
<1>4. QED
  BY <1>1, <1>2, <1>3 DEF LocalNext, AgentNext, localVars

(* The command is started with an instruction at most once, and its outcome *)
(* is recorded of instructions that were claimed, for any number of polls   *)
(* with or without a lock (AgentLedger::claim_batch, finish_batch).         *)
THEOREM InstructionsGivenOnce == LocalSpec => DeliversAtMostOnce
<1>1. LocalInit => Delivery!Init
  BY DEF LocalInit, AgentInit, Delivery!Init, Fate
<1>2. LocalInit => DeliveryInv
  BY DeliveryInit
<1>3. DeliveryInv /\ [LocalNext]_localVars => DeliveryInv'
  BY StepDelivers
<1>4. DeliveryInv /\ [LocalNext]_localVars => [Delivery!Next]_Fate
  BY StepDelivers, SameLedgerSameFate DEF DeliversOrNot
<1>5. QED
  BY <1>1, <1>2, <1>3, <1>4, PTL DEF LocalSpec, DeliversAtMostOnce, Delivery!Spec

-----------------------------------------------------------------------------
(* The lock *)

\* Unless lock files go at any time, who polls has the lock.
LockInv ==
  /\ polls = [p \in Pollers |-> polls[p]]
  /\ setting.unlock # "any" => \A p \in Pollers : ~PollAt(p, "idle") => lock = p

LEMMA SettingStays == [LocalNext]_localVars => UNCHANGED setting
<1> SUFFICES ASSUME [LocalNext]_localVars PROVE UNCHANGED setting
  OBVIOUS
<1> USE DEF indexVars, mailVars
<1>1. ASSUME NEW x, RebuildStep(x) \/ RebuildFails(x)
      PROVE  UNCHANGED setting
  BY <1>1 DEF RebuildStep, RebuildFails, OpenIndex, EnsureSchema, ListCatalog, Commit
<1>2. CASE MailChanges
  BY <1>2 DEF MailChanges, Ingest, Move, MarkDeleted, RemoveEntry, LoseBlob, Change
<1>3. CASE EmbedNext
  BY <1>3 DEF EmbedNext, EmbedStep, EmbeddingFails, StartEmbedding, ReadChunks, VectorsArrive,
     FinishEmbedding
<1>4. CASE HandlesNext
  BY <1>4 DEF HandlesNext, ShowMessage, ResolveId, LocateMessage, ResolveAs
<1>5. ASSUME NEW p, PollStep(p) \/ Kill(p)
      PROVE  UNCHANGED setting
  <2>1. CASE PollRebuilds(p)
    BY <2>1 DEF PollRebuilds, RebuildFails, OpenIndex, EnsureSchema, ListCatalog, Commit
  <2>2. CASE ~PollRebuilds(p)
    BY <1>5, <2>2 DEF PollStep, Kill, TryAcquire, ListMessages, PickBatch, InsertBatch,
       ClaimMessage, Claimed, WritePrompt, StartCommand, CommandEnds, FinishBatch,
       FinishMessages, ReleaseLock
  <2>3. QED
    BY <2>1, <2>2
<1>6. CASE RemoveLock
  BY <1>6 DEF RemoveLock
<1>7. CASE UNCHANGED localVars
  BY <1>7 DEF localVars
<1>8. QED
  BY <1>1, <1>2, <1>3, <1>4, <1>5, <1>6, <1>7 DEF LocalNext, AgentNext

\* One poll moves, and holds the lock if it is under way.
LEMMA OnePollMoves ==
  ASSUME NEW p \in Pollers, LockInv, PollStep(p) \/ Kill(p)
  PROVE  /\ polls' = [q \in Pollers |-> polls'[q]]
         /\ \A q \in Pollers \ {p} : polls'[q] = polls[q]
         /\ \/ lock = NoPoller /\ lock' = p
            \/ ~PollAt(p, "idle") /\ UNCHANGED lock
            \/ ~PollAt(p, "idle") /\ polls'[p] = NotPolling
<1>1. UNCHANGED polls \/ \E new : polls' = [polls EXCEPT ![p] = new]
  <2>1. CASE PollRebuilds(p)
    BY <2>1, Zenon DEF PollRebuilds, Goto, agentVars
  <2>2. CASE PickBatch(p)
    <3>1. CASE Goto(p, "done")
      BY <3>1, Zenon DEF Goto
    <3>2. CASE ~Goto(p, "done")
      BY <2>2, <3>2, Zenon DEF PickBatch
    <3>3. QED
      BY <3>1, <3>2
  <2>3. CASE TryAcquire(p) \/ ListMessages(p) \/ InsertBatch(p) \/ Claimed(p) \/ WritePrompt(p)
    BY <2>3, Zenon DEF TryAcquire, ListMessages, InsertBatch, Claimed, WritePrompt, Goto
  <2>4. CASE ClaimMessage(p) \/ StartCommand(p) \/ CommandEnds(p) \/ FinishBatch(p)
    BY <2>4, Zenon DEF ClaimMessage, StartCommand, CommandEnds, FinishBatch, Goto
  <2>5. CASE FinishMessages(p) \/ ReleaseLock(p) \/ Kill(p)
    BY <2>5, Zenon DEF FinishMessages, ReleaseLock, Kill, Goto
  <2>6. QED
    BY <2>1, <2>2, <2>3, <2>4, <2>5 DEF PollStep
<1>2. /\ polls' = [q \in Pollers |-> polls'[q]]
      /\ \A q \in Pollers \ {p} : polls'[q] = polls[q]
  <2>1. CASE UNCHANGED polls
    BY <2>1 DEF LockInv
  <2>2. CASE ~UNCHANGED polls
    <3>1. PICK new : polls' = [polls EXCEPT ![p] = new]
      BY <1>1, <2>2
    <3>2. QED
      BY <3>1 DEF LockInv
  <2>3. QED
    BY <2>1, <2>2
<1>3. CASE TryAcquire(p)
  BY <1>2, <1>3 DEF TryAcquire
<1>4. CASE ReleaseLock(p) \/ Kill(p)
  <2>1. polls' = [polls EXCEPT ![p] = NotPolling] /\ ~PollAt(p, "idle")
    BY <1>4 DEF ReleaseLock, Kill, PollAt
  <2>2. polls'[p] = NotPolling
    BY <2>1 DEF LockInv
  <2>3. QED
    BY <1>2, <2>1, <2>2
<1>5. CASE PollRebuilds(p)
  <2>1. ~PollAt(p, "idle") /\ UNCHANGED lock
    BY <1>5 DEF PollRebuilds, PollAt, agentVars
  <2>2. QED
    BY <1>2, <2>1
<1>6. CASE ~(TryAcquire(p) \/ ReleaseLock(p) \/ Kill(p) \/ PollRebuilds(p))
  <2>1. ~PollAt(p, "idle") /\ UNCHANGED lock
    BY <1>6 DEF PollStep, PollAt, ListMessages, PickBatch, InsertBatch, ClaimMessage, Claimed,
       WritePrompt, StartCommand, CommandEnds, FinishBatch, FinishMessages
  <2>2. QED
    BY <1>2, <2>1
<1>7. QED
  BY <1>3, <1>4, <1>5, <1>6

LEMMA LockStep == LockInv /\ [LocalNext]_localVars => LockInv'
<1> SUFFICES ASSUME LockInv, [LocalNext]_localVars PROVE LockInv'
  OBVIOUS
<1>1. UNCHANGED setting
  BY SettingStays
<1>2. CASE UNCHANGED agentVars
  BY <1>1, <1>2 DEF LockInv, PollAt, agentVars
<1>3. CASE RemoveLock
  <2>1. UNCHANGED polls /\ (setting.unlock # "any" => PollAt(lock, "idle"))
    BY <1>3 DEF RemoveLock
  <2>2. QED
    BY <1>1, <2>1 DEF LockInv, PollAt
<1>4. ASSUME NEW p \in Pollers, PollStep(p) \/ Kill(p)
      PROVE  LockInv'
  <2>1. /\ polls' = [q \in Pollers |-> polls'[q]]
        /\ \A q \in Pollers \ {p} : polls'[q] = polls[q]
        /\ \/ lock = NoPoller /\ lock' = p
           \/ ~PollAt(p, "idle") /\ UNCHANGED lock
           \/ ~PollAt(p, "idle") /\ polls'[p] = NotPolling
    BY <1>4, OnePollMoves
  <2>2. NotPolling.pc = "idle"
    BY Idle
  <2>3. ASSUME setting.unlock # "any", NEW q \in Pollers, ~PollAt(q, "idle")'
        PROVE  lock' = q
    <3>1. \A r \in Pollers : ~PollAt(r, "idle") => lock = r
      BY <2>3 DEF LockInv
    <3>2. NoPoller \notin Pollers
      BY AgentAssumption
    <3>3. CASE q = p
      BY <2>1, <2>2, <2>3, <3>1, <3>3 DEF PollAt
    <3>4. CASE q # p
      BY <2>1, <2>3, <3>1, <3>2, <3>4 DEF PollAt
    <3>5. QED
      BY <3>3, <3>4
  <2>4. QED
    BY <1>1, <2>1, <2>3 DEF LockInv
<1>5. QED
  BY <1>2, <1>3, <1>4 DEF LocalNext, AgentNext, localVars

(* Two polls are never under way at once, unless lock files are removed     *)
(* under polls that run (AgentLock::try_acquire, drop).                     *)
THEOREM LockKeepsPollsApart == LocalSpec => []OnePollAtATime
<1>1. LocalInit => LockInv
  BY Idle DEF LocalInit, AgentInit, LockInv, PollAt
<1>2. LockInv /\ [LocalNext]_localVars => LockInv'
  BY LockStep
<1>3. LockInv => OnePollAtATime
  BY DEF LockInv, OnePollAtATime
<1>4. QED
  BY <1>1, <1>2, <1>3, PTL DEF LocalSpec
=============================================================================
