------------------------ MODULE SendQueuePolicyProofs -----------------------
(* The policy gate of SendQueue, proved for any number of runners, any       *)
(* commands (hand-written items included) and policies that change while     *)
(* processes run.                                                            *)
EXTENDS SendQueueProofs

\* A process that will cause its effect without asking the policy again.
Approved(state) ==
  \/ state.pc \in {"read_draft", "history", "smtp", "reconcile", "perform"}
  \/ state.pc \in {"write", "writing"} /\ state.then = "smtp"

PermitOne(p) == Approved(procs[p]) => Permitted(p, procs[p].rec.command)

PermitInv == \A p \in Procs : PermitOne(p)

LEMMA PermitMove ==
  ASSUME PermitInv, NEW p \in Procs, Moves(p), PermitOne(p)'
  PROVE  PermitInv'
<1>1. ASSUME NEW q \in Procs \ {p} PROVE PermitOne(q)'
  BY DEF PermitInv, PermitOne, Permitted, Moves
<1>2. QED
  BY <1>1 DEF PermitInv

LEMMA PermitStop ==
  ASSUME Typed, PermitInv, NEW p \in Procs, Stop(p)
  PROVE  PermitInv'
<1>1. Moves(p) /\ procs'[p] = Idle
  BY StopEffect DEF Typed, TypeOK
<1>2. QED
  BY <1>1, PermitMove DEF PermitOne, Approved, Idle

LEMMA PermitGoto ==
  ASSUME Typed, PermitInv, NEW p \in Procs, NEW pc \in Pcs, NEW rec \in Records,
         Goto(p, pc, rec), rec.command = procs[p].rec.command,
         pc = "next" \/ Approved(procs[p])
         \/ (pc = "writing" /\ procs[p].pc = "write")
  PROVE  PermitInv'
<1>0. procs \in [Procs -> ProcStates]
  BY DEF Typed, TypeOK
<1>1. /\ Moves(p) /\ procs'[p].pc = pc /\ procs'[p].rec = rec
      /\ procs'[p].then = procs[p].then /\ procs'[p].policy = procs[p].policy
  BY <1>0, GotoEffect, Zenon
<1>2. Approved(procs'[p]) => Approved(procs[p])
  BY <1>1 DEF Approved
<1>3. PermitOne(p)'
  BY <1>1, <1>2 DEF PermitInv, PermitOne, Permitted
<1>4. QED
  BY <1>1, <1>3, PermitMove

LEMMA PermitOutcome ==
  ASSUME Typed, PermitInv, NEW p \in Procs, Fail(p) \/ Succeed(p)
  PROVE  PermitInv'
<1>1. Moves(p) /\ (procs'[p] = Idle \/ (/\ procs'[p].pc = "write"
                                         /\ procs'[p].then \in {"idle", "next"}))
  <2>1. CASE Fail(p)
    BY <2>1, FailEffect DEF Typed, TypeOK
  <2>2. CASE Succeed(p)
    BY <2>2, SucceedEffect DEF Typed, TypeOK
  <2>3. QED
    BY <2>1, <2>2
<1>2. PermitOne(p)'
  BY <1>1 DEF PermitOne, Approved, Idle
<1>3. QED
  BY <1>1, <1>2, PermitMove

LEMMA PermitLoad ==
  ASSUME Typed, PermitInv, NEW p \in Procs, LoadItem(p)
  PROVE  PermitInv'
<1>0. /\ procs \in [Procs -> ProcStates] /\ procs[p] \in ProcStates
      /\ procs[p].pc = "next"
  BY DEF LoadItem, Typed, TypeOK
<1>1. PICK i \in procs[p].batch :
        \/ procs' = [procs EXCEPT ![p].batch = @ \ {i}]
        \/ Stop(p)
        \/ Take(p, i, "write", [disk[i] EXCEPT !.status = "failed"])
        \/ /\ Permitted(p, disk[i].command)
           /\ Take(p, i, "read_draft", disk[i]) \/ Take(p, i, "perform", disk[i])
  BY DEF LoadItem
<1> DEFINE denied == [disk[i] EXCEPT !.status = "failed"]
<1>2. i \in Items /\ disk[i] \in Records /\ denied \in Records
  BY <1>0, RecordTyped DEF FileStates, Statuses, Typed, TypeOK, ProcStates
<1>3. CASE procs' = [procs EXCEPT ![p].batch = @ \ {i}]
  <2>1. procs' \in [Procs -> ProcStates]
    BY <1>0, <1>3 DEF ProcStates
  <2>2. Moves(p) /\ procs'[p].pc = "next"
    BY <1>0, <1>3, <2>1 DEF Moves, ProcStates
  <2>3. QED
    BY <2>2, PermitMove DEF PermitOne, Approved
<1>4. CASE Take(p, i, "write", denied)
  <2> HIDE DEF denied
  <2>1. Moves(p) /\ procs'[p].pc = "write" /\ procs'[p].then = "idle"
    BY <1>0, <1>2, <1>4, TakeEffect DEF Pcs
  <2>2. QED
    BY <2>1, PermitMove DEF PermitOne, Approved
<1>5. CASE /\ Permitted(p, disk[i].command)
           /\ Take(p, i, "read_draft", disk[i]) \/ Take(p, i, "perform", disk[i])
  <2>1. Moves(p) /\ procs'[p].rec = disk[i] /\ procs'[p].policy = procs[p].policy
    BY <1>0, <1>2, <1>5, TakeEffect DEF Pcs
  <2>2. QED
    BY <1>5, <2>1, PermitMove DEF PermitOne, Permitted
<1>6. QED
  BY <1>1, <1>3, <1>4, <1>5, PermitStop

LEMMA PermitHistory ==
  ASSUME Typed, PermitInv, NEW p \in Procs, CheckHistory(p)
  PROVE  PermitInv'
<1> DEFINE sent   == [procs[p].rec EXCEPT !.status = "executed"]
           intent == [procs[p].rec EXCEPT !.status = "sending"]
<1>1. /\ procs \in [Procs -> ProcStates] /\ procs[p].pc = "history"
      /\ sent \in Records /\ intent \in Records
      /\ intent.command = procs[p].rec.command
  BY ZenonT(60), RecordTyped DEF CheckHistory, FileStates, Statuses, Typed, TypeOK, ProcStates, Records
<1>2. CASE Save(p, sent, "next")
  <2> HIDE DEF sent
  <2>1. Moves(p) /\ procs'[p].pc = "write" /\ procs'[p].then = "next"
    BY <1>1, <1>2, SaveEffect
  <2>2. QED
    BY <2>1, PermitMove DEF PermitOne, Approved
<1>3. CASE Save(p, intent, "smtp")
  <2> HIDE DEF intent
  <2>1. Moves(p) /\ procs'[p].rec = intent /\ procs'[p].policy = procs[p].policy
    BY <1>1, <1>3, SaveEffect
  <2>2. Permitted(p, procs[p].rec.command)
    BY <1>1 DEF PermitInv, PermitOne, Approved
  <2>3. QED
    BY <1>1, <2>1, <2>2, PermitMove DEF PermitOne, Permitted
<1>4. QED
  BY <1>2, <1>3, PermitStop DEF CheckHistory

LEMMA PermitStep ==
  ASSUME Typed, PermitInv, NEW p \in Procs, Step(p)
  PROVE  PermitInv'
<1>0. /\ procs[p].rec \in Records /\ procs[p].then \in {"idle", "next", "smtp"}
  BY DEF Typed, TypeOK, ProcStates
<1>1. CASE ReadDraft(p)
  <2> DEFINE key == eml[procs[p].rec.command.path]
             rec == [procs[p].rec EXCEPT !.key = key]
  <2>1. key \in Keys \union {NoKey}
    BY <1>1, CalledFile DEF ReadDraft, SendsFile
  <2>2. rec \in Records /\ rec.command = procs[p].rec.command
    BY <1>0, <2>1, RecordTyped DEF Typed, TypeOK, Records
  <2>3. Approved(procs[p]) /\ (Stop(p) \/ Goto(p, "history", rec))
    BY <1>1 DEF ReadDraft, Approved
  <2> HIDE DEF rec
  <2>4. QED
    BY <2>2, <2>3, PermitStop, PermitGoto DEF Pcs
<1>2. CASE Truncate(p)
  BY <1>0, <1>2, PermitGoto DEF Truncate, Pcs
<1>3. CASE WriteAndSync(p)
  <2>1. CASE Goto(p, "next", procs[p].rec)
    BY <1>0, <2>1, PermitGoto DEF Pcs
  <2>2. CASE Goto(p, "smtp", procs[p].rec) /\ procs[p].then = "smtp"
    <3>1. Approved(procs[p])
      BY <1>3, <2>2 DEF WriteAndSync, Approved
    <3>2. QED
      BY <1>0, <2>2, <3>1, PermitGoto DEF Pcs
  <2>3. QED
    BY <1>0, <1>3, <2>1, <2>2, PermitStop DEF WriteAndSync
<1>4. CASE SmtpCall(p)
  <2>1. Approved(procs[p]) /\ (Fail(p) \/ Goto(p, "reconcile", procs[p].rec))
    BY <1>4 DEF SmtpCall, Approved
  <2>2. QED
    BY <1>0, <2>1, PermitOutcome, PermitGoto DEF Pcs
<1>5. CASE Reconcile(p) \/ Perform(p)
  BY <1>5, PermitOutcome DEF Reconcile, Perform
<1>6. CASE FinishRun(p)
  BY <1>6, PermitStop DEF FinishRun
<1>7. QED
  BY <1>1, <1>2, <1>3, <1>4, <1>5, <1>6, PermitLoad, PermitHistory DEF Step

LEMMA PermitStart ==
  ASSUME Typed, PermitInv, NEW p \in Procs, NEW next,
         procs' = [procs EXCEPT ![p] = next], next \in ProcStates,
         Approved(next) => Authorize(next.policy, TrashFolder, next.rec.command)
  PROVE  PermitInv'
<1>1. Moves(p) /\ procs'[p] = next
  BY DEF Moves, Typed, TypeOK
<1>2. QED
  BY <1>1, PermitMove DEF PermitOne, Permitted

LEMMA PermitCommand ==
  ASSUME Typed, Typed', PermitInv, NEW p \in Procs, RunQueue(p) \/ Command(p)
  PROVE  PermitInv'
<1>0. /\ procs \in [Procs -> ProcStates] /\ procs'[p] \in ProcStates
      /\ \A next : procs' = [procs EXCEPT ![p] = next] => procs'[p] = next
  BY DEF Typed, TypeOK
<1>1. CASE RunQueue(p)
  <2>1. PICK ids : StartRun(p, ids)
    BY <1>1 DEF RunQueue, StartRunAll, StartRunOne
  <2> DEFINE next == [Idle EXCEPT !.pc = "next", !.policy = policy, !.batch = ids]
  <2>2. ~Approved(next)
    BY DEF Approved, Idle
  <2>3. procs' = [procs EXCEPT ![p] = next]
    BY <2>1 DEF StartRun
  <2> HIDE DEF next
  <2>4. QED
    BY <1>0, <2>2, <2>3, PermitStart
<1>2. ASSUME NEW c \in Commands, Enqueue(p, c) PROVE PermitInv'
  <2> DEFINE next == [Idle EXCEPT !.pc = "write", !.policy = policy, !.item = issued + 1,
                        !.rec = [status |-> "pending", command |-> c, key |-> NoKey]]
  <2>1. ~Approved(next)
    BY DEF Approved, Idle
  <2>2. procs' = [procs EXCEPT ![p] = next]
    BY <1>2 DEF Enqueue
  <2> HIDE DEF next
  <2>3. QED
    BY <1>0, <2>1, <2>2, PermitStart
<1>3. ASSUME NEW c \in Commands, ExecSend(p, c) PROVE PermitInv'
  <2> DEFINE next == [Idle EXCEPT !.pc = "smtp", !.policy = policy,
                                  !.rec = [NoRecord EXCEPT !.command = c]]
  <2>1. next.policy = policy /\ next.rec.command = c
    BY DEF Idle, NoRecord
  <2>2. procs' = [procs EXCEPT ![p] = next] /\ Authorize(policy, TrashFolder, c)
    BY <1>3 DEF ExecSend
  <2> HIDE DEF next
  <2>3. QED
    BY <1>0, <2>1, <2>2, PermitStart
<1>4. ASSUME NEW i \in Items, Drop(p, i) PROVE PermitInv'
  <2> DEFINE next == [Idle EXCEPT !.pc = "write", !.item = i, !.policy = policy,
                                  !.rec = [disk[i] EXCEPT !.status = "dropped"]]
  <2>1. ~Approved(next)
    BY DEF Approved, Idle
  <2>2. procs' = [procs EXCEPT ![p] = next]
    BY <1>4 DEF Drop
  <2> HIDE DEF next
  <2>3. QED
    BY <1>0, <2>1, <2>2, PermitStart
<1>5. QED
  BY <1>1, <1>2, <1>3, <1>4 DEF Command

LEMMA PermitNext ==
  ASSUME Typed, PermitInv, [Next]_vars
  PROVE  Typed' /\ PermitInv'
<1>1. Typed'
  BY TypedStep, TypedOther
<1>2. ASSUME NEW p \in Procs, WriteError(p) \/ Crash(p) PROVE PermitInv'
  BY <1>2, PermitStop DEF WriteError, Crash
<1>3. ASSUME PowerLoss PROVE PermitInv'
  BY <1>3 DEF PowerLoss, PermitInv, PermitOne, Approved, Idle
<1>4. ASSUME UNCHANGED procs PROVE PermitInv'
  BY <1>4 DEF PermitInv, PermitOne, Permitted
<1>5. ASSUME Environment PROVE PermitInv'
  BY <1>3, <1>4, <1>5 DEF Environment, HandWrite, EditMessage, SetPolicy
<1>6. ASSUME UNCHANGED vars PROVE PermitInv'
  BY <1>4, <1>6 DEF vars
<1>7. QED
  BY <1>1, <1>2, <1>5, <1>6, PermitStep, PermitCommand DEF Next, Procs

(* No item, stale or hand-written, makes a process cause a remote effect     *)
(* that the policy it read at its start forbids (README.md 276-277;          *)
(* queue_runner.rs 43-60, 160-166).                                          *)
THEOREM OnlyPermittedEffects == Spec => []EffectsArePermitted
<1>1. Init => Typed /\ PermitInv
  BY TypedInit DEF Init, PermitInv, PermitOne, Approved, Idle
<1>2. Typed /\ PermitInv /\ [Next]_vars => (Typed /\ PermitInv)'
  BY PermitNext
<1>3. PermitInv => EffectsArePermitted
  BY DEF PermitInv, PermitOne, Approved, EffectsArePermitted, Permitted, Authorize
<1>4. QED
  BY <1>1, <1>2, <1>3, PTL DEF Spec
=============================================================================
