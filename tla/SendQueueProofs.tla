--------------------------- MODULE SendQueueProofs ---------------------------
(* Proofs about SendQueue: type correctness for any set of processes, and,   *)
(* when one process at a time runs the queue, the at-most-once invariants    *)
(* and the refinement of AtMostOnceSend.                                     *)
EXTENDS SendQueue, FiniteSetTheorems, TLAPS

-----------------------------------------------------------------------------
(* Type correctness *)

\* The work a process does has an item, and only a send is asked for a draft.
HasItem(state) == state.pc \in {"read_draft", "history", "perform", "write", "writing"}
                    => state.item \in Items

\* A state in which the .eml file is still to be read belongs to a send.
SendsFile(state) == \/ state.pc \in {"read_draft", "history", "smtp"}
                    \/ state.pc \in {"write", "writing"} /\ state.then = "smtp"

WorkTyped ==
  \A p \in Procs :
    /\ SendsFile(procs[p]) => procs[p].rec.command.op = "send"
    /\ HasItem(procs[p])

Typed == TypeOK /\ WorkTyped

LEMMA TypedInit == Init => Typed
  BY ConstantsAssumption
  DEF Init, Typed, TypeOK, WorkTyped, HasItem, SendsFile, Idle, NoRecord, NoCommand, ProcStates, Pcs,
      Records, FileStates, Statuses, Unreadable, Policies, Items

\* The helpers that move a process on keep its state well typed.
LEMMA RecordTyped ==
  /\ \A rec \in Records : /\ rec.status \in FileStates
                          /\ rec.command \in Commands \union {NoCommand}
                          /\ rec.key \in Keys \union {NoKey}
  /\ \A rec \in Records, status \in FileStates : [rec EXCEPT !.status = status] \in Records
  /\ \A rec \in Records, key \in Keys \union {NoKey} : [rec EXCEPT !.key = key] \in Records
  BY DEF Records

LEMMA IdleTyped == Idle \in ProcStates
  BY ConstantsAssumption
  DEF Idle, ProcStates, Pcs, Policies, NoRecord, Records, FileStates, NoCommand

\* Only p moves.
Moves(p) == /\ procs' \in [Procs -> ProcStates]
            /\ \A q \in Procs \ {p} : procs'[q] = procs[q]

LEMMA StopEffect ==
  ASSUME procs \in [Procs -> ProcStates], NEW p \in Procs, Stop(p)
  PROVE  Moves(p) /\ procs'[p] = Idle
  BY IdleTyped DEF Stop, Moves

LEMMA GotoEffect ==
  ASSUME procs \in [Procs -> ProcStates], NEW p \in Procs,
         NEW pc \in Pcs, NEW rec \in Records, Goto(p, pc, rec)
  PROVE  /\ Moves(p)
         /\ procs'[p].pc = pc /\ procs'[p].rec = rec
         /\ procs'[p].item = procs[p].item /\ procs'[p].then = procs[p].then
         /\ procs'[p].policy = procs[p].policy
<1>1. [procs[p] EXCEPT !.pc = pc, !.rec = rec] \in ProcStates
  BY DEF ProcStates
<1>2. QED
  BY <1>1 DEF Goto, Moves, ProcStates

LEMMA SaveEffect ==
  ASSUME procs \in [Procs -> ProcStates], NEW p \in Procs,
         NEW rec \in Records, NEW then \in {"idle", "next", "smtp"}, Save(p, rec, then)
  PROVE  /\ Moves(p)
         /\ procs'[p].pc = "write" /\ procs'[p].rec = rec
         /\ procs'[p].item = procs[p].item /\ procs'[p].then = then
         /\ procs'[p].policy = procs[p].policy
<1>1. [procs[p] EXCEPT !.pc = "write", !.rec = rec, !.then = then] \in ProcStates
  BY DEF ProcStates, Pcs
<1>2. QED
  BY <1>1 DEF Save, Moves, ProcStates

LEMMA TakeEffect ==
  ASSUME procs \in [Procs -> ProcStates], NEW p \in Procs, NEW i \in Items,
         NEW pc \in Pcs, NEW rec \in Records, Take(p, i, pc, rec)
  PROVE  /\ Moves(p)
         /\ procs'[p].pc = pc /\ procs'[p].rec = rec
         /\ procs'[p].item = i /\ procs'[p].then = "idle"
         /\ procs'[p].policy = procs[p].policy
<1> DEFINE next == [procs[p] EXCEPT !.pc = pc, !.batch = procs[p].batch \ {i},
                                   !.item = i, !.rec = rec, !.then = "idle"]
<1>1. procs[p].batch \ {i} \in SUBSET Items /\ i \in 0..MaxItems
  BY ConstantsAssumption DEF ProcStates, Items
<1>2. next \in ProcStates /\ next.pc = pc /\ next.rec = rec /\ next.item = i
      /\ next.then = "idle" /\ next.policy = procs[p].policy
  BY <1>1 DEF ProcStates
<1>3. procs' = [procs EXCEPT ![p] = next]
  BY DEF Take
<1> HIDE DEF next
<1>4. QED
  BY <1>2, <1>3 DEF Moves

LEMMA FailEffect ==
  ASSUME procs \in [Procs -> ProcStates], NEW p \in Procs, Fail(p)
  PROVE  /\ Moves(p)
         /\ \/ procs[p].item = 0 /\ procs'[p] = Idle
            \/ /\ procs[p].item # 0
               /\ procs'[p].pc = "write" /\ procs'[p].then = "idle"
               /\ procs'[p].rec = [procs[p].rec EXCEPT !.status = "failed"]
               /\ procs'[p].item = procs[p].item
               /\ procs'[p].policy = procs[p].policy
<1> DEFINE rec == [procs[p].rec EXCEPT !.status = "failed"]
<1>1. rec \in Records
  BY RecordTyped DEF ProcStates, FileStates, Statuses
<1>2. CASE procs[p].item = 0
  BY <1>2, StopEffect DEF Fail
<1>3. CASE procs[p].item # 0
  <2>1. Save(p, rec, "idle")
    BY <1>3 DEF Fail
  <2> HIDE DEF rec
  <2>2. QED
    BY <1>1, <1>3, <2>1, SaveEffect DEF rec
<1>4. QED
  BY <1>2, <1>3

LEMMA SucceedEffect ==
  ASSUME procs \in [Procs -> ProcStates], NEW p \in Procs, Succeed(p)
  PROVE  /\ Moves(p)
         /\ \/ procs[p].item = 0 /\ procs'[p] = Idle
            \/ /\ procs[p].item # 0
               /\ procs'[p].pc = "write" /\ procs'[p].then = "next"
               /\ procs'[p].rec = [procs[p].rec EXCEPT !.status = "executed"]
               /\ procs'[p].item = procs[p].item
               /\ procs'[p].policy = procs[p].policy
<1> DEFINE rec == [procs[p].rec EXCEPT !.status = "executed"]
<1>1. rec \in Records
  BY RecordTyped DEF ProcStates, FileStates, Statuses
<1>2. CASE procs[p].item = 0
  BY <1>2, StopEffect DEF Succeed
<1>3. CASE procs[p].item # 0
  <2>1. Save(p, rec, "next")
    BY <1>3 DEF Succeed
  <2> HIDE DEF rec
  <2>2. QED
    BY <1>1, <1>3, <2>1, SaveEffect DEF rec
<1>4. QED
  BY <1>2, <1>3

-----------------------------------------------------------------------------
(* The steps of run_one_queued_item and its callees *)

LEMMA WorkKept ==
  ASSUME WorkTyped, NEW p \in Procs, Moves(p),
         SendsFile(procs'[p]) => procs'[p].rec.command.op = "send", HasItem(procs'[p])
  PROVE  WorkTyped'
  BY DEF WorkTyped, HasItem, SendsFile, Moves

\* The file of a send is one of the .eml files.
LEMMA CalledFile ==
  ASSUME Typed, NEW p \in Procs, SendsFile(procs[p])
  PROVE  /\ procs[p].rec.command.path \in Paths
         /\ eml[procs[p].rec.command.path] \in Keys \union {NoKey}
<1>1. procs[p].rec \in Records /\ procs[p].rec.command.op = "send"
  BY DEF Typed, TypeOK, WorkTyped, ProcStates
<1>2. procs[p].rec.command.path \in Paths
  BY <1>1, RecordTyped, ConstantsAssumption DEF NoCommand
<1>3. QED
  BY <1>2 DEF Typed, TypeOK

\* What a process's moves below have in common.
Works(p) == Moves(p) /\ WorkTyped'

LEMMA StopWorks ==
  ASSUME Typed, NEW p \in Procs, Stop(p) PROVE Works(p)
  BY StopEffect, WorkKept DEF Typed, TypeOK, Works, HasItem, SendsFile, Idle

LEMMA GotoWorks ==
  ASSUME Typed, NEW p \in Procs, NEW pc \in Pcs, NEW rec \in Records,
         Goto(p, pc, rec), rec.command = procs[p].rec.command,
         SendsFile([procs[p] EXCEPT !.pc = pc]) => SendsFile(procs[p]),
         pc \in {"read_draft", "history", "perform", "write", "writing"}
           => procs[p].item \in Items
  PROVE  Works(p)
<1>1. /\ Moves(p) /\ procs'[p].pc = pc /\ procs'[p].item = procs[p].item
      /\ procs'[p].rec.command = procs[p].rec.command /\ procs'[p].then = procs[p].then
  BY GotoEffect DEF Typed, TypeOK
<1>2. SendsFile(procs'[p]) => procs'[p].rec.command.op = "send"
  BY <1>1 DEF Typed, TypeOK, WorkTyped, ProcStates, SendsFile
<1>3. QED
  BY <1>1, <1>2, WorkKept DEF Typed, Works, HasItem

LEMMA SaveWorks ==
  ASSUME Typed, NEW p \in Procs, NEW rec \in Records,
         NEW then \in {"idle", "next", "smtp"}, Save(p, rec, then), procs[p].item \in Items,
         then = "smtp" => rec.command.op = "send"
  PROVE  Works(p)
  BY SaveEffect, WorkKept DEF Typed, TypeOK, Works, HasItem, SendsFile

LEMMA OutcomeWorks ==
  ASSUME Typed, NEW p \in Procs, Fail(p) \/ Succeed(p)
  PROVE  Works(p)
<1>1. procs[p].item # 0 => procs[p].item \in Items
  BY ConstantsAssumption DEF Typed, TypeOK, ProcStates, Items
<1>2. Moves(p) /\ (procs'[p] = Idle \/ (/\ procs[p].item # 0
                                         /\ procs'[p].pc = "write"
                                         /\ procs'[p].then # "smtp"
                                         /\ procs'[p].item = procs[p].item))
  <2>1. CASE Fail(p)
    BY <2>1, FailEffect DEF Typed, TypeOK
  <2>2. CASE Succeed(p)
    BY <2>2, SucceedEffect DEF Typed, TypeOK
  <2>3. QED
    BY <2>1, <2>2
<1>3. ~SendsFile(procs'[p]) /\ HasItem(procs'[p])
  BY <1>1, <1>2 DEF HasItem, SendsFile, Idle
<1>4. QED
  BY <1>2, <1>3, WorkKept DEF Typed, Works

LEMMA TypedStep ==
  ASSUME Typed, NEW p \in Procs, Step(p)
  PROVE  Typed'
<1>0. /\ procs \in [Procs -> ProcStates]
      /\ procs[p] \in ProcStates /\ procs[p].rec \in Records
      /\ procs[p].item \in 0..MaxItems /\ procs[p].batch \subseteq Items
      /\ procs[p].then \in {"idle", "next", "smtp"}
  BY DEF Typed, TypeOK, ProcStates
<1>i. procs[p].pc \in {"read_draft", "history", "perform", "write", "writing"}
        => procs[p].item \in Items
  BY DEF Typed, WorkTyped, HasItem
<1>1. CASE FinishRun(p)
  <2>1. Works(p)
    BY <1>1, StopWorks DEF FinishRun
  <2>2. QED
    BY <1>1, <2>1 DEF FinishRun, Works, Moves, diskVars, netVars, Typed, TypeOK
<1>2. CASE LoadItem(p)
  <2>1. PICK i \in procs[p].batch :
          \/ procs' = [procs EXCEPT ![p].batch = @ \ {i}]
          \/ Stop(p)
          \/ Take(p, i, "write", [disk[i] EXCEPT !.status = "failed"])
          \/ Take(p, i, "read_draft", disk[i]) /\ disk[i].command.op = "send"
          \/ Take(p, i, "perform", disk[i])
    BY <1>2 DEF LoadItem
  <2> DEFINE denied == [disk[i] EXCEPT !.status = "failed"]
  <2>2. disk[i] \in Records /\ denied \in Records /\ i \in Items
    BY <1>0, RecordTyped DEF FileStates, Statuses, Typed, TypeOK
  <2>3. Works(p)
    <3>1. CASE procs' = [procs EXCEPT ![p].batch = @ \ {i}]
      <4>1. procs' \in [Procs -> ProcStates]
        BY <1>0, <3>1 DEF ProcStates
      <4>2. /\ Moves(p)
            /\ procs'[p].pc = procs[p].pc /\ procs'[p].item = procs[p].item
        BY <1>0, <3>1, <4>1 DEF Moves, ProcStates
      <4>3. procs[p].pc = "next"
        BY <1>2 DEF LoadItem
      <4>4. QED
        BY <4>2, <4>3, WorkKept DEF Works, HasItem, SendsFile, Typed
    <3>2. CASE Stop(p)
      BY <3>2, StopWorks
    <3>3. CASE Take(p, i, "write", denied)
      <4> HIDE DEF denied
      <4>1. /\ Moves(p) /\ procs'[p].pc = "write" /\ procs'[p].item = i
            /\ procs'[p].then = "idle"
        BY <1>0, <2>2, <3>3, TakeEffect DEF Pcs
      <4>2. QED
        BY <2>2, <4>1, WorkKept DEF Works, HasItem, SendsFile, Typed
    <3>4. CASE Take(p, i, "read_draft", disk[i]) /\ disk[i].command.op = "send"
      <4>1. Moves(p) /\ procs'[p].rec.command.op = "send" /\ procs'[p].item = i
        BY <1>0, <2>2, <3>4, TakeEffect DEF Pcs
      <4>2. QED
        BY <2>2, <4>1 DEF Moves, Works, WorkTyped, HasItem, Typed
    <3>5. CASE Take(p, i, "perform", disk[i])
      <4>1. Moves(p) /\ procs'[p].pc = "perform" /\ procs'[p].item = i
        BY <1>0, <2>2, <3>5, TakeEffect DEF Pcs
      <4>2. QED
        BY <2>2, <4>1, WorkKept DEF Works, HasItem, SendsFile, Typed
    <3>6. QED
      BY <2>1, <3>1, <3>2, <3>3, <3>4, <3>5
  <2>4. QED
    BY <1>2, <2>3 DEF LoadItem, Works, Moves, diskVars, netVars, Typed, TypeOK
<1>3. CASE ReadDraft(p)
  <2> DEFINE key == eml[procs[p].rec.command.path]
             rec == [procs[p].rec EXCEPT !.key = key]
  <2>1. key \in Keys \union {NoKey} /\ procs[p].item \in Items
    BY <1>3, <1>i, CalledFile DEF ReadDraft, SendsFile
  <2>2. rec \in Records /\ rec.command = procs[p].rec.command
    BY <1>0, <2>1, RecordTyped DEF Records
  <2>3. Stop(p) \/ Goto(p, "history", rec)
    BY <1>3 DEF ReadDraft
  <2> HIDE DEF rec
  <2>4. Works(p)
    <3>1. CASE Stop(p)
      BY <3>1, StopWorks
    <3>2. CASE Goto(p, "history", rec)
      BY <1>3, <2>1, <2>2, <3>2, GotoWorks DEF ReadDraft, SendsFile, Pcs
    <3>3. QED
      BY <2>3, <3>1, <3>2
  <2>5. QED
    BY <1>3, <2>4 DEF ReadDraft, Works, Moves, diskVars, netVars, Typed, TypeOK
<1>4. CASE CheckHistory(p)
  <2> DEFINE sent   == [procs[p].rec EXCEPT !.status = "executed"]
             intent == [procs[p].rec EXCEPT !.status = "sending"]
  <2>1. /\ sent \in Records /\ intent \in Records /\ procs[p].item \in Items
        /\ intent.command.op = "send"
    BY <1>0, <1>4, <1>i, RecordTyped
    DEF CheckHistory, FileStates, Statuses, Records, Typed, WorkTyped, SendsFile
  <2>2. Stop(p) \/ Save(p, sent, "next") \/ Save(p, intent, "smtp")
    BY <1>4 DEF CheckHistory
  <2> HIDE DEF sent, intent
  <2>3. Works(p)
    BY <2>1, <2>2, StopWorks, SaveWorks
  <2>4. QED
    BY <1>4, <2>3 DEF CheckHistory, Works, Moves, diskVars, netVars, Typed, TypeOK
<1>5. CASE Truncate(p)
  <2>1. Works(p)
    BY <1>0, <1>5, <1>i, GotoWorks DEF Truncate, SendsFile, Pcs, ProcStates
  <2>2. disk' \in [Items -> Records]
    BY <1>0, <1>5, RecordTyped DEF Truncate, FileStates, Unreadable, Typed, TypeOK
  <2>3. QED
    BY <1>5, <2>1, <2>2 DEF Truncate, Works, Moves, diskVars, netVars, Typed, TypeOK
<1>6. CASE WriteAndSync(p)
  <2> DEFINE i == procs[p].item
             torn == [disk[i] EXCEPT !.status = "torn"]
  <2>1. Works(p)
    <3>1. Stop(p) \/ (procs[p].then # "idle" /\ Goto(p, procs[p].then, procs[p].rec))
      BY <1>6 DEF WriteAndSync
    <3>2. CASE procs[p].then # "idle" /\ Goto(p, procs[p].then, procs[p].rec)
      BY <1>0, <1>6, <3>2, GotoWorks DEF WriteAndSync, SendsFile, Pcs, ProcStates
    <3>3. QED
      BY <3>1, <3>2, StopWorks
  <2>2. PICK content \in {procs[p].rec, torn} :
          /\ disk' = [disk EXCEPT ![i] = content]
          /\ durable' = [durable EXCEPT ![i] = content]
          /\ released' = IF content.status \in {"failed", "dropped"}
                         THEN released \union {i} ELSE released
    BY <1>6 DEF WriteAndSync
  <2>3. i \in Items
    BY <1>6, <1>i DEF WriteAndSync
  <2>4. torn \in Records
    BY <2>3, RecordTyped DEF FileStates, Unreadable, Typed, TypeOK
  <2> HIDE DEF torn
  <2>5. disk' \in [Items -> Records] /\ durable' \in [Items -> Records]
        /\ released' \subseteq Items
    BY <1>0, <2>2, <2>3, <2>4 DEF Typed, TypeOK
  <2>6. QED
    BY <1>6, <2>1, <2>5 DEF WriteAndSync, Works, Moves, netVars, Typed, TypeOK
<1>7. CASE SmtpCall(p)
  <2>1. Works(p)
    <3>1. Fail(p) \/ Goto(p, "reconcile", procs[p].rec)
      BY <1>7 DEF SmtpCall
    <3>2. QED
      BY <1>0, <1>7, <3>1, OutcomeWorks, GotoWorks DEF SmtpCall, SendsFile, Pcs, ProcStates
  <2> DEFINE file == eml[procs[p].rec.command.path]
  <2>2. procs[p].rec.key \in Keys \union {NoKey} /\ file \in Keys \union {NoKey}
    BY <1>0, <1>7, RecordTyped, CalledFile DEF SmtpCall, SendsFile
  <2>3. /\ calls' \in [Items -> Nat] /\ submitted' \in [Items -> Keys \union {NoKey}]
        /\ handed' \in [Items -> Keys \union {NoKey}]
    <3>1. Submitted(p, file) \/ UNCHANGED <<calls, submitted, handed>>
      BY <1>7 DEF SmtpCall, netVars
    <3> HIDE DEF file
    <3>2. QED
      BY <2>2, <3>1 DEF Submitted, Typed, TypeOK
  <2>4. accepted' \in [Keys -> Nat]
    <3>1. PICK key : Accepted(p, key) \/ UNCHANGED accepted
      BY <1>7 DEF SmtpCall, netVars
    <3>2. accepted \in [Keys -> Nat]
      BY DEF Typed, TypeOK
    <3>3. accepted' = accepted \/ accepted' = [accepted EXCEPT ![key] = @ + 1]
      BY <3>1 DEF Accepted
    <3>4. [accepted EXCEPT ![key] = @ + 1] \in [Keys -> Nat]
      <4>1. CASE key \in Keys
        BY <3>2, <4>1
      <4>2. CASE key \notin Keys
        <5>1. [accepted EXCEPT ![key] = @ + 1] = accepted
          BY <3>2, <4>2, Zenon
        <5>2. QED
          BY <3>2, <5>1
      <4>3. QED
        BY <4>1, <4>2
    <3>5. QED
      BY <3>2, <3>3, <3>4
  <2>5. QED
    BY <1>7, <2>1, <2>3, <2>4 DEF SmtpCall, Works, Moves, diskVars, Typed, TypeOK
<1>8. CASE Reconcile(p)
  <2>1. Works(p)
    BY <1>8, OutcomeWorks DEF Reconcile
  <2>2. eml' \in [Paths -> Keys \union {NoKey}]
    BY <1>8 DEF Reconcile, Typed, TypeOK
  <2>3. QED
    BY <1>8, <2>1, <2>2 DEF Reconcile, Works, Moves, diskVars, netVars, Typed, TypeOK
<1>9. CASE Perform(p)
  <2>1. Works(p)
    BY <1>9, OutcomeWorks DEF Perform
  <2>2. QED
    BY <1>9, <2>1 DEF Perform, Works, Moves, diskVars, netVars, Typed, TypeOK
<1>10. QED
  BY <1>1, <1>2, <1>3, <1>4, <1>5, <1>6, <1>7, <1>8, <1>9 DEF Step

-----------------------------------------------------------------------------
(* The commands and the environment *)

LEMMA TypedOther ==
  ASSUME Typed, [Next]_vars, \A p \in Procs : ~Step(p)
  PROVE  Typed'
<1>0. procs \in [Procs -> ProcStates]
  BY DEF Typed, TypeOK
<1>1. ASSUME NEW p \in Procs, WriteError(p) \/ Crash(p)
      PROVE  Typed'
  <2>1. Works(p)
    BY <1>1, StopWorks DEF WriteError, Crash
  <2>2. QED
    BY <1>1, <2>1 DEF WriteError, Crash, Works, Moves, diskVars, netVars, Typed, TypeOK
<1>2. ASSUME NEW p \in Runners, RunQueue(p)
      PROVE  Typed'
  <2>1. PICK ids \in SUBSET Items : StartRun(p, ids)
    BY <1>2 DEF RunQueue, StartRunAll, StartRunOne, PendingIds
  <2> DEFINE next == [Idle EXCEPT !.pc = "next", !.policy = policy, !.batch = ids]
  <2>2. next \in ProcStates /\ next.pc = "next"
    BY <2>1, IdleTyped DEF Idle, ProcStates, Pcs, Typed, TypeOK
  <2>3. procs' = [procs EXCEPT ![p] = next]
    BY <2>1 DEF StartRun
  <2> HIDE DEF next
  <2>4. Works(p)
    BY <1>0, <2>2, <2>3, WorkKept DEF Moves, Procs, HasItem, SendsFile, Works, Typed
  <2>5. QED
    BY <2>1, <2>4 DEF StartRun, Works, Moves, diskVars, netVars, Typed, TypeOK
<1>3. ASSUME NEW p \in Clients, NEW c \in Commands, Enqueue(p, c)
      PROVE  Typed'
  <2> DEFINE rec  == [status |-> "pending", command |-> c, key |-> NoKey]
             next == [Idle EXCEPT !.pc = "write", !.policy = policy,
                                  !.item = issued + 1, !.rec = rec]
  <2>1. issued + 1 \in Items /\ issued + 1 \in 0..MaxItems
    BY <1>3, ConstantsAssumption DEF Enqueue, Items, Typed, TypeOK
  <2>2. rec \in Records
    BY DEF Records, FileStates, Statuses
  <2>3. /\ next \in ProcStates /\ next.pc = "write" /\ next.item = issued + 1
        /\ next.then = "idle"
    BY <2>1, <2>2, IdleTyped DEF Idle, ProcStates, Pcs, Typed, TypeOK
  <2>4. procs' = [procs EXCEPT ![p] = next]
    BY <1>3 DEF Enqueue
  <2> HIDE DEF next
  <2>5. Works(p)
    BY <1>0, <2>1, <2>3, <2>4, WorkKept DEF Moves, Procs, HasItem, SendsFile, Works, Typed
  <2>6. QED
    BY <1>3, <2>1, <2>5 DEF Enqueue, Works, Moves, diskVars, netVars, Typed, TypeOK
<1>4. ASSUME NEW p \in Clients, NEW c \in Commands, ExecSend(p, c)
      PROVE  Typed'
  <2> DEFINE rec  == [NoRecord EXCEPT !.command = c]
             next == [Idle EXCEPT !.pc = "smtp", !.policy = policy, !.rec = rec]
  <2>1. rec \in Records
    BY DEF NoRecord, Records, FileStates
  <2>2. next \in ProcStates /\ next.pc = "smtp" /\ next.rec.command.op = "send"
    BY <1>4, <2>1, IdleTyped DEF ExecSend, NoRecord, Idle, ProcStates, Pcs, Typed, TypeOK
  <2>3. procs' = [procs EXCEPT ![p] = next]
    BY <1>4 DEF ExecSend
  <2> HIDE DEF next
  <2>4. Works(p)
    BY <1>0, <2>2, <2>3, WorkKept DEF Moves, Procs, HasItem, SendsFile, Works, Typed
  <2>5. QED
    BY <1>4, <2>4 DEF ExecSend, Works, Moves, diskVars, netVars, Typed, TypeOK
<1>5. ASSUME NEW p \in Clients, NEW i \in Items, Drop(p, i)
      PROVE  Typed'
  <2> DEFINE rec  == [disk[i] EXCEPT !.status = "dropped"]
             next == [Idle EXCEPT !.pc = "write", !.item = i, !.policy = policy,
                                  !.rec = rec]
  <2>0. disk[i] \in Records /\ i \in 0..MaxItems
    BY ConstantsAssumption DEF Items, Typed, TypeOK
  <2>1. rec \in Records
    BY <2>0, RecordTyped DEF FileStates, Statuses
  <2> HIDE DEF rec
  <2>2. /\ next \in ProcStates /\ next.pc = "write" /\ next.item = i
        /\ next.then = "idle"
    BY <2>0, <2>1, IdleTyped DEF Idle, ProcStates, Pcs, Typed, TypeOK
  <2>3. procs' = [procs EXCEPT ![p] = next]
    BY <1>5 DEF Drop, rec
  <2> HIDE DEF next
  <2>4. Works(p)
    BY <1>0, <2>2, <2>3, WorkKept DEF Moves, Procs, HasItem, SendsFile, Works, Typed
  <2>5. QED
    BY <1>5, <2>4 DEF Drop, Works, Moves, diskVars, netVars, Typed, TypeOK
<1>6. ASSUME PowerLoss PROVE Typed'
  <2>1. procs' \in [Procs -> ProcStates] /\ WorkTyped'
    BY <1>6, IdleTyped DEF PowerLoss, WorkTyped, HasItem, SendsFile, Idle
  <2>2. disk' \in [Items -> Records]
    BY <1>6 DEF PowerLoss, Typed, TypeOK
  <2>3. QED
    BY <1>6, <2>1, <2>2 DEF PowerLoss, netVars, Typed, TypeOK
<1>7. ASSUME NEW c \in Commands, HandWrite(c) PROVE Typed'
  <2> DEFINE rec  == [status |-> "pending", command |-> c, key |-> NoKey]
  <2>1. rec \in Records /\ issued + 1 \in Items /\ issued + 1 \in 0..MaxItems
    BY <1>7, ConstantsAssumption
    DEF HandWrite, Items, Records, FileStates, Statuses, Typed, TypeOK
  <2>2. QED
    BY <1>7, <2>1 DEF HandWrite, netVars, Typed, TypeOK, WorkTyped
<1>8. ASSUME NEW path \in Paths, NEW key \in Keys \union {NoKey}, EditMessage(path, key)
      PROVE  Typed'
  BY <1>8 DEF EditMessage, diskVars, netVars, Typed, TypeOK, WorkTyped
<1>9. ASSUME NEW q \in Policies, SetPolicy(q) PROVE Typed'
  BY <1>9 DEF SetPolicy, diskVars, netVars, Typed, TypeOK, WorkTyped
<1>10. CASE UNCHANGED vars
  BY <1>10 DEF vars, Typed, TypeOK, WorkTyped
<1>11. QED
  BY <1>1, <1>2, <1>3, <1>4, <1>5, <1>6, <1>7, <1>8, <1>9, <1>10
  DEF Next, Command, Environment

(* Every variable stays in its type: files hold item records, a process      *)
(* works on an item that exists, and what is sent has a key.                 *)
THEOREM TypeCorrect == Spec => []TypeOK
<1>1. Typed /\ [Next]_vars => Typed'
  BY TypedStep, TypedOther
<1>2. Typed => TypeOK
  BY DEF Typed
<1>3. QED
  BY TypedInit, <1>1, <1>2, PTL DEF Spec

-----------------------------------------------------------------------------
(* The inductive invariant, for one runner at a time *)

Inv == Typed /\ QueueInv

LEMMA QueueInvInit == Init => QueueInv
  BY ConstantsAssumption
  DEF Init, QueueInv, FreshIds, PendingIsUnsent, IntentIsDurable, CallsAreCounted,
      ResendOnlyAfterRelease, WriterInv, RunnerInv, Idle, NoRecord, Items

\* What the invariant says of everything but the processes.
LEMMA LocalMove ==
  ASSUME Inv, Typed', NEW p \in Procs, Moves(p),
         UNCHANGED <<disk, durable, issued, submitted, calls, released>>,
         WriterInv(p)', RunnerInv(p)', procs'[p].item =< issued,
         \/ procs'[p].item \in {0, procs[p].item}
         \/ /\ procs'[p].item \in Items
            /\ disk[procs'[p].item].status \notin {"absent", "empty"}
  PROVE  QueueInv'
<1> USE DEF Inv, QueueInv
<1>1. FreshIds'
  BY DEF FreshIds, Moves
<1>2. /\ PendingIsUnsent' /\ IntentIsDurable' /\ CallsAreCounted'
      /\ ResendOnlyAfterRelease'
  BY DEF PendingIsUnsent, IntentIsDurable, CallsAreCounted, ResendOnlyAfterRelease, Holds
<1>3. ASSUME NEW q \in Procs \ {p} PROVE WriterInv(q)' /\ RunnerInv(q)'
  <2>1. procs'[q] = procs[q] /\ WriterInv(q) /\ RunnerInv(q)
    BY DEF Moves
  <2>2. RunnerInv(q)'
    BY <2>1 DEF RunnerInv, OnlyHolder, Holds
  <2>3. ASSUME procs[q].pc \in {"write", "writing"},
               NEW r \in Procs \ {q},
               procs[q].rec.status = "pending"
        PROVE  procs'[r].item # procs[q].item
    BY <2>1, <2>3 DEF WriterInv, Moves, Items
  <2>4. WriterInv(q)'
    BY <2>1, <2>3 DEF WriterInv, OnlyHolder
  <2>5. QED
    BY <2>2, <2>4
<1>4. QED
  BY <1>1, <1>2, <1>3

LEMMA StopMove ==
  ASSUME Inv, Typed', NEW p \in Procs, Stop(p),
         UNCHANGED <<disk, durable, issued, submitted, calls, released>>
  PROVE  QueueInv'
<1>1. Moves(p) /\ procs'[p] = Idle
  BY StopEffect DEF Inv, Typed, TypeOK
<1>2. WriterInv(p)' /\ RunnerInv(p)' /\ procs'[p].item = 0
  BY <1>1 DEF WriterInv, RunnerInv, Idle
<1>3. 0 =< issued
  BY DEF Inv, Typed, TypeOK
<1>4. QED
  BY <1>1, <1>2, <1>3, LocalMove

LEMMA KnownItem ==
  ASSUME Inv, NEW i \in Items, disk[i].status # "absent"
  PROVE  i =< issued
<1>1. i \in Int /\ issued \in Int
  BY ConstantsAssumption DEF Items, Inv, Typed, TypeOK
<1>2. ~(i > issued)
  BY DEF Inv, QueueInv, FreshIds
<1>3. QED
  BY <1>1, <1>2

LEMMA LoadItemInv ==
  ASSUME Inv, Typed', NEW p \in Procs, LoadItem(p) PROVE QueueInv'
<1>0. /\ procs \in [Procs -> ProcStates] /\ procs[p] \in ProcStates
      /\ p \in Runners
      /\ UNCHANGED <<disk, durable, issued, submitted, calls, released>>
  BY DEF LoadItem, Inv, QueueInv, RunnerInv, Typed, TypeOK, diskVars, netVars
<1>1. PICK i \in procs[p].batch :
        \/ procs' = [procs EXCEPT ![p].batch = @ \ {i}]
        \/ Stop(p)
        \/ /\ disk[i].status = "pending"
           /\ Take(p, i, "write", [disk[i] EXCEPT !.status = "failed"])
        \/ disk[i].status = "pending" /\ Take(p, i, "read_draft", disk[i])
        \/ disk[i].status = "pending" /\ Take(p, i, "perform", disk[i])
  BY DEF LoadItem
<1> DEFINE denied == [disk[i] EXCEPT !.status = "failed"]
<1>2. /\ i \in Items /\ disk[i] \in Records
      /\ denied \in Records /\ denied.status = "failed"
  BY ZenonT(60), <1>0, RecordTyped DEF FileStates, Statuses, Inv, Typed, TypeOK, ProcStates, Records
<1>3. disk[i].status = "pending" => i =< issued /\ submitted[i] = NoKey
  BY <1>2, KnownItem DEF Inv, QueueInv, PendingIsUnsent
<1>4. CASE procs' = [procs EXCEPT ![p].batch = @ \ {i}]
  <2>1. procs[p].pc = "next"
    BY DEF LoadItem
  <2>2. /\ Moves(p) /\ procs'[p].pc = "next" /\ procs'[p].item = procs[p].item
    BY <1>0, <1>4, <2>1 DEF Moves, ProcStates, Typed, TypeOK
  <2>3. WriterInv(p)' /\ RunnerInv(p)' /\ procs'[p].item =< issued
    BY <1>0, <2>2 DEF WriterInv, RunnerInv, Inv, QueueInv, FreshIds
  <2>4. QED
    BY <1>0, <2>2, <2>3, LocalMove
<1>5. CASE Stop(p)
  BY <1>0, <1>5, StopMove
<1>6. CASE disk[i].status = "pending" /\ Take(p, i, "write", denied)
  <2> HIDE DEF denied
  <2>1. /\ Moves(p) /\ procs'[p].pc = "write" /\ procs'[p].item = i
        /\ procs'[p].rec = denied /\ procs'[p].then = "idle"
    BY <1>0, <1>2, <1>6, TakeEffect DEF Pcs
  <2>2. WriterInv(p)' /\ RunnerInv(p)'
    BY <1>2, <2>1 DEF WriterInv, RunnerInv
  <2>3. QED
    BY <1>0, <1>2, <1>3, <1>6, <2>1, <2>2, LocalMove
<1>7. CASE /\ disk[i].status = "pending"
           /\ Take(p, i, "read_draft", disk[i]) \/ Take(p, i, "perform", disk[i])
  <2>1. /\ Moves(p) /\ procs'[p].pc \in {"read_draft", "perform"}
        /\ procs'[p].item = i
    BY <1>0, <1>2, <1>7, TakeEffect DEF Pcs
  <2>2. WriterInv(p)' /\ RunnerInv(p)'
    BY <1>0, <1>2, <1>3, <1>7, <2>1 DEF WriterInv, RunnerInv
  <2>3. QED
    BY <1>0, <1>2, <1>3, <1>7, <2>1, <2>2, LocalMove
<1>8. QED
  BY <1>1, <1>4, <1>5, <1>6, <1>7

LEMMA ReadDraftInv ==
  ASSUME Inv, Typed', NEW p \in Procs, ReadDraft(p) PROVE QueueInv'
<1> DEFINE key == eml[procs[p].rec.command.path]
           rec == [procs[p].rec EXCEPT !.key = key]
<1>0. /\ procs \in [Procs -> ProcStates] /\ procs[p].rec \in Records
      /\ UNCHANGED <<disk, durable, issued, submitted, calls, released>>
      /\ procs[p].pc = "read_draft" /\ procs[p].item \in Items
      /\ p \in Runners /\ submitted[procs[p].item] = NoKey
      /\ procs[p].item =< issued
  BY DEF ReadDraft, Inv, QueueInv, FreshIds, RunnerInv, Typed, TypeOK, diskVars, netVars,
         ProcStates
<1>1. key \in Keys \union {NoKey}
  BY <1>0, CalledFile DEF Inv, SendsFile
<1>2. rec \in Records /\ rec.key = key
  BY <1>0, <1>1, RecordTyped DEF Records
<1>3. CASE Stop(p)
  BY <1>0, <1>3, StopMove
<1>4. CASE key # NoKey /\ Goto(p, "history", rec)
  <2> HIDE DEF rec
  <2>1. /\ Moves(p) /\ procs'[p].pc = "history" /\ procs'[p].rec = rec
        /\ procs'[p].item = procs[p].item
    BY <1>0, <1>2, <1>4, GotoEffect DEF Pcs
  <2>2. WriterInv(p)' /\ RunnerInv(p)'
    BY <1>0, <1>2, <1>4, <2>1 DEF WriterInv, RunnerInv
  <2>3. QED
    BY <1>0, <2>1, <2>2, LocalMove
<1>5. QED
  BY <1>3, <1>4 DEF ReadDraft

\* A key nobody's readable record blocks is held by no submitted item.
LEMMA HistoryDecides ==
  ASSUME Inv, NEW i \in Items, NEW key \in Keys,
         Listable, ~SendAlreadyAttempted(key, i)
  PROVE  OnlyHolder(i, key)
  BY ConstantsAssumption
  DEF Inv, QueueInv, IntentIsDurable, Holds, Listable, SendAlreadyAttempted, OnlyHolder

LEMMA CheckHistoryInv ==
  ASSUME Inv, Typed', NEW p \in Procs, CheckHistory(p) PROVE QueueInv'
<1> DEFINE i == procs[p].item
           sent   == [procs[p].rec EXCEPT !.status = "executed"]
           intent == [procs[p].rec EXCEPT !.status = "sending"]
<1>0. /\ procs \in [Procs -> ProcStates] /\ procs[p].rec \in Records
      /\ UNCHANGED <<disk, durable, issued, submitted, calls, released>>
      /\ procs[p].pc = "history" /\ i \in Items
      /\ p \in Runners /\ submitted[i] = NoKey
      /\ i =< issued /\ procs[p].rec.key # NoKey
  BY DEF CheckHistory, Inv, QueueInv, FreshIds, RunnerInv, Typed, TypeOK, diskVars,
         netVars, ProcStates
<1>1. /\ sent \in Records /\ sent.status = "executed"
      /\ intent \in Records /\ intent.status = "sending"
      /\ intent.key = procs[p].rec.key /\ procs[p].rec.key \in Keys
  BY <1>0, RecordTyped DEF FileStates, Statuses, Records
<1>2. CASE Stop(p)
  BY <1>0, <1>2, StopMove
<1>3. CASE Save(p, sent, "next")
  <2> HIDE DEF sent
  <2>1. /\ Moves(p) /\ procs'[p].pc = "write" /\ procs'[p].rec = sent
        /\ procs'[p].item = i /\ procs'[p].then = "next"
    BY <1>0, <1>1, <1>3, SaveEffect
  <2>2. WriterInv(p)' /\ RunnerInv(p)'
    BY <1>0, <1>1, <2>1 DEF WriterInv, RunnerInv
  <2>3. QED
    BY <1>0, <2>1, <2>2, LocalMove
<1>4. CASE /\ Listable /\ ~SendAlreadyAttempted(procs[p].rec.key, i)
           /\ Save(p, intent, "smtp")
  <2>0. OnlyHolder(i, intent.key)
    BY <1>0, <1>1, <1>4, HistoryDecides
  <2> HIDE DEF intent
  <2>1. /\ Moves(p) /\ procs'[p].pc = "write" /\ procs'[p].rec = intent
        /\ procs'[p].item = i /\ procs'[p].then = "smtp"
    BY <1>0, <1>1, <1>4, SaveEffect
  <2>2. WriterInv(p)' /\ RunnerInv(p)'
    BY <1>0, <1>1, <2>0, <2>1 DEF WriterInv, RunnerInv, OnlyHolder
  <2>3. QED
    BY <1>0, <2>1, <2>2, LocalMove
<1>5. QED
  BY <1>2, <1>3, <1>4 DEF CheckHistory

LEMMA TruncateInv ==
  ASSUME Inv, Typed', NEW p \in Procs, Truncate(p) PROVE QueueInv'
<1> DEFINE i == procs[p].item
<1>0. /\ procs \in [Procs -> ProcStates] /\ procs[p].rec \in Records
      /\ UNCHANGED <<durable, issued, submitted, calls, released>>
      /\ procs[p].pc = "write" /\ i \in Items
      /\ WriterInv(p) /\ i =< issued /\ i \in Int /\ issued \in Int
  BY ConstantsAssumption
  DEF Truncate, Inv, QueueInv, FreshIds, WriterInv, Typed, TypeOK, netVars, ProcStates, Items
<1>1. /\ Moves(p) /\ procs'[p].pc = "writing" /\ procs'[p].rec = procs[p].rec
      /\ procs'[p].item = i /\ procs'[p].then = procs[p].then
  BY <1>0, GotoEffect DEF Truncate, Pcs
<1>2. /\ disk'[i].status = "empty"
      /\ \A j \in Items \ {i} : disk'[j] = disk[j]
  BY <1>0 DEF Truncate, Inv, Typed, TypeOK, Records
<1>3. FreshIds'
  BY <1>0, <1>1, <1>2 DEF FreshIds, Inv, QueueInv, Moves
<1>4. /\ PendingIsUnsent' /\ IntentIsDurable' /\ CallsAreCounted'
      /\ ResendOnlyAfterRelease'
  BY <1>0, <1>2 DEF PendingIsUnsent, IntentIsDurable, CallsAreCounted,
                    ResendOnlyAfterRelease, Holds, Unreadable, Inv, QueueInv
<1>5. WriterInv(p)' /\ RunnerInv(p)'
  BY <1>0, <1>1, <1>2 DEF WriterInv, RunnerInv, OnlyHolder, Moves
<1>6. ASSUME NEW q \in Procs \ {p} PROVE WriterInv(q)' /\ RunnerInv(q)'
  <2>1. procs'[q] = procs[q] /\ WriterInv(q) /\ RunnerInv(q)
    BY <1>1 DEF Moves, Inv, QueueInv
  <2>2. RunnerInv(q)'
    <3>1. procs[q].item # 0 => procs[q].item \in Items
      BY <1>0, ConstantsAssumption DEF ProcStates, Items
    <3>2. CASE procs[q].item = i
      BY <1>0, <1>2, <2>1, <3>2 DEF RunnerInv, OnlyHolder, Holds, Unreadable
    <3>3. CASE procs[q].item # i
      BY <1>0, <1>2, <2>1, <3>1, <3>3 DEF RunnerInv, OnlyHolder, Holds
    <3>4. QED
      BY <3>2, <3>3
  <2>3. WriterInv(q)'
    BY <1>0, <1>1, <1>2, <2>1 DEF WriterInv, OnlyHolder, Moves
  <2>4. QED
    BY <2>2, <2>3
<1>7. QED
  BY <1>3, <1>4, <1>5, <1>6 DEF QueueInv

LEMMA WriteAndSyncInv ==
  ASSUME OneRunner, Inv, Typed', NEW p \in Procs, WriteAndSync(p) PROVE QueueInv'
<1> DEFINE i   == procs[p].item
           rec == procs[p].rec
           torn == [disk[i] EXCEPT !.status = "torn"]
<1>0. /\ procs \in [Procs -> ProcStates] /\ rec \in Records
      /\ UNCHANGED <<issued, submitted, calls>>
      /\ procs[p].pc = "writing" /\ i \in Items
      /\ WriterInv(p) /\ i =< issued /\ i \in Int /\ issued \in Int
  BY ConstantsAssumption
  DEF WriteAndSync, Inv, QueueInv, FreshIds, WriterInv, Typed, TypeOK, netVars, ProcStates,
      Items
<1>1. PICK content \in {rec, torn} :
        /\ disk' = [disk EXCEPT ![i] = content]
        /\ durable' = [durable EXCEPT ![i] = content]
        /\ released' = IF content.status \in {"failed", "dropped"}
                       THEN released \union {i} ELSE released
  BY DEF WriteAndSync
<1>2. /\ disk'[i] = content /\ durable'[i] = content
      /\ \A j \in Items \ {i} : disk'[j] = disk[j] /\ durable'[j] = durable[j]
      /\ released \subseteq released'
      /\ content.status \in {"failed", "dropped"} => i \in released'
  BY <1>0, <1>1 DEF Inv, Typed, TypeOK
<1>3. content = rec \/ content.status = "torn"
  BY <1>0, <1>1 DEF Inv, Typed, TypeOK, Records
<1>4. /\ Moves(p)
      /\ \/ procs'[p] = Idle
         \/ /\ procs[p].then # "idle" /\ procs'[p].pc = procs[p].then
            /\ procs'[p].item = i /\ procs'[p].rec = rec
  <2>1. Stop(p) \/ (procs[p].then # "idle" /\ Goto(p, procs[p].then, rec))
    BY DEF WriteAndSync
  <2>2. CASE procs[p].then # "idle" /\ Goto(p, procs[p].then, rec)
    <3>1. CASE Goto(p, "next", rec) /\ procs[p].then = "next"
      BY <1>0, <3>1, GotoEffect DEF Pcs
    <3>2. CASE Goto(p, "smtp", rec) /\ procs[p].then = "smtp"
      BY <1>0, <3>2, GotoEffect DEF Pcs
    <3>3. QED
      BY <1>0, <2>2, <3>1, <3>2 DEF ProcStates
  <2>3. QED
    BY <1>0, <2>1, <2>2, StopEffect
<1>5. FreshIds'
  BY <1>0, <1>2, <1>4 DEF FreshIds, Inv, QueueInv, Moves, Idle, Typed, TypeOK
<1>6. PendingIsUnsent' /\ CallsAreCounted' /\ ResendOnlyAfterRelease'
  BY <1>0, <1>2, <1>3 DEF PendingIsUnsent, CallsAreCounted, ResendOnlyAfterRelease,
                          WriterInv, Inv, QueueInv
<1>7. IntentIsDurable'
  <2>1. ASSUME NEW j \in Items, submitted[j] # NoKey, j \notin released'
        PROVE  Holds(disk'[j], submitted[j]) /\ Holds(durable'[j], submitted[j])
    <3>1. CASE j # i
      BY <1>2, <2>1, <3>1 DEF IntentIsDurable, Inv, QueueInv
    <3>2. CASE j = i
      BY <1>0, <1>2, <1>3, <2>1, <3>2 DEF WriterInv, Holds, Unreadable, BlocksResend
    <3>3. QED
      BY <3>1, <3>2
  <2>2. QED
    BY <1>0, <2>1 DEF IntentIsDurable, Holds
<1>8. WriterInv(p)' /\ RunnerInv(p)'
  <2>1. CASE procs'[p] = Idle
    BY <2>1 DEF WriterInv, RunnerInv, Idle
  <2>2. CASE /\ procs[p].then # "idle" /\ procs'[p].pc = procs[p].then
             /\ procs'[p].item = i /\ procs'[p].rec = rec
    BY <1>0, <1>2, <1>3, <2>2
    DEF WriterInv, RunnerInv, OnlyHolder, Holds, Unreadable, BlocksResend
  <2>3. QED
    BY <1>4, <2>1, <2>2
<1>9. ASSUME NEW q \in Procs \ {p} PROVE WriterInv(q)' /\ RunnerInv(q)'
  <2>1. procs'[q] = procs[q] /\ WriterInv(q) /\ RunnerInv(q)
    BY <1>4 DEF Moves, Inv, QueueInv
  <2>2. WriterInv(q)'
    BY <1>0, <1>2, <1>4, <2>1 DEF WriterInv, OnlyHolder, Moves, Idle, Items
  <2>3. ASSUME procs[q].pc = "smtp", procs[q].item = i
        PROVE  \/ i \in released'
               \/ Holds(disk'[i], procs[q].rec.key) /\ Holds(durable'[i], procs[q].rec.key)
    <3>1. q \in Runners /\ p \notin Runners
      BY <1>0, <2>1, <2>3, ConstantsAssumption DEF RunnerInv, OneRunner, Items
    <3>2. rec.status \in {"failed", "dropped"}
      BY <1>0, <2>3, <3>1 DEF WriterInv
    <3>3. QED
      BY <1>2, <1>3, <3>2 DEF Holds, Unreadable
  <2>4. RunnerInv(q)'
    <3>1. procs[q].pc = "smtp" /\ procs[q].item = i => rec.status # "pending"
      BY <1>0, <2>3 DEF WriterInv
    <3>2. QED
      BY <1>0, <1>2, <1>3, <2>1, <2>3, <3>1, ConstantsAssumption
      DEF RunnerInv, OnlyHolder, Inv, Typed, TypeOK, ProcStates, Items
  <2>5. QED
    BY <2>2, <2>4
<1>10. QED
  BY <1>5, <1>6, <1>7, <1>8, <1>9 DEF QueueInv

\* What a failed or executed outcome leaves for p to write.
LEMMA FailMove ==
  ASSUME Inv, Typed', NEW p \in Procs, Fail(p),
         UNCHANGED <<disk, durable, issued, submitted, calls, released>>
  PROVE  QueueInv'
<1>0. /\ procs \in [Procs -> ProcStates] /\ procs[p].rec \in Records
      /\ procs[p].item # 0 => procs[p].item \in Items
      /\ procs[p].item =< issued
  BY ConstantsAssumption DEF Inv, QueueInv, FreshIds, Typed, TypeOK, ProcStates, Items
<1>1. CASE procs[p].item = 0
  BY <1>1, StopMove DEF Fail
<1>2. CASE procs[p].item # 0
  <2>1. /\ Moves(p) /\ procs'[p].pc = "write" /\ procs'[p].then = "idle"
        /\ procs'[p].rec = [procs[p].rec EXCEPT !.status = "failed"]
        /\ procs'[p].item = procs[p].item
    BY <1>0, <1>2, FailEffect
  <2>2. procs'[p].rec.status = "failed"
    BY <1>0, <2>1 DEF Records
  <2>3. WriterInv(p)' /\ RunnerInv(p)'
    BY <1>0, <1>2, <2>1, <2>2 DEF WriterInv, RunnerInv
  <2>4. QED
    BY <1>0, <2>1, <2>3, LocalMove
<1>3. QED
  BY <1>1, <1>2

LEMMA SucceedMove ==
  ASSUME Inv, Typed', NEW p \in Procs, Succeed(p),
         UNCHANGED <<disk, durable, issued, submitted, calls, released>>,
         procs[p].item # 0 =>
           p \in Runners /\ submitted[procs[p].item] \in {NoKey, procs[p].rec.key}
  PROVE  QueueInv'
<1>0. /\ procs \in [Procs -> ProcStates] /\ procs[p].rec \in Records
      /\ procs[p].item # 0 => procs[p].item \in Items
      /\ procs[p].item =< issued
  BY ConstantsAssumption DEF Inv, QueueInv, FreshIds, Typed, TypeOK, ProcStates, Items
<1>1. CASE procs[p].item = 0
  BY <1>1, StopMove DEF Succeed
<1>2. CASE procs[p].item # 0
  <2>1. /\ Moves(p) /\ procs'[p].pc = "write" /\ procs'[p].then = "next"
        /\ procs'[p].rec = [procs[p].rec EXCEPT !.status = "executed"]
        /\ procs'[p].item = procs[p].item
    BY <1>0, <1>2, SucceedEffect
  <2>2. procs'[p].rec.status = "executed" /\ procs'[p].rec.key = procs[p].rec.key
    BY <1>0, <2>1 DEF Records
  <2>3. WriterInv(p)' /\ RunnerInv(p)'
    BY <1>0, <1>2, <2>1, <2>2 DEF WriterInv, RunnerInv
  <2>4. QED
    BY <1>0, <2>1, <2>3, LocalMove
<1>3. QED
  BY <1>1, <1>2

\* The step on which everything rests: an item is handed to SMTP.
LEMMA SubmitInv ==
  ASSUME OneRunner, Inv, Typed', NEW p \in Procs, NEW file, procs[p].pc = "smtp",
         procs[p].item # 0, Submitted(p, file),
         UNCHANGED <<disk, durable, issued, released>>,
         Fail(p) \/ Goto(p, "reconcile", procs[p].rec)
  PROVE  QueueInv'
<1> DEFINE i   == procs[p].item
           key == procs[p].rec.key
<1>0. /\ procs \in [Procs -> ProcStates] /\ procs[p].rec \in Records
      /\ i \in Items /\ i =< issued /\ i \in Int /\ issued \in Int
      /\ p \in Runners /\ key # NoKey /\ submitted[i] = NoKey
      /\ OnlyHolder(i, key)
      /\ disk[i].status # "pending" /\ durable[i].status # "pending"
      /\ i \in released \/ (Holds(disk[i], key) /\ Holds(durable[i], key))
  BY ConstantsAssumption
  DEF Inv, QueueInv, FreshIds, RunnerInv, Typed, TypeOK, ProcStates, Items
<1>1. /\ submitted'[i] = key
      /\ \A j \in Items \ {i} : submitted'[j] = submitted[j] /\ calls'[j] = calls[j]
      /\ calls'[i] = calls[i] + 1
  BY <1>0 DEF Submitted, Inv, Typed, TypeOK
<1>2. /\ Moves(p) /\ procs'[p].item = i
      /\ \/ /\ procs'[p].pc = "write" /\ procs'[p].then = "idle"
            /\ procs'[p].rec.status = "failed"
         \/ procs'[p].pc = "reconcile" /\ procs'[p].rec = procs[p].rec
  <2>1. CASE Fail(p)
    BY <1>0, <2>1, FailEffect DEF Records
  <2>2. CASE Goto(p, "reconcile", procs[p].rec)
    BY <1>0, <2>2, GotoEffect DEF Pcs
  <2>3. QED
    BY <2>1, <2>2
<1>3. FreshIds' /\ PendingIsUnsent'
  BY <1>0, <1>1, <1>2 DEF FreshIds, PendingIsUnsent, Moves, Inv, QueueInv, Items
<1>4. CallsAreCounted'
  BY <1>0, <1>1 DEF CallsAreCounted, Inv, QueueInv
<1>5. IntentIsDurable'
  BY <1>0, <1>1 DEF IntentIsDurable, Holds, Inv, QueueInv
<1>6. ResendOnlyAfterRelease'
  BY <1>0, <1>1 DEF ResendOnlyAfterRelease, OnlyHolder, Inv, QueueInv
<1>7. WriterInv(p)' /\ RunnerInv(p)'
  BY <1>0, <1>1, <1>2 DEF WriterInv, RunnerInv
<1>8. ASSUME NEW q \in Procs \ {p} PROVE WriterInv(q)' /\ RunnerInv(q)'
  <2>1. /\ procs'[q] = procs[q] /\ WriterInv(q) /\ RunnerInv(q)
        /\ q \notin Runners
    BY <1>0, <1>2 DEF Moves, Inv, QueueInv, OneRunner
  <2>2. WriterInv(q)'
    BY <1>0, <1>1, <1>2, <2>1 DEF WriterInv, Moves
  <2>3. RunnerInv(q)'
    BY <2>1 DEF RunnerInv
  <2>4. QED
    BY <2>2, <2>3
<1>9. QED
  BY <1>3, <1>4, <1>5, <1>6, <1>7, <1>8 DEF QueueInv

LEMMA SmtpCallInv ==
  ASSUME OneRunner, Inv, Typed', NEW p \in Procs, SmtpCall(p) PROVE QueueInv'
<1>0. /\ procs[p].pc = "smtp" /\ procs \in [Procs -> ProcStates]
      /\ procs[p].rec \in Records /\ procs[p].item =< issued
      /\ UNCHANGED <<disk, durable, issued, released>>
  BY DEF SmtpCall, diskVars, Inv, QueueInv, FreshIds, Typed, TypeOK, ProcStates
<1>1. CASE UNCHANGED <<calls, submitted>> /\ Fail(p)
  BY <1>0, <1>1, FailMove
<1>2. CASE procs[p].item = 0 /\ Goto(p, "reconcile", procs[p].rec)
           /\ UNCHANGED <<calls, submitted>>
  <2>1. /\ Moves(p) /\ procs'[p].pc = "reconcile" /\ procs'[p].item = 0
    BY <1>0, <1>2, GotoEffect DEF Pcs
  <2>2. WriterInv(p)' /\ RunnerInv(p)'
    BY <2>1 DEF WriterInv, RunnerInv
  <2>3. QED
    BY <1>0, <1>2, <2>1, <2>2, LocalMove
<1>3. CASE /\ procs[p].item # 0 /\ \E file : Submitted(p, file)
           /\ Fail(p) \/ Goto(p, "reconcile", procs[p].rec)
  BY <1>0, <1>3, SubmitInv
<1>4. QED
  BY <1>1, <1>2, <1>3 DEF SmtpCall, Submitted, netVars

LEMMA ReconcileInv ==
  ASSUME Inv, Typed', NEW p \in Procs, Reconcile(p) PROVE QueueInv'
<1>0. /\ UNCHANGED <<disk, durable, issued, submitted, calls, released>>
      /\ procs[p].pc = "reconcile"
      /\ procs[p].item # 0 => p \in Runners /\ submitted[procs[p].item] = procs[p].rec.key
  BY DEF Reconcile, diskVars, netVars, Inv, QueueInv, RunnerInv
<1>1. CASE Fail(p)
  BY <1>0, <1>1, FailMove
<1>2. CASE Succeed(p)
  BY <1>0, <1>2, SucceedMove
<1>3. QED
  BY <1>1, <1>2 DEF Reconcile

LEMMA PerformInv ==
  ASSUME Inv, Typed', NEW p \in Procs, Perform(p) PROVE QueueInv'
<1>0. /\ UNCHANGED <<disk, durable, issued, submitted, calls, released>>
      /\ procs[p].pc = "perform"
      /\ p \in Runners /\ submitted[procs[p].item] = NoKey
  BY DEF Perform, diskVars, netVars, Inv, QueueInv, RunnerInv
<1>1. CASE Fail(p)
  BY <1>0, <1>1, FailMove
<1>2. CASE Succeed(p)
  BY <1>0, <1>2, SucceedMove
<1>3. QED
  BY <1>1, <1>2 DEF Perform

-----------------------------------------------------------------------------
(* The other commands and the environment keep the invariant *)

LEMMA StartRunInv ==
  ASSUME Inv, Typed', NEW p \in Runners, RunQueue(p) PROVE QueueInv'
<1>1. PICK ids \in SUBSET Items : StartRun(p, ids)
  BY DEF RunQueue, StartRunAll, StartRunOne, PendingIds
<1> DEFINE next == [Idle EXCEPT !.pc = "next", !.policy = policy, !.batch = ids]
<1>2. next.pc = "next" /\ next.item = 0
  BY DEF Idle
<1>3. procs' = [procs EXCEPT ![p] = next]
  BY <1>1 DEF StartRun
<1> HIDE DEF next
<1>4. /\ p \in Procs /\ Moves(p) /\ procs'[p].pc = "next" /\ procs'[p].item = 0
      /\ UNCHANGED <<disk, durable, issued, submitted, calls, released>>
      /\ 0 =< issued
  <2>1. /\ procs \in [Procs -> ProcStates] /\ procs' \in [Procs -> ProcStates]
        /\ p \in Procs /\ 0 =< issued
    BY DEF Procs, Inv, Typed, TypeOK
  <2>2. Moves(p) /\ procs'[p] = next
    BY <1>3, <2>1 DEF Moves
  <2>3. UNCHANGED <<disk, durable, issued, submitted, calls, released>>
    BY <1>1 DEF StartRun, diskVars, netVars
  <2>4. QED
    BY <1>2, <2>1, <2>2, <2>3
<1>5. WriterInv(p)' /\ RunnerInv(p)'
  BY <1>4 DEF WriterInv, RunnerInv
<1>6. QED
  BY <1>4, <1>5, LocalMove

LEMMA EnqueueInv ==
  ASSUME Inv, Typed', NEW p \in Clients, NEW c \in Commands, Enqueue(p, c)
  PROVE  QueueInv'
<1> DEFINE i    == issued + 1
           rec  == [status |-> "pending", command |-> c, key |-> NoKey]
           next == [Idle EXCEPT !.pc = "write", !.policy = policy, !.item = i,
                                !.rec = rec]
<1>1. next.pc = "write" /\ next.item = i /\ next.rec.status = "pending"
      /\ next.then = "idle"
  BY DEF Idle
<1>2. procs' = [procs EXCEPT ![p] = next]
  BY DEF Enqueue
<1> HIDE DEF next
<1>3. /\ p \in Procs /\ Moves(p) /\ procs'[p] = next
      /\ UNCHANGED <<disk, durable, submitted, calls, released>>
      /\ issued' = i /\ i \in Items /\ issued \in Int /\ i > issued
  BY <1>2, ConstantsAssumption
  DEF Enqueue, Moves, Procs, Items, diskVars, netVars, Inv, Typed, TypeOK
<1>4. /\ disk[i].status = "absent" /\ durable[i].status = "absent"
      /\ submitted[i] = NoKey
      /\ \A q \in Procs : procs[q].item =< issued /\ procs[q].item \in Int
  BY <1>3, ConstantsAssumption
  DEF Inv, QueueInv, FreshIds, Typed, TypeOK, ProcStates
<1>5. FreshIds'
  BY <1>1, <1>3, <1>4, ConstantsAssumption DEF FreshIds, Moves, Inv, QueueInv, Items
<1>6. /\ PendingIsUnsent' /\ IntentIsDurable' /\ CallsAreCounted'
      /\ ResendOnlyAfterRelease'
  BY <1>3 DEF PendingIsUnsent, IntentIsDurable, CallsAreCounted,
              ResendOnlyAfterRelease, Holds, Inv, QueueInv
<1>7. WriterInv(p)' /\ RunnerInv(p)'
  BY <1>1, <1>3, <1>4 DEF WriterInv, RunnerInv, Moves
<1>8. ASSUME NEW q \in Procs \ {p} PROVE WriterInv(q)' /\ RunnerInv(q)'
  <2>1. /\ procs'[q] = procs[q] /\ WriterInv(q) /\ RunnerInv(q)
        /\ procs'[p].item # procs[q].item
    BY <1>1, <1>3, <1>4 DEF Moves, Inv, QueueInv
  <2>2. WriterInv(q)'
    BY <1>3, <2>1 DEF WriterInv, OnlyHolder, Moves
  <2>3. RunnerInv(q)'
    BY <1>3, <2>1 DEF RunnerInv, OnlyHolder, Holds
  <2>4. QED
    BY <2>2, <2>3
<1>9. QED
  BY <1>5, <1>6, <1>7, <1>8 DEF QueueInv

LEMMA DropInv ==
  ASSUME Inv, Typed', NEW p \in Clients, NEW i \in Items, Drop(p, i)
  PROVE  QueueInv'
<1> DEFINE rec  == [disk[i] EXCEPT !.status = "dropped"]
           next == [Idle EXCEPT !.pc = "write", !.item = i, !.policy = policy,
                                !.rec = rec]
<1>1. rec.status = "dropped" /\ disk[i].status \in Statuses
  BY DEF Drop, Inv, Typed, TypeOK, Records
<1> HIDE DEF rec
<1>2. next.pc = "write" /\ next.item = i /\ next.rec = rec /\ next.then = "idle"
  BY DEF Idle
<1>3. procs' = [procs EXCEPT ![p] = next]
  BY DEF Drop, rec
<1> HIDE DEF next
<1>4. /\ p \in Procs /\ Moves(p) /\ procs'[p] = next
      /\ UNCHANGED <<disk, durable, issued, submitted, calls, released>>
  BY <1>3 DEF Drop, Moves, Procs, diskVars, netVars, Inv, Typed, TypeOK
<1>5. WriterInv(p)' /\ RunnerInv(p)'
  BY <1>1, <1>2, <1>4 DEF WriterInv, RunnerInv
<1>6. i =< issued /\ disk[i].status \notin {"absent", "empty"}
  BY <1>1, KnownItem DEF Statuses
<1>7. QED
  BY <1>2, <1>4, <1>5, <1>6, LocalMove

LEMMA ExecSendInv ==
  ASSUME Inv, Typed', NEW p \in Clients, NEW c \in Commands, ExecSend(p, c)
  PROVE  QueueInv'
<1> DEFINE next == [Idle EXCEPT !.pc = "smtp", !.policy = policy,
                                !.rec = [NoRecord EXCEPT !.command = c]]
<1>1. next.pc = "smtp" /\ next.item = 0
  BY DEF Idle
<1>2. procs' = [procs EXCEPT ![p] = next]
  BY DEF ExecSend
<1> HIDE DEF next
<1>3. /\ p \in Procs /\ Moves(p) /\ procs'[p].pc = "smtp" /\ procs'[p].item = 0
      /\ UNCHANGED <<disk, durable, issued, submitted, calls, released>>
      /\ 0 =< issued
  <2>1. /\ procs \in [Procs -> ProcStates] /\ procs' \in [Procs -> ProcStates]
        /\ p \in Procs /\ 0 =< issued
    BY DEF Procs, Inv, Typed, TypeOK
  <2>2. Moves(p) /\ procs'[p] = next
    BY <1>2, <2>1 DEF Moves
  <2>3. UNCHANGED <<disk, durable, issued, submitted, calls, released>>
    BY DEF ExecSend, diskVars, netVars
  <2>4. QED
    BY <1>1, <2>1, <2>2, <2>3
<1>4. WriterInv(p)' /\ RunnerInv(p)'
  BY <1>3 DEF WriterInv, RunnerInv
<1>5. QED
  BY <1>3, <1>4, LocalMove

LEMMA PowerLossInv ==
  ASSUME Inv, Typed', PowerLoss PROVE QueueInv'
<1>1. /\ \A i \in Items : disk'[i] \in {disk[i], durable[i]} /\ durable'[i] = disk'[i]
      /\ \A p \in Procs : procs'[p] = Idle
      /\ UNCHANGED <<issued, submitted, calls, released>>
  BY DEF PowerLoss, netVars
<1>2. FreshIds'
  BY <1>1 DEF FreshIds, Idle, Inv, QueueInv, Typed, TypeOK
<1>3. /\ PendingIsUnsent' /\ IntentIsDurable' /\ CallsAreCounted'
      /\ ResendOnlyAfterRelease'
  BY <1>1 DEF PendingIsUnsent, IntentIsDurable, CallsAreCounted,
              ResendOnlyAfterRelease, Holds, Inv, QueueInv
<1>4. \A p \in Procs : WriterInv(p)' /\ RunnerInv(p)'
  BY <1>1 DEF WriterInv, RunnerInv, Idle
<1>5. QED
  BY <1>2, <1>3, <1>4 DEF QueueInv

LEMMA HandWriteInv ==
  ASSUME Inv, Typed', NEW c \in Commands, HandWrite(c) PROVE QueueInv'
<1> DEFINE i == issued + 1
<1>1. /\ UNCHANGED <<procs, submitted, calls, released>>
      /\ issued' = i /\ i \in Items /\ issued \in Int
      /\ disk'[i].status = "pending" /\ durable'[i].status = "pending"
      /\ \A j \in Items \ {i} : disk'[j] = disk[j] /\ durable'[j] = durable[j]
  BY ConstantsAssumption DEF HandWrite, Items, netVars, Inv, Typed, TypeOK
<1>2. /\ submitted[i] = NoKey
      /\ \A q \in Procs : procs[q].item =< issued /\ procs[q].item \in Int
  BY <1>1, ConstantsAssumption DEF Inv, QueueInv, FreshIds, Typed, TypeOK, ProcStates
<1>3. FreshIds'
  BY <1>1, <1>2, ConstantsAssumption DEF FreshIds, Inv, QueueInv, Items
<1>4. /\ PendingIsUnsent' /\ IntentIsDurable' /\ CallsAreCounted'
      /\ ResendOnlyAfterRelease'
  BY <1>1, <1>2 DEF PendingIsUnsent, IntentIsDurable, CallsAreCounted,
                    ResendOnlyAfterRelease, Holds, Inv, QueueInv
<1>5. ASSUME NEW q \in Procs PROVE WriterInv(q)' /\ RunnerInv(q)'
  <2>1. WriterInv(q) /\ RunnerInv(q) /\ procs'[q] = procs[q] /\ procs[q].item # i
    BY <1>1, <1>2 DEF Inv, QueueInv
  <2>2. procs[q].item # 0 => procs[q].item \in Items \ {i}
    BY <1>2, <2>1, ConstantsAssumption DEF Inv, Typed, TypeOK, ProcStates, Items
  <2>3. WriterInv(q)'
    BY <1>1, <2>1, <2>2 DEF WriterInv, OnlyHolder
  <2>4. RunnerInv(q)'
    BY <1>1, <2>1, <2>2 DEF RunnerInv, OnlyHolder, Holds
  <2>5. QED
    BY <2>3, <2>4
<1>6. QED
  BY <1>3, <1>4, <1>5 DEF QueueInv

LEMMA UntouchedInv ==
  ASSUME Inv, UNCHANGED <<disk, durable, issued, procs, submitted, calls, released>>
  PROVE  QueueInv'
BY DEF Inv, QueueInv, FreshIds, PendingIsUnsent, IntentIsDurable, CallsAreCounted,
       ResendOnlyAfterRelease, WriterInv, RunnerInv, OnlyHolder, Holds

-----------------------------------------------------------------------------
(* The invariant and what follows from it *)

LEMMA QueueInvStep ==
  ASSUME OneRunner, Inv, [Next]_vars PROVE Inv'
<1>1. Typed'
  BY TypedStep, TypedOther DEF Inv
<1>2. ASSUME NEW p \in Procs, Step(p) PROVE QueueInv'
  <2>1. CASE FinishRun(p)
    BY <1>1, <2>1, StopMove DEF FinishRun, diskVars, netVars
  <2>2. QED
    BY <1>1, <1>2, <2>1, LoadItemInv, ReadDraftInv, CheckHistoryInv, TruncateInv,
       WriteAndSyncInv, SmtpCallInv, ReconcileInv, PerformInv DEF Step
<1>3. ASSUME NEW p \in Procs, WriteError(p) \/ Crash(p) PROVE QueueInv'
  BY <1>1, <1>3, StopMove DEF WriteError, Crash, diskVars, netVars
<1>4. ASSUME NEW p \in Runners, RunQueue(p) PROVE QueueInv'
  BY <1>1, <1>4, StartRunInv
<1>5. ASSUME NEW p \in Clients, Command(p) PROVE QueueInv'
  BY <1>1, <1>5, EnqueueInv, ExecSendInv, DropInv DEF Command
<1>6. ASSUME Environment PROVE QueueInv'
  <2>1. CASE PowerLoss \/ \E c \in Commands : HandWrite(c)
    BY <1>1, <2>1, PowerLossInv, HandWriteInv
  <2>2. CASE \/ \E path \in Paths, key \in Keys \union {NoKey} : EditMessage(path, key)
             \/ \E q \in Policies : SetPolicy(q)
    BY <2>2, UntouchedInv DEF EditMessage, SetPolicy, diskVars, netVars
  <2>3. QED
    BY <1>6, <2>1, <2>2 DEF Environment
<1>7. ASSUME UNCHANGED vars PROVE QueueInv'
  BY <1>7, UntouchedInv DEF vars
<1>8. QED
  BY <1>1, <1>2, <1>3, <1>4, <1>5, <1>6, <1>7 DEF Next, Inv

(* While one process at a time runs the queue, any number of others enqueue, *)
(* drop and send, processes are killed at any step and power is lost: what   *)
(* was handed to SMTP blocks its key on disk until it is released, and every *)
(* writer and the runner know what the lemmas above use (queue_runner.rs     *)
(* 126-219).                                                                 *)
THEOREM QueueInvariant == OneRunner => (Spec => []QueueInv)
<1> SUFFICES ASSUME OneRunner PROVE Spec => []QueueInv
  OBVIOUS
<1>1. Init => Inv
  BY TypedInit, QueueInvInit DEF Inv
<1>2. Inv /\ [Next]_vars => Inv'
  BY QueueInvStep
<1>3. Inv => QueueInv
  BY DEF Inv
<1>4. QED
  BY <1>1, <1>2, <1>3, PTL DEF Spec

(* The recorded intent survives every kill and power loss: what was handed   *)
(* to SMTP keeps its key blocked until a Failed or Dropped record.           *)
THEOREM IntentStaysDurable == OneRunner => (Spec => []IntentIsDurable)
<1> SUFFICES ASSUME OneRunner PROVE Spec => []IntentIsDurable
  OBVIOUS
<1>1. QueueInv => IntentIsDurable
  BY DEF QueueInv
<1>2. Spec => []QueueInv
  BY QueueInvariant
<1>3. QED
  BY <1>1, <1>2, PTL

(* No item is handed to SMTP twice, however often the queue is run.          *)
THEOREM CalledOnce == OneRunner => (Spec => []CallOnce)
<1> SUFFICES ASSUME OneRunner PROVE Spec => []CallOnce
  OBVIOUS
<1>1. QueueInv => CallOnce
  BY DEF QueueInv, CallsAreCounted, CallOnce
<1>2. Spec => []QueueInv
  BY QueueInvariant
<1>3. QED
  BY <1>1, <1>2, PTL

(* Two items are handed to SMTP with one key only after one of them was      *)
(* recorded Failed or Dropped (README.md 310-313).                           *)
THEOREM NoResendBeforeRelease == OneRunner => (Spec => []ResendOnlyAfterRelease)
<1> SUFFICES ASSUME OneRunner PROVE Spec => []ResendOnlyAfterRelease
  OBVIOUS
<1>1. QueueInv => ResendOnlyAfterRelease
  BY DEF QueueInv
<1>2. Spec => []QueueInv
  BY QueueInvariant
<1>3. QED
  BY <1>1, <1>2, PTL

-----------------------------------------------------------------------------
(* The refinement *)

LEMMA PromiseStep ==
  ASSUME OneRunner, Inv, [Next]_vars
  PROVE  [Promise!Next]_<<calls, submitted, released>>
<1>1. ASSUME NEW p \in Procs, SmtpCall(p)
      PROVE  [Promise!Next]_<<calls, submitted, released>>
  <2> DEFINE i   == procs[p].item
             key == procs[p].rec.key
  <2>1. UNCHANGED released
    BY <1>1 DEF SmtpCall, diskVars
  <2>2. CASE UNCHANGED <<calls, submitted>>
    BY <2>1, <2>2
  <2>3. CASE i # 0 /\ \E file : Submitted(p, file)
    <3>1. /\ i \in Items /\ key \in Keys /\ submitted[i] = NoKey
          /\ OnlyHolder(i, key) /\ key # NoKey
      BY <1>1, <2>3, RecordTyped, ConstantsAssumption
      DEF SmtpCall, Inv, QueueInv, RunnerInv, Typed, TypeOK, ProcStates, Items
    <3>2. calls[i] = 0
      BY <3>1 DEF Inv, QueueInv, CallsAreCounted
    <3>3. /\ \A j \in Items : submitted[j] = key => j \in released
          /\ calls' = [calls EXCEPT ![i] = 1]
          /\ submitted' = [submitted EXCEPT ![i] = key]
      BY <2>3, <3>1, <3>2 DEF Submitted, OnlyHolder, Inv, Typed, TypeOK
    <3> HIDE DEF i, key
    <3>4. Promise!Submit(i, key)
      BY <2>1, <3>2, <3>3 DEF Promise!Submit
    <3>5. QED
      BY <3>1, <3>4 DEF Promise!Next
  <2>4. QED
    BY <1>1, <2>2, <2>3 DEF SmtpCall, Submitted, netVars
<1>2. ASSUME NEW p \in Procs, WriteAndSync(p)
      PROVE  [Promise!Next]_<<calls, submitted, released>>
  <2>1. /\ released' \in {released, released \union {procs[p].item}}
        /\ UNCHANGED <<calls, submitted>>
        /\ procs[p].item \in Items
    BY <1>2 DEF WriteAndSync, netVars, Inv, Typed, WorkTyped, HasItem
  <2>2. QED
    BY <2>1 DEF Promise!Next, Promise!Release
<1>3. ASSUME NEW p \in Procs, Step(p), ~SmtpCall(p), ~WriteAndSync(p)
      PROVE  UNCHANGED <<calls, submitted, released>>
  BY <1>3 DEF Step, FinishRun, LoadItem, ReadDraft, CheckHistory, Truncate, Reconcile,
              Perform, diskVars, netVars
<1>4. ASSUME NEW p \in Procs, WriteError(p) \/ Crash(p)
      PROVE  UNCHANGED <<calls, submitted, released>>
  BY <1>4 DEF WriteError, Crash, diskVars, netVars
<1>5. ASSUME NEW p \in Procs, RunQueue(p) \/ Command(p)
      PROVE  UNCHANGED <<calls, submitted, released>>
  BY <1>5 DEF RunQueue, StartRunAll, StartRunOne, StartRun, Command, Enqueue, ExecSend,
              Drop, diskVars, netVars
<1>6. CASE Environment \/ UNCHANGED vars
  BY <1>6 DEF Environment, PowerLoss, HandWrite, EditMessage, SetPolicy, diskVars,
              netVars, vars
<1>7. QED
  BY <1>1, <1>2, <1>3, <1>4, <1>5, <1>6 DEF Next, Procs

(* The queue implements the promise of AtMostOnceSend for any number of      *)
(* items, keys and clients, with one runner at a time.                       *)
THEOREM QueueKeepsPromise == OneRunner => (Spec => RefinesAtMostOnce)
<1> SUFFICES ASSUME OneRunner PROVE Spec => RefinesAtMostOnce
  OBVIOUS
<1>1. Init => Inv /\ Promise!Init
  BY TypedInit, QueueInvInit DEF Inv, Init, Promise!Init
<1>2. Inv /\ [Next]_vars => Inv' /\ [Promise!Next]_<<calls, submitted, released>>
  BY QueueInvStep, PromiseStep
<1>3. QED
  BY <1>1, <1>2, PTL DEF Spec, RefinesAtMostOnce, Promise!Spec

-----------------------------------------------------------------------------
(* At-most-once as the recipient sees it.  The server knows a message by the *)
(* key its file has when it is handed over, the queue by the key that was    *)
(* recorded when the file was read.                                          *)

HandedWith(key) == {i \in Items : handed[i] = key}

\* What is accepted was handed over, for an item that was not called before.
AcceptedWereHanded ==
  /\ \A i \in Items : submitted[i] = NoKey => handed[i] = NoKey
  /\ \A key \in Keys : accepted[key] =< Cardinality(HandedWith(key))

CountInv == Inv /\ AcceptedWereHanded

LEMMA ItemsFinite ==
  ASSUME NEW some \in SUBSET Items
  PROVE  IsFiniteSet(some) /\ Cardinality(some) \in Nat
<1>1. IsFiniteSet(Items)
  BY ConstantsAssumption, FS_Interval DEF Items
<1>2. QED
  BY <1>1, FS_Subset, FS_CardinalityType

LEMMA AcceptedStep ==
  ASSUME OneRunner, CountInv, NEW p \in Procs, SmtpCall(p)
  PROVE  AcceptedWereHanded'
<1> DEFINE i   == procs[p].item
           key == eml[procs[p].rec.command.path]
<1>1. CASE UNCHANGED <<submitted, handed, accepted>>
  BY <1>1 DEF CountInv, AcceptedWereHanded, HandedWith
<1>2. CASE i # 0 /\ key # NoKey /\ Submitted(p, key)
  <2>1. /\ i \in Items /\ submitted[i] = NoKey /\ procs[p].rec.key # NoKey
        /\ handed[i] = NoKey
    BY <1>2, RecordTyped
    DEF SmtpCall, CountInv, AcceptedWereHanded, Inv, QueueInv, RunnerInv, Typed, TypeOK,
        ProcStates, Items
  <2>2. key \in Keys
    BY <1>2, CalledFile DEF CountInv, Inv, SmtpCall, SendsFile
  <2>3. /\ submitted' = [submitted EXCEPT ![i] = procs[p].rec.key]
        /\ handed' = [handed EXCEPT ![i] = key]
        /\ submitted \in [Items -> Keys \union {NoKey}]
        /\ handed \in [Items -> Keys \union {NoKey}]
        /\ accepted \in [Keys -> Nat]
    BY <1>2 DEF Submitted, CountInv, Inv, Typed, TypeOK
  <2>4. accepted' \in {accepted, [accepted EXCEPT ![key] = @ + 1]}
    BY <1>2 DEF SmtpCall, Accepted
  <2> DEFINE before(k) == {j \in Items : handed[j] = k}
             after(k)  == {j \in Items : handed'[j] = k}
  <2> HIDE DEF i, key
  <2>5. /\ after(key) = before(key) \union {i} /\ i \notin before(key)
        /\ \A other \in Keys \ {key} : after(other) = before(other)
        /\ \A j \in Items : submitted'[j] = NoKey => handed'[j] = NoKey
    BY <2>1, <2>2, <2>3, ConstantsAssumption DEF CountInv, AcceptedWereHanded
  <2> HIDE DEF before, after
  <2>6. /\ \A k \in Keys : /\ before(k) \in SUBSET Items
                           /\ accepted[k] =< Cardinality(before(k))
        /\ \A k \in Keys : HandedWith(k)' = after(k)
    BY DEF CountInv, AcceptedWereHanded, HandedWith, before, after
  <2>7. \A k \in Keys : IsFiniteSet(before(k)) /\ Cardinality(before(k)) \in Nat
    BY <2>6, ItemsFinite
  <2>8. Cardinality(after(key)) = Cardinality(before(key)) + 1
    BY <2>2, <2>5, <2>7, FS_AddElement
  <2>9. ASSUME NEW k \in Keys PROVE accepted'[k] =< Cardinality(after(k))
    <3>1. /\ accepted[k] \in Nat /\ accepted'[k] \in Nat
          /\ IF k = key THEN accepted'[k] =< accepted[k] + 1 ELSE accepted'[k] = accepted[k]
      BY <2>2, <2>3, <2>4
    <3>2. CASE k = key
      BY <2>6, <2>7, <2>8, <3>1, <3>2
    <3>3. CASE k # key
      BY <2>5, <2>6, <2>7, <3>1, <3>3
    <3>4. QED
      BY <3>2, <3>3
  <2>10. QED
    BY <2>5, <2>6, <2>9 DEF AcceptedWereHanded
<1>3. QED
  BY <1>1, <1>2 DEF SmtpCall, Submitted, Accepted, netVars

LEMMA CountStep ==
  ASSUME OneRunner, CountInv, [Next]_vars
  PROVE  CountInv'
<1>1. Inv'
  BY QueueInvStep DEF CountInv
<1>2. AcceptedWereHanded'
  <2>1. UNCHANGED <<submitted, handed, accepted>> \/ \E p \in Procs : SmtpCall(p)
    BY DEF Next, Procs, vars, Step, FinishRun, LoadItem, ReadDraft, CheckHistory, Truncate,
       WriteAndSync, Reconcile, Perform, WriteError, Crash, RunQueue, StartRunAll,
       StartRunOne, StartRun, Command, Enqueue, ExecSend, Drop, Environment, PowerLoss,
       HandWrite, EditMessage, SetPolicy, netVars
  <2>2. QED
    BY <2>1, AcceptedStep DEF CountInv, AcceptedWereHanded, HandedWith
<1>3. QED
  BY <1>1, <1>2 DEF CountInv

\* Of the items handed over with one key all but one are excused.
LEMMA CountInvImplies == CountInv => AtMostOnce
<1> SUFFICES ASSUME CountInv, NEW key \in Keys
             PROVE  accepted[key] =<
                      1 + Cardinality({i \in Items : handed[i] = key /\ Excused(i)})
  BY DEF AtMostOnce
<1> DEFINE sent == HandedWith(key)
           freed == {i \in Items : handed[i] = key /\ Excused(i)}
<1>1. /\ sent \in SUBSET Items /\ freed \in SUBSET sent /\ accepted[key] \in Nat
      /\ \A i, j \in sent \ freed : i = j
  BY ConstantsAssumption
  DEF CountInv, Inv, QueueInv, ResendOnlyAfterRelease, Typed, TypeOK, HandedWith, Excused
<1>2. accepted[key] =< Cardinality(sent)
  BY DEF CountInv, AcceptedWereHanded
<1> HIDE DEF sent, freed
<1>3. /\ Cardinality(sent) \in Nat /\ Cardinality(freed) \in Nat
      /\ IsFiniteSet(sent) /\ IsFiniteSet(freed)
  BY <1>1, ItemsFinite
<1>4. ASSUME sent = freed PROVE accepted[key] =< 1 + Cardinality(freed)
  BY <1>1, <1>2, <1>3, <1>4
<1>5. ASSUME sent # freed PROVE accepted[key] =< 1 + Cardinality(freed)
  <2>1. PICK i \in sent \ freed : sent = freed \union {i}
    BY <1>1, <1>5
  <2>2. Cardinality(sent) = Cardinality(freed) + 1
    BY <1>3, <2>1, FS_AddElement
  <2>3. QED
    BY <1>1, <1>2, <1>3, <2>2
<1>6. accepted[key] =< 1 + Cardinality(freed)
  BY <1>4, <1>5
<1>7. QED
  BY <1>6 DEF freed

(* A message is accepted at most once, and once more for each of its items   *)
(* that was recorded Failed or Dropped, or whose file was edited between the *)
(* read of its key and the read that the call sends, whatever messages the   *)
(* files come to hold (README.md 307-313; queue_runner.rs 126-219,           *)
(* draft_runner.rs 57).                                                      *)
THEOREM AcceptedAtMostOnce == OneRunner => (Spec => []AtMostOnce)
<1> SUFFICES ASSUME OneRunner PROVE Spec => []AtMostOnce
  OBVIOUS
<1>1. Init => CountInv
  <2>1. Init => Inv
    BY TypedInit, QueueInvInit DEF Inv
  <2>2. Init => AcceptedWereHanded
    BY ItemsFinite DEF Init, AcceptedWereHanded, HandedWith
  <2>3. QED
    BY <2>1, <2>2 DEF CountInv
<1>2. CountInv /\ [Next]_vars => CountInv'
  BY CountStep
<1>3. QED
  BY <1>1, <1>2, CountInvImplies, PTL DEF Spec
=============================================================================
