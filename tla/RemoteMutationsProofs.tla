------------------------ MODULE RemoteMutationsProofs -------------------------
(***************************************************************************)
(* Proofs about RemoteMutations, for any mailboxes, messages, processes    *)
(* and settings.  Everything rests on two facts about the server: it never *)
(* gives a UID to another message under the same UIDVALIDITY (Continues),  *)
(* and so an identity once stored keeps meaning one message (Denotes).     *)
(***************************************************************************)
EXTENDS RemoteMutations, FiniteSetTheorems, TLAPS

-----------------------------------------------------------------------------
(* The server *)

WellNumbered(state) == state \in Servers /\ Numbered(state)

\* A message with other flags; \Deleted is never taken back.
Reflagged(old, new) ==
  old # NoMessage /\ new.mail = old.mail /\ (old.deleted => new.deleted)

(* What a mailbox may become: it gets a new UIDVALIDITY, or its messages    *)
(* stay what they are, but for flags, and new ones get new UIDs.            *)
BoxContinues(old, new) ==
  \/ old.validity < new.validity
  \/ /\ old.validity = new.validity
     /\ old.next <= new.next
     /\ \A uid \in Uids :
          uid < old.next /\ new.msgs[uid] # NoMessage =>
            Reflagged(old.msgs[uid], new.msgs[uid])

Continues(before, after) ==
  \A box \in Mailboxes : BoxContinues(before[box], after[box])

\* One mailbox changes.
Changes(before, after, box, mailbox) ==
  /\ after[box] = mailbox
  /\ \A other \in Mailboxes \ {box} : after[other] = before[other]

LEMMA MessageTyped ==
  ASSUME NEW state \in Servers, NEW box \in Mailboxes, NEW uid
  PROVE  /\ state[box] \in MailboxStates
         /\ Present(state, box, uid) <=> uid \in Uids /\ state[box].msgs[uid] \in Messages
  BY MutationAssumption DEF Servers, MailboxStates, Present

LEMMA OneBoxContinues ==
  ASSUME NEW before, WellNumbered(before), NEW after \in Servers, NEW box \in Mailboxes,
         Changes(before, after, box, after[box]), BoxContinues(before[box], after[box]),
         \A uid \in UidsIn(after, box) : uid < after[box].next
  PROVE  WellNumbered(after) /\ Continues(before, after)
<1>1. ASSUME NEW other \in Mailboxes, other # box
      PROVE  /\ BoxContinues(before[other], after[other])
             /\ \A uid \in UidsIn(after, other) : uid < after[other].next
  <2>1. after[other] = before[other] /\ before[other] \in MailboxStates
    BY <1>1, MessageTyped DEF Changes, WellNumbered
  <2>2. BoxContinues(before[other], after[other])
    BY <2>1 DEF BoxContinues, Reflagged, MailboxStates
  <2>3. \A uid \in UidsIn(after, other) : uid < after[other].next
    BY <2>1 DEF UidsIn, Present, WellNumbered, Numbered
  <2>4. QED
    BY <2>2, <2>3
<1>2. QED
  BY <1>1 DEF WellNumbered, Numbered, Continues

LEMMA DepositEffect ==
  ASSUME NEW before, WellNumbered(before), NEW box \in Mailboxes,
         NEW message \in Messages, HasRoom(before, box),
         NEW after, after = Deposit(before, box, message)
  PROVE  /\ WellNumbered(after) /\ Continues(before, after)
         /\ Changes(before, after, box,
              [validity |-> before[box].validity, next |-> before[box].next + 1,
               msgs |-> [before[box].msgs EXCEPT ![before[box].next] = message]])
         /\ ~Present(before, box, before[box].next)
<1> DEFINE next == before[box].next
           mailbox == [validity |-> before[box].validity, next |-> next + 1,
                       msgs |-> [before[box].msgs EXCEPT ![next] = message]]
<1>1. /\ before \in Servers /\ before[box] \in MailboxStates /\ next \in Uids /\ next \in Nat
      /\ \A uid \in UidsIn(before, box) : uid < next
  BY MessageTyped DEF WellNumbered, Numbered, HasRoom, MailboxStates
<1>2. mailbox \in MailboxStates
  BY <1>1 DEF MailboxStates
<1>3. after = [before EXCEPT ![box] = mailbox]
  BY <1>1 DEF Deposit
<1> HIDE DEF mailbox
<1>4. after \in Servers /\ Changes(before, after, box, mailbox)
  BY <1>1, <1>2, <1>3 DEF Servers, Changes
<1>5. BoxContinues(before[box], mailbox)
  BY <1>1 DEF BoxContinues, Reflagged, MailboxStates, mailbox, Uids
<1>6. \A uid \in UidsIn(after, box) : uid < after[box].next
  <2>1. after[box] = mailbox
    BY <1>4 DEF Changes
  <2>2. ASSUME NEW uid \in Uids, mailbox.msgs[uid] # NoMessage PROVE uid < mailbox.next
    BY <1>1, <2>2 DEF mailbox, UidsIn, Present, MailboxStates, Uids
  <2>3. QED
    BY <2>1, <2>2 DEF UidsIn, Present
<1>7. ~Present(before, box, next)
  BY <1>1 DEF UidsIn, Present
<1>8. WellNumbered(after) /\ Continues(before, after)
  BY <1>4, <1>5, <1>6, OneBoxContinues DEF Changes
<1>9. QED
  BY <1>4, <1>7, <1>8 DEF mailbox

\* One message gets other flags, or goes.
LEMMA ReplaceEffect ==
  ASSUME NEW before, WellNumbered(before), NEW box \in Mailboxes, NEW uid,
         Present(before, box, uid), NEW message \in Messages \union {NoMessage},
         message # NoMessage => Reflagged(before[box].msgs[uid], message),
         NEW after, after = [before EXCEPT ![box].msgs[uid] = message]
  PROVE  /\ WellNumbered(after) /\ Continues(before, after)
         /\ Changes(before, after, box,
              [validity |-> before[box].validity, next |-> before[box].next,
               msgs |-> [before[box].msgs EXCEPT ![uid] = message]])
<1> DEFINE mailbox == [validity |-> before[box].validity, next |-> before[box].next,
                       msgs |-> [before[box].msgs EXCEPT ![uid] = message]]
<1>1. /\ before \in Servers /\ before[box] \in MailboxStates /\ uid \in Uids
      /\ before[box].msgs[uid] # NoMessage
      /\ \A other \in UidsIn(before, box) : other < before[box].next
  BY MessageTyped DEF WellNumbered, Numbered, Present
<1>2. mailbox \in MailboxStates
  BY <1>1 DEF MailboxStates
<1>3. after = [before EXCEPT ![box] = mailbox]
  <2>1. [before[box] EXCEPT !.msgs[uid] = message] = mailbox
    BY <1>1 DEF MailboxStates
  <2>2. after = [before EXCEPT ![box] = [before[box] EXCEPT !.msgs[uid] = message]]
    BY <1>1 DEF Servers, MailboxStates
  <2>3. QED
    BY <2>1, <2>2, Zenon
<1> HIDE DEF mailbox
<1>4. after \in Servers /\ Changes(before, after, box, mailbox)
  BY <1>1, <1>2, <1>3 DEF Servers, Changes
<1>5. BoxContinues(before[box], mailbox)
  BY <1>1 DEF BoxContinues, Reflagged, MailboxStates, mailbox
<1>6. \A other \in UidsIn(after, box) : other < after[box].next
  <2>1. after[box] = mailbox
    BY <1>4 DEF Changes
  <2>2. ASSUME NEW other \in Uids, mailbox.msgs[other] # NoMessage
        PROVE  other < mailbox.next
    BY <1>1, <2>2 DEF mailbox, UidsIn, Present, MailboxStates
  <2>3. QED
    BY <2>1, <2>2 DEF UidsIn, Present
<1>7. WellNumbered(after) /\ Continues(before, after)
  BY <1>4, <1>5, <1>6, OneBoxContinues DEF Changes
<1>8. QED
  BY <1>4, <1>7 DEF mailbox

LEMMA Untouched ==
  ASSUME NEW state, WellNumbered(state)
  PROVE  Continues(state, state)
<1>1. ASSUME NEW box \in Mailboxes PROVE BoxContinues(state[box], state[box])
  BY MessageTyped DEF WellNumbered, BoxContinues, Reflagged, MailboxStates
<1>2. QED
  BY <1>1 DEF Continues

LEMMA ContinuesTwice ==
  ASSUME NEW first, WellNumbered(first), NEW second, WellNumbered(second),
         NEW third, WellNumbered(third),
         Continues(first, second), Continues(second, third)
  PROVE  Continues(first, third)
<1>1. ASSUME NEW box \in Mailboxes PROVE BoxContinues(first[box], third[box])
  <2>1. /\ first[box] \in MailboxStates /\ second[box] \in MailboxStates
        /\ third[box] \in MailboxStates
    BY MessageTyped DEF WellNumbered
  <2>2. BoxContinues(first[box], second[box]) /\ BoxContinues(second[box], third[box])
    BY DEF Continues
  <2>3. QED
    BY <2>1, <2>2 DEF BoxContinues, Reflagged, MailboxStates, Uids
<1>2. QED
  BY <1>1 DEF Continues

LEMMA SetFlagContinues ==
  ASSUME NEW before, WellNumbered(before), NEW box \in Mailboxes, NEW uid,
         NEW flag \in {"seen", "flagged", "deleted"}, NEW value \in BOOLEAN,
         flag = "deleted" => value
  PROVE  /\ WellNumbered(SetFlag(before, box, uid, flag, value))
         /\ Continues(before, SetFlag(before, box, uid, flag, value))
<1> DEFINE message == [before[box].msgs[uid] EXCEPT ![flag] = value]
<1>1. CASE Present(before, box, uid)
  <2>1. before[box].msgs[uid] \in Messages
    BY <1>1, MessageTyped DEF WellNumbered
  <2>2. message \in Messages /\ Reflagged(before[box].msgs[uid], message)
    BY <1>1, <2>1 DEF Messages, Reflagged, Present
  <2>3. SetFlag(before, box, uid, flag, value) = [before EXCEPT ![box].msgs[uid] = message]
    BY <1>1 DEF SetFlag
  <2> DEFINE after == SetFlag(before, box, uid, flag, value)
  <2> HIDE DEF message, after
  <2>4. /\ message \in Messages \union {NoMessage}
        /\ after = [before EXCEPT ![box].msgs[uid] = message]
    BY <2>2, <2>3 DEF after
  <2>5. WellNumbered(after) /\ Continues(before, after)
    BY <1>1, <2>2, <2>4, ReplaceEffect
  <2>6. QED
    BY <2>5 DEF after
<1>2. QED
  BY <1>1, Untouched DEF SetFlag

LEMMA RemoveContinues ==
  ASSUME NEW before, WellNumbered(before), NEW box \in Mailboxes, NEW uid,
         Present(before, box, uid)
  PROVE  /\ WellNumbered(Remove(before, box, uid))
         /\ Continues(before, Remove(before, box, uid))
  BY ReplaceEffect DEF Remove

LEMMA ExpungeContinues ==
  ASSUME NEW before, WellNumbered(before), NEW box \in Mailboxes, NEW uid
  PROVE  /\ WellNumbered(Expunge(before, box, uid))
         /\ Continues(before, Expunge(before, box, uid))
  BY RemoveContinues, Untouched DEF Expunge

LEMMA CopyContinues ==
  ASSUME NEW before, WellNumbered(before), NEW box \in Mailboxes, NEW uid,
         NEW target \in Mailboxes, HasRoom(before, target)
  PROVE  /\ WellNumbered(Copy(before, box, uid, target))
         /\ Continues(before, Copy(before, box, uid, target))
<1>1. CASE Present(before, box, uid)
  <2>1. before[box].msgs[uid] \in Messages
    BY <1>1, MessageTyped DEF WellNumbered
  <2>2. QED
    BY <1>1, <2>1, DepositEffect DEF Copy
<1>2. QED
  BY <1>1, Untouched DEF Copy

\* A message that is there stays where it is while another one comes in.
LEMMA CopyKeepsSource ==
  ASSUME NEW before, WellNumbered(before), NEW box \in Mailboxes, NEW uid,
         NEW target \in Mailboxes, HasRoom(before, target), Present(before, box, uid)
  PROVE  /\ Present(Copy(before, box, uid, target), box, uid)
         /\ Copy(before, box, uid, target)[box].msgs[uid] = before[box].msgs[uid]
<1> DEFINE message == before[box].msgs[uid]
           next == before[target].next
           after == Copy(before, box, uid, target)
<1>1. message \in Messages /\ uid \in Uids /\ message # NoMessage
  BY MessageTyped DEF WellNumbered, Present
<1>2. /\ Changes(before, after, target,
           [validity |-> before[target].validity, next |-> next + 1,
            msgs |-> [before[target].msgs EXCEPT ![next] = message]])
      /\ ~Present(before, target, next)
  BY <1>1, DepositEffect DEF Copy
<1>3. box = target => uid # next
  BY <1>2
<1>4. before[target] \in MailboxStates /\ next \in Uids
  BY MessageTyped DEF WellNumbered, HasRoom
<1>5. after[box].msgs[uid] = message
  <2>1. CASE box = target
    BY <1>1, <1>2, <1>3, <1>4, <2>1 DEF Changes, MailboxStates
  <2>2. CASE box # target
    BY <1>2, <2>2 DEF Changes
  <2>3. QED
    BY <2>1, <2>2
<1>6. QED
  BY <1>1, <1>5 DEF Present

LEMMA UidMoveContinues ==
  ASSUME NEW before, WellNumbered(before), NEW box \in Mailboxes, NEW uid,
         NEW target \in Mailboxes, HasRoom(before, target)
  PROVE  /\ WellNumbered(UidMove(before, box, uid, target))
         /\ Continues(before, UidMove(before, box, uid, target))
<1> DEFINE copied == Copy(before, box, uid, target)
<1>1. CASE Present(before, box, uid)
  <2>1. WellNumbered(copied) /\ Continues(before, copied) /\ Present(copied, box, uid)
    BY <1>1, CopyContinues, CopyKeepsSource
  <2> HIDE DEF copied
  <2>2. WellNumbered(Remove(copied, box, uid)) /\ Continues(copied, Remove(copied, box, uid))
    BY <2>1, RemoveContinues
  <2>3. QED
    BY <1>1, <2>1, <2>2, ContinuesTwice DEF UidMove, copied
<1>2. QED
  BY <1>1, Untouched DEF UidMove

-----------------------------------------------------------------------------
(* Renumbering *)

Rank(state, box, uid) ==
  Cardinality({other \in UidsIn(state, box) : other <= uid})

Renumbered(state, box) ==
  [new \in Uids |->
     IF \E uid \in UidsIn(state, box) : Rank(state, box, uid) = new
     THEN state[box].msgs[CHOOSE uid \in UidsIn(state, box) : Rank(state, box, uid) = new]
     ELSE NoMessage]

LEMMA UidsFinite ==
  ASSUME NEW some \in SUBSET Uids
  PROVE  IsFiniteSet(some) /\ Cardinality(some) \in Nat /\ Cardinality(some) <= MaxUid
<1>1. IsFiniteSet(Uids) /\ Cardinality(Uids) = MaxUid
  BY ServerAssumption, FS_Interval DEF Uids
<1>2. QED
  BY <1>1, FS_Subset, FS_CardinalityType

LEMMA RankOrders ==
  ASSUME NEW state, NEW box, NEW uid \in UidsIn(state, box),
         NEW other \in UidsIn(state, box)
  PROVE  /\ Rank(state, box, uid) \in Uids
         /\ Rank(state, box, uid) <= Cardinality(UidsIn(state, box))
         /\ Rank(state, box, uid) = Rank(state, box, other) => uid = other
<1> DEFINE old == UidsIn(state, box)
           below(x) == {y \in old : y <= x}
<1>1. old \in SUBSET Uids /\ uid \in Nat /\ other \in Nat
  BY DEF UidsIn, Uids
<1>2. /\ below(uid) \in SUBSET old /\ uid \in below(uid)
      /\ below(other) \in SUBSET old /\ other \in below(other)
  BY <1>1
<1>3. \A some \in SUBSET old : IsFiniteSet(some) /\ Cardinality(some) \in Nat
  BY <1>1, UidsFinite
<1>4. \A some \in SUBSET old : Cardinality(some) <= Cardinality(old)
  BY <1>3, FS_Subset
<1>5. Cardinality(below(uid)) # 0
  BY <1>2, <1>3, FS_EmptySet
<1>6. Cardinality(below(uid)) = Cardinality(below(other)) => below(uid) = below(other)
  <2>1. below(uid) \in SUBSET below(other) \/ below(other) \in SUBSET below(uid)
    BY <1>1 DEF Uids, UidsIn
  <2>2. QED
    BY <1>2, <1>3, <2>1, FS_Subset
<1>7. below(uid) = below(other) => uid = other
  BY <1>1, <1>2
<1>8. Cardinality(old) <= MaxUid /\ Cardinality(old) \in Nat
  BY <1>1, UidsFinite
<1> HIDE DEF below
<1>9. /\ Cardinality(below(uid)) \in Uids /\ Cardinality(below(uid)) <= Cardinality(old)
      /\ Cardinality(below(uid)) = Cardinality(below(other)) => uid = other
  BY <1>2, <1>3, <1>4, <1>5, <1>6, <1>7, <1>8, ServerAssumption DEF Uids
<1>10. QED
  BY <1>9 DEF Rank, below

\* Every message has a new UID, and is the only one that has it.
LEMMA RenumberedAt ==
  ASSUME NEW state, NEW box, NEW uid \in UidsIn(state, box)
  PROVE  Renumbered(state, box)[Rank(state, box, uid)] = state[box].msgs[uid]
<1> DEFINE new == Rank(state, box, uid)
           chosen == CHOOSE old \in UidsIn(state, box) : Rank(state, box, old) = new
<1>1. new \in Uids
  BY RankOrders
<1>2. chosen \in UidsIn(state, box) /\ Rank(state, box, chosen) = new
  OBVIOUS
<1>3. chosen = uid
  BY <1>2, RankOrders
<1>4. Renumbered(state, box)[new] = state[box].msgs[chosen]
  BY <1>1, <1>2 DEF Renumbered
<1>5. QED
  BY <1>3, <1>4

LEMMA RenumberEffect ==
  ASSUME NEW before, WellNumbered(before), NEW box \in Mailboxes,
         NEW after, after = Renumber(before, box)
  PROVE  /\ WellNumbered(after) /\ Continues(before, after)
         /\ Changes(before, after, box,
              [validity |-> before[box].validity + 1,
               next |-> Cardinality(UidsIn(before, box)) + 1,
               msgs |-> Renumbered(before, box)])
<1> DEFINE old == UidsIn(before, box)
           mailbox == [validity |-> before[box].validity + 1,
                       next |-> Cardinality(old) + 1, msgs |-> Renumbered(before, box)]
<1>1. before \in Servers /\ before[box] \in MailboxStates
  BY MessageTyped DEF WellNumbered
<1>2. Cardinality(old) \in Nat
  BY UidsFinite DEF UidsIn
<1>3. ASSUME NEW new \in Uids, Renumbered(before, box)[new] # NoMessage
      PROVE  \E uid \in old : Rank(before, box, uid) = new
  BY <1>3 DEF Renumbered
<1>4. Renumbered(before, box) \in [Uids -> Messages \union {NoMessage}]
  <2>1. \A uid \in old : before[box].msgs[uid] \in Messages \union {NoMessage}
    BY <1>1 DEF MailboxStates, UidsIn
  <2>2. QED
    BY <2>1 DEF Renumbered
<1>5. mailbox \in MailboxStates
  BY <1>1, <1>2, <1>4 DEF MailboxStates
<1>6. after = [before EXCEPT ![box] = mailbox]
  BY DEF Renumber, Renumbered, Rank
<1> HIDE DEF mailbox
<1>7. after \in Servers /\ Changes(before, after, box, mailbox)
  BY <1>1, <1>5, <1>6 DEF Servers, Changes
<1>8. BoxContinues(before[box], mailbox)
  BY <1>1 DEF BoxContinues, Reflagged, MailboxStates, mailbox
<1>9. \A uid \in UidsIn(after, box) : uid < after[box].next
  <2>1. after[box] = mailbox
    BY <1>7 DEF Changes
  <2>2. ASSUME NEW new \in Uids, mailbox.msgs[new] # NoMessage PROVE new < mailbox.next
    <3>1. PICK uid \in old : Rank(before, box, uid) = new
      BY <1>3, <2>2 DEF mailbox
    <3>2. new <= Cardinality(old)
      BY <3>1, RankOrders
    <3>3. QED
      BY <1>2, <3>2 DEF mailbox, Uids
  <2>3. QED
    BY <2>1, <2>2 DEF UidsIn, Present
<1>10. WellNumbered(after) /\ Continues(before, after)
  BY <1>7, <1>8, <1>9, OneBoxContinues DEF Changes
<1>11. QED
  BY <1>7, <1>10 DEF mailbox

-----------------------------------------------------------------------------
(* Typing: a process at work has a row with a remote identity and an action *)
(* that the server can carry out, and is at a command of that action.       *)

MovePcs == {"uid_move", "uid_copy", "store_deleted", "expunge_copied"}

CommandPcs == MovePcs \union {"uid_store", "uid_expunge"}

Works(state) ==
  state.pc # "idle" =>
    /\ state.action \in AllActions /\ state.run \in Runs
    /\ state.entry \in Rows /\ state.entry.binding \in Identities
    /\ CommandPath(state.action) # "refused"
    /\ state.pc \in MovePcs => state.action.kind = "move"
    /\ state.pc = "uid_store" => state.action.kind = "flag"
    /\ state.pc = "uid_expunge" => state.action.kind = "expunge"

Typed ==
  /\ TypeOK
  /\ Numbered(server)
  /\ \A m \in Mutators : Works(mutators[m])

\* m goes on as state; the other processes stay as they are.
Becomes(m, state) == mutators' = [mutators EXCEPT ![m] = state]

LEMMA ActionKinds ==
  ASSUME NEW action \in AllActions
  PROVE  \/ action.kind = "move" /\ action.role \in Roles
         \/ action.kind = "expunge" /\ action.confirm \in BOOLEAN
         \/ action.kind = "flag" /\ action.flag \in FlagNames /\ action.value \in BOOLEAN
  BY DEF AllActions

\* Only some of the actions change the mailboxes, the rows and the count of runs.
LEMMA WhoChanges ==
  ASSUME [Next]_vars
  PROVE  /\ setting' = setting
         /\ \/ UNCHANGED server
            \/ ServerEvent
            \/ \E m \in setting.mutators : RemoteStep(m)
         /\ \/ UNCHANGED rows
            \/ \E m \in setting.mutators :
                 WriteLocalState(m) \/ WriteRemoteBinding(m) \/ RemoveRow(m)
         /\ \/ UNCHANGED runs
            \/ \E m \in setting.mutators : Request(m)
         /\ \/ UNCHANGED commanded
            \/ \E m \in setting.mutators : RemoteStep(m)
<1>1. ASSUME NEW m, Request(m)
      PROVE  UNCHANGED <<setting, server, rows, commanded>>
  BY <1>1 DEF Request, Prepare, DryRun
<1>2. ASSUME NEW m, Approve(m) \/ Executed(m) \/ Reconciled(m) \/ Failed(m)
      PROVE  UNCHANGED <<setting, server, rows, runs, commanded>>
  BY <1>2 DEF Approve, Executed, Reconciled, Failed, Audited
<1>3. ASSUME NEW m, Select(m) \/ AuditFails(m) \/ Crash(m)
      PROVE  UNCHANGED <<setting, server, rows, runs, commanded>>
  BY <1>3 DEF Select, AuditFails, Crash
<1>4. ASSUME NEW m, RemoteStep(m)
      PROVE  UNCHANGED <<setting, rows, runs>>
  BY <1>4 DEF RemoteStep, UidMoveStep, UidCopyStep, StoreDeletedStep, ExpungeCopiedStep,
              UidStoreStep, UidExpungeStep, Command
<1>5. ASSUME NEW m, WriteLocalState(m) \/ WriteRemoteBinding(m) \/ RemoveRow(m)
      PROVE  UNCHANGED <<setting, server, runs, commanded>>
  BY <1>5 DEF WriteLocalState, WriteRemoteBinding, RemoveRow, Statement
<1>6. ASSUME PowerLoss \/ UNCHANGED vars
      PROVE  UNCHANGED <<setting, server, rows, runs, commanded>>
  BY <1>6 DEF PowerLoss, vars
<1>7. ASSUME ServerEvent
      PROVE  UNCHANGED <<setting, rows, runs, commanded>>
  BY <1>7 DEF ServerEvent
<1>8. QED
  BY <1>1, <1>2, <1>3, <1>4, <1>5, <1>6, <1>7 DEF Next, Step

LEMMA SettingTyped ==
  ASSUME Typed
  PROVE  /\ setting \in Settings /\ setting.mutators \subseteq Mutators
         /\ setting.actions \subseteq AllActions /\ setting.runs \in 0..MaxRuns
         /\ WellNumbered(server)
  BY MutationAssumption DEF Typed, TypeOK, WellNumbered

LEMMA IdleTyped == Idle \in MutatorStates /\ Works(Idle)
  BY MutationAssumption DEF Idle, MutatorStates, Pcs, Works

\* What a process at work knows of itself.
LEMMA AtWork ==
  ASSUME Typed, NEW m \in Mutators, ~At(m, "idle")
  PROVE  /\ mutators[m] \in MutatorStates
         /\ mutators[m].action \in AllActions /\ mutators[m].run \in Runs
         /\ mutators[m].entry \in Rows /\ mutators[m].entry.id \in Ids
         /\ Binding(m) \in Identities /\ Binding(m).box \in Mailboxes
         /\ CommandPath(mutators[m].action) # "refused"
         /\ mutators[m].action.kind = "move" => Target(m) \in Mailboxes
<1>1. /\ mutators[m] \in MutatorStates
      /\ mutators[m].action \in AllActions /\ mutators[m].run \in Runs
      /\ mutators[m].entry \in Rows /\ mutators[m].entry.binding \in Identities
      /\ CommandPath(mutators[m].action) # "refused"
  BY DEF Typed, TypeOK, Works, At
<1>2. mutators[m].action.kind = "move" => Target(m) \in Mailboxes
  BY <1>1, ActionKinds, MutationAssumption DEF Target
<1>3. mutators[m].entry.id \in Ids /\ Binding(m).box \in Mailboxes
  BY <1>1 DEF Rows, Identities, Binding
<1>4. QED
  BY <1>1, <1>2, <1>3 DEF Binding

LEMMA GotoIs ==
  ASSUME Typed, NEW m \in Mutators, NEW pc \in Pcs, Goto(m, pc)
  PROVE  /\ Becomes(m, [mutators[m] EXCEPT !.pc = pc])
         /\ [mutators[m] EXCEPT !.pc = pc] \in MutatorStates
         /\ [mutators[m] EXCEPT !.pc = pc].pc = pc
         /\ [mutators[m] EXCEPT !.pc = pc].action = mutators[m].action
         /\ [mutators[m] EXCEPT !.pc = pc].entry = mutators[m].entry
         /\ [mutators[m] EXCEPT !.pc = pc].run = mutators[m].run
         /\ [mutators[m] EXCEPT !.pc = pc].session = mutators[m].session
<1>1. mutators[m] \in MutatorStates
  BY DEF Typed, TypeOK
<1>2. QED
  BY <1>1 DEF Goto, Becomes, MutatorStates

LEMMA OpenedIs ==
  ASSUME NEW old \in MutatorStates, NEW pc \in Pcs, NEW current \in Nat
  PROVE  [old EXCEPT !.pc = pc, !.session = current]
           = [pc |-> pc, action |-> old.action, entry |-> old.entry, run |-> old.run,
              session |-> current]
<1>1. PICK new : new = [old EXCEPT !.pc = pc, !.session = current]
  OBVIOUS
<1>2. new = [pc |-> pc, action |-> old.action, entry |-> old.entry, run |-> old.run,
             session |-> current]
  BY <1>1 DEF MutatorStates
<1>3. QED
  BY <1>1, <1>2

\* The processes a step leaves alone, and what it makes of one.
LEMMA BecomesTyped ==
  ASSUME Typed, NEW m \in Mutators, NEW state \in MutatorStates, Works(state),
         Becomes(m, state), setting' = setting
  PROVE  mutators' \in [Mutators -> MutatorStates] /\ \A n \in Mutators : Works(mutators[n])'
<1>1. /\ mutators' \in [Mutators -> MutatorStates] /\ mutators'[m] = state
      /\ \A n \in Mutators \ {m} : mutators'[n] = mutators[n]
  BY DEF Becomes, Typed, TypeOK
<1>2. \A n \in Mutators : Works(mutators'[n])
  BY <1>1 DEF Typed
<1>3. QED
  BY <1>1, <1>2 DEF Works, CommandPath, Supported

(* How a step of m goes on: it begins a run, comes to rest, opens its       *)
(* mailbox, or goes on to another pc with what it has.                      *)
Begins(m) ==
  /\ At(m, "idle") /\ runs < setting.runs
  /\ \E row \in rows, action \in setting.actions :
       /\ CanPrepare(row, action)
       /\ Becomes(m, [pc |-> "approve", action |-> action, entry |-> row,
                      run |-> runs + 1, session |-> 0])

Opens(m) ==
  /\ At(m, "select")
  /\ Becomes(m, [mutators[m] EXCEPT !.pc = CommandPath(mutators[m].action),
                                    !.session = server[Binding(m).box].validity])
  /\ Binding(m).validity = server[Binding(m).box].validity

GoesOn(m) ==
  /\ ~At(m, "idle")
  /\ \E pc \in Pcs :
       /\ Goto(m, pc)
       /\ pc = "store_deleted" => At(m, "uid_copy")
       /\ pc = "expunge_copied" => At(m, "store_deleted")
       /\ pc = "select" => At(m, "approve")
       /\ pc = "remove_entry" => mutators[m].action.kind = "expunge"
       /\ pc \notin {"idle", "approve", "uid_move", "uid_copy", "uid_store", "uid_expunge"}

Walks(m) == UNCHANGED mutators \/ Begins(m) \/ Rest(m) \/ Opens(m) \/ GoesOn(m)

LEMMA WalksTyped ==
  ASSUME Typed, NEW m \in Mutators, Walks(m), setting' = setting
  PROVE  mutators' \in [Mutators -> MutatorStates] /\ \A n \in Mutators : Works(mutators[n])'
<1>0. mutators \in [Mutators -> MutatorStates] /\ \A n \in Mutators : Works(mutators[n])
  BY DEF Typed, TypeOK
<1>1. CASE UNCHANGED mutators
  BY <1>0, <1>1 DEF Works, CommandPath, Supported
<1>2. CASE Begins(m)
  <2>1. PICK row \in rows, action \in setting.actions :
          /\ CanPrepare(row, action)
          /\ Becomes(m, [pc |-> "approve", action |-> action, entry |-> row,
                         run |-> runs + 1, session |-> 0])
    BY <1>2 DEF Begins
  <2>2. /\ row \in Rows /\ action \in AllActions /\ runs + 1 \in Runs
        /\ row.binding \in Identities /\ CommandPath(action) # "refused"
    BY <1>2, <2>1, SettingTyped, MutationAssumption
    DEF Typed, TypeOK, Begins, Runs, CanPrepare, Rows
  <2> DEFINE state == [pc |-> "approve", action |-> action, entry |-> row,
                       run |-> runs + 1, session |-> 0]
  <2>3. state \in MutatorStates /\ Works(state)
    BY <2>2 DEF MutatorStates, Pcs, Works, MovePcs, Runs
  <2> HIDE DEF state
  <2>4. QED
    BY <2>1, <2>3, BecomesTyped DEF state
<1>3. CASE Rest(m)
  BY <1>3, IdleTyped, BecomesTyped DEF Rest, Becomes
<1>4. CASE Opens(m)
  <2> DEFINE current == server[Binding(m).box].validity
             path == CommandPath(mutators[m].action)
             state == [mutators[m] EXCEPT !.pc = path, !.session = current]
  <2>1. /\ mutators[m] \in MutatorStates /\ mutators[m].action \in AllActions
        /\ path # "refused" /\ current \in Nat /\ Works(mutators[m])
    BY <1>0, <1>4, AtWork, SettingTyped, MessageTyped
    DEF Opens, At, WellNumbered, MailboxStates
  <2>2. /\ path \in Pcs
        /\ path \in MovePcs => mutators[m].action.kind = "move"
        /\ path = "uid_store" => mutators[m].action.kind = "flag"
        /\ path = "uid_expunge" => mutators[m].action.kind = "expunge"
    BY <2>1, ActionKinds DEF CommandPath, Pcs, MovePcs
  <2>3. state \in MutatorStates /\ state.pc = path /\ state.action = mutators[m].action
        /\ state.entry = mutators[m].entry /\ state.run = mutators[m].run
    <3>1. state = [pc |-> path, action |-> mutators[m].action, entry |-> mutators[m].entry,
                   run |-> mutators[m].run, session |-> current]
      BY <2>1, <2>2, OpenedIs
    <3> HIDE DEF state, path, current
    <3>2. QED
      BY <2>1, <2>2, <3>1 DEF MutatorStates
  <2>4. Becomes(m, state)
    BY <1>4 DEF Opens
  <2> HIDE DEF state
  <2>5. Works(state)
    BY <1>4, <2>1, <2>2, <2>3 DEF Works, Opens, At
  <2>6. QED
    BY <2>3, <2>4, <2>5, BecomesTyped
<1>5. CASE GoesOn(m)
  <2>1. PICK pc \in Pcs :
          /\ Goto(m, pc)
          /\ pc = "store_deleted" => At(m, "uid_copy")
          /\ pc = "expunge_copied" => At(m, "store_deleted")
          /\ pc \notin {"uid_move", "uid_copy", "uid_store", "uid_expunge"}
    BY <1>5 DEF GoesOn
  <2> DEFINE state == [mutators[m] EXCEPT !.pc = pc]
  <2>2. /\ Becomes(m, state) /\ state \in MutatorStates /\ state.pc = pc
        /\ state.action = mutators[m].action /\ state.entry = mutators[m].entry
        /\ state.run = mutators[m].run
    BY <2>1, GotoIs
  <2> HIDE DEF state
  <2>3. Works(state)
    BY <1>0, <1>5, <2>1, <2>2 DEF Works, GoesOn, At, MovePcs
  <2>4. QED
    BY <2>2, <2>3, BecomesTyped
<1>6. QED
  BY <1>1, <1>2, <1>3, <1>4, <1>5 DEF Walks

LEMMA AuditedIs ==
  ASSUME Typed, NEW m \in Mutators, ~At(m, "idle"), NEW status \in AuditStatuses,
         NEW pc \in {"select", "remove_entry", "local_state", "idle"},
         Audited(m, status, pc), pc = "select" => At(m, "approve"),
         pc = "remove_entry" => mutators[m].action.kind = "expunge"
  PROVE  Walks(m)
<1>1. CASE pc = "idle"
  BY <1>1 DEF Audited, Walks
<1>2. CASE pc # "idle"
  BY <1>2 DEF Audited, Walks, GoesOn, Pcs
<1>3. QED
  BY <1>1, <1>2

LEMMA CommandWalks ==
  ASSUME NEW m \in Mutators, NEW pc \in CommandPcs, NEW possible, NEW effect,
         NEW next \in {"executed", "store_deleted", "expunge_copied"},
         Command(m, pc, possible, effect, next),
         next = "store_deleted" => pc = "uid_copy",
         next = "expunge_copied" => pc = "store_deleted"
  PROVE  Walks(m)
<1>1. ~At(m, "idle") /\ (Goto(m, next) \/ Goto(m, "failed"))
  BY DEF Command, At, CommandPcs, MovePcs
<1>2. QED
  BY <1>1 DEF Walks, GoesOn, Pcs, Command

LEMMA StatementWalks ==
  ASSUME NEW m \in Mutators, NEW pc \in {"local_state", "remote_binding", "remove_entry"},
         NEW possible, NEW effect, NEW next \in {"remote_binding", "reconciled"},
         Statement(m, pc, possible, effect, next)
  PROVE  Walks(m)
  BY DEF Statement, At, Walks, GoesOn, Pcs

LEMMA StepWalks ==
  ASSUME Typed, NEW m \in Mutators, Request(m) \/ Step(m) \/ AuditFails(m) \/ Crash(m)
  PROVE  Walks(m) /\ setting' = setting
<1>1. CASE Request(m)
  <2>1. PICK row \in rows, action \in setting.actions : Prepare(m, row, action)
                                                   \/ DryRun(m, row, action)
    BY <1>1 DEF Request
  <2>2. CASE Prepare(m, row, action)
    BY <2>1, <2>2 DEF Prepare, Walks, Begins, Becomes
  <2>3. CASE DryRun(m, row, action)
    BY <2>3 DEF DryRun, Walks
  <2>4. QED
    BY <2>1, <2>2, <2>3 DEF Prepare, DryRun
<1>2. CASE Approve(m) \/ Executed(m) \/ Reconciled(m) \/ Failed(m)
  BY <1>2, AuditedIs DEF Approve, Executed, Reconciled, Failed, At, Audited, AuditStatuses
<1>3. CASE Select(m)
  <2>1. /\ mutators \in [Mutators -> MutatorStates] /\ At(m, "select")
        /\ ~At(m, "idle")
    BY <1>3 DEF Select, Typed, TypeOK, At
  <2>2. CASE Goto(m, "failed")
    BY <1>3, <2>1, <2>2 DEF Walks, GoesOn, Pcs, Select
  <2> DEFINE current == server[Binding(m).box].validity
             path == CommandPath(mutators[m].action)
  <2>3. CASE VerifyUidvalidity(m, current)
             /\ mutators' = [mutators EXCEPT ![m].pc = path, ![m].session = current]
    <3>1. mutators' = [mutators EXCEPT ![m] =
                         [mutators[m] EXCEPT !.pc = path, !.session = current]]
      BY <2>1, <2>3 DEF MutatorStates
    <3>2. QED
      BY <1>3, <2>1, <2>3, <3>1 DEF Walks, Opens, Becomes, VerifyUidvalidity, Select
  <2>4. QED
    BY <1>3, <2>2, <2>3 DEF Select
<1>4. CASE RemoteStep(m)
  BY <1>4, CommandWalks
  DEF RemoteStep, UidMoveStep, UidCopyStep, StoreDeletedStep, ExpungeCopiedStep,
      UidStoreStep, UidExpungeStep, CommandPcs, MovePcs, Command
<1>5. CASE WriteLocalState(m) \/ WriteRemoteBinding(m) \/ RemoveRow(m)
  BY <1>5, StatementWalks
  DEF WriteLocalState, WriteRemoteBinding, RemoveRow, Statement
<1>6. CASE AuditFails(m) \/ Crash(m)
  BY <1>6 DEF AuditFails, Crash, Walks
<1>7. QED
  BY <1>1, <1>2, <1>3, <1>4, <1>5, <1>6 DEF Step

\* The server as a command of m leaves it.
LEMMA RemoteStepContinues ==
  ASSUME Typed, NEW m \in Mutators, RemoteStep(m)
  PROVE  WellNumbered(server') /\ Continues(server, server')
<1> DEFINE box == Binding(m).box
           uid == Binding(m).uid
<1>1. ~At(m, "idle")
  BY DEF RemoteStep, UidMoveStep, UidCopyStep, StoreDeletedStep, ExpungeCopiedStep,
         UidStoreStep, UidExpungeStep, Command, At
<1>2. /\ box \in Mailboxes /\ mutators[m].action \in AllActions
      /\ mutators[m].action.kind = "move" => Target(m) \in Mailboxes
      /\ Works(mutators[m]) /\ WellNumbered(server)
  BY <1>1, AtWork, SettingTyped DEF Typed
<1> HIDE DEF box, uid
<1>3. CASE UNCHANGED server
  BY <1>2, <1>3, Untouched
<1>4. CASE UidMoveStep(m)
  BY <1>2, <1>3, <1>4, UidMoveContinues
  DEF UidMoveStep, Command, TargetHasRoom, Works, MovePcs, At, box, uid
<1>5. CASE UidCopyStep(m)
  BY <1>2, <1>3, <1>5, CopyContinues
  DEF UidCopyStep, Command, TargetHasRoom, Works, MovePcs, At, box, uid
<1>6. CASE StoreDeletedStep(m)
  BY <1>2, <1>3, <1>6, SetFlagContinues DEF StoreDeletedStep, Command, box, uid
<1>7. CASE ExpungeCopiedStep(m) \/ UidExpungeStep(m)
  BY <1>2, <1>3, <1>7, ExpungeContinues
  DEF ExpungeCopiedStep, UidExpungeStep, Command, box, uid
<1>8. CASE UidStoreStep(m)
  <2>1. mutators[m].action.flag \in {"seen", "flagged"}
        /\ mutators[m].action.value \in BOOLEAN
    BY <1>2, <1>8, ActionKinds DEF UidStoreStep, Command, Works, At, FlagNames
  <2>2. QED
    BY <1>2, <1>3, <1>8, <2>1, SetFlagContinues DEF UidStoreStep, Command, box, uid
<1>9. QED
  BY <1>4, <1>5, <1>6, <1>7, <1>8 DEF RemoteStep

LEMMA ServerEventContinues ==
  ASSUME Typed, ServerEvent
  PROVE  WellNumbered(server') /\ Continues(server, server')
<1>0. WellNumbered(server)
  BY SettingTyped
<1>1. ASSUME NEW box \in Mailboxes, NewUidvalidity(box)
      PROVE  WellNumbered(server') /\ Continues(server, server')
  BY <1>0, <1>1, RenumberEffect DEF NewUidvalidity
<1>2. ASSUME NEW box \in Mailboxes, NEW uid \in UidsIn(server, box),
             NEW target \in Mailboxes, OtherMove(box, uid, target)
      PROVE  WellNumbered(server') /\ Continues(server, server')
  BY <1>0, <1>2, UidMoveContinues DEF OtherMove
<1>3. ASSUME NEW box \in Mailboxes, NEW uid \in UidsIn(server, box),
             OtherExpunge(box, uid)
      PROVE  WellNumbered(server') /\ Continues(server, server')
  BY <1>0, <1>3, RemoveContinues DEF OtherExpunge, UidsIn
<1>4. ASSUME NEW box \in Mailboxes, NEW uid \in UidsIn(server, box),
             NEW flag \in FlagNames, OtherFlag(box, uid, flag)
      PROVE  WellNumbered(server') /\ Continues(server, server')
  <2>1. (~server[box].msgs[uid][flag]) \in BOOLEAN
    OBVIOUS
  <2>2. QED
    BY <1>0, <1>4, <2>1, SetFlagContinues DEF OtherFlag, FlagNames
<1>5. QED
  BY <1>1, <1>2, <1>3, <1>4 DEF ServerEvent

LEMMA ServerContinues ==
  ASSUME Typed, [Next]_vars
  PROVE  WellNumbered(server') /\ Continues(server, server')
<1>1. CASE UNCHANGED server
  BY <1>1, SettingTyped, Untouched
<1>2. CASE \E m \in setting.mutators : RemoteStep(m)
  BY <1>2, SettingTyped, RemoteStepContinues
<1>3. CASE ServerEvent
  BY <1>3, ServerEventContinues
<1>4. QED
  BY <1>1, <1>2, <1>3, WhoChanges

LEMMA AuditGrows ==
  ASSUME audit \in Seq(AuditRecords), synced \in 0..Len(audit),
         NEW record \in AuditRecords, audit' = Append(audit, record)
  PROVE  /\ audit' \in Seq(AuditRecords) /\ Len(audit') = Len(audit) + 1
         /\ synced \in 0..Len(audit') /\ Len(audit') \in 0..Len(audit')
         /\ audit'[Len(audit')] = record
         /\ \A i \in 1..Len(audit) : audit'[i] = audit[i]
  OBVIOUS

LEMMA AuditTyped ==
  ASSUME Typed, [Next]_vars
  PROVE  audit' \in Seq(AuditRecords) /\ synced' \in 0..Len(audit')
<1>0. audit \in Seq(AuditRecords) /\ synced \in 0..Len(audit)
  BY DEF Typed, TypeOK
<1>1. ASSUME NEW handle \in Ids, NEW run \in Runs, NEW status \in AuditStatuses,
             Record(handle, run, status)
      PROVE  audit' \in Seq(AuditRecords) /\ synced' \in 0..Len(audit')
  BY <1>0, <1>1, AuditGrows DEF Record, AuditRecords
<1>2. ASSUME NEW m \in Mutators, AuditFails(m)
      PROVE  audit' \in Seq(AuditRecords) /\ synced' \in 0..Len(audit')
  <2>1. ~At(m, "idle") /\ StatusAt[mutators[m].pc] \in AuditStatuses
    BY <1>2 DEF AuditFails, StatusAt, At, AuditStatuses
  <2>2. mutators[m].run \in Runs /\ mutators[m].entry.id \in Ids
    BY <2>1, AtWork
  <2>3. CASE UNCHANGED audit
    BY <1>0, <1>2, <2>3 DEF AuditFails
  <2> DEFINE record == [run |-> mutators[m].run, handle |-> mutators[m].entry.id,
                        status |-> StatusAt[mutators[m].pc]]
  <2>4. CASE audit' = Append(audit, record)
    <3>1. record \in AuditRecords
      BY <2>1, <2>2 DEF AuditRecords
    <3> HIDE DEF record
    <3>2. QED
      BY <1>0, <1>2, <2>4, <3>1, AuditGrows DEF AuditFails
  <2>5. QED
    BY <1>2, <2>3, <2>4 DEF AuditFails
<1>3. ASSUME NEW m \in Mutators, NEW status \in AuditStatuses, NEW pc,
             Audited(m, status, pc), ~At(m, "idle")
      PROVE  audit' \in Seq(AuditRecords) /\ synced' \in 0..Len(audit')
  BY <1>1, <1>3, AtWork DEF Audited
<1>4. ASSUME NEW m \in Mutators, Step(m)
      PROVE  audit' \in Seq(AuditRecords) /\ synced' \in 0..Len(audit')
  <2>1. CASE Approve(m) \/ Executed(m) \/ Reconciled(m) \/ Failed(m)
    BY <1>3, <2>1 DEF Approve, Executed, Reconciled, Failed, At, AuditStatuses
  <2>2. CASE UNCHANGED <<audit, synced>>
    BY <1>0, <2>2
  <2>3. QED
    BY <1>4, <2>1, <2>2
    DEF Step, Select, RemoteStep, UidMoveStep, UidCopyStep, StoreDeletedStep,
        ExpungeCopiedStep, UidStoreStep, UidExpungeStep, Command, WriteLocalState,
        WriteRemoteBinding, RemoveRow, Statement
<1>5. ASSUME NEW m \in Mutators, Request(m)
      PROVE  audit' \in Seq(AuditRecords) /\ synced' \in 0..Len(audit')
  <2>1. PICK row \in rows, action \in setting.actions : Prepare(m, row, action)
                                                   \/ DryRun(m, row, action)
    BY <1>5 DEF Request
  <2>2. row.id \in Ids
    BY DEF Typed, TypeOK, Rows
  <2>3. DryRun(m, row, action) => runs + 1 \in Runs
    BY SettingTyped, MutationAssumption DEF DryRun, Typed, TypeOK, Runs
  <2>4. QED
    BY <1>0, <1>1, <2>1, <2>2, <2>3 DEF Prepare, DryRun, AuditStatuses
<1>6. CASE PowerLoss
  <2>1. PICK n \in synced..Len(audit) : audit' = SubSeq(audit, 1, n)
    BY <1>6 DEF PowerLoss
  <2>2. audit' \in Seq(AuditRecords) /\ Len(audit') = n
    BY <1>0, <2>1
  <2>3. QED
    BY <1>0, <1>6, <2>1, <2>2 DEF PowerLoss
<1>7. CASE UNCHANGED <<audit, synced>>
  BY <1>0, <1>7
<1>8. QED
  BY <1>2, <1>4, <1>5, <1>6, <1>7, SettingTyped DEF Next, ServerEvent, Crash, vars

LEMMA RowsTyped ==
  ASSUME Typed, [Next]_vars
  PROVE  rows' \subseteq Rows
<1>0. rows \subseteq Rows
  BY DEF Typed, TypeOK
<1>1. CASE UNCHANGED rows
  BY <1>0, <1>1
<1>2. ASSUME NEW m \in Mutators, WriteLocalState(m) PROVE rows' \subseteq Rows
  <2> DEFINE entry == mutators[m].entry
             read == UpdatedFlag(m, "seen", entry.read)
             starred == UpdatedFlag(m, "flagged", entry.starred)
  <2>1. ~At(m, "idle")
    BY <1>2 DEF WriteLocalState, Statement, At
  <2>2. entry \in Rows /\ mutators[m].action \in AllActions
    BY <2>1, AtWork
  <2>3. /\ ReconciledRole(m) \in Roles /\ read \in BOOLEAN /\ starred \in BOOLEAN
    BY <2>2, ActionKinds DEF ReconciledRole, UpdatedFlag, Rows
  <2>4. rows' = rows \/ rows' = UpdateLocalState(rows, entry.id, ReconciledRole(m),
                                                read, starred)
    BY <1>2 DEF WriteLocalState, Statement
  <2> HIDE DEF read, starred, entry
  <2>5. \A row \in Rows : [row EXCEPT !.role = ReconciledRole(m), !.read = read,
                                       !.starred = starred] \in Rows
    BY <2>3 DEF Rows
  <2>6. QED
    BY ZenonT(60), <1>0, <2>4, <2>5 DEF UpdateLocalState
<1>3. ASSUME NEW m \in Mutators, WriteRemoteBinding(m) PROVE rows' \subseteq Rows
  <2>1. ~At(m, "idle")
    BY <1>3 DEF WriteRemoteBinding, Statement, At
  <2>2. ReconciledBinding(m) \in Identities \union {NoBinding}
    BY <2>1, AtWork DEF ReconciledBinding, Binding
  <2>3. rows' = rows \/ rows' = UpdateRemoteBinding(rows, mutators[m].entry.id,
                                                   ReconciledBinding(m))
    BY <1>3 DEF WriteRemoteBinding, Statement
  <2>4. \A row \in Rows : [row EXCEPT !.binding = ReconciledBinding(m)] \in Rows
    BY <2>2 DEF Rows
  <2>5. QED
    BY <1>0, <2>3, <2>4 DEF UpdateRemoteBinding
<1>4. ASSUME NEW m \in Mutators, RemoveRow(m) PROVE rows' \subseteq Rows
  BY <1>0, <1>4 DEF RemoveRow, Statement, RemoveEntry
<1>5. QED
  BY <1>1, <1>2, <1>3, <1>4, SettingTyped, WhoChanges

LEMMA RunsTyped ==
  ASSUME Typed, [Next]_vars
  PROVE  runs' \in 0..MaxRuns /\ commanded' \subseteq Runs
<1>0. runs \in 0..MaxRuns /\ commanded \subseteq Runs
  BY DEF Typed, TypeOK
<1>1. ASSUME NEW m \in Mutators, RemoteStep(m)
      PROVE  runs' \in 0..MaxRuns /\ commanded' \subseteq Runs
  <2>1. /\ ~At(m, "idle") /\ UNCHANGED runs
        /\ commanded' = commanded \union {mutators[m].run}
    BY <1>1 DEF RemoteStep, UidMoveStep, UidCopyStep, StoreDeletedStep, ExpungeCopiedStep,
                UidStoreStep, UidExpungeStep, Command, At
  <2>2. QED
    BY <1>0, <2>1, AtWork
<1>2. ASSUME NEW m \in Mutators, Request(m)
      PROVE  runs' \in 0..MaxRuns /\ commanded' \subseteq Runs
  <2>1. /\ runs < setting.runs /\ runs' = runs + 1 /\ UNCHANGED commanded
    BY <1>2 DEF Request, Prepare, DryRun
  <2>2. QED
    BY <1>0, <2>1, SettingTyped, MutationAssumption
<1>3. CASE UNCHANGED <<runs, commanded>>
  BY <1>0, <1>3
<1>4. QED
  BY <1>1, <1>2, <1>3, SettingTyped
  DEF Next, vars, Step, Approve, Audited, Select, Executed, WriteLocalState,
      WriteRemoteBinding, RemoveRow, Statement, Reconciled, Failed, AuditFails, Crash,
      PowerLoss, ServerEvent

LEMMA RestsTyped ==
  ASSUME Typed, mutators' = [m \in Mutators |-> Idle] \/ UNCHANGED mutators,
         setting' = setting
  PROVE  mutators' \in [Mutators -> MutatorStates] /\ \A n \in Mutators : Works(mutators[n])'
<1>1. CASE UNCHANGED mutators
  BY <1>1 DEF Typed, TypeOK, Works, CommandPath, Supported
<1>2. CASE mutators' = [m \in Mutators |-> Idle]
  BY <1>2, IdleTyped DEF Works, Idle
<1>3. QED
  BY <1>1, <1>2

LEMMA TypedStep == Typed /\ [Next]_vars => Typed'
<1> SUFFICES ASSUME Typed, [Next]_vars PROVE Typed'
  OBVIOUS
<1>1. setting' = setting
      /\ mutators' \in [Mutators -> MutatorStates] /\ \A n \in Mutators : Works(mutators[n])'
  <2>1. ASSUME NEW m \in Mutators, Request(m) \/ Step(m) \/ AuditFails(m) \/ Crash(m)
        PROVE  /\ setting' = setting /\ mutators' \in [Mutators -> MutatorStates]
               /\ \A n \in Mutators : Works(mutators[n])'
    BY <2>1, StepWalks, WalksTyped
  <2>2. CASE PowerLoss \/ ServerEvent \/ UNCHANGED vars
    BY <2>2, RestsTyped DEF PowerLoss, ServerEvent, vars
  <2>3. QED
    BY <2>1, <2>2, SettingTyped DEF Next
<1>2. setting \in Settings
  BY DEF Typed, TypeOK
<1>3. QED
  BY <1>1, <1>2, ServerContinues, AuditTyped, RowsTyped, RunsTyped
  DEF Typed, TypeOK, WellNumbered

\* A row that a sync makes of a message.
LEMMA RowAtTyped ==
  ASSUME WellNumbered(server), NEW role \in Roles, NEW box \in Mailboxes,
         NEW uid \in UidsIn(server, box), NEW part \in Parts
  PROVE  RowAt(role, box, uid, part) \in Rows
<1>1. /\ server[box] \in MailboxStates /\ server[box].msgs[uid] \in Messages
      /\ uid \in Nat
  BY MessageTyped DEF WellNumbered, UidsIn, Uids
<1>2. IdentityAt(box, uid) \in Identities
  BY <1>1 DEF IdentityAt, Identities, MailboxStates
<1>3. QED
  BY <1>1, <1>2 DEF RowAt, Rows, Ids, IngestId, Contents, Messages

LEMMA InitialRow ==
  ASSUME Init, NEW row \in rows
  PROVE  \E role \in Roles, box \in Mailboxes, part \in Parts :
           \E uid \in UidsIn(server, box) : row = RowAt(role, box, uid, part)
<1> DEFINE stored == setting.stored
<1>1. /\ stored.roles \subseteq Roles /\ stored.part \in Parts
      /\ stored.views \subseteq Mailboxes
      /\ stored.views # {} => "archive" \in Roles
      /\ \A role \in Roles : Folder[role] \in Mailboxes
  BY MutationAssumption DEF Init
<1>2. \E place \in PlacesOf(stored) : row \in RowsOf(place[1], place[2], stored.part)
  BY DEF Init
<1>3. \A place \in PlacesOf(stored) : place[1] \in Roles /\ place[2] \in Mailboxes
  BY <1>1 DEF PlacesOf
<1>4. \E role \in Roles, box \in Mailboxes : row \in RowsOf(role, box, stored.part)
  BY <1>2, <1>3
<1>5. QED
  BY <1>1, <1>4 DEF RowsOf

LEMMA TypedInit == Init => Typed
<1> SUFFICES ASSUME Init PROVE Typed
  OBVIOUS
<1>1. setting \in Settings /\ WellNumbered(server)
  BY MutationAssumption DEF Init, WellNumbered
<1>2. rows \subseteq Rows
  BY <1>1, InitialRow, RowAtTyped
<1>3. mutators \in [Mutators -> MutatorStates] /\ \A m \in Mutators : Works(mutators[m])
  BY IdleTyped DEF Init
<1>4. audit \in Seq(AuditRecords) /\ synced \in 0..Len(audit)
  BY DEF Init
<1>5. runs \in 0..MaxRuns /\ commanded \subseteq Runs
  BY MutationAssumption DEF Init
<1>6. QED
  BY <1>1, <1>2, <1>3, <1>4, <1>5 DEF Typed, TypeOK, WellNumbered

(* The variables keep their types, a process at work has a row with a       *)
(* remote identity, and every mailbox hands out its UIDs in order.          *)
THEOREM TypeCorrect == Spec => []TypeOK
<1>1. Typed => TypeOK
  BY DEF Typed
<1>2. QED
  BY <1>1, TypedInit, TypedStep, PTL DEF Spec

-----------------------------------------------------------------------------
(* Write-ahead audit: a process past its approval has its "approved" record *)
(* on disk, and a power loss takes only what is not.                        *)

Approved(run) ==
  \E i \in 1..synced : audit[i].run = run /\ audit[i].status = "approved"

ApprovalInv ==
  /\ \A run \in commanded : Approved(run)
  /\ \A m \in Mutators :
       mutators[m].pc \in {"select"} \union CommandPcs => Approved(mutators[m].run)

LEMMA ApprovalsStay ==
  ASSUME Typed, [Next]_vars, NEW run, Approved(run)
  PROVE  Approved(run)'
<1>0. audit \in Seq(AuditRecords) /\ synced \in 0..Len(audit)
  BY DEF Typed, TypeOK
<1>1. PICK i \in 1..synced : audit[i].run = run /\ audit[i].status = "approved"
  BY DEF Approved
<1>2. ASSUME i \in 1..synced', audit'[i] = audit[i] PROVE Approved(run)'
  BY <1>1, <1>2 DEF Approved
<1>3. CASE UNCHANGED <<audit, synced>>
  BY <1>2, <1>3
<1>4. ASSUME NEW record, audit' = Append(audit, record), synced' \in {synced, Len(audit')}
      PROVE  Approved(run)'
  <2>1. Len(audit') = Len(audit) + 1 /\ audit'[i] = audit[i]
    BY <1>0, <1>4
  <2>2. QED
    BY <1>0, <1>2, <1>4, <2>1
<1>5. CASE PowerLoss
  <2>1. PICK n \in synced..Len(audit) : audit' = SubSeq(audit, 1, n)
    BY <1>5 DEF PowerLoss
  <2>2. audit'[i] = audit[i]
    BY <1>0, <2>1
  <2>3. QED
    BY <1>2, <1>5, <2>2 DEF PowerLoss
<1>6. ASSUME NEW m \in setting.mutators, Request(m) PROVE Approved(run)'
  BY <1>3, <1>4, <1>6 DEF Request, Prepare, DryRun, Record
<1>7. ASSUME NEW m \in setting.mutators, Step(m) \/ AuditFails(m) PROVE Approved(run)'
  <2>1. ASSUME NEW status, NEW pc, Audited(m, status, pc) PROVE Approved(run)'
    BY <1>4, <2>1 DEF Audited, Record
  <2>2. CASE Approve(m) \/ Executed(m) \/ Reconciled(m) \/ Failed(m)
    BY <2>1, <2>2 DEF Approve, Executed, Reconciled, Failed
  <2>3. CASE AuditFails(m)
    BY <1>3, <1>4, <2>3 DEF AuditFails
  <2>4. QED
    BY <1>3, <1>7, <2>2, <2>3
    DEF Step, Select, RemoteStep, UidMoveStep, UidCopyStep, StoreDeletedStep,
        ExpungeCopiedStep, UidStoreStep, UidExpungeStep, Command, WriteLocalState,
        WriteRemoteBinding, RemoveRow, Statement
<1>8. QED
  BY <1>3, <1>5, <1>6, <1>7 DEF Next, ServerEvent, Crash, vars

\* The processes that a step leaves alone, in the same words for every step.
LEMMA OthersStay ==
  ASSUME Typed, NEW m \in Mutators, Walks(m), NEW n \in Mutators \ {m}
  PROVE  mutators'[n] = mutators[n]
  BY DEF Walks, Begins, Opens, GoesOn, Rest, Goto, Becomes, Typed, TypeOK

\* What a step makes of the process that takes it.
LEMMA WalksTo ==
  ASSUME Typed, NEW m \in Mutators, Walks(m), mutators'[m] # mutators[m]
  PROVE  \/ mutators'[m] = Idle
         \/ /\ mutators'[m].pc = "approve" /\ mutators'[m].entry \in rows
            /\ mutators'[m].entry.binding # NoBinding
            /\ mutators'[m].action \in setting.actions
         \/ /\ ~At(m, "idle")
            /\ mutators'[m].action = mutators[m].action
            /\ mutators'[m].entry = mutators[m].entry
            /\ mutators'[m].run = mutators[m].run
            /\ \/ /\ At(m, "select") /\ mutators'[m].session = Binding(m).validity
                  /\ Binding(m).validity = server[Binding(m).box].validity
                  /\ mutators'[m].pc = CommandPath(mutators[m].action)
               \/ /\ mutators'[m].session = mutators[m].session
                  /\ mutators'[m].pc = "store_deleted" => At(m, "uid_copy")
                  /\ mutators'[m].pc = "expunge_copied" => At(m, "store_deleted")
                  /\ mutators'[m].pc = "select" => At(m, "approve")
                  /\ mutators'[m].pc = "remove_entry" =>
                       mutators[m].action.kind = "expunge"
                  /\ mutators'[m].pc \notin {"idle", "approve", "uid_move", "uid_copy",
                                             "uid_store", "uid_expunge"}
<1>0. mutators \in [Mutators -> MutatorStates] /\ mutators[m] \in MutatorStates
  BY DEF Typed, TypeOK
<1>1. CASE Begins(m)
  BY <1>0, <1>1 DEF Begins, Becomes, CanPrepare
<1>2. CASE Rest(m)
  BY <1>0, <1>2 DEF Rest
<1>3. CASE Opens(m)
  <2>1. ~At(m, "idle") /\ Binding(m).validity = server[Binding(m).box].validity
        /\ At(m, "select")
    BY <1>3 DEF Opens, At
  <2>2. CommandPath(mutators[m].action) \in Pcs
    BY <2>1, AtWork, ActionKinds DEF CommandPath, Pcs
  <2>3. Binding(m).validity \in Nat
    BY <2>1, AtWork DEF Identities
  <2>4. mutators'[m] = [pc |-> CommandPath(mutators[m].action),
                        action |-> mutators[m].action, entry |-> mutators[m].entry,
                        run |-> mutators[m].run, session |-> Binding(m).validity]
    BY ZenonT(60), <1>0, <1>3, <2>1, <2>2, <2>3, OpenedIs DEF Opens, Becomes
  <2>5. QED
    BY <2>1, <2>4
<1>4. CASE GoesOn(m)
  <2>1. PICK pc \in Pcs :
          /\ Goto(m, pc)
          /\ pc = "store_deleted" => At(m, "uid_copy")
          /\ pc = "expunge_copied" => At(m, "store_deleted")
          /\ pc = "select" => At(m, "approve")
          /\ pc = "remove_entry" => mutators[m].action.kind = "expunge"
          /\ pc \notin {"idle", "approve", "uid_move", "uid_copy", "uid_store", "uid_expunge"}
    BY <1>4 DEF GoesOn
  <2>2. /\ mutators'[m] = [mutators[m] EXCEPT !.pc = pc]
    BY <1>0, <2>1, GotoIs DEF Becomes
  <2>3. QED
    BY <1>4, <2>1, <2>2, GotoIs DEF GoesOn
<1>5. QED
  BY <1>1, <1>2, <1>3, <1>4 DEF Walks

\* How any step changes any process.
LEMMA NextWalks ==
  ASSUME Typed, [Next]_vars, NEW n \in Mutators
  PROVE  \/ mutators'[n] = mutators[n]
         \/ mutators'[n] = Idle
         \/ n \in setting.mutators /\ Walks(n)
<1>1. ASSUME NEW m \in setting.mutators,
             Request(m) \/ Step(m) \/ AuditFails(m) \/ Crash(m)
      PROVE  mutators'[n] = mutators[n] \/ (n \in setting.mutators /\ Walks(n))
  BY <1>1, SettingTyped, StepWalks, OthersStay
<1>2. CASE PowerLoss \/ ServerEvent \/ UNCHANGED vars
  BY <1>2 DEF PowerLoss, ServerEvent, vars
<1>3. QED
  BY <1>1, <1>2 DEF Next

LEMMA WhoWalks ==
  ASSUME Typed, [Next]_vars, NEW n \in Mutators,
         mutators'[n] # mutators[n], mutators'[n] # Idle
  PROVE  n \in setting.mutators /\ (Request(n) \/ Step(n) \/ AuditFails(n) \/ Crash(n))
<1>1. ASSUME NEW m \in setting.mutators, m # n,
             Request(m) \/ Step(m) \/ AuditFails(m) \/ Crash(m)
      PROVE  FALSE
  BY <1>1, SettingTyped, StepWalks, OthersStay
<1>2. QED
  BY <1>1 DEF Next, PowerLoss, ServerEvent, vars

LEMMA ApprovalStep == Typed /\ ApprovalInv /\ [Next]_vars => ApprovalInv'
<1> SUFFICES ASSUME Typed, ApprovalInv, [Next]_vars PROVE ApprovalInv'
  OBVIOUS
<1>1. ASSUME NEW run \in commanded' PROVE Approved(run)'
  <2>1. UNCHANGED commanded \/ \E m \in setting.mutators : RemoteStep(m)
    BY WhoChanges
  <2>2. ASSUME NEW m \in Mutators, RemoteStep(m)
        PROVE  /\ mutators[m].pc \in CommandPcs
               /\ commanded' = commanded \union {mutators[m].run}
    BY <2>2 DEF RemoteStep, UidMoveStep, UidCopyStep, StoreDeletedStep, ExpungeCopiedStep,
                UidStoreStep, UidExpungeStep, Command, At, CommandPcs, MovePcs
  <2>3. Approved(run)
    BY <1>1, <2>1, <2>2, SettingTyped DEF ApprovalInv
  <2>4. QED
    BY <2>3, ApprovalsStay
<1>2. ASSUME NEW m \in Mutators, mutators'[m].pc \in {"select"} \union CommandPcs
      PROVE  Approved(mutators[m].run)'
  <2>1. CASE mutators[m].pc \in {"select"} \union CommandPcs
             /\ mutators'[m].run = mutators[m].run
    BY <2>1, ApprovalsStay DEF ApprovalInv, Approved
  <2>2. CASE At(m, "approve") /\ mutators'[m].pc = "select"
             /\ mutators'[m].run = mutators[m].run
    <3>1. m \in setting.mutators /\ (Request(m) \/ Step(m) \/ AuditFails(m) \/ Crash(m))
      BY <2>2, WhoWalks DEF At, Idle
    <3>2. Approve(m)
      BY <2>2, <3>1
      DEF Request, Prepare, DryRun, Step, Select, RemoteStep, UidMoveStep, UidCopyStep,
          StoreDeletedStep, ExpungeCopiedStep, UidStoreStep, UidExpungeStep, Command,
          Executed, WriteLocalState, WriteRemoteBinding, RemoveRow, Statement, Reconciled,
          Failed, AuditFails, Crash, Rest, Typed, TypeOK, At, Idle
    <3> DEFINE record == [run |-> mutators[m].run, handle |-> mutators[m].entry.id,
                          status |-> "approved"]
    <3>3. audit' = Append(audit, record) /\ synced' = Len(audit')
      BY <3>2 DEF Approve, Audited, Record
    <3>4. record \in AuditRecords
      BY <2>2, AtWork DEF At, AuditRecords, AuditStatuses
    <3>5. audit \in Seq(AuditRecords) /\ synced \in 0..Len(audit)
      BY DEF Typed, TypeOK
    <3> HIDE DEF record
    <3>6. Len(audit') \in 1..synced' /\ audit'[Len(audit')] = record
      BY <3>3, <3>4, <3>5, AuditGrows
    <3>7. QED
      BY <2>2, <3>6 DEF Approved, record
  <2>3. QED
    <3>1. CASE mutators'[m] = mutators[m] \/ mutators'[m] = Idle
      BY <1>2, <2>1, <3>1 DEF Idle, CommandPcs, MovePcs
    <3>2. CASE mutators'[m] # mutators[m] /\ Walks(m)
      BY <1>2, <2>1, <2>2, <3>2, WalksTo DEF Idle, CommandPcs, MovePcs, At
    <3>3. QED
      BY <3>1, <3>2, NextWalks
<1>3. QED
  BY <1>1, <1>2 DEF ApprovalInv

(* Write-ahead audit: a run has sent a command to the server only when its  *)
(* "approved" record is on disk for good (run_prepared_mutation).           *)
THEOREM AuditIsWrittenAhead == Spec => []ApprovedOnDisk
<1>1. Init => ApprovalInv
  BY DEF Init, ApprovalInv, Idle, CommandPcs, MovePcs
<1>2. ApprovalInv => ApprovedOnDisk
  BY DEF ApprovalInv, Approved, ApprovedOnDisk
<1>3. QED
  BY <1>1, <1>2, TypedInit, TypedStep, ApprovalStep, PTL DEF Spec

-----------------------------------------------------------------------------
(* What a handle denotes: an identity stored for a message is of an older   *)
(* UIDVALIDITY, or its UID is that message or nothing any more.             *)

Denotes(state, identity, mail) ==
  LET mailbox == state[identity.box] IN
  /\ identity.validity <= mailbox.validity
  /\ identity.validity = mailbox.validity =>
       /\ identity.uid < mailbox.next
       /\ Present(state, identity.box, identity.uid) =>
            mailbox.msgs[identity.uid].mail = mail

RowTrue(state, row) ==
  /\ row.content = row.id.content
  /\ row.binding # NoBinding => Denotes(state, row.binding, row.content.mail)

\* A process at work holds a true row, and has its mailbox open at the UIDVALIDITY.
HoldsTrueRow(state, m) ==
  ~At(m, "idle") =>
    /\ RowTrue(state, mutators[m].entry)
    /\ mutators[m].pc \in CommandPcs => mutators[m].session = Binding(m).validity

HandlesInv ==
  /\ \A row \in rows : RowTrue(server, row)
  /\ \A m \in Mutators : HoldsTrueRow(server, m)

LEMMA DenotesStays ==
  ASSUME NEW before, WellNumbered(before), NEW after, WellNumbered(after),
         Continues(before, after), NEW identity \in Identities, NEW mail,
         Denotes(before, identity, mail)
  PROVE  Denotes(after, identity, mail)
<1> DEFINE box == identity.box
<1>1. /\ box \in Mailboxes /\ identity.validity \in Nat /\ identity.uid \in Nat
      /\ before[box] \in MailboxStates /\ after[box] \in MailboxStates
      /\ BoxContinues(before[box], after[box])
  BY MessageTyped DEF Identities, WellNumbered, Continues
<1>2. /\ before[box].validity \in Nat /\ after[box].validity \in Nat
      /\ before[box].next \in Nat /\ after[box].next \in Nat
  BY <1>1 DEF MailboxStates
<1>3. CASE before[box].validity < after[box].validity
  BY <1>1, <1>2, <1>3 DEF Denotes
<1>4. CASE before[box].validity >= after[box].validity
  <2>1. /\ before[box].validity = after[box].validity /\ before[box].next <= after[box].next
        /\ \A uid \in Uids :
             uid < before[box].next /\ after[box].msgs[uid] # NoMessage =>
               Reflagged(before[box].msgs[uid], after[box].msgs[uid])
    BY <1>1, <1>2, <1>4 DEF BoxContinues
  <2>2. identity.validity <= after[box].validity
    BY <2>1 DEF Denotes
  <2>3. ASSUME identity.validity = after[box].validity
        PROVE  /\ identity.uid < after[box].next
               /\ Present(after, box, identity.uid) =>
                    after[box].msgs[identity.uid].mail = mail
    <3>1. identity.uid < before[box].next
      BY <2>1, <2>3 DEF Denotes
    <3>2. ASSUME Present(after, box, identity.uid)
          PROVE  after[box].msgs[identity.uid].mail = mail
      <4>1. Reflagged(before[box].msgs[identity.uid], after[box].msgs[identity.uid])
        BY <2>1, <3>1, <3>2 DEF Present
      <4>2. Present(before, box, identity.uid)
        BY <3>2, <4>1 DEF Present, Reflagged
      <4>3. QED
        BY <2>1, <2>3, <4>1, <4>2 DEF Denotes, Reflagged
    <3>3. QED
      BY <1>1, <1>2, <2>1, <3>1, <3>2
  <2>4. QED
    BY <2>2, <2>3 DEF Denotes
<1>5. QED
  BY <1>2, <1>3, <1>4

LEMMA RowStaysTrue ==
  ASSUME NEW before, WellNumbered(before), NEW after, WellNumbered(after),
         Continues(before, after), NEW row \in Rows, RowTrue(before, row)
  PROVE  RowTrue(after, row)
<1>1. row.binding # NoBinding => row.binding \in Identities
  BY DEF Rows
<1>2. QED
  BY <1>1, DenotesStays DEF RowTrue

\* What the statements of a mutation make of the rows is true too.
LEMMA RowsStayTrue ==
  ASSUME Typed, HandlesInv, [Next]_vars, NEW new \in rows'
  PROVE  RowTrue(server, new)
<1>0. rows \subseteq Rows /\ \A row \in rows : RowTrue(server, row)
  BY DEF Typed, TypeOK, HandlesInv
<1>1. CASE UNCHANGED rows
  BY <1>0, <1>1
<1>2. ASSUME NEW m \in Mutators, WriteLocalState(m) PROVE RowTrue(server, new)
  <2> DEFINE role == ReconciledRole(m)
             read == UpdatedFlag(m, "seen", mutators[m].entry.read)
             starred == UpdatedFlag(m, "flagged", mutators[m].entry.starred)
  <2>0. rows' = rows \/ rows' = UpdateLocalState(rows, mutators[m].entry.id, role, read,
                                                starred)
    BY <1>2 DEF WriteLocalState, Statement
  <2> HIDE DEF role, read, starred
  <2>1. CASE new \in rows
    BY <1>0, <2>1
  <2>2. ASSUME NEW row \in rows,
               new = IF row.id = mutators[m].entry.id
                     THEN [row EXCEPT !.role = role, !.read = read, !.starred = starred]
                     ELSE row
        PROVE  RowTrue(server, new)
    <3>1. new.id = row.id /\ new.content = row.content /\ new.binding = row.binding
      BY <1>0, <2>2 DEF Rows
    <3>2. QED
      BY <1>0, <3>1 DEF RowTrue
  <2>3. CASE new \in UpdateLocalState(rows, mutators[m].entry.id, role, read, starred)
    BY <2>2, <2>3 DEF UpdateLocalState
  <2>4. QED
    BY <2>0, <2>1, <2>3
<1>3. ASSUME NEW m \in Mutators, WriteRemoteBinding(m) PROVE RowTrue(server, new)
  <2> DEFINE entry == mutators[m].entry
  <2>1. ~At(m, "idle")
    BY <1>3 DEF WriteRemoteBinding, Statement, At
  <2>2. entry \in Rows /\ RowTrue(server, entry)
    BY <2>1, AtWork DEF HandlesInv, HoldsTrueRow
  <2>3. ReconciledBinding(m) \in {NoBinding, entry.binding}
    BY DEF ReconciledBinding
  <2>4. \/ new \in rows
        \/ \E row \in rows : row.id = entry.id
                           /\ new = [row EXCEPT !.binding = ReconciledBinding(m)]
    BY <1>3 DEF WriteRemoteBinding, Statement, UpdateRemoteBinding
  <2> HIDE DEF entry
  <2>5. CASE new \in rows
    BY <1>0, <2>5
  <2>6. ASSUME NEW row \in rows, row.id = entry.id,
               new = [row EXCEPT !.binding = ReconciledBinding(m)]
        PROVE  RowTrue(server, new)
    <3>1. /\ new.id = row.id /\ new.content = row.content
          /\ new.binding = ReconciledBinding(m)
      BY <1>0, <2>6 DEF Rows
    <3>2. row.content = row.id.content /\ entry.content = entry.id.content
      BY <1>0, <2>2 DEF RowTrue
    <3>3. QED
      BY <2>2, <2>3, <2>6, <3>1, <3>2 DEF RowTrue
  <2>7. QED
    BY <2>4, <2>5, <2>6
<1>4. ASSUME NEW m \in Mutators, RemoveRow(m) PROVE RowTrue(server, new)
  BY <1>0, <1>4 DEF RemoveRow, Statement, RemoveEntry
<1>5. QED
  BY <1>1, <1>2, <1>3, <1>4, SettingTyped, WhoChanges

LEMMA HandlesStep == Typed /\ Typed' /\ HandlesInv /\ [Next]_vars => HandlesInv'
<1> SUFFICES ASSUME Typed, Typed', HandlesInv, [Next]_vars PROVE HandlesInv'
  OBVIOUS
<1>0. WellNumbered(server) /\ WellNumbered(server') /\ Continues(server, server')
  BY SettingTyped, ServerContinues
<1>1. ASSUME NEW row \in rows' PROVE RowTrue(server', row)
  <2>1. RowTrue(server, row) /\ row \in Rows
    BY RowsStayTrue DEF Typed, TypeOK
  <2>2. QED
    BY <1>0, <2>1, RowStaysTrue
<1>2. ASSUME NEW m \in Mutators
      PROVE  mutators'[m].pc # "idle" =>
               /\ RowTrue(server', mutators'[m].entry)
               /\ mutators'[m].pc \in CommandPcs =>
                    mutators'[m].session = mutators'[m].entry.binding.validity
  <2>1. ASSUME mutators'[m].pc # "idle", RowTrue(server, mutators'[m].entry),
               mutators'[m].entry \in Rows
        PROVE  RowTrue(server', mutators'[m].entry)
    BY <1>0, <2>1, RowStaysTrue
  <2>2. CASE mutators'[m] = mutators[m]
    BY <2>1, <2>2, AtWork DEF HandlesInv, HoldsTrueRow, At, Binding
  <2>3. CASE mutators'[m] = Idle
    BY <2>3 DEF Idle
  <2>4. CASE mutators'[m] # mutators[m] /\ Walks(m) /\ mutators'[m].pc = "approve"
             /\ mutators'[m].entry \in rows
    BY <2>1, <2>4 DEF HandlesInv, CommandPcs, MovePcs, Typed, TypeOK
  <2>5. CASE /\ ~At(m, "idle") /\ mutators'[m].entry = mutators[m].entry
             /\ \/ mutators'[m].session = Binding(m).validity
                \/ /\ mutators'[m].session = mutators[m].session
                   /\ mutators'[m].pc = "store_deleted" => At(m, "uid_copy")
                   /\ mutators'[m].pc = "expunge_copied" => At(m, "store_deleted")
                   /\ mutators'[m].pc \notin {"uid_move", "uid_copy", "uid_store",
                                              "uid_expunge"}
    <3>1. RowTrue(server', mutators'[m].entry)
      BY <2>5, AtWork, <1>0, RowStaysTrue DEF HandlesInv, HoldsTrueRow
    <3>2. mutators'[m].pc \in CommandPcs =>
            mutators'[m].session = mutators'[m].entry.binding.validity
      BY <2>5 DEF HandlesInv, HoldsTrueRow, At, Binding, CommandPcs, MovePcs
    <3>3. QED
      BY <3>1, <3>2
  <2>6. QED
    BY <2>2, <2>3, <2>4, <2>5, NextWalks, WalksTo
<1>3. QED
  BY <1>1, <1>2 DEF HandlesInv, HoldsTrueRow, At, Binding

LEMMA HandlesInit == Init => HandlesInv
<1> SUFFICES ASSUME Init PROVE HandlesInv
  OBVIOUS
<1>1. WellNumbered(server)
  BY MutationAssumption DEF Init, WellNumbered
<1>2. ASSUME NEW row \in rows PROVE RowTrue(server, row)
  <2>1. PICK role \in Roles, box \in Mailboxes, part \in Parts :
          \E uid \in UidsIn(server, box) : row = RowAt(role, box, uid, part)
    BY InitialRow
  <2>2. PICK uid \in UidsIn(server, box) : row = RowAt(role, box, uid, part)
    BY <2>1
  <2>3. uid < server[box].next /\ server[box].validity \in Nat
    BY <1>1, MessageTyped DEF WellNumbered, Numbered, MailboxStates
  <2>4. Denotes(server, IdentityAt(box, uid), server[box].msgs[uid].mail)
    BY <2>3 DEF Denotes, IdentityAt
  <2>5. QED
    BY <2>2, <2>4 DEF RowTrue, RowAt, IngestId
<1>3. QED
  BY <1>2 DEF Init, HandlesInv, HoldsTrueRow, At, Idle

-----------------------------------------------------------------------------
(* A command touches the message that the handle denotes, and no other *)

LEMMA DepositTouches ==
  ASSUME NEW before, WellNumbered(before), NEW box \in Mailboxes,
         NEW message \in Messages, HasRoom(before, box)
  PROVE  OnlyTouches(message.mail, before, Deposit(before, box, message))
<1> DEFINE after == Deposit(before, box, message)
           next == before[box].next
<1>1. /\ Changes(before, after, box,
           [validity |-> before[box].validity, next |-> next + 1,
            msgs |-> [before[box].msgs EXCEPT ![next] = message]])
      /\ ~Present(before, box, next)
  BY DepositEffect
<1>2. before[box] \in MailboxStates
  BY MessageTyped DEF WellNumbered
<1> HIDE DEF after
<1>3. ASSUME NEW other \in Mailboxes, NEW uid \in Uids,
             before[other].msgs[uid] # after[other].msgs[uid]
      PROVE  other = box /\ uid = next /\ after[other].msgs[uid] = message
  <2>1. other = box
    BY <1>1, <1>3 DEF Changes
  <2>2. after[box].msgs = [before[box].msgs EXCEPT ![next] = message]
    BY <1>1 DEF Changes
  <2>3. QED
    BY <1>2, <1>3, <2>1, <2>2 DEF MailboxStates
<1>4. OnlyTouches(message.mail, before, after)
  BY <1>1, <1>3 DEF OnlyTouches
<1>5. QED
  BY <1>4 DEF after

LEMMA ReplaceTouches ==
  ASSUME NEW before, WellNumbered(before), NEW box \in Mailboxes, NEW uid,
         Present(before, box, uid), NEW message \in Messages \union {NoMessage},
         message # NoMessage => Reflagged(before[box].msgs[uid], message),
         NEW after, after = [before EXCEPT ![box].msgs[uid] = message]
  PROVE  OnlyTouches(before[box].msgs[uid].mail, before, after)
<1>1. Changes(before, after, box,
        [validity |-> before[box].validity, next |-> before[box].next,
         msgs |-> [before[box].msgs EXCEPT ![uid] = message]])
  BY ReplaceEffect
<1>2. before[box] \in MailboxStates
  BY MessageTyped DEF WellNumbered
<1>3. ASSUME NEW other \in Mailboxes, NEW at \in Uids,
             before[other].msgs[at] # after[other].msgs[at]
      PROVE  other = box /\ at = uid /\ after[other].msgs[at] = message
  <2>1. other = box
    BY <1>1, <1>3 DEF Changes
  <2>2. after[box].msgs = [before[box].msgs EXCEPT ![uid] = message]
    BY <1>1 DEF Changes
  <2>3. QED
    BY <1>2, <1>3, <2>1, <2>2 DEF MailboxStates
<1>4. /\ after[box].msgs[uid] = message
      /\ Present(after, box, uid) => message.mail = before[box].msgs[uid].mail
  <2>1. after[box].msgs = [before[box].msgs EXCEPT ![uid] = message]
    BY <1>1 DEF Changes
  <2>2. after[box].msgs[uid] = message
    BY <1>2, <2>1 DEF MailboxStates, Present
  <2>3. QED
    BY <2>2 DEF Present, Reflagged
<1>5. QED
  BY <1>3, <1>4 DEF OnlyTouches

LEMMA TouchesTwice ==
  ASSUME NEW mail, NEW first, NEW second, NEW third,
         OnlyTouches(mail, first, second), OnlyTouches(mail, second, third)
  PROVE  OnlyTouches(mail, first, third)
  BY DEF OnlyTouches, Present

\* Each command, on a message that is there.
LEMMA SetFlagTouches ==
  ASSUME NEW before, WellNumbered(before), NEW box \in Mailboxes, NEW uid,
         NEW flag \in {"seen", "flagged", "deleted"}, NEW value \in BOOLEAN,
         flag = "deleted" => value, Present(before, box, uid)
  PROVE  OnlyTouches(before[box].msgs[uid].mail, before,
                     SetFlag(before, box, uid, flag, value))
<1> DEFINE message == [before[box].msgs[uid] EXCEPT ![flag] = value]
           after == SetFlag(before, box, uid, flag, value)
<1>1. before[box].msgs[uid] \in Messages
  BY MessageTyped DEF WellNumbered
<1>2. message \in Messages /\ Reflagged(before[box].msgs[uid], message)
  BY <1>1 DEF Messages, Reflagged, Present
<1>3. after = [before EXCEPT ![box].msgs[uid] = message]
  BY DEF SetFlag
<1> HIDE DEF message, after
<1>4. OnlyTouches(before[box].msgs[uid].mail, before, after)
  BY <1>2, <1>3, ReplaceTouches
<1>5. QED
  BY <1>4 DEF after

LEMMA RemoveTouches ==
  ASSUME NEW before, WellNumbered(before), NEW box \in Mailboxes, NEW uid,
         Present(before, box, uid)
  PROVE  OnlyTouches(before[box].msgs[uid].mail, before, Remove(before, box, uid))
  BY ReplaceTouches DEF Remove

LEMMA CopyTouches ==
  ASSUME NEW before, WellNumbered(before), NEW box \in Mailboxes, NEW uid,
         NEW target \in Mailboxes, HasRoom(before, target), Present(before, box, uid)
  PROVE  OnlyTouches(before[box].msgs[uid].mail, before, Copy(before, box, uid, target))
<1>1. before[box].msgs[uid] \in Messages
  BY MessageTyped DEF WellNumbered
<1>2. QED
  BY <1>1, DepositTouches DEF Copy

LEMMA UidMoveTouches ==
  ASSUME NEW before, WellNumbered(before), NEW box \in Mailboxes, NEW uid,
         NEW target \in Mailboxes, HasRoom(before, target), Present(before, box, uid)
  PROVE  OnlyTouches(before[box].msgs[uid].mail, before, UidMove(before, box, uid, target))
<1> DEFINE copied == Copy(before, box, uid, target)
<1>1. WellNumbered(copied) /\ Present(copied, box, uid)
      /\ copied[box].msgs[uid] = before[box].msgs[uid]
  BY CopyContinues, CopyKeepsSource
<1>2. OnlyTouches(before[box].msgs[uid].mail, before, copied)
  BY CopyTouches
<1> HIDE DEF copied
<1>3. OnlyTouches(before[box].msgs[uid].mail, copied, Remove(copied, box, uid))
  BY <1>1, RemoveTouches
<1>4. QED
  BY <1>2, <1>3, TouchesTwice DEF UidMove, copied

\* A step that changes the server has the mailbox of the handle open.
LEMMA RemoteStepIs ==
  ASSUME Typed, HandlesInv, NEW m \in Mutators, RemoteStep(m), server' # server
  PROVE  /\ mutators[m].pc \in CommandPcs /\ ~At(m, "idle")
         /\ Binding(m) = IdentityAt(Binding(m).box, Binding(m).uid)
         /\ Present(server, Binding(m).box, Binding(m).uid)
         /\ server[Binding(m).box].msgs[Binding(m).uid].mail = mutators[m].entry.content.mail
<1>1. /\ mutators[m].pc \in CommandPcs /\ ~At(m, "idle") /\ SessionHolds(m)
      /\ Present(server, Binding(m).box, Binding(m).uid)
  BY DEF RemoteStep, UidMoveStep, UidCopyStep, StoreDeletedStep, ExpungeCopiedStep,
         UidStoreStep, UidExpungeStep, Command, UidMove, Copy, SetFlag, Expunge, At,
         CommandPcs, MovePcs
<1>2. Binding(m) \in Identities /\ mutators[m].entry \in Rows
  BY <1>1, AtWork
<1>3. /\ Denotes(server, Binding(m), mutators[m].entry.content.mail)
      /\ Binding(m).validity = server[Binding(m).box].validity
  BY <1>1, <1>2, MutationAssumption
  DEF HandlesInv, HoldsTrueRow, RowTrue, SessionHolds, Binding
<1>4. Binding(m) = IdentityAt(Binding(m).box, Binding(m).uid)
  BY <1>2, <1>3 DEF IdentityAt, Identities
<1>5. QED
  BY <1>1, <1>3, <1>4 DEF Denotes

LEMMA TouchesDenoted ==
  ASSUME Typed, HandlesInv, NEW m \in Mutators, RemoteStep(m)
  PROVE  OnlyTouches(mutators[m].entry.content.mail, server, server')
<1> DEFINE box == Binding(m).box
           uid == Binding(m).uid
           mail == mutators[m].entry.content.mail
<1>1. CASE UNCHANGED server
  BY <1>1 DEF OnlyTouches
<1>2. CASE server' # server
  <2>1. /\ Present(server, box, uid) /\ server[box].msgs[uid].mail = mail
        /\ ~At(m, "idle")
    BY <1>2, RemoteStepIs
  <2>2. /\ box \in Mailboxes /\ mutators[m].action \in AllActions /\ WellNumbered(server)
        /\ mutators[m].action.kind = "move" => Target(m) \in Mailboxes
        /\ Works(mutators[m])
    BY <2>1, AtWork, SettingTyped DEF Typed
  <2> HIDE DEF box, uid, mail
  <2>3. CASE UidMoveStep(m) \/ UidCopyStep(m)
    <3>1. /\ HasRoom(server, Target(m)) /\ Target(m) \in Mailboxes
          /\ \/ server' = UidMove(server, box, uid, Target(m))
             \/ server' = Copy(server, box, uid, Target(m))
      BY <1>2, <2>2, <2>3
      DEF UidMoveStep, UidCopyStep, Command, TargetHasRoom, Works, MovePcs, At, box, uid
    <3>2. OnlyTouches(mail, server, UidMove(server, box, uid, Target(m)))
          /\ OnlyTouches(mail, server, Copy(server, box, uid, Target(m)))
      BY <2>1, <2>2, <3>1, UidMoveTouches, CopyTouches
    <3>3. QED
      BY <3>1, <3>2 DEF mail
  <2>4. CASE StoreDeletedStep(m)
    BY <1>2, <2>1, <2>2, <2>4, SetFlagTouches DEF StoreDeletedStep, Command, box, uid, mail
  <2>5. CASE ExpungeCopiedStep(m) \/ UidExpungeStep(m)
    <3>1. server' = Remove(server, box, uid)
      BY <1>2, <2>5 DEF ExpungeCopiedStep, UidExpungeStep, Command, Expunge, box, uid
    <3>2. QED
      BY <2>1, <2>2, <3>1, RemoveTouches DEF mail
  <2>6. CASE UidStoreStep(m)
    <3>1. mutators[m].action.flag \in {"seen", "flagged"}
          /\ mutators[m].action.value \in BOOLEAN
      BY <2>2, <2>6, ActionKinds DEF UidStoreStep, Command, Works, At, FlagNames
    <3>2. server' = SetFlag(server, box, uid, mutators[m].action.flag,
                            mutators[m].action.value)
      BY <1>2, <2>6 DEF UidStoreStep, Command, box, uid
    <3>3. QED
      BY <2>1, <2>2, <3>1, <3>2, SetFlagTouches DEF mail
  <2>7. QED
    BY <2>3, <2>4, <2>5, <2>6 DEF RemoteStep
<1>3. QED
  BY <1>1, <1>2

(* What a mutation changes on the server is the message its handle stands   *)
(* for, though the mailbox may have been renumbered or emptied since the    *)
(* sync that stored the UID (verify_uidvalidity).                           *)
THEOREM HandlesDenote == Spec => ActsOnDenotedMessage
<1> DEFINE Inv == Typed /\ HandlesInv
<1>1. Inv /\ [Next]_vars => Inv'
  BY TypedStep, HandlesStep
<1>2. Inv /\ [Next]_vars =>
        [\A m \in Mutators :
           RemoteStep(m) =>
             OnlyTouches(mutators[m].entry.content.mail, server, server')]_vars
  BY TouchesDenoted
<1>3. Init => Inv
  BY TypedInit, HandlesInit
<1>4. QED
  BY <1>1, <1>2, <1>3, PTL DEF Spec, ActsOnDenotedMessage

-----------------------------------------------------------------------------
(* A move keeps the message: when a process is about to mark the original   *)
(* \Deleted, a copy is at a place that no stored identity denotes, where no *)
(* command of any process reaches it.                                       *)

KeptAt(state, box, uid, mail) ==
  /\ Present(state, box, uid)
  /\ ~state[box].msgs[uid].deleted
  /\ state[box].msgs[uid].mail = mail

LEMMA KeptIs ==
  ASSUME NEW state, NEW mail
  PROVE  mail \in Kept(state) <=>
           \E box \in Mailboxes, uid \in Uids : KeptAt(state, box, uid, mail)
<1> DEFINE at == {at \in Mailboxes \X Uids :
                    Present(state, at[1], at[2]) /\ ~state[at[1]].msgs[at[2]].deleted}
<1>1. ASSUME mail \in Kept(state)
      PROVE  \E box \in Mailboxes, uid \in Uids : KeptAt(state, box, uid, mail)
  BY <1>1 DEF Kept, KeptAt
<1>2. ASSUME NEW box \in Mailboxes, NEW uid \in Uids, KeptAt(state, box, uid, mail)
      PROVE  mail \in Kept(state)
  <2>1. <<box, uid>> \in at /\ state[<<box, uid>>[1]].msgs[<<box, uid>>[2]].mail = mail
    BY <1>2 DEF KeptAt
  <2>2. QED
    BY <2>1 DEF Kept
<1>3. QED
  BY <1>1, <1>2

(* Every message but the one at the place stays as it is, in its mailbox    *)
(* with its UIDVALIDITY.                                                    *)
LeavesOthers(before, after, box, uid) ==
  \A other \in Mailboxes :
    /\ after[other].validity = before[other].validity
    /\ \A at \in Uids :
         Present(before, other, at) /\ (other = box => at # uid) =>
           after[other].msgs[at] = before[other].msgs[at]

LEMMA DepositLeaves ==
  ASSUME NEW before, WellNumbered(before), NEW box \in Mailboxes,
         NEW message \in Messages, HasRoom(before, box),
         NEW other, NEW uid
  PROVE  /\ LeavesOthers(before, Deposit(before, box, message), other, uid)
         /\ Deposit(before, box, message)[box].msgs[before[box].next] = message
<1> DEFINE after == Deposit(before, box, message)
           next == before[box].next
<1>1. /\ Changes(before, after, box,
           [validity |-> before[box].validity, next |-> next + 1,
            msgs |-> [before[box].msgs EXCEPT ![next] = message]])
      /\ ~Present(before, box, next)
  BY DepositEffect
<1>2. before[box] \in MailboxStates /\ next \in Uids
  BY MessageTyped DEF WellNumbered, HasRoom
<1> HIDE DEF after
<1>3. after[box].msgs = [before[box].msgs EXCEPT ![next] = message]
      /\ after[box].validity = before[box].validity
  BY <1>1 DEF Changes
<1>4. LeavesOthers(before, after, other, uid) /\ after[box].msgs[next] = message
  BY <1>1, <1>2, <1>3 DEF LeavesOthers, Changes, MailboxStates
<1>5. QED
  BY <1>4 DEF after

LEMMA ReplaceLeaves ==
  ASSUME NEW before, WellNumbered(before), NEW box \in Mailboxes, NEW uid,
         Present(before, box, uid), NEW message \in Messages \union {NoMessage},
         message # NoMessage => Reflagged(before[box].msgs[uid], message),
         NEW after, after = [before EXCEPT ![box].msgs[uid] = message]
  PROVE  LeavesOthers(before, after, box, uid)
<1>1. Changes(before, after, box,
        [validity |-> before[box].validity, next |-> before[box].next,
         msgs |-> [before[box].msgs EXCEPT ![uid] = message]])
  BY ReplaceEffect
<1>2. before[box] \in MailboxStates
  BY MessageTyped DEF WellNumbered
<1>3. after[box].msgs = [before[box].msgs EXCEPT ![uid] = message]
      /\ after[box].validity = before[box].validity
  BY <1>1 DEF Changes
<1>4. QED
  BY <1>1, <1>2, <1>3 DEF LeavesOthers, Changes, MailboxStates

LEMMA SetFlagLeaves ==
  ASSUME NEW before, WellNumbered(before), NEW box \in Mailboxes, NEW uid,
         NEW flag \in {"seen", "flagged", "deleted"}, NEW value \in BOOLEAN,
         flag = "deleted" => value
  PROVE  LeavesOthers(before, SetFlag(before, box, uid, flag, value), box, uid)
<1> DEFINE message == [before[box].msgs[uid] EXCEPT ![flag] = value]
           after == SetFlag(before, box, uid, flag, value)
<1>1. CASE Present(before, box, uid)
  <2>1. before[box].msgs[uid] \in Messages
    BY <1>1, MessageTyped DEF WellNumbered
  <2>2. message \in Messages /\ Reflagged(before[box].msgs[uid], message)
    BY <1>1, <2>1 DEF Messages, Reflagged, Present
  <2>3. after = [before EXCEPT ![box].msgs[uid] = message]
    BY <1>1 DEF SetFlag
  <2> HIDE DEF message, after
  <2>4. LeavesOthers(before, after, box, uid)
    BY <1>1, <2>2, <2>3, ReplaceLeaves
  <2>5. QED
    BY <2>4 DEF after
<1>2. CASE ~Present(before, box, uid)
  BY <1>2 DEF SetFlag, LeavesOthers
<1>3. QED
  BY <1>1, <1>2

LEMMA RemoveLeaves ==
  ASSUME NEW before, WellNumbered(before), NEW box \in Mailboxes, NEW uid,
         Present(before, box, uid)
  PROVE  LeavesOthers(before, Remove(before, box, uid), box, uid)
  BY ReplaceLeaves DEF Remove

LEMMA ExpungeLeaves ==
  ASSUME NEW before, WellNumbered(before), NEW box \in Mailboxes, NEW uid
  PROVE  LeavesOthers(before, Expunge(before, box, uid), box, uid)
<1>1. LeavesOthers(before, before, box, uid)
  BY DEF LeavesOthers
<1>2. QED
  BY <1>1, RemoveLeaves DEF Expunge

LEMMA CopyLeaves ==
  ASSUME NEW before, WellNumbered(before), NEW box \in Mailboxes, NEW uid,
         NEW target \in Mailboxes, HasRoom(before, target)
  PROVE  /\ LeavesOthers(before, Copy(before, box, uid, target), box, uid)
         /\ Present(before, box, uid) =>
              Copy(before, box, uid, target)[target].msgs[before[target].next]
                = before[box].msgs[uid]
<1>1. CASE Present(before, box, uid)
  <2>1. before[box].msgs[uid] \in Messages
    BY <1>1, MessageTyped DEF WellNumbered
  <2>2. QED
    BY <1>1, <2>1, DepositLeaves DEF Copy
<1>2. CASE ~Present(before, box, uid)
  BY <1>2 DEF Copy, LeavesOthers
<1>3. QED
  BY <1>1, <1>2

LEMMA UidMoveLeaves ==
  ASSUME NEW before, WellNumbered(before), NEW box \in Mailboxes, NEW uid,
         NEW target \in Mailboxes, HasRoom(before, target)
  PROVE  /\ LeavesOthers(before, UidMove(before, box, uid, target), box, uid)
         /\ Present(before, box, uid) =>
              UidMove(before, box, uid, target)[target].msgs[before[target].next]
                = before[box].msgs[uid]
<1> DEFINE copied == Copy(before, box, uid, target)
           next == before[target].next
<1>1. CASE Present(before, box, uid)
  <2>1. /\ WellNumbered(copied) /\ Present(copied, box, uid)
        /\ LeavesOthers(before, copied, box, uid)
        /\ copied[target].msgs[next] = before[box].msgs[uid]
    BY <1>1, CopyContinues, CopyKeepsSource, CopyLeaves
  <2>2. /\ next \in Uids /\ before[box].msgs[uid] # NoMessage
        /\ box = target => uid # next
    BY <1>1, MessageTyped DEF HasRoom, Present, WellNumbered, Numbered, UidsIn,
       MailboxStates
  <2> HIDE DEF copied
  <2>3. LeavesOthers(copied, Remove(copied, box, uid), box, uid)
    BY <2>1, RemoveLeaves
  <2>4. LeavesOthers(before, Remove(copied, box, uid), box, uid)
    BY <2>1, <2>3 DEF LeavesOthers, Present
  <2>5. Remove(copied, box, uid)[target].msgs[next] = before[box].msgs[uid]
    BY <2>1, <2>2, <2>3 DEF LeavesOthers, Present
  <2>6. QED
    BY <1>1, <2>4, <2>5 DEF UidMove, copied
<1>2. CASE ~Present(before, box, uid)
  BY <1>2 DEF UidMove, LeavesOthers
<1>3. QED
  BY <1>1, <1>2

LEMMA RemoteStepLeaves ==
  ASSUME Typed, NEW m \in Mutators, RemoteStep(m)
  PROVE  LeavesOthers(server, server', Binding(m).box, Binding(m).uid)
<1> DEFINE box == Binding(m).box
           uid == Binding(m).uid
<1>1. CASE UNCHANGED server
  BY <1>1 DEF LeavesOthers
<1>2. /\ ~At(m, "idle")
      /\ ~UNCHANGED server => mutators[m].pc \in CommandPcs
  BY DEF RemoteStep, UidMoveStep, UidCopyStep, StoreDeletedStep, ExpungeCopiedStep,
         UidStoreStep, UidExpungeStep, Command, At, CommandPcs, MovePcs
<1>3. /\ box \in Mailboxes /\ mutators[m].action \in AllActions /\ WellNumbered(server)
      /\ mutators[m].action.kind = "move" => Target(m) \in Mailboxes
      /\ Works(mutators[m])
  BY <1>2, AtWork, SettingTyped DEF Typed
<1> HIDE DEF box, uid
<1>4. CASE UidMoveStep(m) \/ UidCopyStep(m)
  <2>1. CASE ~UNCHANGED server
    <3>1. /\ HasRoom(server, Target(m)) /\ Target(m) \in Mailboxes
          /\ \/ server' = UidMove(server, box, uid, Target(m))
             \/ server' = Copy(server, box, uid, Target(m))
      BY <1>3, <1>4, <2>1
      DEF UidMoveStep, UidCopyStep, Command, TargetHasRoom, Works, MovePcs, At, box, uid
    <3>2. LeavesOthers(server, UidMove(server, box, uid, Target(m)), box, uid)
          /\ LeavesOthers(server, Copy(server, box, uid, Target(m)), box, uid)
      BY <1>3, <3>1, UidMoveLeaves, CopyLeaves
    <3>3. QED
      BY <3>1, <3>2 DEF box, uid
  <2>2. QED
    BY <1>1, <2>1
<1>5. CASE StoreDeletedStep(m)
  <2>1. LeavesOthers(server, SetFlag(server, box, uid, "deleted", TRUE), box, uid)
    BY <1>3, SetFlagLeaves
  <2>2. QED
    BY <1>1, <1>5, <2>1 DEF StoreDeletedStep, Command, box, uid
<1>6. CASE ExpungeCopiedStep(m) \/ UidExpungeStep(m)
  <2>1. LeavesOthers(server, Expunge(server, box, uid), box, uid)
    BY <1>3, ExpungeLeaves
  <2>2. QED
    BY <1>1, <1>6, <2>1 DEF ExpungeCopiedStep, UidExpungeStep, Command, box, uid
<1>7. CASE UidStoreStep(m)
  <2>1. mutators[m].action.flag \in {"seen", "flagged"}
        /\ mutators[m].action.value \in BOOLEAN
    BY <1>3, <1>7, ActionKinds DEF UidStoreStep, Command, Works, At, FlagNames
  <2>2. LeavesOthers(server, SetFlag(server, box, uid, mutators[m].action.flag,
                                     mutators[m].action.value), box, uid)
    BY <1>3, <2>1, SetFlagLeaves
  <2>3. QED
    BY <1>1, <1>7, <2>2 DEF UidStoreStep, Command, box, uid
<1>8. QED
  BY <1>4, <1>5, <1>6, <1>7 DEF RemoteStep

\* A row, or a process at work, has the identity.
IsBound(identity) ==
  \/ \E row \in rows : row.binding = identity
  \/ \E m \in Mutators : ~At(m, "idle") /\ Binding(m) = identity

\* An undeleted copy is at a place that no stored identity denotes.
Loose(mail) ==
  \E box \in Mailboxes, uid \in Uids :
    KeptAt(server, box, uid, mail) /\ ~IsBound(IdentityAt(box, uid))

LEMMA RowsBound ==
  ASSUME Typed, [Next]_vars, NEW new \in rows', new.binding # NoBinding
  PROVE  IsBound(new.binding)
<1>0. rows \subseteq Rows
  BY DEF Typed, TypeOK
<1>1. CASE UNCHANGED rows
  BY <1>1 DEF IsBound
<1>2. ASSUME NEW m \in Mutators, WriteLocalState(m) PROVE IsBound(new.binding)
  <2> DEFINE role == ReconciledRole(m)
             read == UpdatedFlag(m, "seen", mutators[m].entry.read)
             starred == UpdatedFlag(m, "flagged", mutators[m].entry.starred)
  <2>0. rows' = rows \/ rows' = UpdateLocalState(rows, mutators[m].entry.id, role, read,
                                                starred)
    BY <1>2 DEF WriteLocalState, Statement
  <2> HIDE DEF role, read, starred
  <2>1. ASSUME NEW row \in rows,
               new = IF row.id = mutators[m].entry.id
                     THEN [row EXCEPT !.role = role, !.read = read, !.starred = starred]
                     ELSE row
        PROVE  IsBound(new.binding)
    <3>1. new.binding = row.binding
      BY <1>0, <2>1 DEF Rows
    <3>2. QED
      BY <3>1 DEF IsBound
  <2>2. CASE new \in UpdateLocalState(rows, mutators[m].entry.id, role, read, starred)
    BY <2>1, <2>2 DEF UpdateLocalState
  <2>3. QED
    BY <1>1, <2>0, <2>2
<1>3. ASSUME NEW m \in Mutators, WriteRemoteBinding(m) PROVE IsBound(new.binding)
  <2>1. ~At(m, "idle")
    BY <1>3 DEF WriteRemoteBinding, Statement, At
  <2>2. ReconciledBinding(m) \in {NoBinding, Binding(m)}
    BY DEF ReconciledBinding, Binding
  <2>3. rows' = rows \/ rows' = UpdateRemoteBinding(rows, mutators[m].entry.id,
                                                   ReconciledBinding(m))
    BY <1>3 DEF WriteRemoteBinding, Statement
  <2>4. ASSUME NEW row \in rows,
               new = IF row.id = mutators[m].entry.id
                     THEN [row EXCEPT !.binding = ReconciledBinding(m)] ELSE row
        PROVE  IsBound(new.binding)
    <3>1. new.binding \in {row.binding, ReconciledBinding(m)}
      BY <1>0, <2>4 DEF Rows
    <3>2. QED
      BY <2>1, <2>2, <3>1 DEF IsBound
  <2>5. CASE new \in UpdateRemoteBinding(rows, mutators[m].entry.id, ReconciledBinding(m))
    BY <2>4, <2>5 DEF UpdateRemoteBinding
  <2>6. QED
    BY <1>1, <2>3, <2>5
<1>4. ASSUME NEW m \in Mutators, RemoveRow(m) PROVE IsBound(new.binding)
  BY <1>0, <1>4 DEF RemoveRow, Statement, RemoveEntry, IsBound
<1>5. QED
  BY <1>1, <1>2, <1>3, <1>4, SettingTyped, WhoChanges

\* Mutations never store a new identity: only a sync does.
LEMMA BoundShrinks ==
  ASSUME Typed, [Next]_vars, NEW identity, identity # NoBinding, IsBound(identity)'
  PROVE  IsBound(identity)
<1>1. CASE \E row \in rows' : row.binding = identity
  BY <1>1, RowsBound
<1>2. ASSUME NEW m \in Mutators, mutators'[m].pc # "idle",
             mutators'[m].entry.binding = identity
      PROVE  IsBound(identity)
  <2>1. CASE mutators'[m] = mutators[m]
    BY <1>2, <2>1 DEF IsBound, At, Binding
  <2>2. CASE mutators'[m] # mutators[m] /\ Walks(m)
    BY <1>2, <2>2, WalksTo DEF IsBound, At, Binding, Idle
  <2>3. QED
    BY <1>2, <2>1, <2>2, NextWalks DEF Idle
<1>3. QED
  BY <1>1, <1>2 DEF IsBound, At, Binding

\* An identity that is stored has been handed out.
LEMMA BoundIsOld ==
  ASSUME Typed, HandlesInv, NEW box \in Mailboxes, NEW validity \in Nat, NEW uid \in Nat,
         IsBound([box |-> box, validity |-> validity, uid |-> uid])
  PROVE  /\ validity <= server[box].validity
         /\ validity = server[box].validity => uid < server[box].next
<1> DEFINE identity == [box |-> box, validity |-> validity, uid |-> uid]
<1>1. /\ identity \in Identities /\ identity # NoBinding
      /\ identity.box = box /\ identity.validity = validity /\ identity.uid = uid
  BY MutationAssumption DEF Identities
<1> HIDE DEF identity
<1>2. IsBound(identity)
  BY DEF identity
<1>3. \E mail : Denotes(server, identity, mail)
  BY <1>1, <1>2 DEF IsBound, HandlesInv, HoldsTrueRow, RowTrue, Binding
<1>4. QED
  BY <1>1, <1>3 DEF Denotes

\* A place where a message stays, and one where it comes to, is no more bound than before.
LEMMA StaysLoose ==
  ASSUME Typed, Typed', [Next]_vars, NEW mail, NEW box \in Mailboxes, NEW uid \in Uids,
         KeptAt(server', box, uid, mail),
         ~IsBound([box |-> box, validity |-> server'[box].validity, uid |-> uid])
  PROVE  Loose(mail)'
<1>1. PICK identity :
        identity = [box |-> box, validity |-> server'[box].validity, uid |-> uid]
  OBVIOUS
<1>2. identity # NoBinding
  <2>1. server'[box].validity \in Nat
    BY MessageTyped DEF Typed, TypeOK, MailboxStates
  <2>2. identity \in Identities
    BY <1>1, <2>1 DEF Identities, Uids
  <2>3. QED
    BY <2>2, MutationAssumption
<1>3. ~IsBound(identity)
  BY <1>1
<1>4. ~(IsBound(identity)')
  BY <1>2, <1>3, BoundShrinks
<1>5. IdentityAt(box, uid)' = identity
  BY <1>1 DEF IdentityAt
<1>6. ~(IsBound(IdentityAt(box, uid))')
  BY <1>4, <1>5 DEF IsBound
<1>7. QED
  BY <1>6 DEF Loose

LEMMA MoveComesLoose ==
  ASSUME Typed, Typed', HandlesInv, [Next]_vars, NEW mail, NEW target \in Mailboxes,
         HasRoom(server, target), KeptAt(server', target, server[target].next, mail),
         server'[target].validity = server[target].validity
  PROVE  Loose(mail)'
<1>1. /\ server[target].next \in Uids /\ server[target].next \in Nat
      /\ server[target].validity \in Nat
  BY SettingTyped, MessageTyped DEF HasRoom, WellNumbered, MailboxStates
<1>2. ~IsBound([box |-> target, validity |-> server'[target].validity,
                uid |-> server[target].next])
  BY <1>1, BoundIsOld
<1>3. QED
  BY <1>1, <1>2, StaysLoose

LEMMA LooseStays ==
  ASSUME Typed, Typed', HandlesInv, [Next]_vars, ~Enabled("other_expunge"),
         NEW mail, Loose(mail)
  PROVE  Loose(mail)'
<1>1. PICK box \in Mailboxes, uid \in Uids :
        KeptAt(server, box, uid, mail) /\ ~IsBound(IdentityAt(box, uid))
  BY DEF Loose
<1>2. WellNumbered(server) /\ WellNumbered(server')
  BY SettingTyped DEF Typed, TypeOK, WellNumbered
<1>3. ASSUME server'[box].validity = server[box].validity,
             KeptAt(server', box, uid, mail)
      PROVE  Loose(mail)'
  BY <1>1, <1>3, StaysLoose DEF IdentityAt
<1>4. ASSUME NEW other, NEW at, LeavesOthers(server, server', other, at),
             box # other \/ uid # at
      PROVE  Loose(mail)'
  BY <1>1, <1>3, <1>4 DEF LeavesOthers, KeptAt, Present
<1>5. CASE UNCHANGED server
  BY <1>1, <1>3, <1>5
<1>6. ASSUME NEW m \in Mutators, RemoteStep(m), ~UNCHANGED server PROVE Loose(mail)'
  <2>1. LeavesOthers(server, server', Binding(m).box, Binding(m).uid)
    BY <1>6, RemoteStepLeaves
  <2>2. Binding(m) = IdentityAt(Binding(m).box, Binding(m).uid) /\ ~At(m, "idle")
    BY <1>6, RemoteStepIs
  <2>3. box # Binding(m).box \/ uid # Binding(m).uid
    BY <1>1, <2>2 DEF IsBound
  <2>4. QED
    BY <1>4, <2>1, <2>3
<1>7. ASSUME NEW other \in Mailboxes, NewUidvalidity(other) PROVE Loose(mail)'
  <2>1. Changes(server, server', other,
          [validity |-> server[other].validity + 1,
           next |-> Cardinality(UidsIn(server, other)) + 1,
           msgs |-> Renumbered(server, other)])
    BY <1>2, <1>7, RenumberEffect DEF NewUidvalidity
  <2>2. CASE box # other
    BY <1>1, <1>3, <2>1, <2>2 DEF Changes, KeptAt, Present
  <2>3. CASE box = other
    <3> DEFINE new == Rank(server, box, uid)
    <3>1. uid \in UidsIn(server, box)
      BY <1>1 DEF UidsIn, KeptAt
    <3>2. new \in Uids /\ Renumbered(server, box)[new] = server[box].msgs[uid]
      BY <3>1, RankOrders, RenumberedAt
    <3> HIDE DEF new
    <3>3. server'[box].validity = server[box].validity + 1
          /\ server'[box].msgs[new] = server[box].msgs[uid]
      BY <2>1, <2>3, <3>2 DEF Changes
    <3>4. KeptAt(server', box, new, mail)
      BY <1>1, <3>2, <3>3 DEF KeptAt, Present
    <3>5. server[box].validity \in Nat
      BY <1>2, MessageTyped DEF WellNumbered, MailboxStates
    <3>10. PICK old \in Nat : old = server[box].validity
      BY <3>5
    <3>11. PICK validity \in Nat : validity = old + 1
      OBVIOUS
    <3>6. validity = server'[box].validity /\ ~(validity <= server[box].validity)
      <4>1. validity = server'[box].validity
        BY <3>3, <3>10, <3>11
      <4>2. ~(validity <= old)
        BY <3>11
      <4>3. QED
        BY <3>10, <4>1, <4>2
    <3>7. new \in Nat
      BY <3>2 DEF Uids
    <3>8. ~IsBound([box |-> box, validity |-> validity, uid |-> new])
      BY <3>6, <3>7, BoundIsOld
    <3>9. QED
      BY <3>2, <3>4, <3>6, <3>8, StaysLoose
  <2>4. QED
    BY <2>2, <2>3
<1>8. ASSUME NEW other \in Mailboxes, NEW at \in UidsIn(server, other),
             NEW target \in Mailboxes, OtherMove(other, at, target)
      PROVE  Loose(mail)'
  <2>1. HasRoom(server, target) /\ server' = UidMove(server, other, at, target)
        /\ Present(server, other, at)
    BY <1>8 DEF OtherMove, UidsIn
  <2>2. LeavesOthers(server, server', other, at)
        /\ server'[target].msgs[server[target].next] = server[other].msgs[at]
    BY <1>2, <2>1, UidMoveLeaves
  <2>3. CASE box = other /\ uid = at
    <3>1. KeptAt(server', target, server[target].next, mail)
      BY <1>1, <2>1, <2>2, <2>3 DEF KeptAt, Present, HasRoom
    <3>2. QED
      BY <2>1, <2>2, <3>1, MoveComesLoose DEF LeavesOthers
  <2>4. QED
    BY <1>4, <2>2, <2>3
<1>9. ASSUME NEW other \in Mailboxes, NEW at \in UidsIn(server, other),
             NEW flag \in FlagNames, OtherFlag(other, at, flag)
      PROVE  Loose(mail)'
  <2> DEFINE value == ~server[other].msgs[at][flag]
             message == [server[other].msgs[at] EXCEPT ![flag] = value]
  <2>1. value \in BOOLEAN /\ flag \in {"seen", "flagged"}
    BY DEF FlagNames
  <2>2. Present(server, other, at) /\ server' = SetFlag(server, other, at, flag, value)
    BY <1>9 DEF OtherFlag, UidsIn
  <2> HIDE DEF value
  <2>3. LeavesOthers(server, server', other, at)
    BY <1>2, <2>1, <2>2, SetFlagLeaves
  <2>4. CASE box = other /\ uid = at
    <3>1. /\ server[other].msgs[at] \in Messages /\ server[other] \in MailboxStates
          /\ at \in Uids /\ server \in Servers
      BY <1>2, <2>2, MessageTyped DEF WellNumbered
    <3>2. /\ message \in Messages /\ message.mail = server[other].msgs[at].mail
          /\ message.deleted = server[other].msgs[at].deleted
      BY <2>1, <3>1 DEF Messages
    <3>3. server' = [server EXCEPT ![other].msgs[at] = message]
      BY <2>2 DEF SetFlag
    <3> HIDE DEF message
    <3>4. server'[other].msgs[at] = message /\ server'[other].validity = server[other].validity
      BY <3>1, <3>2, <3>3 DEF Servers, MailboxStates
    <3>5. KeptAt(server', box, uid, mail)
      BY <1>1, <2>4, <3>2, <3>4, MutationAssumption DEF KeptAt, Present
    <3>6. QED
      BY <1>3, <2>4, <3>4, <3>5
  <2>5. QED
    BY <1>4, <2>3, <2>4
<1>10. CASE ServerEvent
  BY <1>7, <1>8, <1>9, <1>10 DEF ServerEvent, OtherExpunge
<1>11. UNCHANGED server \/ ServerEvent \/ \E m \in Mutators : RemoteStep(m)
  BY SettingTyped, WhoChanges
<1>12. QED
  BY <1>5, <1>6, <1>10, <1>11

\* A message that is undeleted at a stored identity has been there all the time.
LEMMA OriginalWasKept ==
  ASSUME NEW before, WellNumbered(before), NEW after, WellNumbered(after),
         Continues(before, after), NEW identity \in Identities, NEW mail,
         Denotes(before, identity, mail),
         identity.validity = after[identity.box].validity,
         KeptAt(after, identity.box, identity.uid, mail)
  PROVE  /\ identity.validity = before[identity.box].validity
         /\ KeptAt(before, identity.box, identity.uid, mail)
<1> DEFINE box == identity.box
           uid == identity.uid
<1>1. /\ box \in Mailboxes /\ identity.validity \in Nat /\ uid \in Uids
      /\ before[box] \in MailboxStates /\ after[box] \in MailboxStates
      /\ BoxContinues(before[box], after[box])
  BY MessageTyped DEF Identities, WellNumbered, Continues, KeptAt, Present
<1>2. /\ identity.validity <= before[box].validity
      /\ identity.validity = before[box].validity => uid < before[box].next
  BY DEF Denotes
<1> HIDE DEF box, uid
<1>3. /\ before[box].validity = after[box].validity /\ identity.validity = after[box].validity
      /\ uid < before[box].next
      /\ Reflagged(before[box].msgs[uid], after[box].msgs[uid])
  BY <1>1, <1>2 DEF BoxContinues, MailboxStates, KeptAt, Present, box, uid
<1>4. QED
  BY <1>1, <1>3 DEF KeptAt, Present, Reflagged, box, uid

\* The process is about to mark the original \Deleted, and it is there undeleted.
HoldsOriginal(m) ==
  /\ At(m, "store_deleted")
  /\ Binding(m).validity = server[Binding(m).box].validity
  /\ KeptAt(server, Binding(m).box, Binding(m).uid, mutators[m].entry.content.mail)

CopiesInv ==
  ~Enabled("other_expunge") =>
    \A m \in Mutators : HoldsOriginal(m) => Loose(mutators[m].entry.content.mail)

LEMMA CopiesStep ==
  Typed /\ Typed' /\ HandlesInv /\ CopiesInv /\ [Next]_vars => CopiesInv'
<1> SUFFICES ASSUME Typed, Typed', HandlesInv, CopiesInv, [Next]_vars,
                    ~Enabled("other_expunge")', NEW m \in Mutators, HoldsOriginal(m)'
             PROVE  Loose(mutators[m].entry.content.mail)'
  BY DEF CopiesInv
<1>1. PICK entry : entry = mutators'[m].entry
  OBVIOUS
<1> DEFINE mail == entry.content.mail
           box == entry.binding.box
           uid == entry.binding.uid
<1>2. /\ mutators'[m].pc = "store_deleted" /\ KeptAt(server', box, uid, mail)
      /\ entry.binding.validity = server'[box].validity
  BY <1>1 DEF HoldsOriginal, At, Binding
<1>3. ~Enabled("other_expunge")
  BY DEF Enabled, Next, vars, Request, Prepare, DryRun, Step, Approve, Audited, Select,
     RemoteStep, UidMoveStep, UidCopyStep, StoreDeletedStep, ExpungeCopiedStep, UidStoreStep,
     UidExpungeStep, Command, Executed, WriteLocalState, WriteRemoteBinding, RemoveRow,
     Statement, Reconciled, Failed, AuditFails, Crash, PowerLoss, ServerEvent
<1>4. WellNumbered(server) /\ WellNumbered(server') /\ Continues(server, server')
  BY SettingTyped, ServerContinues
<1>5. ASSUME ~At(m, "idle"), entry = mutators[m].entry
      PROVE  /\ entry.binding \in Identities /\ box \in Mailboxes
             /\ entry.binding.validity = server[box].validity
             /\ KeptAt(server, box, uid, mail)
  <2>1. entry \in Rows /\ entry.binding \in Identities /\ box \in Mailboxes
    BY <1>5, AtWork DEF Binding
  <2>2. Denotes(server, entry.binding, mail)
    BY <1>5, <2>1, MutationAssumption DEF HandlesInv, HoldsTrueRow, RowTrue
  <2>3. QED
    BY <1>2, <1>4, <2>1, <2>2, OriginalWasKept
<1>6. Loose(mail) => Loose(mail)'
  BY <1>3, LooseStays
<1>7. CASE mutators'[m] = mutators[m]
  <2>1. At(m, "store_deleted") /\ entry = mutators[m].entry
    BY <1>1, <1>2, <1>7 DEF At
  <2>2. HoldsOriginal(m)
    BY <1>5, <2>1 DEF HoldsOriginal, At, Binding
  <2>3. Loose(mail)
    BY <1>3, <2>1, <2>2 DEF CopiesInv
  <2>4. QED
    BY <1>1, <1>6, <2>3
<1>8. CASE mutators'[m] # mutators[m]
  <2>1. At(m, "uid_copy") /\ entry = mutators[m].entry /\ mutators'[m] # Idle
    <3>1. mutators'[m] # Idle
      BY <1>2 DEF Idle
    <3>2. Walks(m)
      BY <1>8, <3>1, NextWalks
    <3>3. At(m, "select") => CommandPath(mutators[m].action) # "store_deleted"
      <4>1. SUFFICES ASSUME At(m, "select") PROVE CommandPath(mutators[m].action) # "store_deleted"
        OBVIOUS
      <4>2. mutators[m].action \in AllActions
        BY <4>1, AtWork DEF At
      <4>3. QED
        BY <4>2, ActionKinds DEF CommandPath
    <3>4. /\ mutators'[m].entry = mutators[m].entry
          /\ \/ At(m, "select") /\ mutators'[m].pc = CommandPath(mutators[m].action)
             \/ mutators'[m].pc = "store_deleted" => At(m, "uid_copy")
      <4>1. mutators'[m].pc # "approve"
        BY <1>2
      <4>2. QED
        BY <1>8, <3>1, <3>2, <4>1, WalksTo
    <3>5. At(m, "uid_copy")
      BY <1>2, <3>3, <3>4
    <3>6. QED
      BY <1>1, <3>1, <3>4, <3>5
  <2>2. UidCopyStep(m)
    BY <1>2, <1>8, <2>1, WhoWalks
    DEF Request, Prepare, DryRun, Step, Approve, Select, RemoteStep, UidMoveStep,
        StoreDeletedStep, ExpungeCopiedStep, UidStoreStep, UidExpungeStep, Command,
        Executed, WriteLocalState, WriteRemoteBinding, RemoveRow, Statement, Reconciled,
        Failed, AuditFails, Crash, Rest, Typed, TypeOK, At, Idle
  <2>3. Target(m) \in Mailboxes
    BY <2>1, AtWork DEF Typed, Works, At, MovePcs
  <2>4. HasRoom(server, Target(m)) /\ server' = Copy(server, box, uid, Target(m))
    <3>1. ~Goto(m, "failed")
      <4>1. mutators \in [Mutators -> MutatorStates]
        BY DEF Typed, TypeOK
      <4>2. Goto(m, "failed") => mutators'[m].pc = "failed"
        BY <4>1 DEF Goto, MutatorStates
      <4>3. QED
        BY <1>2, <4>2
    <3>2. Binding(m) = entry.binding
      BY <2>1 DEF Binding
    <3> HIDE DEF mail
    <3>3. QED
      BY <2>2, <3>1, <3>2 DEF UidCopyStep, Command, TargetHasRoom
  <2>5. box \in Mailboxes /\ KeptAt(server, box, uid, mail)
    BY <1>5, <2>1 DEF At
  <2> HIDE DEF box, uid, mail
  <2>6. /\ LeavesOthers(server, server', box, uid)
        /\ server'[Target(m)].msgs[server[Target(m)].next] = server[box].msgs[uid]
    BY <1>4, <2>3, <2>4, <2>5, CopyLeaves DEF KeptAt
  <2>7. KeptAt(server', Target(m), server[Target(m)].next, mail)
    BY <2>4, <2>5, <2>6 DEF KeptAt, Present, HasRoom
  <2>8. Loose(mail)'
    BY <2>3, <2>4, <2>6, <2>7, MoveComesLoose DEF LeavesOthers
  <2>9. QED
    BY <1>1, <2>8 DEF mail
<1>9. QED
  BY <1>7, <1>8

LEMMA MoveStepKeeps ==
  ASSUME Typed, HandlesInv, CopiesInv, ~Enabled("other_expunge"),
         NEW m \in Mutators, RemoteStep(m), mutators[m].action.kind = "move"
  PROVE  Kept(server) \subseteq Kept(server')
<1> SUFFICES ASSUME NEW mail \in Kept(server), server' # server
             PROVE  mail \in Kept(server')
  OBVIOUS
<1> DEFINE box == Binding(m).box
           uid == Binding(m).uid
           target == Target(m)
<1>1. PICK at \in Mailboxes, number \in Uids : KeptAt(server, at, number, mail)
  BY KeptIs
<1>2. LeavesOthers(server, server', box, uid)
  BY RemoteStepLeaves
<1>3. ASSUME NEW other \in Mailboxes, NEW n \in Uids, KeptAt(server, other, n, mail),
             other # box \/ n # uid
      PROVE  mail \in Kept(server')
  <2>1. KeptAt(server', other, n, mail)
    BY <1>2, <1>3 DEF LeavesOthers, KeptAt, Present
  <2>2. QED
    BY <2>1, KeptIs
<1>4. /\ ~At(m, "idle") /\ Binding(m) = IdentityAt(box, uid)
      /\ Present(server, box, uid)
      /\ server[box].msgs[uid].mail = mutators[m].entry.content.mail
  BY RemoteStepIs
<1>5. /\ box \in Mailboxes /\ uid \in Uids /\ target \in Mailboxes /\ WellNumbered(server)
      /\ Works(mutators[m])
  BY <1>4, AtWork, SettingTyped DEF Present, Typed
<1> HIDE DEF box, uid, target
<1>6. CASE at # box \/ number # uid
  BY <1>1, <1>3, <1>6
<1>7. CASE at = box /\ number = uid
  <2>1. CASE UidMoveStep(m) \/ UidCopyStep(m)
    <3>1. /\ HasRoom(server, target)
          /\ \/ server' = UidMove(server, box, uid, target)
             \/ server' = Copy(server, box, uid, target)
      BY <2>1 DEF UidMoveStep, UidCopyStep, Command, TargetHasRoom, box, uid, target
    <3>2. server'[target].msgs[server[target].next] = server[box].msgs[uid]
      BY <1>4, <1>5, <3>1, UidMoveLeaves, CopyLeaves
    <3>3. KeptAt(server', target, server[target].next, mail)
      BY <1>1, <1>7, <3>1, <3>2 DEF KeptAt, Present, HasRoom
    <3>4. QED
      BY <1>5, <3>1, <3>3, KeptIs DEF HasRoom
  <2>2. CASE StoreDeletedStep(m)
    <3>1. HoldsOriginal(m) /\ mail = mutators[m].entry.content.mail
      BY <1>1, <1>4, <1>7, <2>2
      DEF HoldsOriginal, StoreDeletedStep, Command, KeptAt, IdentityAt, box, uid
    <3>2. PICK other \in Mailboxes, n \in Uids :
            KeptAt(server, other, n, mail) /\ ~IsBound(IdentityAt(other, n))
      BY <3>1 DEF CopiesInv, Loose
    <3>3. other # box \/ n # uid
      BY <1>4, <3>2 DEF IsBound
    <3>4. QED
      BY <1>3, <3>2, <3>3
  <2>3. CASE ExpungeCopiedStep(m)
    BY <1>1, <1>7, <2>3 DEF ExpungeCopiedStep, Command, Expunge, KeptAt, box, uid
  <2>4. CASE UidStoreStep(m) \/ UidExpungeStep(m)
    BY <1>5, <2>4 DEF UidStoreStep, UidExpungeStep, Command, Works, At
  <2>5. QED
    BY <2>1, <2>2, <2>3, <2>4 DEF RemoteStep
<1>8. QED
  BY <1>6, <1>7

(* A move never makes a message vanish, wherever it stops: as long as other *)
(* clients delete nothing, a message that had a copy not marked \Deleted    *)
(* still has one after every command of a move (execute_move).              *)
THEOREM MovesKeep == Spec => MoveKeepsMail
<1> DEFINE Inv == Typed /\ HandlesInv /\ CopiesInv
<1>1. Inv /\ [Next]_vars => Inv'
  BY TypedStep, HandlesStep, CopiesStep
<1>2. Inv /\ [Next]_vars =>
        [\A m \in Mutators :
           /\ ~Enabled("other_expunge")
           /\ RemoteStep(m) /\ mutators[m].action.kind = "move"
           => Kept(server) \subseteq Kept(server')]_vars
  BY MoveStepKeeps
<1>3. Init => Inv
  BY TypedInit, HandlesInit DEF Init, CopiesInv, HoldsOriginal, At, Idle
<1>4. QED
  BY <1>1, <1>2, <1>3, PTL DEF Spec, MoveKeepsMail

-----------------------------------------------------------------------------
(* The audit file accounts for every difference: a row has an open run, or  *)
(* stands for what its folder holds.                                        *)

\* The premise of MirrorIsTrueOrUnsettled.
Undisturbed == Alone /\ setting.stored.views = {}

\* The place holds the message as the row has it.
HoldsAs(identity, row) ==
  /\ identity.validity = server[identity.box].validity
  /\ Present(server, identity.box, identity.uid)
  /\ SamePlace(row, server[identity.box].msgs[identity.uid])
  /\ SameFlags(row, server[identity.box].msgs[identity.uid])

AtHome(identity, row) ==
  identity \in Identities /\ identity.box = Folder[row.role] /\ HoldsAs(identity, row)

(* A moved row has lost its binding: the message is then at some place of   *)
(* its folder that no stored identity denotes, out of reach of commands.    *)
Stands(row) ==
  IF row.binding = NoBinding
  THEN \E identity \in Identities : AtHome(identity, row) /\ ~IsBound(identity)
  ELSE AtHome(row.binding, row)

\* The run was approved for good and has no "reconciled" record.
OpenRun(run, handle) ==
  /\ \E i \in 1..synced :
       audit[i].run = run /\ audit[i].handle = handle /\ audit[i].status = "approved"
  /\ \A j \in DOMAIN audit : audit[j].run = run => audit[j].status # "reconciled"

Open(handle) == \E run \in Runs : OpenRun(run, handle)

\* A run other than this one is open for the handle.
OpenBefore(handle, run) == \E other \in Runs \ {run} : OpenRun(other, handle)

Explained(row) == Open(row.id) \/ Stands(row)

-----------------------------------------------------------------------------
(* What a run makes of its entry *)

NewFlag(action, flag, old) ==
  IF action.kind = "flag" /\ action.flag = flag THEN action.value ELSE old

Midway(action, entry) ==
  [id |-> entry.id,
   role |-> IF action.kind = "move" THEN action.role ELSE entry.role,
   content |-> entry.content,
   read |-> NewFlag(action, "seen", entry.read),
   starred |-> NewFlag(action, "flagged", entry.starred),
   binding |-> entry.binding]

Outcome(action, entry) ==
  [id |-> entry.id,
   role |-> IF action.kind = "move" THEN action.role ELSE entry.role,
   content |-> entry.content,
   read |-> NewFlag(action, "seen", entry.read),
   starred |-> NewFlag(action, "flagged", entry.starred),
   binding |-> IF action.kind = "move" THEN NoBinding ELSE entry.binding]

-----------------------------------------------------------------------------
(* The invariant *)

\* An id, and an identity, has one row.
RowsApart ==
  \A one, other \in rows :
    /\ one.id = other.id => one = other
    /\ one.binding # NoBinding /\ one.binding = other.binding => one = other

\* Runs are numbered as they begin.
RunsNumbered ==
  /\ \A i \in DOMAIN audit : audit[i].run <= runs
  /\ \A m \in Mutators :
       ~At(m, "idle") => m \in setting.mutators /\ mutators[m].run <= runs

(* The run of a process at work is open from its approval to the end, and   *)
(* its records are about its entry.                                         *)
RunIsOpen(st) ==
  /\ \A i \in DOMAIN audit :
       audit[i].run = st.run => st.pc # "approve" /\ audit[i].handle = st.entry.id
  /\ st.pc # "approve" => OpenRun(st.run, st.entry.id)

Untried == {"approve", "select", "uid_move", "uid_copy", "uid_store", "uid_expunge"}

Tried == {"store_deleted", "expunge_copied", "executed", "local_state",
          "remote_binding", "reconciled"}

\* How far the run has come with the row of its entry.
RowInHand(st) ==
  /\ st.pc \in Untried \union {"store_deleted", "expunge_copied", "executed",
                               "local_state", "remove_entry"} => st.entry \in rows
  /\ st.pc = "remote_binding" => Midway(st.action, st.entry) \in rows
  /\ st.pc \in {"local_state", "remote_binding"} => st.action.kind # "expunge"
  /\ st.pc = "remove_entry" => st.action.kind = "expunge"
  /\ st.pc = "reconciled" =>
       IF st.action.kind = "expunge" THEN ~HasRow(rows, st.entry.id)
                                     ELSE Outcome(st.action, st.entry) \in rows

(* Before its command the entry is accounted for without this run, and      *)
(* after it what the run will make of the entry is.                         *)
OutcomeInSight(st) ==
  \/ OpenBefore(st.entry.id, st.run)
  \/ /\ st.pc \in Untried => Stands(st.entry)
     /\ st.pc \in Tried =>
          (st.action.kind # "expunge" => Stands(Outcome(st.action, st.entry)))

MirrorInv ==
  Undisturbed =>
    /\ RowsApart
    /\ RunsNumbered
    /\ \A m \in Mutators :
         ~At(m, "idle") =>
           /\ RunIsOpen(mutators[m])
           /\ RowInHand(mutators[m])
           /\ OutcomeInSight(mutators[m])
    /\ \A row \in rows : Explained(row)

-----------------------------------------------------------------------------
(* Steps *)

LEMMA OutcomeTyped ==
  ASSUME NEW action \in AllActions, NEW entry \in Rows
  PROVE  /\ Midway(action, entry) \in Rows /\ Outcome(action, entry) \in Rows
         /\ Midway(action, entry).id = entry.id /\ Outcome(action, entry).id = entry.id
         /\ Midway(action, entry).binding = entry.binding
<1>1. /\ entry.id \in Ids /\ entry.role \in Roles /\ entry.content \in Contents
      /\ entry.read \in BOOLEAN /\ entry.starred \in BOOLEAN
      /\ entry.binding \in Identities \union {NoBinding}
  BY DEF Rows
<1>2. /\ (IF action.kind = "move" THEN action.role ELSE entry.role) \in Roles
      /\ NewFlag(action, "seen", entry.read) \in BOOLEAN
      /\ NewFlag(action, "flagged", entry.starred) \in BOOLEAN
  BY <1>1, ActionKinds DEF NewFlag
<1>3. QED
  BY <1>1, <1>2 DEF Midway, Outcome, Rows

LEMMA Quiet ==
  ASSUME Typed, Undisturbed, [Next]_vars
  PROVE  ~ServerEvent /\ setting' = setting
<1>1. \A event \in OtherClients : ~Enabled(event)
  BY DEF Undisturbed, Alone, Enabled
<1>2. ~ServerEvent
  BY <1>1 DEF ServerEvent, NewUidvalidity, OtherMove, OtherExpunge, OtherFlag, OtherClients
<1>3. setting' = setting
  BY WhoChanges
<1>4. QED
  BY <1>2, <1>3

\* A process at work has come there by its own step; it works alone.
LEMMA SoleStep ==
  ASSUME Typed, Undisturbed, RunsNumbered, [Next]_vars, NEW m \in Mutators,
         mutators'[m].pc # "idle"
  PROVE  \/ UNCHANGED vars
         \/ ~At(m, "idle") /\ Step(m) /\ m \in setting.mutators
         \/ /\ m \in setting.mutators
            /\ \E row \in rows, action \in setting.actions : Prepare(m, row, action)
<1>0. mutators \in [Mutators -> MutatorStates] /\ setting.mutators \subseteq Mutators
  BY SettingTyped DEF Typed, TypeOK
<1>1. CASE UNCHANGED vars
  BY <1>1
<1>2. ASSUME NEW n \in setting.mutators, Crash(n) \/ AuditFails(n) PROVE FALSE
  <2>1. ~At(n, "idle") /\ mutators' = [mutators EXCEPT ![n] = Idle]
    BY <1>2 DEF Crash, AuditFails, Rest, At, StatusAt
  <2>2. mutators'[n] = Idle /\ (m # n => mutators'[m] = mutators[m])
    BY <1>0, <2>1
  <2>3. m # n /\ ~At(m, "idle")
    BY <2>2 DEF Idle, At
  <2>4. m \in setting.mutators
    BY <2>3 DEF RunsNumbered
  <2>5. QED
    BY <2>3, <2>4 DEF Undisturbed, Alone
<1>3. CASE PowerLoss
  BY <1>3 DEF PowerLoss, Idle
<1>4. ASSUME NEW n \in setting.mutators, Step(n) PROVE m = n /\ ~At(m, "idle")
  <2>1. ~At(n, "idle")
    BY <1>4 DEF Step, Approve, Select, RemoteStep, UidMoveStep, UidCopyStep,
       StoreDeletedStep, ExpungeCopiedStep, UidStoreStep, UidExpungeStep, Command, Executed,
       WriteLocalState, WriteRemoteBinding, RemoveRow, Statement, Reconciled, Failed, At
  <2>2. m # n => mutators'[m] = mutators[m]
    BY <1>0, <1>4, StepWalks, OthersStay
  <2>3. m # n => m \in setting.mutators
    BY <2>2 DEF RunsNumbered, At
  <2>4. m = n
    BY <2>3 DEF Undisturbed, Alone
  <2>5. QED
    BY <2>1, <2>4
<1>5. ASSUME NEW n \in setting.mutators, NEW row \in rows, NEW action \in setting.actions,
             Prepare(n, row, action) \/ DryRun(n, row, action)
      PROVE  m = n /\ Prepare(m, row, action)
  <2>1. At(n, "idle") /\ (m # n => mutators'[m] = mutators[m])
        /\ (DryRun(n, row, action) => mutators' = mutators)
    BY <1>0, <1>5 DEF Prepare, DryRun
  <2>2. m # n => m \in setting.mutators
    BY <2>1 DEF RunsNumbered, At
  <2>3. m = n
    BY <2>2 DEF Undisturbed, Alone
  <2>4. QED
    BY <1>5, <2>1, <2>3 DEF At
<1>6. QED
  BY <1>1, <1>2, <1>3, <1>4, <1>5, Quiet DEF Next, Request

\* What a step appends to the audit file, and what a power loss leaves of it.
Appends(record) ==
  audit' = Append(audit, record) /\ synced' \in {synced, Len(audit')}

OwnRecord(m, record) ==
  /\ ~At(m, "idle") /\ runs' = runs
  /\ record.run = mutators[m].run /\ record.handle = mutators[m].entry.id
  /\ record.status = "reconciled" => At(m, "reconciled")

LEMMA AuditStep ==
  ASSUME Typed, [Next]_vars
  PROVE  \/ UNCHANGED <<audit, synced>>
         \/ \E record \in AuditRecords :
              /\ Appends(record)
              /\ \/ \E m \in setting.mutators : OwnRecord(m, record)
                 \/ /\ record.run = runs + 1 /\ record.status = "planned"
                    /\ runs' = runs + 1 /\ UNCHANGED mutators
         \/ PowerLoss
<1>0. setting.mutators \subseteq Mutators
  BY SettingTyped
<1>1. ASSUME NEW m \in setting.mutators, NEW status \in AuditStatuses, ~At(m, "idle"),
             NEW new, new = [run |-> mutators[m].run, handle |-> mutators[m].entry.id,
                             status |-> status],
             Appends(new), runs' = runs, status = "reconciled" => At(m, "reconciled")
      PROVE  \E record \in AuditRecords :
               Appends(record) /\ \E n \in setting.mutators : OwnRecord(n, record)
  <2>1. mutators[m].run \in Runs /\ mutators[m].entry.id \in Ids
    BY <1>0, <1>1, AtWork
  <2>2. new \in AuditRecords
    BY <1>1, <2>1 DEF AuditRecords
  <2>3. OwnRecord(m, new)
    BY <1>1 DEF OwnRecord
  <2>4. QED
    BY <1>1, <2>2, <2>3
<1>2. ASSUME NEW m \in setting.mutators, NEW status \in AuditStatuses, NEW pc,
             ~At(m, "idle"), Audited(m, status, pc),
             status = "reconciled" => At(m, "reconciled")
      PROVE  \E record \in AuditRecords :
               Appends(record) /\ \E n \in setting.mutators : OwnRecord(n, record)
  BY <1>1, <1>2 DEF Audited, Record, Appends
<1>3. ASSUME NEW m \in setting.mutators, AuditFails(m), ~UNCHANGED audit
      PROVE  \E record \in AuditRecords :
               Appends(record) /\ \E n \in setting.mutators : OwnRecord(n, record)
  <2>1. /\ ~At(m, "idle") /\ StatusAt[mutators[m].pc] \in AuditStatuses
        /\ StatusAt[mutators[m].pc] = "reconciled" => At(m, "reconciled")
    BY <1>3 DEF AuditFails, StatusAt, At, AuditStatuses
  <2>2. QED
    BY <1>1, <1>3, <2>1 DEF AuditFails, Appends
<1>4. ASSUME NEW m \in setting.mutators, NEW row \in rows, NEW action \in setting.actions,
             DryRun(m, row, action)
      PROVE  \E record \in AuditRecords :
               /\ Appends(record) /\ record.run = runs + 1 /\ record.status = "planned"
               /\ runs' = runs + 1 /\ UNCHANGED mutators
  <2> DEFINE new == [run |-> runs + 1, handle |-> row.id, status |-> "planned"]
  <2>1. row.id \in Ids /\ runs + 1 \in Runs
    BY <1>4, SettingTyped, MutationAssumption DEF DryRun, Typed, TypeOK, Runs, Rows
  <2>2. new \in AuditRecords /\ new.run = runs + 1 /\ new.status = "planned"
    BY <2>1 DEF AuditRecords, AuditStatuses
  <2>3. Appends(new)
    BY <1>4 DEF DryRun, Record, Appends
  <2> HIDE DEF new
  <2>4. QED
    BY <1>4, <2>2, <2>3 DEF DryRun
<1>5. ASSUME NEW m \in setting.mutators, Step(m), ~UNCHANGED <<audit, synced>>
      PROVE  \E record \in AuditRecords :
               Appends(record) /\ \E n \in setting.mutators : OwnRecord(n, record)
  <2>1. Approve(m) \/ Executed(m) \/ Reconciled(m) \/ Failed(m)
    BY <1>5
    DEF Step, Select, RemoteStep, UidMoveStep, UidCopyStep, StoreDeletedStep,
        ExpungeCopiedStep, UidStoreStep, UidExpungeStep, Command, WriteLocalState,
        WriteRemoteBinding, RemoveRow, Statement
  <2>2. QED
    BY <1>2, <2>1 DEF Approve, Executed, Reconciled, Failed, At, AuditStatuses
<1>6. QED
  BY <1>3, <1>4, <1>5 DEF Next, Request, Prepare, Crash, ServerEvent, AuditFails, vars

\* A run that is open stays so, unless it is the one that ends.
LEMMA OpenStays ==
  ASSUME Typed, [Next]_vars, NEW run, NEW handle, OpenRun(run, handle), run <= runs,
         \A m \in Mutators : At(m, "reconciled") => mutators[m].run # run
  PROVE  OpenRun(run, handle)'
<1>0. audit \in Seq(AuditRecords) /\ synced \in 0..Len(audit) /\ runs \in Nat
  BY MutationAssumption DEF Typed, TypeOK
<1>1. PICK i \in 1..synced : /\ audit[i].run = run /\ audit[i].handle = handle
                             /\ audit[i].status = "approved"
  BY DEF OpenRun
<1>2. \A j \in 1..Len(audit) : audit[j].run = run => audit[j].status # "reconciled"
  BY <1>0 DEF OpenRun
<1>3. CASE UNCHANGED <<audit, synced>>
  BY <1>3 DEF OpenRun
<1>4. ASSUME NEW record \in AuditRecords, Appends(record),
             record.run = run => record.status # "reconciled"
      PROVE  OpenRun(run, handle)'
  <2>1. /\ Len(audit') = Len(audit) + 1 /\ audit'[Len(audit) + 1] = record
        /\ \A j \in 1..Len(audit) : audit'[j] = audit[j]
        /\ DOMAIN audit' = 1..(Len(audit) + 1)
    BY <1>0, <1>4 DEF Appends
  <2>2. i \in 1..synced' /\ audit'[i] = audit[i]
    BY <1>0, <1>1, <1>4, <2>1 DEF Appends
  <2>3. \A j \in DOMAIN audit' : audit'[j].run = run => audit'[j].status # "reconciled"
    BY <1>0, <1>2, <1>4, <2>1
  <2>4. QED
    BY <1>1, <2>2, <2>3 DEF OpenRun
<1>5. CASE PowerLoss
  <2>1. PICK n \in synced..Len(audit) : audit' = SubSeq(audit, 1, n)
    BY <1>5 DEF PowerLoss
  <2>2. /\ DOMAIN audit' = 1..n /\ \A j \in 1..n : audit'[j] = audit[j] /\ j \in 1..Len(audit)
    BY <1>0, <2>1
  <2>3. i \in 1..synced' /\ audit'[i] = audit[i]
    BY <1>0, <1>1, <1>5, <2>2 DEF PowerLoss
  <2>4. QED
    BY <1>1, <1>2, <2>2, <2>3 DEF OpenRun
<1>6. ASSUME NEW record \in AuditRecords, NEW m \in setting.mutators, OwnRecord(m, record),
             record.run = run
      PROVE  record.status # "reconciled"
  BY <1>6, SettingTyped DEF OwnRecord
<1>7. QED
  BY <1>0, <1>3, <1>4, <1>5, <1>6, AuditStep

-----------------------------------------------------------------------------
(* What stands, and the rows *)

LEMMA HoldsAsStays ==
  ASSUME Typed, Undisturbed, [Next]_vars, NEW row, NEW identity \in Identities,
         HoldsAs(identity, row),
         \A m \in Mutators : RemoteStep(m) /\ server' # server => identity # Binding(m),
         HandlesInv
  PROVE  HoldsAs(identity, row)'
<1> DEFINE box == identity.box
           uid == identity.uid
<1>1. box \in Mailboxes /\ Present(server, box, uid) /\ uid \in Uids
  BY DEF Identities, HoldsAs, Present
<1>2. CASE UNCHANGED server
  BY <1>2 DEF HoldsAs
<1>3. ASSUME NEW m \in Mutators, RemoteStep(m), server' # server
      PROVE  HoldsAs(identity, row)'
  <2>1. /\ LeavesOthers(server, server', Binding(m).box, Binding(m).uid)
        /\ Binding(m) = IdentityAt(Binding(m).box, Binding(m).uid)
    BY <1>3, RemoteStepLeaves, RemoteStepIs
  <2>2. identity = IdentityAt(box, uid)
    BY DEF HoldsAs, IdentityAt, Identities
  <2>3. Binding(m).box = box => Binding(m).uid # uid
    BY <1>3, <2>1, <2>2
  <2>4. /\ server'[box].validity = server[box].validity
        /\ server'[box].msgs[uid] = server[box].msgs[uid]
    BY <1>1, <2>1, <2>3 DEF LeavesOthers
  <2>5. QED
    BY <2>4 DEF HoldsAs, Present
<1>4. UNCHANGED server \/ \E m \in Mutators : RemoteStep(m)
  BY SettingTyped, Quiet, WhoChanges
<1>5. QED
  BY <1>2, <1>3, <1>4

\* No command reaches what a row stands for, but one on the row's binding.
LEMMA StandsStays ==
  ASSUME Typed, HandlesInv, Undisturbed, [Next]_vars, NEW row \in Rows, Stands(row),
         \A m \in Mutators : RemoteStep(m) /\ server' # server => row.binding # Binding(m)
  PROVE  Stands(row)'
<1>1. CASE row.binding # NoBinding
  <2>1. row.binding \in Identities /\ HoldsAs(row.binding, row)
        /\ row.binding.box = Folder[row.role]
    BY <1>1 DEF Stands, AtHome
  <2>2. HoldsAs(row.binding, row)'
    BY <2>1, HoldsAsStays
  <2>3. QED
    BY <1>1, <2>1, <2>2 DEF Stands, AtHome
<1>2. CASE row.binding = NoBinding
  <2>1. PICK identity \in Identities :
          /\ identity.box = Folder[row.role] /\ HoldsAs(identity, row)
          /\ ~IsBound(identity)
    BY <1>2 DEF Stands, AtHome
  <2>2. ASSUME NEW m \in Mutators, RemoteStep(m), server' # server
        PROVE  identity # Binding(m)
    BY <2>1, <2>2, RemoteStepIs DEF IsBound
  <2>3. HoldsAs(identity, row)'
    BY <2>1, <2>2, HoldsAsStays
  <2>4. ~(IsBound(identity)')
    BY <2>1, BoundShrinks, MutationAssumption
  <2>5. QED
    BY <1>2, <2>1, <2>3, <2>4 DEF Stands, AtHome
<1>3. QED
  BY <1>1, <1>2

\* A statement of the process at work makes one row into another.
LEMMA RewritesIs ==
  ASSUME RowsApart, NEW old \in rows, NEW new,
         rows' = {IF row.id = old.id THEN new ELSE row : row \in rows},
         new.id = old.id, new.binding \in {old.binding, NoBinding}
  PROVE  /\ RowsApart' /\ new \in rows'
         /\ \A row \in rows' : row = new \/ (row \in rows /\ row.id # new.id)
<1>1. ASSUME NEW one \in rows'
      PROVE  one = new \/ (one \in rows /\ one.id # new.id)
  BY <1>1
<1>2. new \in rows'
  OBVIOUS
<1>3. RowsApart'
  BY <1>1 DEF RowsApart
<1>4. QED
  BY <1>1, <1>2, <1>3

LEMMA LocalStateEffect ==
  ASSUME Typed, RowsApart, NEW m \in Mutators, RowInHand(mutators[m]), WriteLocalState(m),
         NEW action, action = mutators[m].action, NEW entry, entry = mutators[m].entry
  PROVE  /\ entry \in rows
         /\ \/ UNCHANGED rows /\ Goto(m, "failed")
            \/ /\ Goto(m, "remote_binding")
               /\ rows' = {IF row.id = entry.id THEN Midway(action, entry) ELSE row :
                             row \in rows}
<1>1. entry \in rows /\ ~At(m, "idle")
  BY DEF WriteLocalState, Statement, At, RowInHand
<1>2. CASE UNCHANGED rows /\ Goto(m, "failed")
  BY <1>1, <1>2
<1>3. CASE /\ Goto(m, "remote_binding")
           /\ rows' = UpdateLocalState(rows, entry.id, ReconciledRole(m),
                        UpdatedFlag(m, "seen", entry.read),
                        UpdatedFlag(m, "flagged", entry.starred))
  <2>1. PICK role, read, starred :
          /\ role = ReconciledRole(m) /\ read = UpdatedFlag(m, "seen", entry.read)
          /\ starred = UpdatedFlag(m, "flagged", entry.starred)
    OBVIOUS
  <2>2. Midway(action, entry) = [id |-> entry.id, role |-> role, content |-> entry.content,
                                 read |-> read, starred |-> starred, binding |-> entry.binding]
    BY <2>1 DEF Midway, NewFlag, UpdatedFlag, ReconciledRole
  <2>3. \A row \in rows : row.id = entry.id => row = entry
    BY <1>1 DEF RowsApart
  <2>4. [entry EXCEPT !.role = role, !.read = read, !.starred = starred] = Midway(action, entry)
    <3>1. PICK new : new = [entry EXCEPT !.role = role, !.read = read, !.starred = starred]
      OBVIOUS
    <3>2. entry \in Rows
      BY <1>1 DEF Typed, TypeOK
    <3>3. new = [id |-> entry.id, role |-> role, content |-> entry.content, read |-> read,
                 starred |-> starred, binding |-> entry.binding]
      BY <3>1, <3>2 DEF Rows
    <3>4. QED
      BY <2>2, <3>1, <3>3
  <2> DEFINE New(row) ==
               IF row.id = entry.id
               THEN [row EXCEPT !.role = role, !.read = read, !.starred = starred] ELSE row
  <2>5. rows' = {New(row) : row \in rows}
    BY <1>3, <2>1, Zenon DEF UpdateLocalState
  <2>6. \A row \in rows :
          New(row) = IF row.id = entry.id THEN Midway(action, entry) ELSE row
    BY <2>3, <2>4, Zenon
  <2> HIDE DEF New
  <2>7. QED
    BY <1>1, <1>3, <2>5, <2>6
<1>4. QED
  BY <1>2, <1>3 DEF WriteLocalState, Statement

LEMMA RemoteBindingEffect ==
  ASSUME Typed, RowsApart, NEW m \in Mutators, RowInHand(mutators[m]), WriteRemoteBinding(m),
         NEW action, action = mutators[m].action, NEW entry, entry = mutators[m].entry
  PROVE  /\ Midway(action, entry) \in rows
         /\ \/ UNCHANGED rows /\ Goto(m, "failed")
            \/ /\ Goto(m, "reconciled")
               /\ rows' = {IF row.id = entry.id THEN Outcome(action, entry) ELSE row :
                             row \in rows}
<1>1. Midway(action, entry) \in rows /\ ~At(m, "idle")
  BY DEF WriteRemoteBinding, Statement, At, RowInHand
<1>2. CASE UNCHANGED rows /\ Goto(m, "failed")
  BY <1>1, <1>2
<1>3. CASE /\ Goto(m, "reconciled")
           /\ rows' = UpdateRemoteBinding(rows, entry.id, ReconciledBinding(m))
  <2>1. PICK binding : binding = ReconciledBinding(m)
    OBVIOUS
  <2>2. Midway(action, entry).id = entry.id
    BY DEF Midway
  <2>3. \A row \in rows : row.id = entry.id => row = Midway(action, entry)
    BY <1>1, <2>2 DEF RowsApart
  <2>4. [Midway(action, entry) EXCEPT !.binding = binding] = Outcome(action, entry)
    BY <2>1 DEF Midway, Outcome, ReconciledBinding
  <2> DEFINE New(row) ==
               IF row.id = entry.id THEN [row EXCEPT !.binding = binding] ELSE row
  <2>5. rows' = {New(row) : row \in rows}
    BY <1>3, <2>1, Zenon DEF UpdateRemoteBinding
  <2>6. \A row \in rows :
          New(row) = IF row.id = entry.id THEN Outcome(action, entry) ELSE row
    BY <2>3, <2>4, Zenon
  <2> HIDE DEF New
  <2>7. QED
    BY <1>1, <1>3, <2>5, <2>6
<1>4. QED
  BY <1>2, <1>3 DEF WriteRemoteBinding, Statement

\* The row of the entry is what the run has made of it, and it only changes then.
LEMMA RowsStep ==
  ASSUME Typed, RowsApart, [Next]_vars,
         \A m \in Mutators : ~At(m, "idle") => RowInHand(mutators[m])
  PROVE  /\ RowsApart'
         /\ \A row \in rows' :
              \/ row \in rows
              \/ \E m \in Mutators : /\ mutators[m].pc \in {"local_state", "remote_binding"}
                                     /\ row.id = mutators[m].entry.id
<1>1. CASE UNCHANGED rows
  BY <1>1 DEF RowsApart
<1>2. ASSUME NEW m \in Mutators, WriteLocalState(m)
      PROVE  RowsApart' /\ \A row \in rows' : row \in rows \/ row.id = mutators[m].entry.id
  <2>1. PICK action, entry : action = mutators[m].action /\ entry = mutators[m].entry
    OBVIOUS
  <2>2. RowInHand(mutators[m]) /\ ~At(m, "idle") /\ entry \in Rows
    BY <1>2, <2>1, AtWork DEF WriteLocalState, Statement, At
  <2>3. /\ entry \in rows
        /\ \/ UNCHANGED rows
           \/ rows' = {IF row.id = entry.id THEN Midway(action, entry) ELSE row : row \in rows}
    BY <1>2, <2>1, <2>2, LocalStateEffect
  <2>4. Midway(action, entry).id = entry.id /\ Midway(action, entry).binding = entry.binding
    BY DEF Midway
  <2>5. QED
    BY <1>1, <2>1, <2>3, <2>4, RewritesIs
<1>3. ASSUME NEW m \in Mutators, WriteRemoteBinding(m)
      PROVE  RowsApart' /\ \A row \in rows' : row \in rows \/ row.id = mutators[m].entry.id
  <2>1. PICK action, entry : action = mutators[m].action /\ entry = mutators[m].entry
    OBVIOUS
  <2>2. RowInHand(mutators[m])
    BY <1>3 DEF WriteRemoteBinding, Statement, At
  <2>3. /\ Midway(action, entry) \in rows
        /\ \/ UNCHANGED rows
           \/ rows' = {IF row.id = entry.id THEN Outcome(action, entry) ELSE row : row \in rows}
    BY <1>3, <2>1, <2>2, RemoteBindingEffect
  <2>4. /\ Midway(action, entry).id = entry.id /\ Outcome(action, entry).id = entry.id
        /\ Outcome(action, entry).binding \in {Midway(action, entry).binding, NoBinding}
    BY DEF Midway, Outcome
  <2>5. QED
    BY <1>1, <2>1, <2>3, <2>4, RewritesIs
<1>4. ASSUME NEW m \in Mutators, RemoveRow(m)
      PROVE  RowsApart' /\ rows' \subseteq rows
  BY <1>1, <1>4 DEF RemoveRow, Statement, RemoveEntry, RowsApart
<1>5. \/ UNCHANGED rows
      \/ \E m \in Mutators : WriteLocalState(m) \/ WriteRemoteBinding(m) \/ RemoveRow(m)
  BY SettingTyped, WhoChanges
<1>6. QED
  <2>1. CASE \E m \in Mutators : WriteLocalState(m)
    BY <1>2, <2>1 DEF WriteLocalState, Statement, At
  <2>2. CASE \E m \in Mutators : WriteRemoteBinding(m)
    BY <1>3, <2>2 DEF WriteRemoteBinding, Statement, At
  <2>3. QED
    BY <1>1, <1>4, <1>5, <2>1, <2>2

-----------------------------------------------------------------------------
(* The run of the process at work *)

LEMMA OneAtWork ==
  ASSUME Undisturbed, RunsNumbered, NEW m \in Mutators, ~At(m, "idle"),
         NEW n \in Mutators, ~At(n, "idle")
  PROVE  m = n
  BY DEF Undisturbed, Alone, RunsNumbered

\* What a step keeps of the process that takes it, and where it can come from.
LEMMA StepKeeps ==
  ASSUME Typed, NEW m \in Mutators, ~At(m, "idle"), Step(m), mutators'[m].pc # "idle"
  PROVE  /\ mutators'[m].action = mutators[m].action
         /\ mutators'[m].entry = mutators[m].entry
         /\ mutators'[m].run = mutators[m].run
         /\ mutators'[m].pc # "approve"
         /\ ~At(m, "reconciled") /\ ~At(m, "failed")
<1>0. mutators \in [Mutators -> MutatorStates]
  BY DEF Typed, TypeOK
<1>1. ~Reconciled(m) /\ ~Failed(m)
  BY <1>0 DEF Reconciled, Failed, Audited, Rest, Idle
<1>2. ~At(m, "reconciled") /\ ~At(m, "failed")
  BY <1>1
  DEF Step, Approve, Select, RemoteStep, UidMoveStep, UidCopyStep, StoreDeletedStep,
      ExpungeCopiedStep, UidStoreStep, UidExpungeStep, Command, Executed, WriteLocalState,
      WriteRemoteBinding, RemoveRow, Statement, At
<1>3. Walks(m)
  BY StepWalks
<1>4. mutators'[m] # mutators[m]
  <2>1. ASSUME NEW pc, Goto(m, pc), ~At(m, pc) PROVE mutators'[m] # mutators[m]
    BY <1>0, <2>1 DEF Goto, At, MutatorStates
  <2>2. CASE Approve(m) \/ Executed(m)
    BY <1>0, <2>1, <2>2 DEF Approve, Executed, Audited, At
  <2>3. CASE Select(m)
    <3>1. mutators[m].action \in AllActions /\ CommandPath(mutators[m].action) # "select"
      BY AtWork DEF CommandPath
    <3>2. mutators'[m].pc # "select"
      BY <1>0, <2>3, <3>1 DEF Select, Goto, MutatorStates
    <3>3. QED
      BY <2>3, <3>2 DEF Select, At
  <2>4. CASE RemoteStep(m)
    BY <2>1, <2>4
    DEF RemoteStep, UidMoveStep, UidCopyStep, StoreDeletedStep, ExpungeCopiedStep,
        UidStoreStep, UidExpungeStep, Command, At
  <2>5. CASE WriteLocalState(m) \/ WriteRemoteBinding(m) \/ RemoveRow(m)
    BY <2>1, <2>5 DEF WriteLocalState, WriteRemoteBinding, RemoveRow, Statement, At
  <2>6. QED
    BY <1>1, <2>2, <2>3, <2>4, <2>5 DEF Step
<1>5. CommandPath(mutators[m].action) # "approve"
  BY AtWork, ActionKinds DEF CommandPath
<1>6. mutators'[m].pc # "approve"
  <2>1. ~Begins(m)
    BY DEF Begins
  <2>2. Rest(m) \/ Opens(m) \/ GoesOn(m)
    BY <1>3, <1>4, <2>1 DEF Walks
  <2>3. CASE Rest(m)
    BY <1>0, <2>3 DEF Rest, Idle
  <2>4. CASE Opens(m)
    BY <1>0, <1>5, <2>4, OpenedIs DEF Opens, Becomes, MutatorStates
  <2>5. CASE GoesOn(m)
    BY <1>0, <2>5 DEF GoesOn, Goto, MutatorStates
  <2>6. QED
    BY <2>2, <2>3, <2>4, <2>5
<1>7. QED
  BY <1>2, <1>3, <1>4, <1>6, WalksTo DEF Idle

LEMMA RunsStep ==
  ASSUME Typed, Undisturbed, RunsNumbered, [Next]_vars
  PROVE  RunsNumbered'
<1>0. /\ audit \in Seq(AuditRecords) /\ runs \in Nat /\ synced \in 0..Len(audit)
      /\ setting.mutators \subseteq Mutators /\ setting' = setting
      /\ \A i \in 1..Len(audit) : audit[i].run \in Nat /\ audit[i].run <= runs
  <2>1. audit \in Seq(AuditRecords) /\ runs \in Nat /\ synced \in 0..Len(audit)
    BY MutationAssumption DEF Typed, TypeOK
  <2>2. \A i \in 1..Len(audit) : audit[i] \in AuditRecords /\ i \in DOMAIN audit
    BY <2>1
  <2>3. \A record \in AuditRecords : record.run \in Nat
    BY DEF AuditRecords, Runs
  <2>4. QED
    BY <2>1, <2>2, <2>3, SettingTyped, Quiet DEF RunsNumbered
<1>1. runs' \in Nat /\ runs <= runs'
  <2>1. runs' = runs \/ runs' = runs + 1
    BY WhoChanges DEF Request, Prepare, DryRun
  <2>2. QED
    BY <1>0, <2>1
<1>2. \A i \in DOMAIN audit' : audit'[i].run <= runs'
  <2>1. CASE UNCHANGED audit
    BY <1>0, <1>1, <2>1
  <2>2. ASSUME NEW record \in AuditRecords, Appends(record), record.run <= runs'
        PROVE  \A i \in DOMAIN audit' : audit'[i].run <= runs'
    <3>1. /\ DOMAIN audit' = 1..(Len(audit) + 1) /\ audit'[Len(audit) + 1] = record
          /\ \A i \in 1..Len(audit) : audit'[i] = audit[i]
      BY <1>0, <2>2 DEF Appends
    <3>2. QED
      BY <1>0, <1>1, <2>2, <3>1
  <2>3. ASSUME NEW record, NEW m \in setting.mutators, OwnRecord(m, record)
        PROVE  record.run <= runs'
    BY <1>0, <2>3 DEF OwnRecord, RunsNumbered
  <2>4. CASE PowerLoss
    <3>1. PICK n \in synced..Len(audit) : audit' = SubSeq(audit, 1, n)
      BY <2>4 DEF PowerLoss
    <3>2. DOMAIN audit' = 1..n /\ \A i \in 1..n : audit'[i] = audit[i] /\ i \in 1..Len(audit)
      BY <1>0, <3>1
    <3>3. QED
      BY <1>0, <1>1, <3>2
  <2>5. ASSUME NEW record, record.run = runs + 1, runs' = runs + 1 PROVE record.run <= runs'
    BY <1>0, <2>5
  <2>6. QED
    BY <2>1, <2>2, <2>3, <2>4, <2>5, AuditStep
<1>3. ASSUME NEW m \in Mutators, mutators'[m].pc # "idle"
      PROVE  m \in setting.mutators /\ mutators'[m].run <= runs'
  <2>1. CASE UNCHANGED vars
    BY <1>3, <2>1 DEF RunsNumbered, At, vars
  <2>2. CASE ~At(m, "idle") /\ Step(m)
    <3>1. m \in setting.mutators /\ mutators[m].run <= runs /\ mutators[m].run \in Nat
      BY <2>2, AtWork DEF RunsNumbered, Runs
    <3>2. mutators'[m].run = mutators[m].run
      BY <1>3, <2>2, StepKeeps
    <3>3. QED
      BY <1>0, <1>1, <3>1, <3>2
  <2>3. ASSUME m \in setting.mutators, NEW row \in rows, NEW action \in setting.actions,
               Prepare(m, row, action)
        PROVE  mutators'[m].run <= runs'
    <3>1. mutators'[m].run = runs + 1 /\ runs' = runs + 1
      BY <2>3 DEF Prepare, Typed, TypeOK
    <3>2. QED
      BY <1>0, <3>1
  <2>4. QED
    BY <1>3, <2>1, <2>2, <2>3, SoleStep DEF RunsNumbered
<1>4. QED
  BY <1>0, <1>2, <1>3 DEF RunsNumbered, At

\* The premises of every step of the invariant.
AtStep == Typed /\ HandlesInv /\ Undisturbed /\ RowsApart /\ RunsNumbered /\ [Next]_vars

LEMMA RunIsOpenStep ==
  ASSUME Typed, Undisturbed, RunsNumbered, [Next]_vars, NEW m \in Mutators,
         mutators'[m].pc # "idle", ~At(m, "idle") => RunIsOpen(mutators[m])
  PROVE  RunIsOpen(mutators[m])'
<1>0. /\ Typed /\ Undisturbed /\ RunsNumbered /\ [Next]_vars
      /\ audit \in Seq(AuditRecords) /\ synced \in 0..Len(audit) /\ runs \in Nat
      /\ mutators \in [Mutators -> MutatorStates]
  BY MutationAssumption DEF Typed, TypeOK
<1>1. CASE UNCHANGED vars
  BY <1>1 DEF RunIsOpen, OpenRun, vars, At
<1>2. ASSUME NEW row \in rows, NEW action \in setting.actions, Prepare(m, row, action)
      PROVE  RunIsOpen(mutators[m])'
  <2>1. mutators'[m].pc = "approve" /\ mutators'[m].run = runs + 1 /\ audit' = audit
    BY <1>0, <1>2 DEF Prepare
  <2>2. \A i \in DOMAIN audit : audit[i].run # runs + 1
    BY <1>0 DEF RunsNumbered
  <2>3. QED
    BY <2>1, <2>2 DEF RunIsOpen
<1>3. ASSUME ~At(m, "idle"), Step(m)
      PROVE  RunIsOpen(mutators[m])'
  <2>1. PICK run, entry : run = mutators[m].run /\ entry = mutators[m].entry
    OBVIOUS
  <2>2. /\ mutators'[m].run = run /\ mutators'[m].entry = entry
        /\ mutators'[m].pc # "approve" /\ ~At(m, "reconciled") /\ ~At(m, "failed")
    BY <1>0, <1>3, <2>1, StepKeeps
  <2>3. run <= runs /\ run \in Nat
    BY <1>0, <1>3, <2>1, AtWork DEF RunsNumbered, Runs
  <2>4. RunIsOpen(mutators[m])
    BY <1>3
  <2>5. CASE At(m, "approve")
    <3>1. Approve(m)
      BY <1>3, <2>5
      DEF Step, Select, RemoteStep, UidMoveStep, UidCopyStep, StoreDeletedStep,
          ExpungeCopiedStep, UidStoreStep, UidExpungeStep, Command, Executed,
          WriteLocalState, WriteRemoteBinding, RemoveRow, Statement, Reconciled, Failed, At
    <3>2. PICK record : record = [run |-> run, handle |-> entry.id, status |-> "approved"]
      OBVIOUS
    <3>3. record \in AuditRecords
      BY <1>0, <1>3, <2>1, <3>2, AtWork DEF AuditRecords, AuditStatuses
    <3>4. audit' = Append(audit, record) /\ synced' = Len(audit')
      BY <2>1, <3>1, <3>2 DEF Approve, Audited, Record
    <3>5. /\ DOMAIN audit' = 1..(Len(audit) + 1) /\ audit'[Len(audit) + 1] = record
          /\ \A i \in 1..Len(audit) : audit'[i] = audit[i]
          /\ synced' = Len(audit) + 1
      BY <1>0, <3>3, <3>4
    <3>6. \A i \in 1..Len(audit) : audit[i].run # run
      BY <1>0, <2>1, <2>4, <2>5 DEF RunIsOpen, At
    <3>7. \A i \in DOMAIN audit' :
            audit'[i].run = run => audit'[i].handle = entry.id /\ audit'[i].status = "approved"
      BY <1>0, <3>2, <3>5, <3>6
    <3>8. /\ Len(audit) + 1 \in 1..synced' /\ audit'[Len(audit) + 1].run = run
          /\ audit'[Len(audit) + 1].handle = entry.id
          /\ audit'[Len(audit) + 1].status = "approved"
      BY <1>0, <3>2, <3>5
    <3>9. OpenRun(run, entry.id)'
      BY <3>7, <3>8 DEF OpenRun
    <3>10. QED
      BY <2>2, <3>7, <3>9 DEF RunIsOpen
  <2>6. CASE ~At(m, "approve")
    <3>1. OpenRun(run, entry.id)
      BY <2>1, <2>4, <2>6 DEF RunIsOpen, At
    <3>2. \A n \in Mutators : ~At(n, "reconciled")
      BY <1>0, <1>3, <2>2, OneAtWork DEF At
    <3>3. OpenRun(run, entry.id)'
      BY <1>0, <2>3, <3>1, <3>2, OpenStays
    <3>4. \A i \in DOMAIN audit : audit[i].run = run => audit[i].handle = entry.id
      BY <2>1, <2>4 DEF RunIsOpen
    <3>5. \A i \in DOMAIN audit' : audit'[i].run = run => audit'[i].handle = entry.id
      <4>1. CASE UNCHANGED audit
        BY <3>4, <4>1
      <4>2. ASSUME NEW record \in AuditRecords, Appends(record),
                   record.run = run => record.handle = entry.id
            PROVE  \A i \in DOMAIN audit' : audit'[i].run = run => audit'[i].handle = entry.id
        <5>1. /\ DOMAIN audit' = 1..(Len(audit) + 1) /\ audit'[Len(audit) + 1] = record
              /\ \A i \in 1..Len(audit) : audit'[i] = audit[i] /\ i \in DOMAIN audit
          BY <1>0, <4>2 DEF Appends
        <5>2. QED
          BY <1>0, <3>4, <4>2, <5>1
      <4>3. ASSUME NEW n \in setting.mutators, NEW record, OwnRecord(n, record)
            PROVE  record.handle = entry.id
        <5>1. n = m
          BY <1>0, <1>3, <4>3, SettingTyped, OneAtWork DEF OwnRecord
        <5>2. QED
          BY <2>1, <4>3, <5>1 DEF OwnRecord
      <4>4. ~PowerLoss
        BY <2>2 DEF PowerLoss, Idle
      <4>5. runs + 1 # run
        BY <1>0, <2>3
      <4>6. QED
        BY <1>0, <4>1, <4>2, <4>3, <4>4, <4>5, AuditStep
    <3>6. QED
      BY <2>2, <3>3, <3>5 DEF RunIsOpen
  <2>7. QED
    BY <2>5, <2>6
<1>4. QED
  BY <1>0, <1>1, <1>2, <1>3, SoleStep

LEMMA RowInHandStep ==
  ASSUME AtStep, NEW m \in Mutators, mutators'[m].pc # "idle",
         ~At(m, "idle") => RowInHand(mutators[m])
  PROVE  RowInHand(mutators[m])'
<1>0. /\ Typed /\ Undisturbed /\ RunsNumbered /\ RowsApart /\ [Next]_vars
      /\ mutators \in [Mutators -> MutatorStates]
  BY DEF AtStep, Typed, TypeOK
<1>1. CASE UNCHANGED vars
  BY <1>1 DEF RowInHand, vars, At
<1>2. ASSUME NEW row \in rows, NEW action \in setting.actions, Prepare(m, row, action)
      PROVE  RowInHand(mutators[m])'
  <2>1. mutators'[m].pc = "approve" /\ mutators'[m].entry = row /\ rows' = rows
    BY <1>0, <1>2 DEF Prepare
  <2>2. QED
    BY <2>1 DEF RowInHand
<1>3. ASSUME ~At(m, "idle"), Step(m)
      PROVE  RowInHand(mutators[m])'
  <2>1. PICK action, entry, pc : /\ action = mutators[m].action /\ entry = mutators[m].entry
                                 /\ pc = mutators'[m].pc
    OBVIOUS
  <2>2. /\ mutators'[m].action = action /\ mutators'[m].entry = entry /\ mutators'[m].pc = pc
    BY <1>0, <1>3, <2>1, StepKeeps
  <2>3. RowInHand(mutators[m])
    BY <1>3
  <2>4. /\ entry \in Rows /\ action \in AllActions
    BY <1>0, <1>3, <2>1, AtWork
  <2>5. \A next : Goto(m, next) => pc = next
    BY <1>0, <2>1 DEF Goto, MutatorStates
  <2>6. CASE Approve(m) \/ Select(m) \/ RemoteStep(m)
    <3>1. rows' = rows /\ entry \in rows
      BY <2>1, <2>3, <2>6
      DEF Approve, Audited, Select, RemoteStep, UidMoveStep, UidCopyStep, StoreDeletedStep,
          ExpungeCopiedStep, UidStoreStep, UidExpungeStep, Command, At, RowInHand, Untried
    <3>2. pc \in Untried \union {"store_deleted", "expunge_copied", "executed", "failed"}
      <4>1. CASE Approve(m) \/ RemoteStep(m)
        BY <2>5, <4>1
        DEF Approve, Audited, RemoteStep, UidMoveStep, UidCopyStep, StoreDeletedStep,
            ExpungeCopiedStep, UidStoreStep, UidExpungeStep, Command, Untried
      <4>2. CASE Select(m)
        <5>1. CommandPath(action) \in Untried \union {"failed"}
          BY <1>0, <1>3, <2>1, <2>4, AtWork DEF CommandPath, Untried
        <5>2. pc = CommandPath(action) \/ pc = "failed"
          BY <1>0, <2>1, <2>5, <4>2 DEF Select, MutatorStates
        <5>3. QED
          BY <5>1, <5>2
      <4>3. QED
        BY <2>6, <4>1, <4>2
    <3>3. QED
      BY <2>2, <3>1, <3>2 DEF RowInHand, Untried
  <2>7. CASE Executed(m)
    <3>1. /\ rows' = rows /\ entry \in rows
          /\ pc = IF action.kind = "expunge" THEN "remove_entry" ELSE "local_state"
      BY <1>0, <2>1, <2>3, <2>5, <2>7 DEF Executed, Audited, At, RowInHand
    <3>2. QED
      BY <2>2, <3>1 DEF RowInHand, Untried
  <2>8. CASE WriteLocalState(m)
    <3>1. entry \in rows /\ action.kind # "expunge"
      BY <2>1, <2>3, <2>8 DEF WriteLocalState, Statement, At, RowInHand
    <3>2. \/ pc = "failed"
          \/ /\ pc = "remote_binding"
             /\ rows' = {IF row.id = entry.id THEN Midway(action, entry) ELSE row : row \in rows}
      BY <1>0, <2>1, <2>3, <2>5, <2>8, LocalStateEffect
    <3>3. pc = "remote_binding" => Midway(action, entry) \in rows'
      BY <3>1, <3>2
    <3>4. QED
      BY <2>2, <3>1, <3>2, <3>3 DEF RowInHand, Untried
  <2>9. CASE WriteRemoteBinding(m)
    <3>1. action.kind # "expunge"
      BY <2>1, <2>3, <2>9 DEF WriteRemoteBinding, Statement, At, RowInHand
    <3>2. /\ Midway(action, entry) \in rows
          /\ \/ pc = "failed"
             \/ /\ pc = "reconciled"
                /\ rows' = {IF row.id = entry.id THEN Outcome(action, entry) ELSE row :
                              row \in rows}
      BY <1>0, <2>1, <2>3, <2>5, <2>9, RemoteBindingEffect
    <3>3. Midway(action, entry).id = entry.id
      BY DEF Midway
    <3>4. pc = "reconciled" => Outcome(action, entry) \in rows'
      BY <3>2, <3>3
    <3>5. QED
      BY <2>2, <3>1, <3>2, <3>4 DEF RowInHand, Untried
  <2>10. CASE RemoveRow(m)
    <3>1. action.kind = "expunge"
      BY <2>1, <2>3, <2>10 DEF RemoveRow, Statement, At, RowInHand
    <3>2. \/ pc = "failed"
          \/ pc = "reconciled" /\ rows' = RemoveEntry(rows, entry.id)
      BY <2>1, <2>5, <2>10 DEF RemoveRow, Statement
    <3>3. pc = "reconciled" => ~HasRow(rows', entry.id)
      BY <3>2 DEF HasRow, RemoveEntry
    <3>4. QED
      BY <2>2, <3>1, <3>2, <3>3 DEF RowInHand, Untried
  <2>11. ~Reconciled(m) /\ ~Failed(m)
    BY <1>0, <1>3, StepKeeps DEF Reconciled, Failed
  <2>12. QED
    BY <1>3, <2>6, <2>7, <2>8, <2>9, <2>10, <2>11 DEF Step
<1>4. QED
  BY <1>0, <1>1, <1>2, <1>3, SoleStep

-----------------------------------------------------------------------------
(* What a command does for the outcome of its run *)

LEMMA MoveBrings ==
  ASSUME AtStep, NEW m \in Mutators, UidMoveStep(m) \/ UidCopyStep(m),
         mutators'[m].pc \in Tried,
         NEW action, action = mutators[m].action, NEW entry, entry = mutators[m].entry,
         Stands(entry)
  PROVE  Stands(Outcome(action, entry))'
<1> DEFINE box == entry.binding.box
           uid == entry.binding.uid
           target == Folder[action.role]
<1>1. /\ Typed /\ HandlesInv /\ [Next]_vars /\ mutators \in [Mutators -> MutatorStates]
      /\ ~At(m, "idle") /\ WellNumbered(server)
  BY SettingTyped DEF AtStep, Typed, TypeOK, UidMoveStep, UidCopyStep, Command, At
<1>2. /\ entry \in Rows /\ action \in AllActions /\ entry.binding \in Identities
      /\ entry.binding # NoBinding /\ Binding(m) = entry.binding /\ box \in Mailboxes
  BY <1>1, AtWork, MutationAssumption DEF Binding
<1>3. action.kind = "move" /\ target = Target(m) /\ target \in Mailboxes
  BY <1>1, AtWork DEF Typed, Works, UidMoveStep, UidCopyStep, Command, At, MovePcs, Target
<1>4. HoldsAs(entry.binding, entry)
  BY <1>2 DEF Stands, AtHome
<1> HIDE DEF box, uid, target
<1>5. ~Goto(m, "failed")
  BY <1>1 DEF Goto, MutatorStates, Tried
<1>6. /\ HasRoom(server, target)
      /\ \/ server' = UidMove(server, box, uid, target)
         \/ server' = Copy(server, box, uid, target)
  BY <1>2, <1>3, <1>5 DEF UidMoveStep, UidCopyStep, Command, TargetHasRoom, box, uid
<1>7. Present(server, box, uid)
  BY <1>4 DEF HoldsAs, box, uid
<1>8. PICK next : next = server[target].next
  OBVIOUS
<1>9. /\ LeavesOthers(server, server', box, uid)
      /\ server'[target].msgs[next] = server[box].msgs[uid]
  BY <1>1, <1>2, <1>3, <1>6, <1>7, <1>8, UidMoveLeaves, CopyLeaves
<1>10. /\ next \in Uids /\ next \in Nat /\ server[target].validity \in Nat
       /\ server'[target].validity = server[target].validity
  BY <1>1, <1>3, <1>6, <1>8, <1>9, MessageTyped
  DEF HasRoom, WellNumbered, MailboxStates, LeavesOthers
<1>11. PICK identity : identity = [box |-> target, validity |-> server[target].validity,
                                   uid |-> next]
  OBVIOUS
<1>12. /\ identity \in Identities /\ identity # NoBinding /\ identity.box = target
       /\ identity.uid = next /\ identity.validity = server'[target].validity
  BY <1>3, <1>10, <1>11, MutationAssumption DEF Identities
<1>13. ~IsBound(identity)
  BY <1>1, <1>3, <1>8, <1>10, <1>11, BoundIsOld
<1>14. ~(IsBound(identity)')
  BY <1>1, <1>12, <1>13, BoundShrinks
<1>15. PICK outcome : outcome = Outcome(action, entry)
  OBVIOUS
<1>16. /\ outcome.role = action.role /\ outcome.content = entry.content
       /\ outcome.read = entry.read /\ outcome.starred = entry.starred
       /\ outcome.binding = NoBinding
  BY <1>3, <1>15 DEF Outcome, NewFlag
<1>17. HoldsAs(identity, outcome)'
  <2>1. server[box].msgs[uid] # NoMessage
    BY <1>7 DEF Present
  <2>2. Present(server', target, next)
    BY <1>9, <1>10, <2>1 DEF Present
  <2>3. SamePlace(entry, server[box].msgs[uid]) /\ SameFlags(entry, server[box].msgs[uid])
    BY <1>4 DEF HoldsAs, box, uid
  <2>4. QED
    BY <1>9, <1>12, <1>16, <2>2, <2>3 DEF HoldsAs, SamePlace, SameFlags
<1>18. AtHome(identity, outcome)'
  BY <1>12, <1>16, <1>17 DEF AtHome, target
<1>19. Stands(outcome)'
  BY <1>12, <1>14, <1>16, <1>18 DEF Stands
<1>20. QED
  BY <1>15, <1>19

LEMMA FlagBrings ==
  ASSUME AtStep, NEW m \in Mutators, UidStoreStep(m), mutators'[m].pc \in Tried,
         NEW action, action = mutators[m].action, NEW entry, entry = mutators[m].entry,
         Stands(entry)
  PROVE  Stands(Outcome(action, entry))'
<1> DEFINE box == entry.binding.box
           uid == entry.binding.uid
           old == server[box].msgs[uid]
           new == [old EXCEPT ![action.flag] = action.value]
<1>1. /\ Typed /\ mutators \in [Mutators -> MutatorStates]
      /\ ~At(m, "idle") /\ WellNumbered(server) /\ server \in Servers
  BY SettingTyped DEF AtStep, Typed, TypeOK, UidStoreStep, Command, At, WellNumbered
<1>2. /\ entry \in Rows /\ action \in AllActions /\ entry.binding \in Identities
      /\ entry.binding # NoBinding /\ Binding(m) = entry.binding /\ box \in Mailboxes
  BY <1>1, AtWork, MutationAssumption DEF Binding
<1>3. action.kind = "flag" /\ action.flag \in FlagNames /\ action.value \in BOOLEAN
  BY <1>1, <1>2, ActionKinds DEF Typed, Works, UidStoreStep, Command, At
<1>4. HoldsAs(entry.binding, entry) /\ entry.binding.box = Folder[entry.role]
  BY <1>2 DEF Stands, AtHome
<1>5. ~Goto(m, "failed")
  BY <1>1 DEF Goto, MutatorStates, Tried
<1>6. Present(server, box, uid) /\ old \in Messages /\ uid \in Uids
      /\ server[box] \in MailboxStates
  BY <1>1, <1>2, <1>4, MessageTyped DEF HoldsAs
<1>7. server' = [server EXCEPT ![box].msgs[uid] = new]
  BY <1>2, <1>5, <1>6 DEF UidStoreStep, Command, SetFlag
<1>8. /\ new \in Messages /\ new.mail = old.mail
      /\ new.seen = (IF action.flag = "seen" THEN action.value ELSE old.seen)
      /\ new.flagged = (IF action.flag = "flagged" THEN action.value ELSE old.flagged)
  BY <1>3, <1>6 DEF Messages, FlagNames
<1> HIDE DEF new
<1>9. server'[box].msgs[uid] = new /\ server'[box].validity = server[box].validity
  BY <1>1, <1>2, <1>6, <1>7 DEF Servers, MailboxStates
<1>10. PICK outcome : outcome = Outcome(action, entry)
  OBVIOUS
<1>11. /\ outcome.role = entry.role /\ outcome.content = entry.content
       /\ outcome.binding = entry.binding
       /\ outcome.read = (IF action.flag = "seen" THEN action.value ELSE entry.read)
       /\ outcome.starred = (IF action.flag = "flagged" THEN action.value ELSE entry.starred)
  BY <1>3, <1>10 DEF Outcome, NewFlag
<1>12. old.mail = entry.content.mail /\ old.seen = entry.read /\ old.flagged = entry.starred
  BY <1>4 DEF HoldsAs, SamePlace, SameFlags
<1>13. SamePlace(outcome, new) /\ SameFlags(outcome, new)
  BY <1>8, <1>11, <1>12 DEF SamePlace, SameFlags
<1>14. Present(server', box, uid)
  BY <1>6, <1>8, <1>9, MutationAssumption DEF Present
<1>15. HoldsAs(entry.binding, outcome)'
  BY <1>4, <1>9, <1>13, <1>14 DEF HoldsAs
<1>16. Stands(outcome)'
  BY <1>2, <1>4, <1>11, <1>15 DEF Stands, AtHome
<1>17. QED
  BY <1>10, <1>16

LEMMA OutcomeInSightStep ==
  ASSUME AtStep, NEW m \in Mutators, mutators'[m].pc # "idle",
         ~At(m, "idle") => RowInHand(mutators[m]) /\ OutcomeInSight(mutators[m]),
         \A row \in rows : Explained(row)
  PROVE  OutcomeInSight(mutators[m])'
<1>0. /\ Typed /\ HandlesInv /\ Undisturbed /\ RunsNumbered /\ [Next]_vars
      /\ mutators \in [Mutators -> MutatorStates] /\ rows \subseteq Rows
      /\ audit \in Seq(AuditRecords) /\ synced \in 0..Len(audit) /\ runs \in Nat
  BY MutationAssumption DEF AtStep, Typed, TypeOK
<1>1. CASE UNCHANGED vars
  <2>1. OutcomeInSight(mutators[m])
    BY <1>1 DEF vars, At
  <2>2. PICK st : st = mutators[m] /\ st = mutators'[m]
    BY <1>1 DEF vars
  <2>3. ASSUME NEW row, Stands(row) PROVE Stands(row)'
    <3>1. ASSUME NEW identity PROVE /\ HoldsAs(identity, row)' = HoldsAs(identity, row)
                                    /\ IsBound(identity)' = IsBound(identity)
      BY <1>1 DEF HoldsAs, IsBound, At, Binding, vars
    <3>2. QED
      BY <2>3, <3>1 DEF Stands, AtHome
  <2>4. OpenBefore(st.entry.id, st.run) => OpenBefore(st.entry.id, st.run)'
    BY <1>1 DEF OpenBefore, OpenRun, vars
  <2>5. QED
    BY <2>1, <2>2, <2>3, <2>4 DEF OutcomeInSight
<1>2. ASSUME NEW handle, NEW run \in Runs, OpenRun(run, handle)
      PROVE  run <= runs
  BY <1>0, <1>2 DEF OpenRun, RunsNumbered
<1>3. ASSUME NEW handle, NEW run \in Nat, OpenBefore(handle, run),
             \A n \in Mutators : ~At(n, "reconciled")
      PROVE  OpenBefore(handle, run)'
  BY <1>0, <1>2, <1>3, OpenStays DEF OpenBefore
<1>4. ASSUME NEW row \in rows, NEW action \in setting.actions, Prepare(m, row, action)
      PROVE  OutcomeInSight(mutators[m])'
  <2>1. /\ mutators'[m].pc = "approve" /\ mutators'[m].run = runs + 1
        /\ mutators'[m].entry = row /\ server' = server /\ At(m, "idle")
    BY <1>0, <1>4 DEF Prepare
  <2>2. \A n \in Mutators : ~At(n, "reconciled")
    <3>1. ASSUME NEW n \in Mutators, At(n, "reconciled") PROVE mutators'[n] = mutators[n]
      BY <1>0, <1>4, <3>1 DEF Prepare, At
    <3>2. ASSUME NEW n \in Mutators, At(n, "reconciled") PROVE n = m
      <4>1. RunsNumbered'
        BY <1>0, RunsStep
      <4>2. n \in setting.mutators /\ m \in setting'.mutators /\ setting' = setting
        BY <1>0, <2>1, <3>2, <4>1, Quiet DEF RunsNumbered, At
      <4>3. QED
        BY <1>0, <4>2 DEF Undisturbed, Alone
    <3>3. QED
      BY <2>1, <3>2 DEF At
  <2>3. CASE Open(row.id)
    <3>1. PICK run : run = runs + 1
      OBVIOUS
    <3>2. PICK other \in Runs : OpenRun(other, row.id)
      BY <2>3 DEF Open
    <3>3. other # run /\ other <= runs
      BY <1>0, <1>2, <3>1, <3>2 DEF Runs
    <3>4. OpenRun(other, row.id)'
      BY <1>0, <2>2, <3>2, <3>3, OpenStays
    <3>5. OpenBefore(row.id, run)'
      BY <3>3, <3>4 DEF OpenBefore
    <3>6. QED
      BY <2>1, <3>1, <3>5 DEF OutcomeInSight
  <2>4. CASE Stands(row)
    <3>1. Stands(row)'
      BY <1>0, <2>1, <2>4, StandsStays
    <3>2. QED
      BY <2>1, <3>1 DEF OutcomeInSight, Untried, Tried
  <2>5. QED
    BY <2>3, <2>4 DEF Explained
<1>5. ASSUME ~At(m, "idle"), Step(m)
      PROVE  OutcomeInSight(mutators[m])'
  <2>1. PICK action, entry, run, pc :
          /\ action = mutators[m].action /\ entry = mutators[m].entry
          /\ run = mutators[m].run /\ pc = mutators'[m].pc
    OBVIOUS
  <2>2. /\ mutators'[m].action = action /\ mutators'[m].entry = entry
        /\ mutators'[m].run = run /\ mutators'[m].pc = pc /\ ~At(m, "reconciled")
    BY <1>0, <1>5, <2>1, StepKeeps
  <2>3. /\ entry \in Rows /\ action \in AllActions /\ run \in Nat
        /\ Outcome(action, entry) \in Rows
        /\ Binding(m) \in Identities /\ Binding(m) = entry.binding
        /\ CommandPath(action) # "refused"
    BY <1>0, <1>5, <2>1, AtWork, OutcomeTyped DEF Runs, Binding
  <2>4. CASE OpenBefore(entry.id, run)
    <3>1. \A n \in Mutators : ~At(n, "reconciled")
      BY <1>0, <1>5, <2>2, OneAtWork DEF At
    <3>2. OpenBefore(entry.id, run)'
      BY <1>3, <2>3, <2>4, <3>1
    <3>3. QED
      BY <2>2, <3>2 DEF OutcomeInSight
  <2>5. CASE /\ mutators[m].pc \in Untried => Stands(entry)
             /\ mutators[m].pc \in Tried =>
                  (action.kind # "expunge" => Stands(Outcome(action, entry)))
    <3>1. \A next : Goto(m, next) => pc = next
      BY <1>0, <2>1 DEF Goto, MutatorStates
    <3>2. SUFFICES ASSUME TRUE
                   PROVE  /\ pc \in Untried => Stands(entry)'
                          /\ pc \in Tried =>
                               (action.kind # "expunge" => Stands(Outcome(action, entry))')
      BY <2>2 DEF OutcomeInSight
    <3>3. CASE Approve(m) \/ Select(m)
      <4>1. server' = server /\ Stands(entry)
        BY <2>5, <3>3 DEF Approve, Audited, Select, At, Untried
      <4>2. Stands(entry)'
        BY <1>0, <2>3, <4>1, StandsStays
      <4>3. pc \notin Tried
        <5>1. CommandPath(action) \notin Tried
          BY <2>3, ActionKinds DEF CommandPath, Tried
        <5>2. QED
          BY <1>0, <2>1, <3>1, <3>3, <5>1 DEF Approve, Audited, Select, Tried, MutatorStates
      <4>4. QED
        BY <4>2, <4>3
    <3>4. CASE UidMoveStep(m) \/ UidCopyStep(m)
      <4>1. Stands(entry) /\ pc \notin Untried
        BY <2>5, <3>1, <3>4 DEF UidMoveStep, UidCopyStep, Command, At, Untried
      <4>2. pc \in Tried => Stands(Outcome(action, entry))'
        BY <2>1, <3>4, <4>1, MoveBrings
      <4>3. QED
        BY <4>1, <4>2
    <3>5. CASE UidStoreStep(m)
      <4>1. Stands(entry) /\ pc \notin Untried
        BY <2>5, <3>1, <3>5 DEF UidStoreStep, Command, At, Untried
      <4>2. pc \in Tried => Stands(Outcome(action, entry))'
        BY <2>1, <3>5, <4>1, FlagBrings
      <4>3. QED
        BY <4>1, <4>2
    <3>6. CASE UidExpungeStep(m)
      <4>1. pc \notin Untried /\ action.kind = "expunge"
        BY <1>0, <1>5, <2>1, <3>1, <3>6 DEF UidExpungeStep, Command, At, Untried, Typed, Works
      <4>2. QED
        BY <4>1
    <3>7. CASE StoreDeletedStep(m) \/ ExpungeCopiedStep(m)
      <4>1. /\ pc \notin Untried /\ action.kind = "move" /\ mutators[m].pc \in Tried
        BY <1>0, <1>5, <2>1, <3>1, <3>7
        DEF StoreDeletedStep, ExpungeCopiedStep, Command, At, Untried, Tried, Typed, Works,
            MovePcs
      <4>2. Stands(Outcome(action, entry)) /\ Outcome(action, entry).binding = NoBinding
        BY <2>5, <4>1 DEF Outcome
      <4>3. ASSUME NEW n \in Mutators, RemoteStep(n), server' # server
            PROVE  NoBinding # Binding(n)
        BY <1>0, <4>3, RemoteStepIs, AtWork, MutationAssumption
      <4>4. Stands(Outcome(action, entry))'
        BY <1>0, <2>3, <4>2, <4>3, StandsStays
      <4>5. QED
        BY <4>1, <4>4
    <3>8. CASE Executed(m) \/ WriteLocalState(m) \/ WriteRemoteBinding(m)
      <4>1. server' = server /\ mutators[m].pc \in Tried /\ pc \notin Untried
        BY <3>1, <3>8
        DEF Executed, Audited, WriteLocalState, WriteRemoteBinding, Statement, At, Tried,
            Untried
      <4>2. Stands(Outcome(action, entry)) => Stands(Outcome(action, entry))'
        BY <1>0, <2>3, <4>1, StandsStays
      <4>3. QED
        BY <2>5, <4>1, <4>2
    <3>9. CASE RemoveRow(m)
      <4>1. pc \notin Untried /\ action.kind = "expunge"
        BY <1>5, <2>1, <3>1, <3>9 DEF RemoveRow, Statement, At, RowInHand, Untried
      <4>2. QED
        BY <4>1
    <3>10. ~Reconciled(m) /\ ~Failed(m)
      BY <1>0, <1>5, StepKeeps DEF Reconciled, Failed
    <3>11. QED
      BY <1>5, <3>3, <3>4, <3>5, <3>6, <3>7, <3>8, <3>9, <3>10 DEF Step, RemoteStep
  <2>6. QED
    BY <1>5, <2>1, <2>4, <2>5 DEF OutcomeInSight
<1>6. QED
  BY <1>0, <1>1, <1>4, <1>5, SoleStep

-----------------------------------------------------------------------------
(* Every row stays explained *)

AllInHand ==
  \A m \in Mutators :
    ~At(m, "idle") =>
      RunIsOpen(mutators[m]) /\ RowInHand(mutators[m]) /\ OutcomeInSight(mutators[m])

\* A run is open all the time from its approval to its last record.
LEMMA OwnRunStays ==
  ASSUME Typed, Undisturbed, RunsNumbered, [Next]_vars, NEW m \in Mutators,
         RunIsOpen(mutators[m]), mutators[m].pc \notin {"idle", "approve", "reconciled"},
         NEW handle, handle = mutators[m].entry.id
  PROVE  Open(handle)'
<1>1. PICK run : run = mutators[m].run
  OBVIOUS
<1>2. /\ Typed /\ Undisturbed /\ RunsNumbered /\ [Next]_vars /\ ~At(m, "idle")
  BY DEF At
<1>3. OpenRun(run, handle) /\ run \in Runs /\ run <= runs
  BY <1>1, <1>2, AtWork DEF RunIsOpen, RunsNumbered
<1>4. \A n \in Mutators : ~At(n, "reconciled")
  BY <1>2, OneAtWork DEF At
<1>5. OpenRun(run, handle)'
  BY <1>2, <1>3, <1>4, OpenStays
<1>6. QED
  BY <1>3, <1>5 DEF Open

\* A row that stands is still right, or its message was reached by an open run.
LEMMA StandingStays ==
  ASSUME AtStep, AllInHand, NEW row \in rows, Stands(row)
  PROVE  Open(row.id)' \/ Stands(row)'
<1>0. Typed /\ HandlesInv /\ Undisturbed /\ [Next]_vars /\ RowsApart /\ row \in Rows
  BY DEF AtStep, Typed, TypeOK
<1>1. ASSUME NEW m \in Mutators, RemoteStep(m), server' # server, row.binding = Binding(m)
      PROVE  Open(row.id)'
  <2>1. /\ mutators[m].pc \in CommandPcs /\ ~At(m, "idle") /\ Binding(m) # NoBinding
    BY <1>0, <1>1, RemoteStepIs, AtWork, MutationAssumption
  <2>2. mutators[m].entry \in rows
    BY <2>1 DEF AllInHand, RowInHand, CommandPcs, MovePcs, Untried
  <2>3. row = mutators[m].entry
    BY <1>0, <1>1, <2>1, <2>2 DEF RowsApart, Binding
  <2>4. QED
    BY <1>0, <2>1, <2>3, OwnRunStays DEF AtStep, AllInHand, CommandPcs, MovePcs
<1>2. QED
  BY <1>0, <1>1, StandsStays

\* When a run ends its outcome stands, or an earlier run is open.
LEMMA OpenRowStays ==
  ASSUME AtStep, AllInHand, NEW row \in rows, Open(row.id)
  PROVE  Open(row.id)' \/ Stands(row)'
<1>0. /\ Typed /\ HandlesInv /\ Undisturbed /\ [Next]_vars /\ RowsApart /\ RunsNumbered
      /\ row \in Rows /\ audit \in Seq(AuditRecords) /\ synced \in 0..Len(audit)
  BY DEF AtStep, Typed, TypeOK
<1>1. ASSUME NEW run \in Runs, OpenRun(run, row.id),
             \A m \in Mutators : At(m, "reconciled") => mutators[m].run # run
      PROVE  Open(row.id)'
  <2>1. run <= runs
    BY <1>0, <1>1 DEF OpenRun, RunsNumbered
  <2>2. OpenRun(run, row.id)'
    BY <1>0, <1>1, <2>1, OpenStays
  <2>3. QED
    BY <2>2 DEF Open
<1>2. PICK run \in Runs : OpenRun(run, row.id)
  BY DEF Open
<1>3. ASSUME NEW m \in Mutators, At(m, "reconciled"), mutators[m].run = run
      PROVE  Open(row.id)' \/ Stands(row)'
  <2>1. PICK action, entry : action = mutators[m].action /\ entry = mutators[m].entry
    OBVIOUS
  <2>2. ~At(m, "idle") /\ mutators[m].pc = "reconciled"
    BY <1>3 DEF At
  <2>3. RunIsOpen(mutators[m]) /\ RowInHand(mutators[m]) /\ OutcomeInSight(mutators[m])
    BY <2>2 DEF AllInHand
  <2>4. entry.id = row.id
    BY <1>0, <1>2, <1>3, <2>1, <2>3 DEF OpenRun, RunIsOpen
  <2>5. action.kind # "expunge" /\ Outcome(action, entry) \in rows
    BY <2>1, <2>2, <2>3, <2>4 DEF RowInHand, HasRow
  <2>6. row = Outcome(action, entry)
    BY <1>0, <2>4, <2>5 DEF RowsApart, Outcome
  <2>7. CASE OpenBefore(entry.id, run)
    <3>1. PICK other \in Runs : other # run /\ OpenRun(other, row.id)
      BY <2>4, <2>7 DEF OpenBefore
    <3>2. \A n \in Mutators : At(n, "reconciled") => n = m
      BY <1>0, <2>2, OneAtWork DEF At
    <3>3. QED
      BY <1>1, <1>3, <3>1, <3>2
  <2>8. CASE Stands(Outcome(action, entry))
    <3>1. ASSUME NEW n \in Mutators, RemoteStep(n), server' # server PROVE FALSE
      <4>1. mutators[n].pc \in CommandPcs /\ ~At(n, "idle")
        BY <1>0, <3>1, RemoteStepIs
      <4>2. n = m
        BY <1>0, <2>2, <4>1, OneAtWork
      <4>3. QED
        BY <2>2, <4>1, <4>2 DEF CommandPcs, MovePcs
    <3>2. Stands(row)'
      BY <1>0, <2>6, <2>8, <3>1, StandsStays
    <3>3. QED
      BY <3>2
  <2>9. QED
    BY <1>3, <2>1, <2>2, <2>3, <2>5, <2>7, <2>8 DEF OutcomeInSight, Tried
<1>4. QED
  BY <1>1, <1>2, <1>3

LEMMA ExplainedStep ==
  ASSUME AtStep, AllInHand, \A row \in rows : Explained(row), NEW new \in rows'
  PROVE  Explained(new)'
<1>1. CASE new \in rows
  <2>1. Open(new.id) \/ Stands(new)
    BY <1>1 DEF Explained
  <2>2. Open(new.id)' \/ Stands(new)'
    BY <1>1, <2>1, OpenRowStays, StandingStays
  <2>3. QED
    BY <2>2 DEF Explained
<1>2. ASSUME NEW m \in Mutators, mutators[m].pc \in {"local_state", "remote_binding"},
             new.id = mutators[m].entry.id
      PROVE  Explained(new)'
  BY <1>2, OwnRunStays DEF Explained, AtStep, AllInHand, At
<1>3. QED
  BY <1>1, <1>2, RowsStep DEF AtStep, AllInHand

LEMMA MirrorStep ==
  Typed /\ Typed' /\ HandlesInv /\ MirrorInv /\ [Next]_vars => MirrorInv'
<1> SUFFICES ASSUME Typed, HandlesInv, MirrorInv, [Next]_vars, Undisturbed'
             PROVE  /\ RowsApart'
                    /\ RunsNumbered'
                    /\ AllInHand'
                    /\ \A row \in rows' : Explained(row)'
  BY DEF MirrorInv, AllInHand
<1>1. Undisturbed
  <2>1. setting' = setting
    BY WhoChanges
  <2>2. QED
    BY <2>1 DEF Undisturbed, Alone
<1>2. AtStep /\ AllInHand /\ \A row \in rows : Explained(row)
  BY <1>1 DEF MirrorInv, AtStep, AllInHand
<1>3. RowsApart' /\ RunsNumbered'
  BY <1>2, RowsStep, RunsStep DEF AtStep, AllInHand
<1>4. ASSUME NEW m \in Mutators, mutators'[m].pc # "idle"
      PROVE  (RunIsOpen(mutators[m]) /\ RowInHand(mutators[m]) /\ OutcomeInSight(mutators[m]))'
  BY <1>2, <1>4, RunIsOpenStep, RowInHandStep, OutcomeInSightStep DEF AllInHand, AtStep
<1>5. AllInHand'
  BY <1>4 DEF AllInHand, At
<1>6. \A row \in rows' : Explained(row)'
  BY <1>2, ExplainedStep
<1>7. QED
  BY <1>3, <1>5, <1>6

LEMMA MirrorInit == Init => MirrorInv
<1> SUFFICES ASSUME Init, Undisturbed
             PROVE  /\ RowsApart /\ RunsNumbered /\ AllInHand
                    /\ \A row \in rows : Explained(row)
  BY DEF MirrorInv, AllInHand
<1>0. Typed /\ WellNumbered(server)
  BY TypedInit, SettingTyped
<1> DEFINE stored == setting.stored
<1>1. /\ stored.roles \subseteq Roles /\ stored.part \in Parts /\ stored.views = {}
      /\ \A one, other \in stored.roles : Folder[one] = Folder[other] => one = other
      /\ \A role \in Roles : Folder[role] \in Mailboxes
  BY MutationAssumption DEF Init, Undisturbed
<1>2. ASSUME NEW row \in rows
      PROVE  \E role \in stored.roles : \E uid \in UidsIn(server, Folder[role]) :
               row = RowAt(role, Folder[role], uid, stored.part)
  <2>1. PICK place \in PlacesOf(stored) : row \in RowsOf(place[1], place[2], stored.part)
    BY <1>2 DEF Init
  <2>2. PICK role \in stored.roles : place = <<role, Folder[role]>>
    BY <1>1, <2>1 DEF PlacesOf
  <2>3. row \in RowsOf(role, Folder[role], stored.part)
    BY <2>1, <2>2
  <2>4. QED
    BY <2>3 DEF RowsOf
<1> HIDE DEF stored
<1>3. RowsApart
  <2>1. ASSUME NEW one \in rows, NEW other \in rows,
               one.id = other.id \/ one.binding = other.binding
        PROVE  one = other
    <3>1. PICK role \in stored.roles : \E uid \in UidsIn(server, Folder[role]) :
               one = RowAt(role, Folder[role], uid, stored.part)
      BY <1>2
    <3>2. PICK uid \in UidsIn(server, Folder[role]) :
               one = RowAt(role, Folder[role], uid, stored.part)
      BY <3>1
    <3>3. PICK role2 \in stored.roles : \E uid2 \in UidsIn(server, Folder[role2]) :
               other = RowAt(role2, Folder[role2], uid2, stored.part)
      BY <1>2
    <3>4. PICK uid2 \in UidsIn(server, Folder[role2]) :
               other = RowAt(role2, Folder[role2], uid2, stored.part)
      BY <3>3
    <3>5. IdentityAt(Folder[role], uid) = IdentityAt(Folder[role2], uid2)
      BY <2>1, <3>2, <3>4 DEF RowAt, IngestId
    <3>6. Folder[role] = Folder[role2] /\ uid = uid2
      BY <3>5 DEF IdentityAt
    <3>7. role = role2
      BY <1>1, <3>6
    <3>8. QED
      BY <3>2, <3>4, <3>6, <3>7
  <2>2. QED
    BY <2>1 DEF RowsApart
<1>4. RunsNumbered /\ AllInHand
  BY DEF Init, RunsNumbered, AllInHand, At, Idle
<1>5. ASSUME NEW row \in rows PROVE Explained(row)
  <2>1. PICK role \in stored.roles : \E uid \in UidsIn(server, Folder[role]) :
             row = RowAt(role, Folder[role], uid, stored.part)
    BY <1>2
  <2>2. PICK uid \in UidsIn(server, Folder[role]) :
             row = RowAt(role, Folder[role], uid, stored.part)
    BY <2>1
  <2>3. PICK identity : identity = IdentityAt(Folder[role], uid)
    OBVIOUS
  <2>4. /\ server[Folder[role]].validity \in Nat /\ uid \in Uids /\ Folder[role] \in Mailboxes
        /\ Present(server, Folder[role], uid)
    BY <1>0, <1>1, MessageTyped DEF WellNumbered, MailboxStates, UidsIn
  <2>5. /\ identity \in Identities /\ identity # NoBinding
        /\ identity.box = Folder[role] /\ identity.uid = uid
        /\ identity.validity = server[Folder[role]].validity
    BY <2>3, <2>4, MutationAssumption DEF IdentityAt, Identities, Uids
  <2>6. /\ row.binding = identity /\ row.role = role
        /\ row.content.mail = server[Folder[role]].msgs[uid].mail
        /\ row.read = server[Folder[role]].msgs[uid].seen
        /\ row.starred = server[Folder[role]].msgs[uid].flagged
    BY <2>2, <2>3 DEF RowAt
  <2>7. HoldsAs(identity, row)
    BY <2>4, <2>5, <2>6 DEF HoldsAs, SamePlace, SameFlags
  <2>8. QED
    BY <2>5, <2>6, <2>7 DEF Explained, Stands, AtHome
<1>6. QED
  BY <1>3, <1>4, <1>5

LEMMA MirrorMeans == Typed /\ MirrorInv => MirrorIsTrueOrUnsettled
<1> SUFFICES ASSUME Typed, Undisturbed, MirrorInv, NEW row \in rows
             PROVE  Agrees(row) \/ Unsettled(row.id)
  BY DEF MirrorIsTrueOrUnsettled, Undisturbed
<1>1. CASE Open(row.id)
  <2>1. PICK run \in Runs : OpenRun(run, row.id)
    BY <1>1 DEF Open
  <2>2. 1..synced \subseteq DOMAIN audit
    BY DEF Typed, TypeOK
  <2>3. QED
    BY <2>1, <2>2 DEF OpenRun, Unsettled
<1>2. ASSUME NEW identity, AtHome(identity, row) PROVE Agrees(row)
  BY <1>2 DEF AtHome, HoldsAs, Agrees, UidsIn, Present
<1>3. CASE Stands(row)
  BY <1>2, <1>3 DEF Stands
<1>4. QED
  BY <1>1, <1>3 DEF MirrorInv, Explained

(* The audit file accounts for every difference between the archive and the *)
(* server: with one process, no other client and no rows of an aggregate    *)
(* view, a row that its folder does not agree with has a run that was       *)
(* approved and not reconciled, after any crash, power loss, lost reply or  *)
(* failed write (run_prepared_mutation).                                    *)
THEOREM MirrorIsTrue == Spec => []MirrorIsTrueOrUnsettled
<1> DEFINE Inv == Typed /\ HandlesInv /\ MirrorInv
<1>1. Inv /\ [Next]_vars => Inv'
  BY TypedStep, HandlesStep, MirrorStep
<1>2. Init => Inv
  BY TypedInit, HandlesInit, MirrorInit
<1>3. Inv => MirrorIsTrueOrUnsettled
  BY MirrorMeans
<1>4. QED
  BY <1>1, <1>2, <1>3, PTL DEF Spec
=============================================================================
