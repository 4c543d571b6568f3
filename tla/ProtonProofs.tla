----------------------------- MODULE ProtonProofs -----------------------------
(***************************************************************************)
(* Proofs about ProtonSend and ProtonEvents, for any mailbox, any number   *)
(* of processes and any settings.                                          *)
(***************************************************************************)
EXTENDS ProtonSend, FiniteSetTheorems, SequenceTheorems, TLAPS

-----------------------------------------------------------------------------
(* Message lists *)

LEMMA AsNewIs ==
  ASSUME NEW ids \in SUBSET Msgs, NEW m \in ids
  PROVE  /\ IsFiniteSet(ids) /\ Cardinality(ids) \in Nat
         /\ AsNew(ids, m) \in 1..Cardinality(ids)
         /\ \A other \in ids : other > m => AsNew(ids, other) < AsNew(ids, m)
<1> DEFINE from(n) == {other \in ids : other >= n}
<1>1. IsFiniteSet(Msgs)
  BY FS_Interval, ProtonAssumption DEF Msgs
<1>2. /\ IsFiniteSet(ids) /\ Cardinality(ids) \in Nat
      /\ \A n : IsFiniteSet(from(n)) /\ Cardinality(from(n)) \in Nat
             /\ Cardinality(from(n)) <= Cardinality(ids)
  BY <1>1, FS_Subset, FS_CardinalityType
<1>3. Cardinality(from(m)) # 0
  <2>1. m \in from(m)
    BY ProtonAssumption DEF Msgs
  <2>2. QED
    BY <1>2, <2>1, FS_EmptySet
<1>4. ASSUME NEW other \in ids, other > m
      PROVE  Cardinality(from(other)) < Cardinality(from(m))
  <2>0. ids \subseteq Int /\ m \in Int /\ other \in Int
    BY ProtonAssumption DEF Msgs
  <2>1. from(other) \in SUBSET from(m)
    <3>1. ASSUME NEW x \in ids, x >= other PROVE x >= m
      BY <1>4, <2>0, <3>1
    <3>2. QED
      BY <3>1
  <2>2. from(other) # from(m)
    <3>1. m \in from(m) /\ m \notin from(other)
      BY <1>4, <2>0
    <3>2. QED
      BY <3>1
  <2> HIDE DEF from
  <2>3. /\ Cardinality(from(other)) <= Cardinality(from(m))
        /\ Cardinality(from(other)) # Cardinality(from(m))
    BY <1>2, <2>1, <2>2, FS_Subset
  <2>4. QED
    BY <1>2, <2>3
<1>5. AsNew(ids, m) \in 1..Cardinality(ids)
  BY <1>2, <1>3 DEF AsNew
<1>6. QED
  BY <1>2, <1>4, <1>5 DEF AsNew

\* A list in order has each of the ids, where its rank says.
LEMMA NewestFirstIs ==
  ASSUME NEW ids \in SUBSET Msgs
  PROVE  /\ IsFiniteSet(ids) /\ Cardinality(ids) \in Nat
         /\ NewestFirst(ids) \in [1..Cardinality(ids) -> ids]
         /\ NewestFirst(ids) \in Seq(Msgs) /\ Len(NewestFirst(ids)) = Cardinality(ids)
         /\ \A m \in ids : /\ AsNew(ids, m) \in 1..Cardinality(ids)
                           /\ NewestFirst(ids)[AsNew(ids, m)] = m
<1> DEFINE n == Cardinality(ids)
           rank == [m \in ids |-> AsNew(ids, m)]
<1>0. IsFiniteSet(Msgs)
  BY FS_Interval, ProtonAssumption DEF Msgs
<1>1. IsFiniteSet(ids) /\ n \in Nat
  BY <1>0, FS_Subset, FS_CardinalityType
<1>2. rank \in [ids -> 1..n]
  BY AsNewIs
<1>3. ASSUME NEW a \in ids, NEW b \in ids, AsNew(ids, a) = AsNew(ids, b) PROVE a = b
  <2>1. a \in Int /\ b \in Int /\ AsNew(ids, a) \in Int
    BY AsNewIs, ProtonAssumption DEF Msgs
  <2>2. /\ a > b => AsNew(ids, a) < AsNew(ids, b)
        /\ b > a => AsNew(ids, b) < AsNew(ids, a)
    BY AsNewIs
  <2>3. QED
    BY <1>3, <2>1, <2>2
<1>4. IsFiniteSet(1..n) /\ Cardinality(1..n) = n
  BY <1>1, FS_Interval
<1>5. rank \in Injection(ids, 1..n)
  BY <1>2, <1>3 DEF Injection, IsInjective
<1>6. rank \in Surjection(ids, 1..n)
  BY <1>1, <1>4, <1>5, FS_Injection
<1>7. ASSUME NEW i \in 1..n PROVE \E m \in ids : AsNew(ids, m) = i
  BY <1>6, <1>7 DEF Surjection
<1>8. ASSUME NEW i \in 1..n
      PROVE  /\ NewestFirst(ids)[i] \in ids
             /\ AsNew(ids, NewestFirst(ids)[i]) = i
  BY <1>7 DEF NewestFirst
<1>9. NewestFirst(ids) \in [1..n -> ids]
  BY <1>8 DEF NewestFirst
<1>10. NewestFirst(ids) \in Seq(Msgs) /\ Len(NewestFirst(ids)) = n
  BY <1>1, <1>9
<1>11. ASSUME NEW m \in ids
       PROVE  AsNew(ids, m) \in 1..n /\ NewestFirst(ids)[AsNew(ids, m)] = m
  BY <1>3, <1>8, AsNewIs
<1>12. QED
  BY <1>1, <1>9, <1>10, <1>11

IdsOf(items) == {items[i].id : i \in DOMAIN items}

OnPage(box, page, size, m) ==
  /\ page * size < AsNew(Existing(box), m)
  /\ AsNew(Existing(box), m) <= (page + 1) * size

\* The messages on a page: those with its ranks, as they are.
LEMMA PageIs ==
  ASSUME NEW box \in Mailboxes, NEW page \in Nat, NEW size \in Nat \ {0},
         NEW items, items = MessagePage(box, page, size)
  PROVE  /\ items \in Seq([id : Msgs, state : MailStates])
         /\ Total(box) = Cardinality(Existing(box)) /\ Total(box) \in Nat
         /\ \A i \in DOMAIN items : Exists(box, items[i].id) /\ items[i].state = box[items[i].id]
         /\ \A m \in Existing(box) :
              OnPage(box, page, size, m) => m \in IdsOf(items)
         /\ page * size < Total(box) => items # <<>>
<1> DEFINE ids == Existing(box)
           list == NewestFirst(ids)
           first == page * size + 1
           last == IF first + size - 1 < Len(list) THEN first + size - 1 ELSE Len(list)
           chosen == SubSeq(list, first, last)
<1>1. ids \in SUBSET Msgs
  BY DEF Existing
<1>2. /\ Cardinality(ids) \in Nat /\ list \in [1..Cardinality(ids) -> ids]
      /\ list \in Seq(Msgs) /\ Len(list) = Cardinality(ids)
      /\ \A m \in ids : AsNew(ids, m) \in 1..Cardinality(ids) /\ list[AsNew(ids, m)] = m
  BY <1>1, NewestFirstIs
<1>3. page * size \in Nat /\ (page + 1) * size = page * size + size
  OBVIOUS
<1>4. first \in Nat /\ first >= 1 /\ last \in Nat /\ last <= Len(list)
      /\ last <= first + size - 1
  BY <1>2, <1>3
<1>5. PICK from \in Nat, upto \in Nat :
        from = first /\ upto = last /\ from >= 1 /\ upto <= Len(list)
  BY <1>4
<1>6. /\ items = [i \in 1..Len(chosen) |-> [id |-> chosen[i], state |-> box[chosen[i]]]]
      /\ Total(box) = Cardinality(ids)
  BY <1>2 DEF MessagePage, Listed, Total
<1> HIDE DEF first, last, list
<1>7. \A i \in from..upto : list[i] \in ids
  BY <1>2, <1>5
<1>8. from \in Int /\ upto \in Int
  BY <1>5
<1>9. /\ Len(chosen) = IF from <= upto THEN upto - from + 1 ELSE 0
      /\ \A i \in 1..(upto - from + 1) : chosen[i] = list[from + i - 1]
  BY <1>5, <1>7, <1>8, SubSeqProperties
<1> HIDE DEF chosen
<1>10. \A i \in 1..Len(chosen) : chosen[i] \in ids /\ chosen[i] = list[i + from - 1]
  BY <1>5, <1>7, <1>9
<1>11. /\ Len(chosen) \in Nat
       /\ \A m \in ids : m \in Msgs /\ Exists(box, m) /\ box[m] \in MailStates
  BY <1>5, <1>9 DEF Existing, Exists
<1>12. /\ DOMAIN items = 1..Len(chosen)
       /\ \A i \in 1..Len(chosen) : /\ items[i].id = chosen[i]
                                    /\ items[i].state = box[chosen[i]]
                                    /\ items[i] \in [id : Msgs, state : MailStates]
  BY <1>6, <1>10, <1>11
<1>13. items \in Seq([id : Msgs, state : MailStates])
  BY <1>6, <1>11, <1>12
<1>14. ASSUME NEW m \in ids, page * size < AsNew(ids, m), AsNew(ids, m) <= (page + 1) * size
       PROVE  \E i \in DOMAIN items : items[i].id = m
  <2>1. AsNew(ids, m) \in Nat /\ AsNew(ids, m) >= from /\ AsNew(ids, m) <= upto
    BY <1>2, <1>3, <1>5, <1>14 DEF first, last
  <2>2. AsNew(ids, m) + 1 - from \in 1..Len(chosen)
    BY <1>5, <1>9, <2>1
  <2>3. items[AsNew(ids, m) + 1 - from].id = list[AsNew(ids, m)]
    BY <1>5, <1>10, <1>12, <2>1, <2>2
  <2>4. QED
    BY <1>2, <1>12, <2>2, <2>3
<1>15. \A i \in DOMAIN items : Exists(box, items[i].id) /\ items[i].state = box[items[i].id]
  BY <1>10, <1>11, <1>12
<1>16. Total(box) = Cardinality(Existing(box)) /\ Total(box) \in Nat
  BY <1>2, <1>6
<1>17. ASSUME page * size < Total(box) PROVE items # <<>>
  <2>1. from <= upto
    BY <1>2, <1>3, <1>5, <1>6, <1>17 DEF first, last
  <2>2. Len(chosen) # 0 /\ Len(items) = Len(chosen)
    BY <1>5, <1>6, <1>9, <1>11, <2>1
  <2>3. QED
    BY <2>2
<1>18. QED
  BY <1>13, <1>14, <1>15, <1>16, <1>17 DEF OnPage, IdsOf

-----------------------------------------------------------------------------
(* Typing: what a process has in hand fits what it is at. *)

Walks == {"bootstrap", "refresh", "sync"}

NetPcs == {"get", "refresh", "retry"}

FilePcs == {"truncate", "write"}

\* It waits for an answer, or saves the session of one, or has one.
Asking(s) ==
  s.pc \in NetPcs \union {"answered"} \/ (s.pc \in FilePcs /\ s.file = "session")

ListedItems == [id : Msgs, state : MailStates]

EventAnswers == [upto : Nat, more : BOOLEAN, refresh : BOOLEAN, changes : SUBSET Entries]

IsAnswer(call, answer) ==
  /\ call.op = "public_keys" => answer \in [key : {"internal", "external", "none"}]
  /\ call.op = "fetch" => answer \in [state : MailStates]
  /\ call.op = "page" => answer \in [items : Seq(ListedItems), total : Nat]
  /\ call.op \in {"latest", "event"} => answer \in EventAnswers

\* Each call belongs to a task.
CallFits(s) ==
  /\ s.call.op \in {"public_keys", "draft", "send"} => s.task = "send"
  /\ s.call.op \in {"latest", "event", "check", "login"} => s.task = "idle"
  /\ s.call.op = "page" => s.task \in Walks
  /\ s.call.op = "fetch" => s.task \in Walks \union {"events"} /\ s.todo # <<>>
  /\ s.call.op = "keys" /\ Asking(s) => s.task # "idle"
  /\ s.call.op = "event" => s.cursor = s.call.from
  /\ s.call.op \in {"check", "login"} => s.file = "session"
  /\ s.pc \in {"get", "retry"} => s.call.op \notin {"check", "login"}
  /\ s.pc = "refresh" => s.call.op # "login"

HandFits(s) ==
  /\ Asking(s) /\ s.pc \notin NetPcs => IsAnswer(s.call, s.answer)
  /\ s.pc \in FilePcs /\ s.file = "cursor" => s.cursor \in Nat /\ s.task = "idle"
  /\ s.pc \in FilePcs /\ s.file = "cache" =>
       s.call.op = "fetch" /\ s.answer \in [state : MailStates]
  /\ s.pc \in {"item", "ingest"} => s.task \in Walks \union {"events"}
  /\ s.pc = "ingest" => s.answer \in [state : MailStates] /\ s.todo # <<>>
  /\ s.pc \in {"delete", "next"} => s.cursor \in Nat /\ s.task = "idle"
  /\ s.pc \in {"delete", "item"} => s.call = NoCall
  /\ s.task \in {"refresh", "events"} => s.cursor \in Nat
  /\ s.task = "idle" /\ s.pc # "delete" => s.todo = <<>>
  /\ s.task \in Walks => s.todo \in Seq(ListedItems)

SendFits(s) ==
  /\ s.task = "send" <=> s.mail # NoMail
  /\ s.task = "send" =>
       /\ Asking(s)
       /\ s.call.op \in {"public_keys", "keys", "draft", "send"}
       /\ s.call.op = "public_keys" => Len(s.schemes) < Len(s.mail.to)
       /\ s.call.op # "public_keys" => Len(s.schemes) = Len(s.mail.to)
       /\ s.mail.html => \A i \in DOMAIN s.schemes : s.schemes[i] # "inline"

Fits(s) ==
  /\ s \in ProcStates
  /\ s.pc = "idle" => s = Idle
  /\ CallFits(s) /\ HandFits(s) /\ SendFits(s)

Typed == TypeOK /\ \A p \in Processes : Fits(procs[p])

LEMMA WorkingIs ==
  ASSUME NEW s \in ProcStates, NEW new, new = Working(s)
  PROVE  /\ new \in ProcStates
         /\ new.pc = s.pc /\ new.task = s.task /\ new.call = NoCall /\ new.answer = None
         /\ new.session = s.session /\ new.outer = s.outer /\ new.cursor = s.cursor
         /\ new.more = s.more /\ new.page = s.page /\ new.last = s.last
         /\ new.todo = s.todo /\ new.changes = s.changes /\ new.file = "session"
         /\ new.mail = s.mail /\ new.schemes = s.schemes
  BY DEF Working, ProcStates, NoCall, Calls

LEMMA IdleFits == Fits(Idle)
  BY ClientAssumption
  DEF Fits, Idle, ProcStates, Pcs, Calls, NoCall, CallFits, HandFits, SendFits, Asking,
      NetPcs, FilePcs, IsAnswer, Walks

-----------------------------------------------------------------------------
(* Roles, answers and changes *)

LEMMA RowTyped ==
  ASSUME NEW state \in MailStates
  PROVE  RowOf(state) \in Rows
<1>1. state.labels \in SUBSET Labels /\ state.unread \in BOOLEAN
  BY ProtonAssumption
<1>2. ASSUME NEW labels PROVE LocalRole(labels) \in Roles
  <2> DEFINE first == {i \in 1..4 : /\ RoleLabels[i] \in labels
                                   /\ \A j \in 1..(i - 1) : RoleLabels[j] \notin labels}
  <2>1. first # {} => (CHOOSE i \in first : TRUE) \in 1..4
    OBVIOUS
  <2>2. \A i \in 1..4 : RoleLabels[i] \in Roles
    BY DEF RoleLabels, Roles
  <2> HIDE DEF first
  <2>3. (IF first = {} THEN "archive" ELSE RoleLabels[CHOOSE i \in first : TRUE]) \in Roles
    BY <2>1, <2>2 DEF Roles
  <2>4. QED
    BY <2>3 DEF LocalRole, first
<1>3. QED
  BY <1>1, <1>2 DEF RowOf, Rows

LEMMA ChangedIs ==
  ASSUME NEW changes \in SUBSET Entries,
         NEW actions \in SUBSET {"create", "update", "delete"},
         NEW todo, todo = Changed(changes, actions)
  PROVE  /\ todo \in Seq(Items)
         /\ \A i \in DOMAIN todo :
              \E change \in changes : change.action \in actions /\ change.id = todo[i].id
         /\ \A change \in changes :
              change.action \in actions => \E i \in DOMAIN todo : todo[i].id = change.id
<1> DEFINE ids == {change.id : change \in {c \in changes : c.action \in actions}}
           order == NewestFirst(ids)
           n == Cardinality(ids)
<1>1. ids \in SUBSET Msgs
  BY DEF Entries
<1>2. /\ n \in Nat /\ order \in [1..n -> ids]
      /\ \A m \in ids : AsNew(ids, m) \in 1..n /\ order[AsNew(ids, m)] = m
  BY <1>1, NewestFirstIs
<1>3. todo = [i \in 1..n |-> [id |-> order[n + 1 - i], state |-> None]]
  BY DEF Changed
<1>4. /\ \A change \in changes : change.action \in actions => change.id \in ids
      /\ \A id \in ids : \E change \in changes : change.action \in actions /\ change.id = id
  OBVIOUS
<1> HIDE DEF ids, order, n
<1>5. \A i \in 1..n : n + 1 - i \in 1..n
  BY <1>2
<1>6. /\ DOMAIN todo = 1..n
      /\ \A i \in 1..n : todo[i].id = order[n + 1 - i] /\ todo[i].id \in ids /\ todo[i] \in Items
  BY <1>1, <1>2, <1>3, <1>5 DEF Items
<1>7. todo \in Seq(Items)
  <2>1. todo \in [1..n -> Items]
    BY <1>3, <1>6
  <2>2. QED
    BY <1>2, <2>1
<1>8. ASSUME NEW m \in ids PROVE \E i \in DOMAIN todo : todo[i].id = m
  <2>1. n + 1 - AsNew(ids, m) \in 1..n /\ n + 1 - (n + 1 - AsNew(ids, m)) = AsNew(ids, m)
    BY <1>2
  <2>2. QED
    BY <1>2, <1>6, <2>1
<1>9. QED
  BY <1>4, <1>6, <1>7, <1>8

LEMMA AnswersFit ==
  ASSUME Typed, NEW call \in Calls, call.op \notin {"check", "login"},
         NEW answer \in Answers(call)
  PROVE  /\ IsAnswer(call, answer)
         /\ answer \in {None} \union [key : {"internal", "external", "none"}]
                       \union [state : MailStates]
                       \union [items : Seq(Items), total : Nat]
                       \union EventAnswers
<1>1. /\ setting \in Settings /\ mails \in Mailboxes /\ log \in Seq(Entries)
      /\ setting.pageSize \in Nat \ {0} /\ setting.merge \in Nat \ {0}
      /\ setting.keys \in [Addresses -> {"internal", "external", "none"}]
  BY ClientAssumption DEF Typed, TypeOK
<1>2. CASE call.op \in {"keys", "draft", "send"}
  BY <1>2 DEF Answers, IsAnswer
<1>3. CASE call.op = "public_keys"
  <2>1. call.to \in Addresses
    BY <1>3 DEF Calls
  <2>2. QED
    BY <1>1, <1>3, <2>1 DEF Answers, IsAnswer
<1>4. CASE call.op = "latest"
  <2>1. answer = [upto |-> Len(log), more |-> FALSE, refresh |-> FALSE, changes |-> {}]
    BY <1>4 DEF Answers
  <2>2. Len(log) \in Nat
    BY <1>1
  <2>3. answer \in EventAnswers
    BY <2>1, <2>2 DEF EventAnswers
  <2>4. QED
    BY <1>4, <2>3 DEF IsAnswer
<1>5. CASE call.op = "page"
  <2>1. call.page \in Nat
    BY <1>5 DEF Calls
  <2>2. /\ MessagePage(mails, call.page, setting.pageSize) \in Seq(ListedItems)
        /\ Total(mails) \in Nat
    BY <1>1, <2>1, PageIs DEF ListedItems
  <2>3. ListedItems \subseteq Items
    BY DEF ListedItems, Items
  <2>4. MessagePage(mails, call.page, setting.pageSize) \in Seq(Items)
    BY <2>2, <2>3
  <2>5. QED
    BY <1>5, <2>2, <2>4 DEF Answers, IsAnswer
<1>6. CASE call.op = "fetch"
  BY <1>6 DEF Answers, IsAnswer, Existing, Exists
<1>7. CASE call.op = "event"
  <2>1. call.from \in Nat
    BY <1>7 DEF Calls
  <2>2. Upto(call.from) \in Nat /\ Upto(call.from) <= Len(log)
    BY <1>1, <2>1 DEF Upto
  <2>3. Merged(log, call.from, Upto(call.from)) \in SUBSET Entries
    BY <1>1, <2>1, <2>2 DEF Merged
  <2>4. answer = [upto |-> Upto(call.from), more |-> Upto(call.from) < Len(log),
                  refresh |-> NeedsRefresh(log, call.from, Upto(call.from)),
                  changes |-> Merged(log, call.from, Upto(call.from))]
    BY <1>7 DEF Answers
  <2>5. (Upto(call.from) < Len(log)) \in BOOLEAN
        /\ NeedsRefresh(log, call.from, Upto(call.from)) \in BOOLEAN
    BY DEF NeedsRefresh
  <2>6. answer \in EventAnswers
    BY <2>2, <2>3, <2>4, <2>5 DEF EventAnswers
  <2>7. QED
    BY <1>7, <2>6 DEF IsAnswer
<1>8. QED
  BY <1>2, <1>3, <1>4, <1>5, <1>6, <1>7 DEF Calls

-----------------------------------------------------------------------------
(* What a step makes of a process *)

LEMMA CallingIs ==
  ASSUME NEW s \in ProcStates, NEW call \in Calls, NEW new, new = Calling(s, call)
  PROVE  /\ new \in ProcStates
         /\ new.pc = "get" /\ new.task = s.task /\ new.call = call /\ new.answer = s.answer
         /\ new.session = s.session /\ new.outer = s.outer /\ new.cursor = s.cursor
         /\ new.more = s.more /\ new.page = s.page /\ new.last = s.last
         /\ new.todo = s.todo /\ new.changes = s.changes /\ new.file = s.file
         /\ new.mail = s.mail /\ new.schemes = s.schemes
  BY ZenonT(60) DEF Calling, ProcStates, Pcs

\* Fits from its parts, for a process that sends nothing.
LEMMA FitsIf ==
  ASSUME NEW s \in ProcStates, s.pc # "idle", CallFits(s), HandFits(s),
         s.task # "send", s.mail = NoMail
  PROVE  Fits(s)
  BY DEF Fits, SendFits

LEMMA FirstStepFits ==
  ASSUME NEW s \in ProcStates, s.mail = NoMail, s.task \in Walks \union {"events"},
         s.task \in Walks => s.todo \in Seq(ListedItems),
         s.task \in {"refresh", "events"} => s.cursor \in Nat,
         NEW new, new = FirstStep(s)
  PROVE  Fits(new)
<1>1. CASE s.task = "events"
  <2>1. PICK work : work = Working(s)
    OBVIOUS
  <2>2. new = [work EXCEPT !.pc = "item"]
    BY <1>1, <2>1 DEF FirstStep
  <2>3. /\ new \in ProcStates /\ new.pc = "item" /\ new.task = "events"
        /\ new.call = NoCall /\ new.mail = NoMail /\ new.cursor \in Nat
    <3>1. /\ work \in ProcStates /\ work.task = "events" /\ work.call = NoCall
          /\ work.mail = NoMail /\ work.cursor \in Nat
      BY <1>1, <2>1, WorkingIs
    <3>2. QED
      BY ZenonT(60), <2>2, <3>1 DEF ProcStates, Pcs
  <2>4. CallFits(new) /\ HandFits(new)
    BY <2>3 DEF CallFits, HandFits, Asking, NoCall, NetPcs, FilePcs, Walks
  <2>5. QED
    BY <2>3, <2>4, FitsIf
<1>2. CASE s.task \in Walks
  <2>1. new = Calling(s, PageCall(0)) /\ PageCall(0) \in Calls /\ PageCall(0).op = "page"
    BY <1>2 DEF FirstStep, Walks, PageCall, Calls
  <2>2. CallFits(new) /\ HandFits(new) /\ new \in ProcStates /\ new.pc = "get"
        /\ new.mail = NoMail /\ new.task # "send"
    BY <1>2, <2>1, CallingIs DEF CallFits, HandFits, Asking, NetPcs, FilePcs, Walks
  <2>3. QED
    BY <2>2, FitsIf
<1>3. QED
  BY <1>1, <1>2

LEMMA BecomeFits ==
  ASSUME Typed, NEW p \in Processes, NEW state, Fits(state), Become(p, state)
  PROVE  procs' \in [Processes -> ProcStates] /\ \A q \in Processes : Fits(procs'[q])
  BY DEF Typed, TypeOK, Become, Fits

LEMMA StopFits ==
  ASSUME Typed, NEW p \in Processes, Stop(p)
  PROVE  procs' \in [Processes -> ProcStates] /\ \A q \in Processes : Fits(procs'[q])
  BY BecomeFits, IdleFits DEF Stop

LEMMA GotoIs ==
  ASSUME Typed, NEW p \in Processes, NEW pc \in Pcs, NEW new,
         new = [procs[p] EXCEPT !.pc = pc]
  PROVE  /\ Goto(p, pc) => Become(p, new)
         /\ new \in ProcStates
         /\ new.pc = pc /\ new.task = procs[p].task /\ new.call = procs[p].call
         /\ new.answer = procs[p].answer
         /\ new.session = procs[p].session /\ new.outer = procs[p].outer
         /\ new.cursor = procs[p].cursor
         /\ new.more = procs[p].more /\ new.page = procs[p].page /\ new.last = procs[p].last
         /\ new.todo = procs[p].todo /\ new.changes = procs[p].changes
         /\ new.file = procs[p].file
         /\ new.mail = procs[p].mail /\ new.schemes = procs[p].schemes
<1>1. procs[p] \in ProcStates
  BY DEF Typed, TypeOK
<1>2. QED
  BY <1>1 DEF Goto, Become, ProcStates

LEMMA BeginFits ==
  ASSUME Typed, NEW p \in Processes, NEW state \in ProcStates,
         NEW task \in Walks \union {"events"},
         state.mail = NoMail, state.call = NoCall,
         task \in Walks => state.todo \in Seq(ListedItems),
         task \in {"refresh", "events"} => state.cursor \in Nat,
         Begin(p, state, task)
  PROVE  procs' \in [Processes -> ProcStates] /\ \A q \in Processes : Fits(procs'[q])
<1>1. CASE sessionFile = Torn
  BY <1>1, StopFits DEF Begin
<1>2. CASE sessionFile # Torn
  <2>1. PICK inner : inner = [state EXCEPT !.task = task, !.outer = state.session,
                                           !.session = sessionFile, !.page = 0]
    OBVIOUS
  <2>2. sessionFile \in Nat
    BY <1>2 DEF Typed, TypeOK
  <2>3. /\ inner \in ProcStates /\ inner.task = task /\ inner.mail = NoMail
        /\ inner.call = NoCall /\ inner.todo = state.todo /\ inner.cursor = state.cursor
    BY ZenonT(60), <2>1, <2>2 DEF ProcStates, Walks
  <2>4. Fits(FirstStep(inner))
    BY <2>3, FirstStepFits
  <2>5. PICK calling : calling = Calling(inner, [op |-> "keys"])
    OBVIOUS
  <2>6. Fits(calling)
    <3>1. [op |-> "keys"] \in Calls /\ [op |-> "keys"] = NoCall
      BY DEF Calls, NoCall
    <3>2. /\ calling \in ProcStates /\ calling.pc = "get" /\ calling.task = task
          /\ calling.call = NoCall /\ calling.mail = NoMail /\ calling.todo = state.todo
          /\ calling.cursor = state.cursor
      BY <2>3, <2>5, <3>1, CallingIs
    <3>3. CallFits(calling) /\ HandFits(calling)
      BY <3>2 DEF CallFits, HandFits, Asking, NetPcs, FilePcs, Walks, NoCall
    <3>4. QED
      BY <3>2, <3>3, FitsIf DEF Walks
  <2>7. Become(p, calling) \/ Become(p, FirstStep(inner))
    BY <1>2, <2>1, <2>5 DEF Begin
  <2>8. QED
    BY <2>4, <2>6, <2>7, BecomeFits
<1>3. QED
  BY <1>1, <1>2

\* How far a step has got with the call it makes changes nothing else that fits.
LEMMA AskFits ==
  ASSUME Typed, NEW p \in Processes, Ask(p)
  PROVE  /\ procs' \in [Processes -> ProcStates] /\ \A q \in Processes : Fits(procs'[q])
         /\ outgoing' \in Outgoing
<1>0. /\ procs[p] \in ProcStates /\ Fits(procs[p]) /\ outgoing \in Outgoing
      /\ procs[p].pc \in {"get", "retry"}
  BY DEF Typed, TypeOK, Ask, At
<1>1. outgoing' \in Outgoing
  <2>1. CASE procs[p].call.op = "send" /\ SentOn(p)
    <3> DEFINE package == Package(procs[p].mail, procs[p].schemes)
    <3>1. /\ procs[p].mail \in Mails /\ procs[p].schemes \in Seq(Schemes)
          /\ Len(procs[p].schemes) = Len(procs[p].mail.to)
      BY <1>0, <2>1 DEF Fits, CallFits, SendFits, ProcStates
    <3>2. package \in Packages
      <4>1. \A i \in DOMAIN procs[p].mail.to :
              procs[p].mail.to[i] \in Addresses /\ procs[p].schemes[i] \in Schemes
        BY <3>1 DEF Mails
      <4>2. QED
        BY <4>1 DEF Package, Packages
    <3> HIDE DEF package
    <3>3. outgoing' = [outgoing EXCEPT !.out[p] = Append(@, package)]
      BY <2>1 DEF SentOn, package
    <3>4. Append(outgoing.out[p], package) \in Seq(Packages)
      BY <1>0, <3>2 DEF Outgoing
    <3>5. QED
      BY <1>0, <3>3, <3>4 DEF Outgoing
  <2>2. QED
    BY <1>0, <2>1 DEF Ask, SentOn
<1>2. ASSUME NEW answer \in Answers(procs[p].call),
             Become(p, [procs[p] EXCEPT !.pc = AfterAnswer(p), !.file = "session",
                                        !.answer = answer])
      PROVE  procs' \in [Processes -> ProcStates] /\ \A q \in Processes : Fits(procs'[q])
  <2>1. PICK new : new = [procs[p] EXCEPT !.pc = AfterAnswer(p), !.file = "session",
                                          !.answer = answer]
    OBVIOUS
  <2>2. /\ procs[p].call \in Calls /\ procs[p].call.op \notin {"check", "login"}
    BY <1>0 DEF Fits, CallFits, ProcStates
  <2>3. /\ IsAnswer(procs[p].call, answer)
        /\ answer \in {None} \union [key : {"internal", "external", "none"}]
                      \union [state : MailStates]
                      \union [items : Seq(Items), total : Nat]
                      \union EventAnswers
    BY <2>2, AnswersFit
  <2>4. AfterAnswer(p) \in {"answered", "truncate"}
    BY DEF AfterAnswer
  <2>5. /\ new \in ProcStates /\ new.pc \in {"answered", "truncate"}
        /\ new.file = "session" /\ new.answer = answer
        /\ new.task = procs[p].task /\ new.call = procs[p].call /\ new.todo = procs[p].todo
        /\ new.cursor = procs[p].cursor /\ new.mail = procs[p].mail
        /\ new.schemes = procs[p].schemes
    BY ZenonT(60), <1>0, <2>1, <2>3, <2>4 DEF ProcStates, Pcs, EventAnswers
  <2>6. Asking(new) /\ Asking(procs[p])
    BY <1>0, <2>5 DEF Asking, FilePcs, NetPcs
  <2>7. CallFits(new)
    BY <1>0, <2>2, <2>5, <2>6 DEF Fits, CallFits
  <2>8. HandFits(new)
    BY <1>0, <2>2, <2>3, <2>5, <2>6 DEF Fits, HandFits
  <2>9. SendFits(new)
    BY <1>0, <2>5, <2>6 DEF Fits, SendFits
  <2>10. Fits(new)
    BY <2>5, <2>7, <2>8, <2>9 DEF Fits
  <2>11. QED
    BY <1>2, <2>1, <2>10, BecomeFits
<1>3. ASSUME At(p, "get"), Goto(p, "refresh")
      PROVE  procs' \in [Processes -> ProcStates] /\ \A q \in Processes : Fits(procs'[q])
  <2>1. PICK new : new = [procs[p] EXCEPT !.pc = "refresh"]
    OBVIOUS
  <2>2. /\ Become(p, new) /\ new \in ProcStates /\ new.pc = "refresh"
        /\ new.task = procs[p].task /\ new.call = procs[p].call /\ new.todo = procs[p].todo
        /\ new.cursor = procs[p].cursor /\ new.mail = procs[p].mail
        /\ new.schemes = procs[p].schemes /\ new.file = procs[p].file
    BY <1>3, <2>1, GotoIs DEF Pcs
  <2>3. CallFits(new) /\ HandFits(new) /\ SendFits(new)
    BY <1>0, <1>3, <2>2
    DEF Fits, CallFits, HandFits, SendFits, Asking, FilePcs, NetPcs, At
  <2>4. QED
    BY <2>2, <2>3, BecomeFits DEF Fits
<1>4. QED
  BY <1>1, <1>2, <1>3, StopFits DEF Ask, GiveUp

LEMMA RefreshFits ==
  ASSUME Typed, NEW p \in Processes, RefreshSession(p)
  PROVE  /\ procs' \in [Processes -> ProcStates] /\ \A q \in Processes : Fits(procs'[q])
         /\ access' \in Accesses
<1>0. /\ procs[p] \in ProcStates /\ Fits(procs[p]) /\ access \in Accesses
      /\ procs[p].pc = "refresh"
  BY DEF Typed, TypeOK, RefreshSession, At
<1>1. ASSUME NEW pc \in {"truncate", "retry"}, pc = "truncate" <=> procs[p].call.op = "check",
             NEW session \in Nat,
             Become(p, [procs[p] EXCEPT !.pc = pc, !.session = session])
      PROVE  procs' \in [Processes -> ProcStates] /\ \A q \in Processes : Fits(procs'[q])
  <2>1. PICK new : new = [procs[p] EXCEPT !.pc = pc, !.session = session]
    OBVIOUS
  <2>2. pc \in Pcs
    BY DEF Pcs
  <2>3. /\ new \in ProcStates /\ new.pc = pc
        /\ new.task = procs[p].task /\ new.call = procs[p].call /\ new.todo = procs[p].todo
        /\ new.cursor = procs[p].cursor /\ new.mail = procs[p].mail
        /\ new.schemes = procs[p].schemes /\ new.file = procs[p].file
    <3>1. PICK old \in ProcStates : old = procs[p]
      BY <1>0
    <3>2. new = [old EXCEPT !.pc = pc, !.session = session]
      BY <2>1, <3>1
    <3>3. /\ new \in ProcStates /\ new.pc = pc
          /\ new.task = old.task /\ new.call = old.call /\ new.todo = old.todo
          /\ new.cursor = old.cursor /\ new.mail = old.mail
          /\ new.schemes = old.schemes /\ new.file = old.file
      BY ZenonT(60), <3>2 DEF ProcStates, Pcs
    <3>4. QED
      BY <3>1, <3>3
  <2>4. CallFits(new)
    BY <1>0, <1>1, <2>3 DEF Fits, CallFits, Asking, FilePcs, NetPcs
  <2>5. HandFits(new)
    BY <1>0, <1>1, <2>3 DEF Fits, CallFits, HandFits, IsAnswer, Asking, FilePcs, NetPcs
  <2>6. SendFits(new)
    BY <1>0, <1>1, <2>3 DEF Fits, CallFits, SendFits, Asking, FilePcs, NetPcs
  <2>7. QED
    BY <1>1, <2>1, <2>3, <2>4, <2>5, <2>6, BecomeFits DEF Fits
<1>2. access' \in Accesses
  <2>1. NewSession(access) \in Accesses
    BY <1>0 DEF NewSession, Accesses
  <2>2. QED
    BY <1>0, <2>1 DEF RefreshSession
<1>3. access.last + 1 \in Nat
  BY <1>0 DEF Accesses
<1>4. QED
  BY <1>1, <1>2, <1>3, StopFits DEF RefreshSession

LEMMA WritingFits ==
  ASSUME Typed, NEW p \in Processes, Truncate(p) \/ Write(p)
  PROVE  /\ procs' \in [Processes -> ProcStates] /\ \A q \in Processes : Fits(procs'[q])
         /\ sessionFile' \in Nat \union {Torn} /\ cursorFile' \in Nat \union {None, Torn}
         /\ cache' \in [Msgs -> MailStates \union {None, Torn}]
         /\ since' \in Nat
<1>0. /\ procs[p] \in ProcStates /\ Fits(procs[p]) /\ procs[p].pc \in FilePcs
      /\ sessionFile \in Nat \union {Torn} /\ cursorFile \in Nat \union {None, Torn}
      /\ cache \in [Msgs -> MailStates \union {None, Torn}] /\ since \in Nat
      /\ procs[p].file \in {"session", "cursor", "cache"}
  BY DEF Typed, TypeOK, Truncate, Write, At, FilePcs, ProcStates
<1> DEFINE pc == CASE procs[p].file = "session" -> "answered"
                   [] procs[p].file = "cursor" -> "next"
                   [] procs[p].file = "cache" -> "ingest"
<1>1. ASSUME NEW next \in Pcs, Goto(p, next), next = "write" \/ next = pc
      PROVE  procs' \in [Processes -> ProcStates] /\ \A q \in Processes : Fits(procs'[q])
  <2>1. PICK new : new = [procs[p] EXCEPT !.pc = next]
    OBVIOUS
  <2>2. /\ Become(p, new) /\ new \in ProcStates /\ new.pc = next
        /\ new.task = procs[p].task /\ new.call = procs[p].call /\ new.todo = procs[p].todo
        /\ new.cursor = procs[p].cursor /\ new.mail = procs[p].mail
        /\ new.answer = procs[p].answer
        /\ new.schemes = procs[p].schemes /\ new.file = procs[p].file
    BY <1>1, <2>1, GotoIs
  <2>3. CallFits(new)
    BY <1>0, <1>1, <2>2 DEF Fits, CallFits, Asking, FilePcs, NetPcs
  <2>4. HandFits(new)
    BY <1>0, <1>1, <2>2 DEF Fits, CallFits, HandFits, Asking, FilePcs, NetPcs
  <2>5. SendFits(new)
    BY <1>0, <1>1, <2>2 DEF Fits, SendFits, Asking, FilePcs, NetPcs
  <2>6. next # "idle"
    BY <1>0, <1>1
  <2>7. QED
    BY <2>2, <2>3, <2>4, <2>5, <2>6, BecomeFits DEF Fits
<1>2. CASE Truncate(p)
  BY <1>0, <1>1, <1>2 DEF Truncate, Written, Pcs
<1>3. CASE Write(p)
  <2>1. pc \in Pcs
    BY <1>0 DEF Pcs
  <2>2. procs[p].session \in Nat /\ procs[p].cursor \in Nat \union {None}
    BY <1>0 DEF ProcStates
  <2>3. /\ procs[p].file = "cursor" => procs[p].cursor \in Nat
        /\ procs[p].file = "cache" => procs[p].answer.state \in MailStates
    BY <1>0 DEF Fits, HandFits
  <2>4. since' \in Nat
    BY <1>0, <1>3, <2>3 DEF Write, AfterWrite
  <2>5. /\ sessionFile' \in Nat \union {Torn} /\ cursorFile' \in Nat \union {None, Torn}
        /\ cache' \in [Msgs -> MailStates \union {None, Torn}]
    BY <1>0, <1>3, <2>2, <2>3 DEF Write, Written
  <2>6. Goto(p, pc)
    BY <1>3 DEF Write, AfterWrite
  <2>7. QED
    BY <1>1, <2>1, <2>4, <2>5, <2>6
<1>4. QED
  BY <1>2, <1>3

NoItems == <<>>

Cleared(s, todo) == [s EXCEPT !.page = 0, !.last = FALSE, !.todo = todo]

LEMMA ClearedIs ==
  ASSUME NEW s \in ProcStates, NEW todo \in Seq(Items), NEW new, new = Cleared(s, todo)
  PROVE  /\ new \in ProcStates
         /\ new.task = s.task /\ new.call = s.call /\ new.answer = s.answer
         /\ new.session = s.session /\ new.outer = s.outer /\ new.cursor = s.cursor
         /\ new.more = s.more /\ new.page = 0
         /\ new.todo = todo /\ new.changes = s.changes /\ new.file = s.file
         /\ new.mail = s.mail /\ new.schemes = s.schemes
  BY DEF Cleared, ProcStates

\* Back at the caller of a sync.
SettledAs(new, s) ==
  /\ new.task = "idle" /\ new.call = NoCall /\ new.answer = None
  /\ new.session = s.outer /\ new.outer = 0 /\ new.cursor = s.cursor
  /\ new.more = s.more /\ new.page = 0
  /\ new.todo = NoItems /\ new.changes = s.changes /\ new.file = "session"
  /\ new.mail = s.mail /\ new.schemes = s.schemes

LEMMA SettledIs ==
  ASSUME NEW s \in ProcStates
  PROVE  Settled(s) \in ProcStates /\ SettledAs(Settled(s), s)
<1>0. PICK new : new = Settled(s)
  OBVIOUS
<1>1. PICK back : back = Returned(s)
  OBVIOUS
<1>2. PICK work : work = Working(back)
  OBVIOUS
<1>3. PICK none \in Seq(Items) : none = NoItems
  BY EmptySeq DEF NoItems
<1>4. new = Cleared(work, none)
  BY <1>0, <1>1, <1>2, <1>3 DEF Settled, Cleared, NoItems
<1>5. /\ back \in ProcStates /\ back.task = "idle"
      /\ back.session = s.outer /\ back.outer = 0 /\ back.cursor = s.cursor
      /\ back.more = s.more /\ back.changes = s.changes
      /\ back.mail = s.mail /\ back.schemes = s.schemes
  BY <1>1 DEF Returned, ProcStates
<1>6. /\ work \in ProcStates /\ work.task = "idle" /\ work.call = NoCall /\ work.answer = None
      /\ work.session = s.outer /\ work.outer = 0 /\ work.cursor = s.cursor
      /\ work.more = s.more /\ work.changes = s.changes /\ work.file = "session"
      /\ work.mail = s.mail /\ work.schemes = s.schemes
  BY <1>2, <1>5, WorkingIs
<1>7. /\ new \in ProcStates
      /\ new.task = work.task /\ new.call = work.call /\ new.answer = work.answer
      /\ new.session = work.session /\ new.outer = work.outer /\ new.cursor = work.cursor
      /\ new.more = work.more /\ new.page = 0
      /\ new.todo = none /\ new.changes = work.changes /\ new.file = work.file
      /\ new.mail = work.mail /\ new.schemes = work.schemes
  BY <1>4, <1>6, ClearedIs
<1>8. SettledAs(new, s)
  BY <1>3, <1>6, <1>7 DEF SettledAs
<1>9. QED
  BY <1>0, <1>7, <1>8

LEMMA SaveCursorIs ==
  ASSUME NEW s \in ProcStates, NEW new, new = SaveCursor(s)
  PROVE  /\ new \in ProcStates
         /\ new.pc = "truncate" /\ new.task = s.task /\ new.call = s.call
         /\ new.answer = s.answer
         /\ new.session = s.session /\ new.outer = s.outer /\ new.cursor = s.cursor
         /\ new.more = s.more /\ new.page = s.page /\ new.last = s.last
         /\ new.todo = s.todo /\ new.changes = s.changes /\ new.file = "cursor"
         /\ new.mail = s.mail /\ new.schemes = s.schemes
  BY ZenonT(60) DEF SaveCursor, ProcStates, Pcs

LEMMA SaveCursorFits ==
  ASSUME NEW s \in ProcStates, s.task = "idle", s.mail = NoMail, s.todo = NoItems,
         s.cursor \in Nat, s.call = NoCall \/ s.call.op = "latest",
         NEW new, new = SaveCursor(s)
  PROVE  Fits(new)
<1>1. /\ new \in ProcStates /\ new.pc = "truncate" /\ new.file = "cursor"
      /\ new.task = s.task /\ new.mail = s.mail /\ new.todo = s.todo
      /\ new.cursor = s.cursor /\ new.call = s.call
  BY SaveCursorIs
<1>2. CallFits(new)
  BY <1>1 DEF CallFits, Asking, NetPcs, FilePcs, NoCall, NoItems
<1>3. HandFits(new)
  BY <1>1 DEF HandFits, Asking, NetPcs, FilePcs, Walks, NoItems
<1>4. QED
  BY <1>1, <1>2, <1>3, FitsIf

\* A poll asks for the latest id, or what follows its cursor.
LEMMA PollsFits ==
  ASSUME NEW s \in ProcStates, s.task = "idle", s.mail = NoMail, s.todo = NoItems,
         NEW call, NEW new, new = Calling(s, call),
         \/ call = [op |-> "latest"]
         \/ s.cursor \in Nat /\ call = EventCall(s.cursor)
  PROVE  Fits(new)
<1>1. /\ call \in Calls /\ call.op \in {"latest", "event"}
      /\ call.op = "event" => s.cursor = call.from
  BY DEF Calls, EventCall
<1>2. /\ new \in ProcStates /\ new.pc = "get" /\ new.call = call
      /\ new.task = s.task /\ new.mail = s.mail /\ new.todo = s.todo
      /\ new.cursor = s.cursor
  BY <1>1, CallingIs
<1>3. CallFits(new)
  BY <1>1, <1>2 DEF CallFits, Asking, NetPcs, FilePcs
<1>4. HandFits(new)
  BY <1>1, <1>2 DEF HandFits, Asking, NetPcs, FilePcs, Walks, NoItems
<1>5. QED
  BY <1>2, <1>3, <1>4, FitsIf

\* How a poll goes on after a sync.
LEMMA SettledFits ==
  ASSUME NEW s \in ProcStates, s.mail = NoMail
  PROVE  /\ s.cursor \in Nat => Fits(SaveCursor(Settled(s)))
         /\ Fits(Calling(Settled(s), IF s.cursor = None THEN [op |-> "latest"]
                                                        ELSE EventCall(s.cursor)))
<1>1. PICK new : new = Settled(s)
  OBVIOUS
<1>2. /\ new \in ProcStates /\ new.task = "idle" /\ new.call = NoCall
      /\ new.mail = s.mail /\ new.cursor = s.cursor
  BY <1>1, SettledIs DEF SettledAs
<1>3. new.todo = NoItems
  BY <1>1, SettledIs DEF SettledAs
<1>4. s.cursor \in Nat => Fits(SaveCursor(new))
  BY <1>2, <1>3, SaveCursorFits
<1>5. PICK call : call = IF s.cursor = None THEN [op |-> "latest"] ELSE EventCall(s.cursor)
  OBVIOUS
<1>6. \/ call = [op |-> "latest"]
      \/ new.cursor \in Nat /\ call = EventCall(new.cursor)
  BY <1>2, <1>5 DEF ProcStates
<1>7. Fits(Calling(new, call))
  BY <1>2, <1>3, <1>6, PollsFits
<1>8. QED
  BY <1>1, <1>4, <1>5, <1>7

LEMMA EndFits ==
  ASSUME Typed, NEW p \in Processes, procs[p].task \in Walks \union {"events"}, End(p)
  PROVE  procs' \in [Processes -> ProcStates] /\ \A q \in Processes : Fits(procs'[q])
<1>1. procs[p] \in ProcStates /\ Fits(procs[p]) /\ procs[p].mail = NoMail
  BY DEF Typed, Fits, SendFits, Walks
<1>2. CASE procs[p].task = "sync"
  BY <1>2, StopFits DEF End
<1>3. CASE procs[p].task = "bootstrap"
  BY <1>1, <1>3, SettledFits, BecomeFits DEF End
<1>4. CASE procs[p].task \in {"refresh", "events"}
  <2>1. procs[p].cursor \in Nat
    BY <1>1, <1>4 DEF Fits, HandFits
  <2>2. QED
    BY <1>1, <1>4, <2>1, SettledFits, BecomeFits DEF End
<1>5. QED
  BY <1>2, <1>3, <1>4 DEF Walks

WithItems(s, items, last) == [s EXCEPT !.pc = "item", !.todo = items, !.last = last]

LEMMA WithItemsIs ==
  ASSUME NEW s \in ProcStates, NEW items \in Seq(Items), NEW last \in BOOLEAN,
         NEW new, new = WithItems(s, items, last)
  PROVE  /\ new \in ProcStates
         /\ new.pc = "item" /\ new.task = s.task /\ new.call = s.call /\ new.answer = s.answer
         /\ new.session = s.session /\ new.outer = s.outer /\ new.cursor = s.cursor
         /\ new.more = s.more /\ new.page = s.page /\ new.last = last
         /\ new.todo = items /\ new.changes = s.changes /\ new.file = s.file
         /\ new.mail = s.mail /\ new.schemes = s.schemes
  BY ZenonT(60) DEF WithItems, ProcStates, Pcs

LEMMA PageAnsweredFits ==
  ASSUME Typed, NEW p \in Processes, procs[p].pc = "answered", procs[p].call.op = "page",
         PageAnswered(p)
  PROVE  procs' \in [Processes -> ProcStates] /\ \A q \in Processes : Fits(procs'[q])
<1>1. PICK s \in ProcStates : s = procs[p]
  BY DEF Typed, TypeOK
<1>2. Fits(s) /\ s.pc = "answered" /\ s.call.op = "page"
  BY <1>1 DEF Typed
<1>3. /\ s.task \in Walks /\ s.mail = NoMail
      /\ s.answer \in [items : Seq(ListedItems), total : Nat]
      /\ s.task = "refresh" => s.cursor \in Nat
  BY <1>2 DEF Fits, CallFits, HandFits, SendFits, IsAnswer, Asking, NetPcs, Walks
<1>4. CASE s.answer.items = <<>>
  BY <1>1, <1>3, <1>4, EndFits DEF PageAnswered
<1>5. CASE s.answer.items # <<>>
  <2>1. PICK items \in Seq(ListedItems) : items = s.answer.items
    BY <1>3
  <2>2. PICK last \in BOOLEAN :
          last = ((s.page + 1) * setting.pageSize >= s.answer.total)
    <3>1. ((s.page + 1) * setting.pageSize >= s.answer.total) \in BOOLEAN
      OBVIOUS
    <3>2. QED
      BY <3>1
  <2>3. PICK work : work = Working(s)
    OBVIOUS
  <2>4. PICK new : new = WithItems(work, items, last)
    OBVIOUS
  <2>5. Become(p, new)
    BY <1>1, <1>5, <2>1, <2>2, <2>3, <2>4 DEF PageAnswered, WithItems
  <2>6. /\ work \in ProcStates /\ work.task = s.task /\ work.mail = s.mail
        /\ work.cursor = s.cursor /\ work.call = NoCall
    BY <2>3, WorkingIs
  <2>7a. ListedItems \subseteq Items
    BY DEF ListedItems, Items
  <2>7. items \in Seq(Items)
    BY <2>7a
  <2>8. /\ new \in ProcStates /\ new.pc = "item" /\ new.task = work.task
        /\ new.mail = work.mail /\ new.cursor = work.cursor /\ new.call = work.call
        /\ new.todo = items
    BY <2>4, <2>6, <2>7, WithItemsIs
  <2>9. CallFits(new)
    BY <1>3, <2>6, <2>8 DEF CallFits, Asking, NetPcs, FilePcs, NoCall
  <2>10. HandFits(new)
    BY <1>3, <2>6, <2>8 DEF HandFits, Asking, NetPcs, FilePcs, Walks
  <2>11. Fits(new)
    BY <1>3, <2>6, <2>8, <2>9, <2>10, FitsIf DEF Walks
  <2>12. QED
    BY <2>5, <2>11, BecomeFits
<1>6. QED
  BY <1>4, <1>5

LEMMA LatestAnsweredFits ==
  ASSUME Typed, NEW p \in Processes, procs[p].pc = "answered", procs[p].call.op = "latest",
         LatestAnswered(p)
  PROVE  procs' \in [Processes -> ProcStates] /\ \A q \in Processes : Fits(procs'[q])
<1>1. PICK s \in ProcStates : s = procs[p]
  BY DEF Typed, TypeOK
<1>2. Fits(s) /\ s.pc = "answered" /\ s.call.op = "latest"
  BY <1>1 DEF Typed
<1>3. /\ s.task = "idle" /\ s.mail = NoMail /\ s.answer \in EventAnswers
      /\ s.todo = NoItems
  BY <1>2 DEF Fits, CallFits, HandFits, SendFits, IsAnswer, Asking, NetPcs, NoItems
<1>4. PICK cursor \in Nat : cursor = s.answer.upto
  BY <1>3 DEF EventAnswers
<1>5. PICK new : new = [s EXCEPT !.cursor = cursor, !.answer = None]
  OBVIOUS
<1>6. /\ new \in ProcStates /\ new.task = s.task /\ new.mail = s.mail /\ new.todo = s.todo
      /\ new.cursor = cursor /\ new.call = s.call
  BY <1>5 DEF ProcStates
<1>7. Fits(SaveCursor(new))
  BY <1>2, <1>3, <1>6, SaveCursorFits
<1>8. QED
  BY <1>1, <1>4, <1>5, <1>7, BecomeFits DEF LatestAnswered

LEMMA FetchAnsweredFits ==
  ASSUME Typed, NEW p \in Processes, procs[p].pc = "answered", procs[p].call.op = "fetch",
         FetchAnswered(p)
  PROVE  procs' \in [Processes -> ProcStates] /\ \A q \in Processes : Fits(procs'[q])
<1>1. PICK s \in ProcStates : s = procs[p]
  BY DEF Typed, TypeOK
<1>2. Fits(s) /\ s.pc = "answered" /\ s.call.op = "fetch"
  BY <1>1 DEF Typed
<1>3. /\ s.task \in Walks \union {"events"} /\ s.mail = NoMail
      /\ s.answer \in [state : MailStates]
  BY <1>2 DEF Fits, CallFits, HandFits, SendFits, IsAnswer, Asking, NetPcs, Walks
<1>4. PICK new : new = [s EXCEPT !.pc = "truncate", !.file = "cache"]
  OBVIOUS
<1>5. /\ new \in ProcStates /\ new.pc = "truncate" /\ new.file = "cache"
      /\ new.task = s.task /\ new.mail = s.mail /\ new.cursor = s.cursor
      /\ new.call = s.call /\ new.todo = s.todo /\ new.answer = s.answer
  BY ZenonT(60), <1>4 DEF ProcStates, Pcs
<1>6. CallFits(new)
  BY <1>2, <1>5 DEF Fits, CallFits, Asking, NetPcs, FilePcs
<1>7. HandFits(new)
  BY <1>2, <1>3, <1>5 DEF Fits, HandFits, Asking, NetPcs, FilePcs, Walks
<1>8. Fits(new)
  BY <1>3, <1>5, <1>6, <1>7, FitsIf DEF Walks
<1>9. QED
  BY <1>1, <1>4, <1>8, BecomeFits DEF FetchAnswered

WithCursor(s, cursor, more) == [s EXCEPT !.pc = "delete", !.cursor = cursor, !.more = more]

LEMMA WithCursorIs ==
  ASSUME NEW s \in ProcStates, NEW cursor \in Nat, NEW more \in BOOLEAN,
         NEW new, new = WithCursor(s, cursor, more)
  PROVE  /\ new \in ProcStates
         /\ new.pc = "delete" /\ new.task = s.task /\ new.call = s.call /\ new.answer = s.answer
         /\ new.session = s.session /\ new.outer = s.outer /\ new.cursor = cursor
         /\ new.more = more /\ new.page = s.page /\ new.last = s.last
         /\ new.todo = s.todo /\ new.changes = s.changes /\ new.file = s.file
         /\ new.mail = s.mail /\ new.schemes = s.schemes
<1>1. "delete" \in Pcs
  BY DEF Pcs
<1>2. new = [s EXCEPT !.pc = "delete", !.cursor = cursor, !.more = more]
  BY DEF WithCursor
<1>3. new \in ProcStates
  BY <1>1, <1>2 DEF ProcStates
<1>4. /\ new.pc = "delete" /\ new.cursor = cursor /\ new.more = more
      /\ new.task = s.task /\ new.call = s.call /\ new.answer = s.answer
  BY <1>2 DEF ProcStates
<1>5. /\ new.session = s.session /\ new.outer = s.outer /\ new.page = s.page
      /\ new.last = s.last /\ new.todo = s.todo
  BY <1>2 DEF ProcStates
<1>6. new.changes = s.changes /\ new.file = s.file /\ new.mail = s.mail /\ new.schemes = s.schemes
  BY <1>2 DEF ProcStates
<1>7. QED
  BY <1>3, <1>4, <1>5, <1>6

WithChanges(s, changes, todo) == [s EXCEPT !.changes = changes, !.todo = todo]

LEMMA WithChangesIs ==
  ASSUME NEW s \in ProcStates, NEW changes \in SUBSET Entries, NEW todo \in Seq(Items),
         NEW new, new = WithChanges(s, changes, todo)
  PROVE  /\ new \in ProcStates
         /\ new.pc = s.pc /\ new.task = s.task /\ new.call = s.call /\ new.answer = s.answer
         /\ new.session = s.session /\ new.outer = s.outer /\ new.cursor = s.cursor
         /\ new.more = s.more /\ new.page = s.page /\ new.last = s.last
         /\ new.todo = todo /\ new.changes = changes /\ new.file = s.file
         /\ new.mail = s.mail /\ new.schemes = s.schemes
  BY DEF WithChanges, ProcStates

WithTodo(s, todo) == [s EXCEPT !.todo = todo]

LEMMA WithTodoIs ==
  ASSUME NEW s \in ProcStates, NEW todo \in Seq(Items), NEW new, new = WithTodo(s, todo)
  PROVE  /\ new \in ProcStates
         /\ new.pc = s.pc /\ new.task = s.task /\ new.call = s.call /\ new.answer = s.answer
         /\ new.session = s.session /\ new.outer = s.outer /\ new.cursor = s.cursor
         /\ new.more = s.more /\ new.page = s.page /\ new.last = s.last
         /\ new.todo = todo /\ new.changes = s.changes /\ new.file = s.file
         /\ new.mail = s.mail /\ new.schemes = s.schemes
  BY DEF WithTodo, ProcStates

WithAnswer(s, answer) == [s EXCEPT !.pc = "ingest", !.answer = answer]

LEMMA WithAnswerIs ==
  ASSUME NEW s \in ProcStates, NEW answer \in [state : MailStates],
         NEW new, new = WithAnswer(s, answer)
  PROVE  /\ new \in ProcStates
         /\ new.pc = "ingest" /\ new.task = s.task /\ new.call = s.call /\ new.answer = answer
         /\ new.session = s.session /\ new.outer = s.outer /\ new.cursor = s.cursor
         /\ new.more = s.more /\ new.page = s.page /\ new.last = s.last
         /\ new.todo = s.todo /\ new.changes = s.changes /\ new.file = s.file
         /\ new.mail = s.mail /\ new.schemes = s.schemes
  BY DEF WithAnswer, ProcStates, Pcs

LEMMA EventAnsweredFits ==
  ASSUME Typed, NEW p \in Processes, procs[p].pc = "answered", procs[p].call.op = "event",
         EventAnswered(p)
  PROVE  procs' \in [Processes -> ProcStates] /\ \A q \in Processes : Fits(procs'[q])
<1>1. PICK s \in ProcStates : s = procs[p]
  BY DEF Typed, TypeOK
<1>2. Fits(s) /\ s.pc = "answered" /\ s.call.op = "event"
  BY <1>1 DEF Typed
<1>3. /\ s.task = "idle" /\ s.mail = NoMail /\ s.answer \in EventAnswers
      /\ s.todo = NoItems
  BY <1>2 DEF Fits, CallFits, HandFits, SendFits, IsAnswer, Asking, NetPcs, NoItems
<1>4. PICK event \in EventAnswers : event = s.answer
  BY <1>3
<1>5. /\ event.upto \in Nat /\ event.more \in BOOLEAN /\ event.changes \in SUBSET Entries
  BY DEF EventAnswers
<1>6. PICK work : work = Working(s)
  OBVIOUS
<1>7. /\ work \in ProcStates /\ work.task = "idle" /\ work.call = NoCall
      /\ work.mail = NoMail /\ work.todo = NoItems
  BY <1>3, <1>6, WorkingIs
<1>8. PICK state : state = WithCursor(work, event.upto, event.more)
  OBVIOUS
<1>9. /\ state \in ProcStates /\ state.pc = "delete" /\ state.task = "idle"
      /\ state.call = NoCall /\ state.mail = NoMail /\ state.todo = NoItems
      /\ state.cursor \in Nat
  BY <1>5, <1>7, <1>8, WithCursorIs
<1>10. CASE Begin(p, state, "refresh")
  <2>1. state.todo \in Seq(ListedItems)
    BY <1>9, EmptySeq DEF NoItems
  <2>2. QED
    BY <1>9, <1>10, <2>1, BeginFits DEF Walks
<1>11. CASE Become(p, WithChanges(state, event.changes, Changed(event.changes, {"delete"})))
  <2>1. PICK todo \in Seq(Items) : todo = Changed(event.changes, {"delete"})
    BY <1>5, ChangedIs
  <2>2. PICK new : new = WithChanges(state, event.changes, todo)
    OBVIOUS
  <2>3. /\ new \in ProcStates /\ new.pc = "delete" /\ new.task = "idle"
        /\ new.call = NoCall /\ new.mail = NoMail /\ new.cursor \in Nat
    BY <1>5, <1>9, <2>2, WithChangesIs
  <2>4. CallFits(new) /\ HandFits(new)
    BY <2>3 DEF CallFits, HandFits, NoCall, Asking, NetPcs, FilePcs, Walks
  <2>5. Fits(new)
    BY <2>3, <2>4, FitsIf
  <2>6. QED
    BY <1>11, <2>1, <2>2, <2>5, BecomeFits
<1>12. \/ Stop(p)
       \/ Begin(p, state, "refresh")
       \/ Become(p, WithChanges(state, event.changes, Changed(event.changes, {"delete"})))
  BY <1>1, <1>4, <1>6, <1>8 DEF EventAnswered, WithCursor, WithChanges
<1>13. QED
  BY <1>10, <1>11, <1>12, StopFits

LEMMA AnsweredFits ==
  ASSUME Typed, NEW p \in Processes, Answered(p)
  PROVE  procs' \in [Processes -> ProcStates] /\ \A q \in Processes : Fits(procs'[q])
<1>1. PICK s \in ProcStates : s = procs[p]
  BY DEF Typed, TypeOK
<1>2. Fits(s) /\ s.pc = "answered" /\ s.task # "send"
  BY <1>1 DEF Typed, Answered, At
<1>3. CASE s.call.op = "keys"
  <2>1. s.task \in Walks \union {"events"} /\ s.mail = NoMail
    BY <1>2, <1>3 DEF Fits, CallFits, SendFits, Asking, ProcStates, Walks
  <2>2. Fits(FirstStep(s))
    BY <1>2, <2>1, FirstStepFits DEF Fits, HandFits
  <2>3. QED
    BY <1>1, <1>3, <2>2, BecomeFits DEF Answered
<1>4. CASE s.call.op = "page"
  BY <1>1, <1>2, <1>4, PageAnsweredFits DEF Answered
<1>5. CASE s.call.op = "fetch"
  BY <1>1, <1>2, <1>5, FetchAnsweredFits DEF Answered
<1>6. CASE s.call.op = "latest"
  BY <1>1, <1>2, <1>6, LatestAnsweredFits DEF Answered
<1>7. CASE s.call.op = "event"
  BY <1>1, <1>2, <1>7, EventAnsweredFits DEF Answered
<1>8. CASE s.call.op \notin {"keys", "page", "fetch", "latest", "event"}
  BY <1>1, <1>8, StopFits DEF Answered
<1>9. QED
  BY <1>3, <1>4, <1>5, <1>6, <1>7, <1>8

LEMMA TailIs ==
  ASSUME NEW S, NEW todo \in Seq(S), todo # <<>>
  PROVE  Head(todo) \in S /\ Tail(todo) \in Seq(S)
  OBVIOUS

LEMMA MarkDeletedFits ==
  ASSUME Typed, NEW p \in Processes, MarkDeleted(p)
  PROVE  /\ procs' \in [Processes -> ProcStates] /\ \A q \in Processes : Fits(procs'[q])
         /\ rows' \in [Msgs -> Rows \union {None}]
<1>1. PICK s \in ProcStates : s = procs[p]
  BY DEF Typed, TypeOK
<1>2. Fits(s) /\ s.pc = "delete" /\ rows \in [Msgs -> Rows \union {None}]
  BY <1>1 DEF Typed, TypeOK, MarkDeleted, At
<1>3. s.task = "idle" /\ s.mail = NoMail /\ s.cursor \in Nat /\ s.todo \in Seq(Items)
  BY <1>2 DEF Fits, HandFits, SendFits, ProcStates
<1>4. ASSUME s.todo # <<>>, Become(p, WithTodo(s, Tail(s.todo)))
      PROVE  procs' \in [Processes -> ProcStates] /\ \A q \in Processes : Fits(procs'[q])
  <2>1. PICK todo \in Seq(Items) : todo = Tail(s.todo)
    BY <1>3, <1>4, TailIs
  <2>2. PICK new : new = WithTodo(s, todo)
    OBVIOUS
  <2>3. /\ new \in ProcStates /\ new.pc = s.pc /\ new.task = s.task
        /\ new.call = s.call /\ new.mail = s.mail /\ new.cursor = s.cursor /\ new.file = s.file
    BY <2>2, WithTodoIs
  <2>4. CallFits(new)
    BY <1>2, <1>3, <2>3 DEF Fits, CallFits, Asking, NetPcs, FilePcs, Walks
  <2>5. HandFits(new)
    BY <1>2, <1>3, <2>3 DEF Fits, HandFits, Asking, NetPcs, FilePcs, Walks
  <2>6. Fits(new)
    BY <1>2, <1>3, <2>3, <2>4, <2>5, FitsIf
  <2>7. Become(p, new)
    BY <1>4, <2>1, <2>2
  <2>8. QED
    BY <2>6, <2>7, BecomeFits
<1>5. ASSUME Begin(p, WithChanges(s, {}, SyncIds(s.changes)), "events")
      PROVE  procs' \in [Processes -> ProcStates] /\ \A q \in Processes : Fits(procs'[q])
  <2>1. s.changes \in SUBSET Entries
    BY DEF ProcStates
  <2>2. PICK todo \in Seq(Items) : todo = SyncIds(s.changes)
    BY <2>1, ChangedIs DEF SyncIds
  <2>3. PICK new : new = WithChanges(s, {}, todo)
    OBVIOUS
  <2>4. /\ new \in ProcStates /\ new.call = s.call /\ new.mail = s.mail
        /\ new.cursor = s.cursor
    BY <2>3, WithChangesIs
  <2>5. new.call = NoCall
    BY <1>2, <2>4 DEF Fits, HandFits
  <2>6. Begin(p, new, "events")
    BY <1>5, <2>2, <2>3
  <2>7. QED
    BY <1>3, <2>4, <2>5, <2>6, BeginFits DEF Walks
<1>6. \/ s.todo # <<>> /\ Become(p, WithTodo(s, Tail(s.todo)))
      \/ Begin(p, WithChanges(s, {}, SyncIds(s.changes)), "events")
  BY <1>1 DEF MarkDeleted, WithTodo, WithChanges
<1>7. rows' \in [Msgs -> Rows \union {None}]
  <2>1. ASSUME s.todo # <<>>, rows[Head(s.todo).id] # None,
               rows' = [rows EXCEPT ![Head(s.todo).id].live = FALSE]
        PROVE  rows' \in [Msgs -> Rows \union {None}]
    <3>0. PICK item \in Items : item = Head(s.todo)
      BY <1>3, <2>1, TailIs
    <3>1. PICK m \in Msgs : m = Head(s.todo).id
      BY <3>0 DEF Items
    <3>2. PICK row \in Rows : row = rows[m]
      BY <1>2, <2>1, <3>1
    <3>3. [row EXCEPT !.live = FALSE] \in Rows
      BY DEF Rows
    <3>4. rows' = [rows EXCEPT ![m] = [row EXCEPT !.live = FALSE]]
      BY <2>1, <3>1, <3>2
    <3>5. QED
      BY <1>2, <3>3, <3>4
  <2>2. QED
    BY <1>1, <1>2, <2>1 DEF MarkDeleted
<1>8. QED
  BY <1>4, <1>5, <1>6, <1>7

WithPage(s, page) == [s EXCEPT !.page = page]

LEMMA WithPageIs ==
  ASSUME NEW s \in ProcStates, NEW page \in Nat, NEW new, new = WithPage(s, page)
  PROVE  /\ new \in ProcStates
         /\ new.pc = s.pc /\ new.task = s.task /\ new.call = s.call /\ new.answer = s.answer
         /\ new.session = s.session /\ new.outer = s.outer /\ new.cursor = s.cursor
         /\ new.more = s.more /\ new.page = page /\ new.last = s.last
         /\ new.todo = s.todo /\ new.changes = s.changes /\ new.file = s.file
         /\ new.mail = s.mail /\ new.schemes = s.schemes
  BY DEF WithPage, ProcStates

LEMMA ItemFits ==
  ASSUME Typed, NEW p \in Processes, Item(p)
  PROVE  procs' \in [Processes -> ProcStates] /\ \A q \in Processes : Fits(procs'[q])
<1>1. PICK s \in ProcStates : s = procs[p]
  BY DEF Typed, TypeOK
<1>2. Fits(s) /\ s.pc = "item"
  BY <1>1 DEF Typed, Item, At
<1>3. /\ s.task \in Walks \union {"events"} /\ s.mail = NoMail /\ s.todo \in Seq(Items)
      /\ s.task \in Walks => s.todo \in Seq(ListedItems)
      /\ s.task \in {"refresh", "events"} => s.cursor \in Nat
  BY <1>2 DEF Fits, HandFits, SendFits, ProcStates, Walks
<1>4. ASSUME s.todo # <<>>, NEW state \in MailStates, Ingesting(p, state)
      PROVE  procs' \in [Processes -> ProcStates] /\ \A q \in Processes : Fits(procs'[q])
  <2>1. PICK answer \in [state : MailStates] : answer = [state |-> state]
    OBVIOUS
  <2>2. PICK new : new = WithAnswer(s, answer)
    OBVIOUS
  <2>3. /\ new \in ProcStates /\ new.pc = "ingest" /\ new.task = s.task /\ new.call = s.call
        /\ new.answer = answer /\ new.cursor = s.cursor /\ new.todo = s.todo
        /\ new.file = s.file /\ new.mail = s.mail
    BY <2>2, WithAnswerIs
  <2>4. CallFits(new)
    BY <1>2, <1>3, <2>3 DEF Fits, CallFits, Asking, NetPcs, FilePcs, Walks
  <2>5. HandFits(new)
    BY <1>2, <1>3, <1>4, <2>3 DEF Fits, HandFits, Asking, NetPcs, FilePcs, Walks
  <2>6. Fits(new)
    BY <1>3, <2>3, <2>4, <2>5, FitsIf DEF Walks
  <2>7. Become(p, new)
    BY <1>1, <1>4, <2>1, <2>2 DEF Ingesting, WithAnswer
  <2>8. QED
    BY <2>6, <2>7, BecomeFits
<1>5. CASE s.todo # <<>> /\ SyncMessage(p)
  <2>1. PICK item \in Items : item = Head(s.todo)
    BY <1>3, <1>5, TailIs
  <2>2. item.id \in Msgs /\ (s.task \in Walks => item.state \in MailStates)
    <3>1. item.id \in Msgs
      BY DEF Items
    <3>2. ASSUME s.task \in Walks PROVE item.state \in MailStates
      <4>1. item \in ListedItems
        BY <1>3, <1>5, <2>1, <3>2, TailIs
      <4>2. QED
        BY <4>1 DEF ListedItems
    <3>3. QED
      BY <3>1, <3>2
  <2>3. \/ s.task # "events" /\ Ingesting(p, item.state)
        \/ cache[item.id] \in MailStates /\ Ingesting(p, cache[item.id])
        \/ Stop(p)
        \/ Become(p, Calling(s, [op |-> "fetch", id |-> item.id]))
    BY <1>1, <1>5, <2>1 DEF SyncMessage
  <2>4. CASE Become(p, Calling(s, [op |-> "fetch", id |-> item.id]))
    <3>1. PICK call : call = [op |-> "fetch", id |-> item.id]
      OBVIOUS
    <3>2. call \in Calls /\ call.op = "fetch"
      BY <2>2, <3>1 DEF Calls
    <3>3. PICK new : new = Calling(s, call)
      OBVIOUS
    <3>4. /\ new \in ProcStates /\ new.pc = "get" /\ new.task = s.task /\ new.call = call
          /\ new.cursor = s.cursor /\ new.todo = s.todo /\ new.mail = s.mail
      BY <3>2, <3>3, CallingIs
    <3>5. CallFits(new)
      BY <1>3, <1>5, <3>2, <3>4 DEF CallFits, Asking, NetPcs, FilePcs, Walks
    <3>6. HandFits(new)
      BY <1>3, <3>4 DEF HandFits, Asking, NetPcs, FilePcs, Walks
    <3>7. Fits(new)
      BY <1>3, <3>4, <3>5, <3>6, FitsIf DEF Walks
    <3>8. QED
      BY <2>4, <3>1, <3>3, <3>7, BecomeFits
  <2>5. QED
    BY <1>3, <1>4, <1>5, <2>2, <2>3, <2>4, StopFits
<1>6. CASE s.todo # <<>> /\ SkipMessage(p)
  <2>1. PICK todo \in Seq(ListedItems) : todo = Tail(s.todo)
    BY <1>1, <1>3, <1>6, TailIs DEF SkipMessage, Walks
  <2>2. todo \in Seq(Items)
    BY <1>3, <1>6, <2>1, TailIs
  <2>3. PICK new : new = WithTodo(s, todo)
    OBVIOUS
  <2>4. /\ new \in ProcStates /\ new.pc = s.pc /\ new.task = s.task /\ new.call = s.call
        /\ new.todo = todo /\ new.mail = s.mail /\ new.cursor = s.cursor /\ new.file = s.file
    BY <2>2, <2>3, WithTodoIs
  <2>5. CallFits(new)
    BY <1>2, <1>3, <2>4 DEF Fits, HandFits, CallFits, NoCall, Asking, NetPcs, FilePcs, Walks
  <2>6. HandFits(new)
    BY <1>2, <1>3, <2>4 DEF Fits, HandFits, Asking, NetPcs, FilePcs, Walks
  <2>7. Fits(new)
    BY <1>2, <1>3, <2>4, <2>5, <2>6, FitsIf DEF Walks
  <2>8. Become(p, new)
    BY <1>1, <1>6, <2>1, <2>3 DEF SkipMessage, WithTodo
  <2>9. QED
    BY <2>7, <2>8, BecomeFits
<1>7. CASE s.task \in Walks /\ NextPage(p)
  <2>1. PICK page \in Nat : page = s.page + 1
    BY DEF ProcStates
  <2>2. PICK next : next = WithPage(s, page)
    OBVIOUS
  <2>3. /\ next \in ProcStates /\ next.task = s.task /\ next.todo = s.todo
        /\ next.mail = s.mail /\ next.cursor = s.cursor
    BY <2>2, WithPageIs
  <2>4. PICK call : call = PageCall(page)
    OBVIOUS
  <2>5. call \in Calls /\ call.op = "page"
    BY <2>4 DEF PageCall, Calls
  <2>6. PICK new : new = Calling(next, call)
    OBVIOUS
  <2>7. /\ new \in ProcStates /\ new.pc = "get" /\ new.task = s.task /\ new.call = call
        /\ new.cursor = s.cursor /\ new.todo = s.todo /\ new.mail = s.mail
    BY <2>3, <2>5, <2>6, CallingIs
  <2>8. CallFits(new)
    BY <1>7, <2>5, <2>7 DEF CallFits, Asking, NetPcs, FilePcs, Walks
  <2>9. HandFits(new)
    BY <1>3, <1>7, <2>7 DEF HandFits, Asking, NetPcs, FilePcs, Walks
  <2>10. Fits(new)
    BY <1>3, <1>7, <2>7, <2>8, <2>9, FitsIf DEF Walks
  <2>11. Become(p, new)
    BY <1>1, <1>7, <2>1, <2>2, <2>4, <2>6 DEF NextPage, WithPage
  <2>12. QED
    BY <2>10, <2>11, BecomeFits
<1>8. \/ s.todo # <<>> /\ (SyncMessage(p) \/ SkipMessage(p))
      \/ End(p)
      \/ s.task # "events" /\ NextPage(p)
  BY <1>1 DEF Item
<1>9. QED
  BY <1>1, <1>3, <1>5, <1>6, <1>7, <1>8, EndFits

DoneWith(s) == [s EXCEPT !.pc = "item", !.todo = Tail(@)]

LEMMA DoneWithIs ==
  ASSUME NEW s \in ProcStates, s.todo # <<>>, NEW new, new = DoneWith(s)
  PROVE  /\ new \in ProcStates
         /\ new.pc = "item" /\ new.task = s.task /\ new.call = s.call /\ new.answer = s.answer
         /\ new.session = s.session /\ new.outer = s.outer /\ new.cursor = s.cursor
         /\ new.more = s.more /\ new.page = s.page /\ new.last = s.last
         /\ new.todo = Tail(s.todo) /\ new.changes = s.changes /\ new.file = s.file
         /\ new.mail = s.mail /\ new.schemes = s.schemes
<1>1. s.todo \in Seq(Items)
  BY DEF ProcStates
<1>2. PICK todo \in Seq(Items) : todo = Tail(s.todo)
  BY <1>1, TailIs
<1>3. new = [s EXCEPT !.pc = "item", !.todo = todo]
  BY <1>2 DEF DoneWith
<1>4. /\ new \in ProcStates
      /\ new.pc = "item" /\ new.task = s.task /\ new.call = s.call /\ new.answer = s.answer
      /\ new.session = s.session /\ new.outer = s.outer /\ new.cursor = s.cursor
      /\ new.more = s.more /\ new.page = s.page /\ new.last = s.last
      /\ new.todo = todo /\ new.changes = s.changes /\ new.file = s.file
      /\ new.mail = s.mail /\ new.schemes = s.schemes
  BY ZenonT(60), <1>3 DEF ProcStates, Pcs
<1>5. QED
  BY <1>2, <1>4

LEMMA IngestFits ==
  ASSUME Typed, NEW p \in Processes, Ingest(p)
  PROVE  /\ procs' \in [Processes -> ProcStates] /\ \A q \in Processes : Fits(procs'[q])
         /\ rows' \in [Msgs -> Rows \union {None}]
<1>1. PICK s \in ProcStates : s = procs[p]
  BY DEF Typed, TypeOK
<1>2. Fits(s) /\ s.pc = "ingest" /\ rows \in [Msgs -> Rows \union {None}]
  BY <1>1 DEF Typed, TypeOK, Ingest, At
<1>3. /\ s.task \in Walks \union {"events"} /\ s.mail = NoMail /\ s.todo \in Seq(Items)
      /\ s.task \in Walks => s.todo \in Seq(ListedItems)
      /\ s.task \in {"refresh", "events"} => s.cursor \in Nat
      /\ s.todo # <<>> /\ s.answer \in [state : MailStates]
  BY <1>2 DEF Fits, HandFits, SendFits, ProcStates, Walks
<1>4. rows' \in [Msgs -> Rows \union {None}]
  <2>1. PICK item \in Items : item = Head(s.todo)
    BY <1>3, TailIs
  <2>2. item.id \in Msgs
    BY DEF Items
  <2>3. RowOf(s.answer.state) \in Rows
    BY <1>3, RowTyped
  <2>4. rows' = [rows EXCEPT ![item.id] = RowOf(s.answer.state)]
    BY <1>1, <2>1 DEF Ingest
  <2>5. QED
    BY <1>2, <2>2, <2>3, <2>4
<1>5. PICK work : work = Working(s)
  OBVIOUS
<1>6. /\ work \in ProcStates /\ work.task = s.task /\ work.call = NoCall
      /\ work.mail = s.mail /\ work.todo = s.todo /\ work.cursor = s.cursor
  BY <1>5, WorkingIs
<1>7. PICK new : new = DoneWith(work)
  OBVIOUS
<1>8. /\ new \in ProcStates /\ new.pc = "item" /\ new.task = s.task /\ new.call = NoCall
      /\ new.mail = s.mail /\ new.todo = Tail(s.todo) /\ new.cursor = s.cursor
  BY <1>3, <1>6, <1>7, DoneWithIs
<1>9. s.task \in Walks => new.todo \in Seq(ListedItems)
  BY <1>3, <1>8, TailIs
<1>10. CallFits(new)
  BY <1>3, <1>8 DEF CallFits, NoCall, Asking, NetPcs, FilePcs, Walks
<1>11. HandFits(new)
  BY <1>3, <1>8, <1>9 DEF HandFits, Asking, NetPcs, FilePcs, Walks
<1>12. Fits(new)
  BY <1>3, <1>8, <1>10, <1>11, FitsIf DEF Walks
<1>13. Become(p, new) \/ Stop(p)
  BY <1>1, <1>5, <1>7 DEF Ingest, DoneWith
<1>14. procs' \in [Processes -> ProcStates] /\ \A q \in Processes : Fits(procs'[q])
  BY <1>12, <1>13, BecomeFits, StopFits
<1>15. QED
  BY <1>4, <1>14

LEMMA NextEventFits ==
  ASSUME Typed, NEW p \in Processes, NextEvent(p)
  PROVE  procs' \in [Processes -> ProcStates] /\ \A q \in Processes : Fits(procs'[q])
<1>1. PICK s \in ProcStates : s = procs[p]
  BY DEF Typed, TypeOK
<1>2. Fits(s) /\ s.pc = "next"
  BY <1>1 DEF Typed, NextEvent, At
<1>3. s.task = "idle" /\ s.mail = NoMail /\ s.cursor \in Nat /\ s.todo = NoItems
  BY <1>2 DEF Fits, HandFits, SendFits, NoItems
<1>4. Fits(Calling(s, EventCall(s.cursor)))
  BY <1>3, PollsFits
<1>5. Become(p, Calling(s, EventCall(s.cursor))) \/ Stop(p)
  BY <1>1 DEF NextEvent
<1>6. QED
  BY <1>4, <1>5, BecomeFits, StopFits

-----------------------------------------------------------------------------
(* Commands *)

WithFiles(s, session, cursor) == [s EXCEPT !.session = session, !.cursor = cursor]

LEMMA WithFilesIs ==
  ASSUME NEW s \in ProcStates, NEW session \in Nat, NEW cursor \in Nat \union {None},
         NEW new, new = WithFiles(s, session, cursor)
  PROVE  /\ new \in ProcStates
         /\ new.pc = s.pc /\ new.task = s.task /\ new.call = s.call /\ new.answer = s.answer
         /\ new.session = session /\ new.outer = s.outer /\ new.cursor = cursor
         /\ new.more = s.more /\ new.page = s.page /\ new.last = s.last
         /\ new.todo = s.todo /\ new.changes = s.changes /\ new.file = s.file
         /\ new.mail = s.mail /\ new.schemes = s.schemes
  BY DEF WithFiles, ProcStates

LEMMA IdleIs ==
  /\ Idle \in ProcStates /\ Idle.pc = "idle" /\ Idle.task = "idle" /\ Idle.call = NoCall
  /\ Idle.session = 0 /\ Idle.outer = 0 /\ Idle.cursor = None /\ Idle.file = "session"
  /\ Idle.todo = NoItems /\ Idle.mail = NoMail /\ Idle.changes = {}
  BY IdleFits DEF Fits, Idle, NoItems

LEMMA StartPollFits ==
  ASSUME Typed, NEW p \in Processes, NEW job, StartPoll(p, job)
  PROVE  procs' \in [Processes -> ProcStates] /\ \A q \in Processes : Fits(procs'[q])
<1>1. PICK session \in Nat, cursor \in Nat \union {None} :
        session = sessionFile /\ cursor = cursorFile
  BY DEF Typed, TypeOK, StartPoll
<1>2. PICK state : state = WithFiles(Idle, session, cursor)
  OBVIOUS
<1>3. /\ state \in ProcStates /\ state.task = "idle" /\ state.call = NoCall
      /\ state.mail = NoMail /\ state.cursor = cursor /\ state.todo = NoItems
  <2>1. PICK s \in ProcStates : s = Idle
    BY IdleIs
  <2>2. s.task = "idle" /\ s.call = NoCall /\ s.mail = NoMail /\ s.todo = NoItems
    BY <2>1, IdleIs
  <2>3. state = WithFiles(s, session, cursor)
    BY <1>2, <2>1
  <2>4. /\ state \in ProcStates /\ state.task = s.task /\ state.call = s.call
        /\ state.mail = s.mail /\ state.cursor = cursor /\ state.todo = s.todo
    BY <2>3, WithFilesIs
  <2>5. QED
    BY <2>2, <2>4
<1>4. PICK call : call = IF cursor = None THEN [op |-> "latest"] ELSE EventCall(cursor)
  OBVIOUS
<1>5. Fits(Calling(state, call))
  BY <1>3, <1>4, PollsFits
<1>6. Begin(p, state, "bootstrap") \/ Become(p, Calling(state, call))
  BY <1>1, <1>2, <1>4 DEF StartPoll, WithFiles
<1>7. state.todo \in Seq(ListedItems)
  BY <1>3, EmptySeq DEF NoItems
<1>8. CASE Begin(p, state, "bootstrap")
  BY <1>3, <1>7, <1>8, BeginFits DEF Walks
<1>9. QED
  BY <1>5, <1>6, <1>8, BecomeFits

LEMMA StartSyncFits ==
  ASSUME Typed, NEW p \in Processes, StartSync(p)
  PROVE  procs' \in [Processes -> ProcStates] /\ \A q \in Processes : Fits(procs'[q])
<1>1. PICK state : state = Idle
  OBVIOUS
<1>2. /\ state \in ProcStates /\ state.task = "idle" /\ state.call = NoCall
      /\ state.mail = NoMail /\ state.todo = NoItems
  BY <1>1, IdleIs
<1>3. state.todo \in Seq(ListedItems)
  BY <1>2, EmptySeq DEF NoItems
<1>4. Begin(p, state, "sync")
  BY <1>1 DEF StartSync
<1>5. QED
  BY <1>2, <1>3, <1>4, BeginFits DEF Walks

WithCall(s, pc, call, session) == [s EXCEPT !.pc = pc, !.call = call, !.session = session]

LEMMA WithCallIs ==
  ASSUME NEW s \in ProcStates, NEW pc \in Pcs, NEW call \in Calls, NEW session \in Nat,
         NEW new, new = WithCall(s, pc, call, session)
  PROVE  /\ new \in ProcStates
         /\ new.pc = pc /\ new.task = s.task /\ new.call = call /\ new.answer = s.answer
         /\ new.session = session /\ new.outer = s.outer /\ new.cursor = s.cursor
         /\ new.more = s.more /\ new.page = s.page /\ new.last = s.last
         /\ new.todo = s.todo /\ new.changes = s.changes /\ new.file = s.file
         /\ new.mail = s.mail /\ new.schemes = s.schemes
  BY DEF WithCall, ProcStates

\* `proton session-check` and `proton login` have nothing but a session in hand.
LEMMA SessionCommandFits ==
  ASSUME Typed, NEW p \in Processes, SessionCheck(p) \/ Login(p)
  PROVE  /\ procs' \in [Processes -> ProcStates] /\ \A q \in Processes : Fits(procs'[q])
         /\ access' \in Accesses
<1>0. /\ access \in Accesses /\ access.last + 1 \in Nat
      /\ sessionFile \in Nat \union {Torn}
  BY DEF Typed, TypeOK, Accesses
<1>1. ASSUME NEW op \in {"check", "login"}, NEW pc, NEW session \in Nat,
             \/ op = "check" /\ pc = "refresh"
             \/ op = "login" /\ pc = "truncate",
             Become(p, WithCall(Idle, pc, [op |-> op], session))
      PROVE  procs' \in [Processes -> ProcStates] /\ \A q \in Processes : Fits(procs'[q])
  <2>1. PICK call : call = [op |-> op]
    OBVIOUS
  <2>2. call \in Calls /\ call.op = op /\ pc \in Pcs
    BY <1>1, <2>1 DEF Calls, Pcs
  <2>3. PICK s \in ProcStates : s = Idle
    BY IdleIs
  <2>4. PICK new : new = WithCall(s, pc, call, session)
    OBVIOUS
  <2>5. /\ new \in ProcStates /\ new.pc = pc /\ new.task = s.task /\ new.call = call
        /\ new.todo = s.todo /\ new.mail = s.mail /\ new.file = s.file
    BY <2>2, <2>4, WithCallIs
  <2>6. s.task = "idle" /\ s.todo = NoItems /\ s.mail = NoMail /\ s.file = "session"
    BY <2>3, IdleIs
  <2>7. CallFits(new)
    BY <1>1, <2>2, <2>5, <2>6 DEF CallFits, Asking, NetPcs, FilePcs, Walks
  <2>8. HandFits(new)
    BY <1>1, <2>2, <2>5, <2>6 DEF HandFits, IsAnswer, Asking, NetPcs, FilePcs, Walks, NoItems
  <2>9. Fits(new)
    BY <1>1, <2>5, <2>6, <2>7, <2>8, FitsIf
  <2>10. QED
    BY <1>1, <2>1, <2>3, <2>4, <2>9, BecomeFits
<1>2. CASE SessionCheck(p)
  <2>1. Become(p, WithCall(Idle, "refresh", [op |-> "check"], sessionFile))
    BY <1>2 DEF SessionCheck, WithCall
  <2>2. sessionFile \in Nat /\ access' = access
    BY <1>2 DEF SessionCheck, serverVars
  <2>3. procs' \in [Processes -> ProcStates] /\ \A q \in Processes : Fits(procs'[q])
    BY <1>1, <2>1, <2>2
  <2>4. QED
    BY <1>0, <2>2, <2>3
<1>3. CASE Login(p)
  <2>1. Become(p, WithCall(Idle, "truncate", [op |-> "login"], access.last + 1))
    BY <1>3 DEF Login, WithCall
  <2>2. access' \in Accesses
    BY <1>0, <1>3 DEF Login, NewSession, Accesses
  <2>3. QED
    BY <1>0, <1>1, <2>1, <2>2
<1>4. QED
  BY <1>2, <1>3

-----------------------------------------------------------------------------
(* Sends *)

\* A process that sends waits for an answer to one of four calls.
LEMMA AsksFits ==
  ASSUME NEW s \in ProcStates, s.pc = "get", s.task = "send", s.mail \in Mails,
         s.call.op \in {"public_keys", "keys", "draft", "send"},
         s.call.op = "public_keys" => Len(s.schemes) < Len(s.mail.to),
         s.call.op # "public_keys" => Len(s.schemes) = Len(s.mail.to),
         s.mail.html => \A i \in DOMAIN s.schemes : s.schemes[i] # "inline"
  PROVE  Fits(s)
<1>1. CallFits(s)
  BY DEF CallFits, Asking, NetPcs, FilePcs, Walks
<1>2. HandFits(s)
  BY DEF HandFits, Asking, NetPcs, FilePcs, Walks
<1>3. SendFits(s)
  BY ClientAssumption DEF SendFits, Asking, NetPcs
<1>4. QED
  BY <1>1, <1>2, <1>3 DEF Fits

WithMail(s, mail, session) == [s EXCEPT !.task = "send", !.mail = mail, !.session = session]

LEMMA WithMailIs ==
  ASSUME NEW s \in ProcStates, NEW mail \in Mails, NEW session \in Nat,
         NEW new, new = WithMail(s, mail, session)
  PROVE  /\ new \in ProcStates
         /\ new.pc = s.pc /\ new.task = "send" /\ new.call = s.call /\ new.answer = s.answer
         /\ new.session = session /\ new.outer = s.outer /\ new.cursor = s.cursor
         /\ new.more = s.more /\ new.page = s.page /\ new.last = s.last
         /\ new.todo = s.todo /\ new.changes = s.changes /\ new.file = s.file
         /\ new.mail = mail /\ new.schemes = s.schemes
  BY DEF WithMail, ProcStates

WithSchemes(s, schemes) == [s EXCEPT !.schemes = schemes]

LEMMA WithSchemesIs ==
  ASSUME NEW s \in ProcStates, NEW schemes \in Seq(Schemes),
         NEW new, new = WithSchemes(s, schemes)
  PROVE  /\ new \in ProcStates
         /\ new.pc = s.pc /\ new.task = s.task /\ new.call = s.call /\ new.answer = s.answer
         /\ new.session = s.session /\ new.outer = s.outer /\ new.cursor = s.cursor
         /\ new.more = s.more /\ new.page = s.page /\ new.last = s.last
         /\ new.todo = s.todo /\ new.changes = s.changes /\ new.file = s.file
         /\ new.mail = s.mail /\ new.schemes = schemes
  BY DEF WithSchemes, ProcStates

LEMMA IdleSchemes == Idle.schemes = <<>>
  BY DEF Idle

LEMMA StartSendFits ==
  ASSUME Typed, NEW p \in Processes, StartSend(p)
  PROVE  /\ procs' \in [Processes -> ProcStates] /\ \A q \in Processes : Fits(procs'[q])
         /\ outgoing' \in Outgoing
         /\ \E s \in ProcStates :
              /\ Fits(s) /\ s.pc = "get" /\ s.call.op = "public_keys"
              /\ s.mail \in Mails /\ s.task = "send"
              /\ s.session = sessionFile /\ Become(p, s)
              /\ s.cursor = None /\ s.changes = {} /\ s.todo = NoItems
<1>0. /\ setting \in Settings /\ sessionFile \in Nat /\ outgoing \in Outgoing
  BY DEF Typed, TypeOK, StartSend
<1>1. PICK mail \in Mails :
        /\ mail.to # <<>>
        /\ Become(p, Calling(WithMail(Idle, mail, sessionFile), PublicKeysOf(Head(mail.to))))
  BY <1>0, ClientAssumption DEF StartSend, WithMail
<1>2. mail.to \in Seq(Addresses) /\ Len(mail.to) > 0 /\ Head(mail.to) \in Addresses
  <2>1. mail.to \in Seq(Addresses)
    BY DEF Mails
  <2>2. QED
    BY <1>1, <2>1
<1>3. PICK call : call = PublicKeysOf(Head(mail.to))
  OBVIOUS
<1>4. call \in Calls /\ call.op = "public_keys"
  BY <1>2, <1>3 DEF PublicKeysOf, Calls
<1>5. PICK idle \in ProcStates : idle = Idle
  BY IdleIs
<1>6. /\ idle.schemes = <<>> /\ idle.cursor = None /\ idle.changes = {}
      /\ idle.todo = NoItems
  BY <1>5, IdleIs, IdleSchemes
<1>7. PICK session \in Nat : session = sessionFile
  BY <1>0
<1>8. PICK s : s = WithMail(idle, mail, session)
  OBVIOUS
<1>9. s \in ProcStates /\ s.task = "send" /\ s.mail = mail /\ s.schemes = idle.schemes
      /\ s.session = session /\ s.cursor = idle.cursor /\ s.changes = idle.changes
      /\ s.todo = idle.todo
  BY <1>8, WithMailIs
<1>10. PICK new : new = Calling(s, call)
  OBVIOUS
<1>11. /\ new \in ProcStates /\ new.pc = "get" /\ new.task = "send" /\ new.call = call
       /\ new.mail = mail /\ new.schemes = idle.schemes /\ new.session = session
       /\ new.cursor = None /\ new.changes = {} /\ new.todo = NoItems
  BY <1>4, <1>6, <1>9, <1>10, CallingIs
<1>12. Len(new.schemes) = 0 /\ \A i \in DOMAIN new.schemes : new.schemes[i] # "inline"
  BY <1>6, <1>11
<1>13. Fits(new)
  BY <1>2, <1>4, <1>11, <1>12, AsksFits
<1>14. Become(p, new)
  BY <1>1, <1>3, <1>5, <1>7, <1>8, <1>10
<1>15. outgoing' \in Outgoing
  <2>1. outgoing.out \in [Processes -> Seq(Packages)] /\ outgoing.begun \in Nat
        /\ outgoing.done \in Nat
    BY <1>0 DEF Outgoing
  <2>2. <<>> \in Seq(Packages) /\ outgoing.begun + 1 \in Nat
    BY <2>1, EmptySeq
  <2>3. outgoing' = [outgoing EXCEPT !.out[p] = <<>>, !.begun = @ + 1]
    BY DEF StartSend
  <2>4. QED
    BY <1>0, <2>1, <2>2, <2>3 DEF Outgoing
<1>16. QED
  BY <1>4, <1>7, <1>11, <1>13, <1>14, <1>15, BecomeFits

\* An answer ends the send, or another call for the same message follows.
LEMMA SendAnsweredFits ==
  ASSUME Typed, NEW p \in Processes, SendAnswered(p)
  PROVE  /\ procs' \in [Processes -> ProcStates] /\ \A q \in Processes : Fits(procs'[q])
         /\ outgoing' \in Outgoing
         /\ \/ Stop(p)
            \/ \E s \in ProcStates :
                 /\ Fits(s) /\ s.pc = "get" /\ s.call.op # "check" /\ s.mail = procs[p].mail
                 /\ s.task = "send" /\ s.session = procs[p].session
                 /\ procs[p].call.op # "send" /\ Become(p, s)
                 /\ s.cursor = procs[p].cursor /\ s.changes = procs[p].changes
                 /\ s.todo = procs[p].todo
<1>1. PICK s \in ProcStates : s = procs[p]
  BY DEF Typed, TypeOK
<1>2. Fits(s) /\ s.pc = "answered" /\ s.task = "send"
  BY <1>1 DEF Typed, SendAnswered, At
<1>3. /\ s.mail \in Mails /\ s.mail.to \in Seq(Addresses) /\ s.schemes \in Seq(Schemes)
      /\ s.call.op \in {"public_keys", "keys", "draft", "send"}
      /\ s.call.op = "public_keys" => Len(s.schemes) < Len(s.mail.to)
      /\ s.call.op # "public_keys" => Len(s.schemes) = Len(s.mail.to)
      /\ s.mail.html => \A i \in DOMAIN s.schemes : s.schemes[i] # "inline"
  BY <1>2 DEF Fits, SendFits, ProcStates, Mails
<1>4. PICK work : work = Working(s)
  OBVIOUS
<1>5. /\ work \in ProcStates /\ work.task = "send" /\ work.mail = s.mail
      /\ work.schemes = s.schemes /\ work.session = s.session
      /\ work.cursor = s.cursor /\ work.changes = s.changes /\ work.todo = s.todo
  BY <1>2, <1>4, WorkingIs
<1> DEFINE Then(new) == /\ Fits(new) /\ new.pc = "get" /\ new.call.op # "check"
                        /\ new.mail = s.mail
                        /\ new.task = "send" /\ new.session = s.session /\ Become(p, new)
                        /\ new.cursor = s.cursor /\ new.changes = s.changes
                        /\ new.todo = s.todo
           Goes == Stop(p) \/ (s.call.op # "send" /\ \E new \in ProcStates : Then(new))
<1>6. ASSUME s.call.op = "public_keys", PublicKeysAnswered(p)
      PROVE  Goes
  <2>1. s.answer.key \in {"internal", "external", "none"}
    BY <1>2, <1>6 DEF Fits, HandFits, IsAnswer, Asking, NetPcs
  <2>2. PICK scheme \in Schemes : scheme = SchemeFor(s.answer.key)
    BY <2>1 DEF SchemeFor, Schemes
  <2>3. PICK schemes \in Seq(Schemes) : schemes = Append(s.schemes, scheme)
    <3>1. Append(s.schemes, scheme) \in Seq(Schemes)
      BY <1>3
    <3>2. QED
      BY <3>1
  <2>4. /\ Len(schemes) = Len(s.schemes) + 1 /\ Len(schemes) <= Len(s.mail.to)
        /\ \A i \in DOMAIN schemes : schemes[i] = scheme \/ \E j \in DOMAIN s.schemes : schemes[i] = s.schemes[j]
    BY <1>3, <1>6, <2>3
  <2>5. PICK state : state = WithSchemes(work, schemes)
    OBVIOUS
  <2>6. /\ state \in ProcStates /\ state.task = "send" /\ state.mail = s.mail
        /\ state.schemes = schemes /\ state.session = s.session
        /\ state.cursor = s.cursor /\ state.changes = s.changes /\ state.todo = s.todo
    <3>1. /\ state \in ProcStates /\ state.task = work.task /\ state.mail = work.mail
          /\ state.schemes = schemes /\ state.session = work.session
          /\ state.cursor = work.cursor /\ state.changes = work.changes
          /\ state.todo = work.todo
      BY <1>5, <2>5, WithSchemesIs
    <3>2. QED
      BY <1>5, <3>1
  <2>7. PICK call : call = IF Len(schemes) < Len(s.mail.to)
                           THEN PublicKeysOf(s.mail.to[Len(schemes) + 1])
                           ELSE [op |-> "keys"]
    OBVIOUS
  <2>8. /\ call \in Calls
        /\ \/ call.op = "public_keys" /\ Len(schemes) < Len(s.mail.to)
           \/ call.op = "keys" /\ Len(schemes) = Len(s.mail.to)
    <3>1. CASE Len(schemes) < Len(s.mail.to)
      <4>1. s.mail.to[Len(schemes) + 1] \in Addresses
        BY <1>3, <3>1
      <4>2. QED
        BY <2>7, <3>1, <4>1 DEF PublicKeysOf, Calls
    <3>2. CASE ~(Len(schemes) < Len(s.mail.to))
      <4>1. call = [op |-> "keys"]
        BY <2>7, <3>2
      <4>2. QED
        BY <1>3, <2>4, <3>2, <4>1 DEF Calls
    <3>3. QED
      BY <3>1, <3>2
  <2>9. Stop(p) \/ (~CannotTake(s.mail, s.answer.key) /\ Become(p, Calling(state, call)))
    BY <1>1, <1>4, <1>6, <2>2, <2>3, <2>5, <2>7 DEF PublicKeysAnswered, WithSchemes
  <2>10. CASE ~CannotTake(s.mail, s.answer.key) /\ Become(p, Calling(state, call))
    <3>1. s.mail.html => scheme # "inline"
      BY <2>1, <2>2, <2>10 DEF CannotTake, SchemeFor
    <3>2. PICK new : new = Calling(state, call)
      OBVIOUS
    <3>3. /\ new \in ProcStates /\ new.pc = "get" /\ new.task = "send" /\ new.call = call
          /\ new.mail = s.mail /\ new.schemes = schemes /\ new.session = s.session
          /\ new.cursor = s.cursor /\ new.changes = s.changes /\ new.todo = s.todo
      BY <2>6, <2>8, <3>2, CallingIs
    <3>4. s.mail.html => \A i \in DOMAIN schemes : schemes[i] # "inline"
      BY <1>3, <2>4, <3>1
    <3>5. Fits(new)
      BY <1>3, <2>8, <3>3, <3>4, AsksFits
    <3>6. Then(new)
      BY <2>8, <2>10, <3>2, <3>3, <3>5
    <3>7. QED
      BY <1>6, <3>3, <3>6
  <2>11. QED
    BY <2>9, <2>10
<1>7. ASSUME NEW op \in {"draft", "send"}, s.call.op \in {"keys", "draft"},
             Become(p, Calling(Working(s), [op |-> op]))
      PROVE  Goes
  <2>1. PICK call : call = [op |-> op]
    OBVIOUS
  <2>2. call \in Calls /\ call.op = op
    BY <2>1 DEF Calls
  <2>3. PICK new : new = Calling(work, call)
    OBVIOUS
  <2>4. /\ new \in ProcStates /\ new.pc = "get" /\ new.task = work.task /\ new.call = call
        /\ new.mail = work.mail /\ new.schemes = work.schemes /\ new.session = work.session
        /\ new.cursor = work.cursor /\ new.changes = work.changes /\ new.todo = work.todo
    BY <1>5, <2>2, <2>3, CallingIs
  <2>5. Fits(new)
    BY <1>3, <1>5, <1>7, <2>2, <2>4, AsksFits
  <2>6. Then(new)
    BY <1>4, <1>5, <1>7, <2>1, <2>2, <2>3, <2>4, <2>5
  <2>7. QED
    BY <1>7, <2>4, <2>6
<1>8. Goes
  <2>1. CASE s.call.op = "public_keys"
    BY <1>1, <1>6, <2>1 DEF SendAnswered
  <2>2. CASE s.call.op = "keys"
    <3>1. Become(p, Calling(Working(s), [op |-> "draft"]))
      BY <1>1, <2>2 DEF SendAnswered
    <3>2. QED
      BY <1>7, <2>2, <3>1
  <2>3. CASE s.call.op = "draft"
    <3>1. Become(p, Calling(Working(s), [op |-> "send"]))
      BY <1>1, <2>3 DEF SendAnswered
    <3>2. QED
      BY <1>7, <2>3, <3>1
  <2>4. CASE s.call.op = "send"
    BY <1>1, <2>4 DEF SendAnswered
  <2>5. QED
    BY <1>3, <2>1, <2>2, <2>3, <2>4
<1>9. outgoing' \in Outgoing
  <2>1. outgoing \in Outgoing
    BY DEF Typed, TypeOK
  <2>2. outgoing.done \in Nat /\ outgoing.done + 1 \in Nat
    BY <2>1 DEF Outgoing
  <2>3. outgoing' = [outgoing EXCEPT !.done = IF s.call.op = "send" THEN @ + 1 ELSE @]
    BY <1>1 DEF SendAnswered
  <2>4. QED
    BY <2>1, <2>2, <2>3 DEF Outgoing
<1>10. QED
  BY <1>1, <1>8, <1>9, BecomeFits, StopFits

-----------------------------------------------------------------------------
(* Type correctness *)

LEMMA ServerEventTyped ==
  ASSUME Typed, ServerEvent
  PROVE  /\ mails' \in Mailboxes /\ log' \in Seq(Entries) /\ access' \in Accesses
         /\ UNCHANGED <<setting, outgoing, files, rows, procs, since>>
<1>0. mails \in Mailboxes /\ log \in Seq(Entries) /\ access \in Accesses
  BY DEF Typed, TypeOK
<1>1. ASSUME NEW m \in Msgs, NEW state \in MailStates \union {Gone},
             mails' = [mails EXCEPT ![m] = state]
      PROVE  mails' \in Mailboxes
  BY <1>0, <1>1 DEF Mailboxes
<1>2. ASSUME NEW entry \in Entries, Logged(entry)
      PROVE  log' \in Seq(Entries)
  BY <1>0, <1>2 DEF Logged
<1>3. ASSUME NEW m \in Msgs, NEW action \in {"create", "update", "delete"}
      PROVE  [action |-> action, id |-> m] \in Entries
  BY DEF Entries
<1>4. ASSUME NEW m \in Msgs, NEW state \in MailStates, Receive(m, state)
      PROVE  mails' \in Mailboxes /\ log' \in Seq(Entries) /\ access' \in Accesses
  BY <1>0, <1>1, <1>2, <1>3, <1>4 DEF Receive
<1>5. ASSUME NEW m \in Msgs, NEW state \in MailStates, Change(m, state)
      PROVE  mails' \in Mailboxes /\ log' \in Seq(Entries) /\ access' \in Accesses
  BY <1>0, <1>1, <1>2, <1>3, <1>5 DEF Change
<1>6. ASSUME NEW m \in Msgs, DeleteMail(m)
      PROVE  mails' \in Mailboxes /\ log' \in Seq(Entries) /\ access' \in Accesses
  BY <1>0, <1>1, <1>2, <1>3, <1>6 DEF DeleteMail
<1>7. CASE AskForRefresh
  <2>1. [action |-> "refresh"] \in Entries
    BY DEF Entries
  <2>2. log' \in Seq(Entries)
    BY <1>2, <1>7, <2>1 DEF AskForRefresh
  <2>3. QED
    BY <1>0, <1>7, <2>2 DEF AskForRefresh, ServerEvent
<1>8. CASE Expire
  BY <1>0, <1>8 DEF Expire, Accesses, ServerEvent
<1>9. QED
  BY <1>4, <1>5, <1>6, <1>7, <1>8 DEF ServerEvent

LEMMA TypedAtFirst == Init => Typed
<1>1. SUFFICES ASSUME Init PROVE Typed
  OBVIOUS
<1>2. setting \in Settings /\ mails \in Mailboxes
  BY <1>1, ClientAssumption DEF Init
<1>3. log \in Seq(Entries)
  BY <1>1, EmptySeq DEF Init
<1>4. access \in Accesses /\ since \in Nat /\ sessionFile \in Nat \union {Torn}
  BY <1>1 DEF Init, Accesses
<1>5. outgoing \in Outgoing
  <2>1. [p \in Processes |-> <<>>] \in [Processes -> Seq(Packages)]
    BY EmptySeq
  <2>2. QED
    BY <1>1, <2>1 DEF Init, Outgoing
<1>6. /\ cursorFile \in Nat \union {None, Torn}
      /\ cache \in [Msgs -> MailStates \union {None, Torn}]
      /\ rows \in [Msgs -> Rows \union {None}]
  BY <1>1 DEF Init
<1>7. procs \in [Processes -> ProcStates] /\ \A p \in Processes : Fits(procs[p])
  BY <1>1, IdleFits DEF Init, Fits
<1>8. QED
  BY <1>2, <1>3, <1>4, <1>5, <1>6, <1>7 DEF Typed, TypeOK

LEMMA TypedStays == Typed /\ [SendNext]_vars => Typed'
<1> DEFINE AllFit == procs \in [Processes -> ProcStates] /\ \A p \in Processes : Fits(procs[p])
<1>1. SUFFICES ASSUME Typed, [SendNext]_vars PROVE Typed'
  OBVIOUS
<1>2. TypeOK /\ AllFit
  BY <1>1 DEF Typed, TypeOK
<1>3. ASSUME NEW p \in Processes,
             \/ Poll(p) \/ StartSync(p) \/ RequestFails(p) \/ Kill(p)
             \/ Answered(p) \/ Item(p) \/ NextEvent(p)
      PROVE  Typed'
  <2>1. UNCHANGED <<setting, serverVars, files, rows, since>>
    BY <1>3
    DEF Poll, StartPoll, StartSync, RequestFails, Kill, Answered, Item, NextEvent
  <2>2. AllFit'
    BY <1>1, <1>3, StartPollFits, StartSyncFits, StopFits, AnsweredFits, ItemFits, NextEventFits
    DEF Poll, RequestFails, Kill
  <2>3. QED
    BY <1>2, <2>1, <2>2 DEF Typed, TypeOK, serverVars, files
<1>4. ASSUME NEW p \in Processes, SessionCheck(p) \/ Login(p) \/ RefreshSession(p)
      PROVE  Typed'
  <2>1. UNCHANGED <<setting, mails, log, outgoing, files, rows, since>>
    BY <1>4 DEF SessionCheck, Login, RefreshSession, serverVars
  <2>2. AllFit' /\ access' \in Accesses
    BY <1>1, <1>4, SessionCommandFits, RefreshFits
  <2>3. QED
    BY <1>2, <2>1, <2>2 DEF Typed, TypeOK, files
<1>5. ASSUME NEW p \in Processes, Ask(p) \/ StartSend(p) \/ SendAnswered(p)
      PROVE  Typed'
  <2>1. UNCHANGED <<setting, mails, log, access, files, rows, since>>
    BY <1>5 DEF Ask, StartSend, SendAnswered
  <2>2. AllFit' /\ outgoing' \in Outgoing
    BY <1>1, <1>5, AskFits, StartSendFits, SendAnsweredFits
  <2>3. QED
    BY <1>2, <2>1, <2>2 DEF Typed, TypeOK, files
<1>6. ASSUME NEW p \in Processes, Truncate(p) \/ Write(p)
      PROVE  Typed'
  <2>1. UNCHANGED <<setting, serverVars, rows>>
    BY <1>6 DEF Truncate, Write, AfterWrite
  <2>2. /\ AllFit' /\ sessionFile' \in Nat \union {Torn}
        /\ cursorFile' \in Nat \union {None, Torn}
        /\ cache' \in [Msgs -> MailStates \union {None, Torn}] /\ since' \in Nat
    BY <1>1, <1>6, WritingFits
  <2>3. QED
    BY <1>2, <2>1, <2>2 DEF Typed, TypeOK, serverVars
<1>7. ASSUME NEW p \in Processes, MarkDeleted(p) \/ Ingest(p)
      PROVE  Typed'
  <2>1. UNCHANGED <<setting, serverVars, files, since>>
    BY <1>7 DEF MarkDeleted, Ingest
  <2>2. AllFit' /\ rows' \in [Msgs -> Rows \union {None}]
    BY <1>1, <1>7, MarkDeletedFits, IngestFits
  <2>3. QED
    BY <1>2, <2>1, <2>2 DEF Typed, TypeOK, serverVars, files
<1>8. CASE ServerEvent
  BY <1>1, <1>2, <1>8, ServerEventTyped DEF Typed, TypeOK, files
<1>9. CASE UNCHANGED vars
  BY <1>2, <1>9 DEF Typed, TypeOK, vars, serverVars, files
<1>10. QED
  BY <1>1, <1>3, <1>4, <1>5, <1>6, <1>7, <1>8, <1>9 DEF SendNext, Next, Step

(* What processes keep in hand and in their files, and what the server      *)
(* keeps, has the types that the model gives it, and fits the call that     *)
(* each process makes (ProtonApiClient and its callers).                    *)
THEOREM TypeCorrect == SendSpec => []TypeOK
<1>1. Typed => TypeOK
  BY DEF Typed
<1>2. QED
  BY <1>1, TypedAtFirst, TypedStays, PTL DEF SendSpec

-----------------------------------------------------------------------------
(* What each step makes of the process that takes it *)

\* A step of a sync keeps these.
Keeps(new, s) ==
  /\ new.session = s.session /\ new.outer = s.outer /\ new.cursor = s.cursor
  /\ new.more = s.more /\ new.mail = s.mail /\ new.schemes = s.schemes

\* And a step on one page or item these.
SameHand(new, s) ==
  /\ new.task = s.task /\ new.page = s.page /\ new.last = s.last
  /\ new.todo = s.todo /\ new.changes = s.changes

Moved(s, pc) == [s EXCEPT !.pc = pc]

LEMMA MovedIs ==
  ASSUME NEW s \in ProcStates, NEW pc \in Pcs, NEW new, new = Moved(s, pc)
  PROVE  /\ new \in ProcStates
         /\ new.pc = pc /\ new.task = s.task /\ new.call = s.call /\ new.answer = s.answer
         /\ new.session = s.session /\ new.outer = s.outer /\ new.cursor = s.cursor
         /\ new.more = s.more /\ new.page = s.page /\ new.last = s.last
         /\ new.todo = s.todo /\ new.changes = s.changes /\ new.file = s.file
         /\ new.mail = s.mail /\ new.schemes = s.schemes
  BY DEF Moved, ProcStates

\* The first step of a sync.
FirstOf(new, s) ==
  /\ Keeps(new, s) /\ SameHand(new, s)
  /\ \/ s.task = "events" /\ new.pc = "item" /\ new.call = NoCall
     \/ s.task # "events" /\ new.pc = "get" /\ new.call = PageCall(0)

LEMMA FirstStepIs ==
  ASSUME NEW s \in ProcStates, NEW new, new = FirstStep(s)
  PROVE  new \in ProcStates /\ FirstOf(new, s)
<1>1. CASE s.task = "events"
  <2>1. PICK work : work = Working(s)
    OBVIOUS
  <2>2. /\ work \in ProcStates /\ work.call = NoCall /\ Keeps(work, s) /\ SameHand(work, s)
    BY <2>1, WorkingIs DEF Keeps, SameHand
  <2>3. new = Moved(work, "item") /\ "item" \in Pcs
    BY <1>1, <2>1 DEF FirstStep, Moved, Pcs
  <2>4. /\ new \in ProcStates /\ new.pc = "item" /\ new.call = work.call
        /\ Keeps(new, work) /\ SameHand(new, work)
    BY <2>2, <2>3, MovedIs DEF Keeps, SameHand
  <2>5. QED
    BY <1>1, <2>2, <2>4 DEF FirstOf, Keeps, SameHand
<1>2. CASE s.task # "events"
  <2>1. PICK call : call = PageCall(0)
    OBVIOUS
  <2>2. call \in Calls
    BY <2>1 DEF PageCall, Calls
  <2>3. new = Calling(s, call)
    BY <1>2, <2>1 DEF FirstStep
  <2>4. /\ new \in ProcStates /\ new.pc = "get" /\ new.call = call
        /\ Keeps(new, s) /\ SameHand(new, s)
    BY <2>2, <2>3, CallingIs DEF Keeps, SameHand
  <2>5. QED
    BY <1>2, <2>1, <2>4 DEF FirstOf
<1>3. QED
  BY <1>1, <1>2

WithTask(s, task, session) ==
  [s EXCEPT !.task = task, !.outer = s.session, !.session = session, !.page = 0]

LEMMA WithTaskIs ==
  ASSUME NEW s \in ProcStates, NEW task \in Walks \union {"events"}, NEW session \in Nat,
         NEW new, new = WithTask(s, task, session)
  PROVE  /\ new \in ProcStates
         /\ new.pc = s.pc /\ new.task = task /\ new.call = s.call /\ new.answer = s.answer
         /\ new.session = session /\ new.outer = s.session /\ new.cursor = s.cursor
         /\ new.more = s.more /\ new.page = 0 /\ new.last = s.last
         /\ new.todo = s.todo /\ new.changes = s.changes /\ new.file = s.file
         /\ new.mail = s.mail /\ new.schemes = s.schemes
  BY DEF WithTask, ProcStates, Walks

\* A sync that begins has loaded the session and is at its first call or item.
BegunAs(new, s, task) ==
  /\ new.session = sessionFile /\ new.outer = s.session /\ new.cursor = s.cursor
  /\ new.more = s.more /\ new.mail = s.mail /\ new.schemes = s.schemes
  /\ new.task = task /\ new.page = 0 /\ new.last = s.last
  /\ new.todo = s.todo /\ new.changes = s.changes
  /\ \/ new.pc = "get" /\ new.call = NoCall
     \/ task # "events" /\ new.pc = "get" /\ new.call = PageCall(0)
     \/ task = "events" /\ new.pc = "item" /\ new.call = NoCall

LEMMA BeginIs ==
  ASSUME Typed, NEW p \in Processes, NEW s \in ProcStates,
         NEW task \in Walks \union {"events"}, Begin(p, s, task)
  PROVE  \/ Stop(p)
         \/ sessionFile \in Nat /\ \E new \in ProcStates : Become(p, new) /\ BegunAs(new, s, task)
<1>1. SUFFICES ASSUME sessionFile # Torn, ~Stop(p)
               PROVE  sessionFile \in Nat /\ \E new \in ProcStates : Become(p, new) /\ BegunAs(new, s, task)
  BY DEF Begin
<1>2. PICK session \in Nat : session = sessionFile
  BY <1>1 DEF Typed, TypeOK
<1>3. PICK inner : inner = WithTask(s, task, session)
  OBVIOUS
<1>4. /\ inner \in ProcStates
      /\ inner.task = task
      /\ inner.session = session /\ inner.outer = s.session /\ inner.cursor = s.cursor
      /\ inner.more = s.more /\ inner.page = 0 /\ inner.last = s.last
      /\ inner.todo = s.todo /\ inner.changes = s.changes
      /\ inner.mail = s.mail /\ inner.schemes = s.schemes
  BY <1>3, WithTaskIs
<1>5. PICK call : call = [op |-> "keys"]
  OBVIOUS
<1>6. call \in Calls /\ call = NoCall
  BY <1>5 DEF Calls, NoCall
<1>7. PICK calling : calling = Calling(inner, call)
  OBVIOUS
<1>8. /\ calling \in ProcStates /\ calling.pc = "get" /\ calling.call = call
      /\ Keeps(calling, inner) /\ SameHand(calling, inner)
  BY <1>4, <1>6, <1>7, CallingIs DEF Keeps, SameHand
<1>9. BegunAs(calling, s, task)
  BY <1>2, <1>4, <1>6, <1>8 DEF BegunAs, Keeps, SameHand
<1>10. PICK first : first = FirstStep(inner)
  OBVIOUS
<1>11. first \in ProcStates /\ FirstOf(first, inner)
  BY <1>4, <1>10, FirstStepIs
<1>12. BegunAs(first, s, task)
  BY <1>2, <1>4, <1>11 DEF BegunAs, FirstOf, Keeps, SameHand
<1>13. Become(p, calling) \/ Become(p, first)
  BY <1>1, <1>2, <1>3, <1>5, <1>7, <1>10 DEF Begin, WithTask
<1>14. QED
  BY <1>2, <1>8, <1>9, <1>11, <1>12, <1>13

\* A sync that has ended: the poll goes on with the session it had.
EndedAs(new, s) ==
  /\ new.session = s.outer /\ new.outer = 0 /\ new.cursor = s.cursor
  /\ new.more = s.more /\ new.mail = s.mail /\ new.schemes = s.schemes
  /\ new.task = "idle" /\ new.todo = NoItems /\ new.changes = s.changes
  /\ \/ /\ s.task = "bootstrap" /\ new.pc = "get"
        /\ \/ s.cursor = None /\ new.call = [op |-> "latest"]
           \/ s.cursor \in Nat /\ new.call = EventCall(s.cursor)
     \/ /\ s.task \notin {"bootstrap", "sync"}
        /\ new.pc = "truncate" /\ new.file = "cursor" /\ new.call = NoCall

LEMMA EndIs ==
  ASSUME NEW p \in Processes, NEW s \in ProcStates, s = procs[p], End(p)
  PROVE  Stop(p) \/ \E new \in ProcStates : Become(p, new) /\ EndedAs(new, s)
<1>1. PICK back : back = Settled(s)
  OBVIOUS
<1>2. back \in ProcStates /\ SettledAs(back, s)
  BY <1>1, SettledIs
<1>4. CASE s.task = "bootstrap"
  <2>1. PICK call : call = IF s.cursor = None THEN [op |-> "latest"] ELSE EventCall(s.cursor)
    OBVIOUS
  <2>2. \/ s.cursor = None /\ call = [op |-> "latest"]
        \/ s.cursor \in Nat /\ call = EventCall(s.cursor)
    BY <2>1 DEF ProcStates
  <2>3. call \in Calls
    BY <2>2 DEF Calls, EventCall
  <2>4. PICK new : new = Calling(back, call)
    OBVIOUS
  <2>5. /\ new \in ProcStates /\ new.pc = "get" /\ new.call = call
        /\ Keeps(new, back) /\ SameHand(new, back)
    BY <1>2, <2>3, <2>4, CallingIs DEF Keeps, SameHand
  <2>6. EndedAs(new, s)
    BY <1>2, <1>4, <2>2, <2>5 DEF EndedAs, SettledAs, Keeps, SameHand
  <2>7. Become(p, new)
    BY <1>1, <1>4, <2>1, <2>4 DEF End
  <2>8. QED
    BY <2>5, <2>6, <2>7
<1>5. CASE s.task \notin {"bootstrap", "sync"}
  <2>1. PICK new : new = SaveCursor(back)
    OBVIOUS
  <2>2. /\ new \in ProcStates /\ new.pc = "truncate" /\ new.file = "cursor"
        /\ new.call = back.call /\ Keeps(new, back) /\ SameHand(new, back)
    BY <1>2, <2>1, SaveCursorIs DEF Keeps, SameHand
  <2>3. EndedAs(new, s)
    BY <1>2, <1>5, <2>2 DEF EndedAs, SettledAs, Keeps, SameHand
  <2>4. Become(p, new)
    BY <1>1, <1>5, <2>1 DEF End
  <2>5. QED
    BY <2>2, <2>3, <2>4
<1>6. CASE s.task = "sync"
  BY <1>6 DEF End
<1>7. QED
  BY <1>4, <1>5, <1>6

InFile(s, pc, file) == [s EXCEPT !.pc = pc, !.file = file]

LEMMA InFileIs ==
  ASSUME NEW s \in ProcStates, NEW pc \in Pcs, NEW file \in {"session", "cursor", "cache"},
         NEW new, new = InFile(s, pc, file)
  PROVE  /\ new \in ProcStates
         /\ new.pc = pc /\ new.task = s.task /\ new.call = s.call /\ new.answer = s.answer
         /\ new.session = s.session /\ new.outer = s.outer /\ new.cursor = s.cursor
         /\ new.more = s.more /\ new.page = s.page /\ new.last = s.last
         /\ new.todo = s.todo /\ new.changes = s.changes /\ new.file = file
         /\ new.mail = s.mail /\ new.schemes = s.schemes
  BY DEF InFile, ProcStates

PagedAs(new, s) ==
  /\ Keeps(new, s) /\ new.pc = "item" /\ new.call = NoCall /\ new.todo = s.answer.items
  /\ new.task = s.task /\ new.page = s.page /\ new.changes = s.changes
  /\ new.last => (s.page + 1) * setting.pageSize >= s.answer.total

FetchedAs(new, s) ==
  /\ Keeps(new, s) /\ SameHand(new, s) /\ new.pc = "truncate" /\ new.file = "cache"
  /\ new.call = s.call /\ new.answer = s.answer

LatestAs(new, s) ==
  /\ SameHand(new, s) /\ new.session = s.session /\ new.outer = s.outer
  /\ new.mail = s.mail /\ new.schemes = s.schemes
  /\ new.cursor = s.answer.upto /\ new.pc = "truncate" /\ new.file = "cursor"
  /\ new.call = s.call

ChangesAs(new, s) ==
  /\ new.session = s.session /\ new.outer = s.outer
  /\ new.mail = s.mail /\ new.schemes = s.schemes /\ new.task = s.task
  /\ new.cursor = s.answer.upto /\ new.pc = "delete" /\ new.call = NoCall
  /\ ~s.answer.refresh /\ new.changes = s.answer.changes
  /\ new.todo = Changed(s.answer.changes, {"delete"})

RefreshAs(new, s) ==
  /\ new.session = sessionFile /\ new.outer = s.session
  /\ new.mail = s.mail /\ new.schemes = s.schemes /\ new.task = "refresh"
  /\ new.cursor = s.answer.upto /\ new.pc = "get" /\ new.call \in {NoCall, PageCall(0)}
  /\ s.answer.refresh /\ new.page = 0 /\ new.todo = s.todo /\ new.changes = s.changes

AnsweredAs(new, s) ==
  \/ s.call.op = "keys" /\ FirstOf(new, s)
  \/ s.call.op = "page" /\ s.answer.items = <<>> /\ EndedAs(new, s)
  \/ s.call.op = "page" /\ PagedAs(new, s)
  \/ s.call.op = "fetch" /\ FetchedAs(new, s)
  \/ s.call.op = "latest" /\ LatestAs(new, s)
  \/ s.call.op = "event" /\ ChangesAs(new, s)
  \/ s.call.op = "event" /\ sessionFile \in Nat /\ RefreshAs(new, s)

LEMMA AnsweredIs ==
  ASSUME Typed, NEW p \in Processes, NEW s \in ProcStates, s = procs[p], Answered(p)
  PROVE  /\ s.pc = "answered" /\ s.task # "send"
         /\ Stop(p) \/ \E new \in ProcStates : Become(p, new) /\ AnsweredAs(new, s)
<1>1. Fits(s) /\ s.pc = "answered" /\ s.task # "send"
  BY DEF Typed, Answered, At
<1> DEFINE Goes == Stop(p) \/ \E new \in ProcStates : Become(p, new) /\ AnsweredAs(new, s)
<1>2. CASE s.call.op = "keys"
  <2>1. FirstStep(s) \in ProcStates /\ FirstOf(FirstStep(s), s)
    BY FirstStepIs
  <2>2. Become(p, FirstStep(s))
    BY <1>2 DEF Answered
  <2>3. QED
    BY <1>1, <1>2, <2>1, <2>2 DEF AnsweredAs
<1>3. CASE s.call.op = "page"
  <2>1. s.answer \in [items : Seq(ListedItems), total : Nat]
    BY <1>1, <1>3 DEF Fits, HandFits, IsAnswer, Asking, NetPcs
  <2>2. PageAnswered(p)
    BY <1>3 DEF Answered
  <2>3. CASE s.answer.items = <<>> /\ End(p)
    BY <1>1, <1>3, <2>3, EndIs DEF AnsweredAs
  <2>4. ASSUME s.answer.items # <<>> PROVE Goes
    <3>1. ListedItems \subseteq Items
      BY DEF ListedItems, Items
    <3>2. s.answer.items \in Seq(ListedItems)
      BY <2>1
    <3>3. s.answer.items \in Seq(Items)
      BY <3>1, <3>2
    <3>4. PICK items \in Seq(Items) : items = s.answer.items
      BY <3>3
    <3>5. ((s.page + 1) * setting.pageSize >= s.answer.total) \in BOOLEAN
      OBVIOUS
    <3>6. PICK last \in BOOLEAN :
            last = ((s.page + 1) * setting.pageSize >= s.answer.total)
      BY <3>5
    <3>7. PICK work : work = Working(s)
      OBVIOUS
    <3>8. /\ work \in ProcStates /\ work.call = NoCall /\ Keeps(work, s) /\ SameHand(work, s)
      BY <3>7, WorkingIs DEF Keeps, SameHand
    <3>9. PICK new : new = WithItems(work, items, last)
      OBVIOUS
    <3>10. /\ new \in ProcStates /\ new.pc = "item" /\ new.call = work.call /\ new.todo = items
           /\ new.last = last /\ Keeps(new, work)
           /\ new.task = work.task /\ new.page = work.page /\ new.changes = work.changes
      BY <3>8, <3>9, WithItemsIs DEF Keeps
    <3>11. PagedAs(new, s)
      BY <3>4, <3>6, <3>8, <3>10 DEF PagedAs, Keeps, SameHand
    <3>12. Become(p, new)
      BY <2>2, <2>4, <3>4, <3>6, <3>7, <3>9 DEF PageAnswered, WithItems
    <3>13. QED
      BY <1>3, <3>10, <3>11, <3>12 DEF AnsweredAs
  <2>5. QED
    BY <1>1, <2>2, <2>3, <2>4 DEF PageAnswered
<1>4. CASE s.call.op = "fetch"
  <2>1. PICK new : new = InFile(s, "truncate", "cache")
    OBVIOUS
  <2>2. new \in ProcStates /\ FetchedAs(new, s)
    BY <2>1, InFileIs DEF Pcs, FetchedAs, Keeps, SameHand
  <2>3. Become(p, new)
    BY <1>4, <2>1 DEF Answered, FetchAnswered, InFile
  <2>4. QED
    BY <1>1, <1>4, <2>2, <2>3 DEF AnsweredAs
<1>5. CASE s.call.op = "latest"
  <2>1. s.answer \in EventAnswers
    BY <1>1, <1>5 DEF Fits, HandFits, IsAnswer, Asking, NetPcs
  <2>2. PICK cursor \in Nat : cursor = s.answer.upto
    BY <2>1 DEF EventAnswers
  <2>3. PICK next : next = [s EXCEPT !.cursor = cursor, !.answer = None]
    OBVIOUS
  <2>4. /\ next \in ProcStates /\ next.session = s.session /\ next.outer = s.outer
        /\ next.mail = s.mail /\ next.schemes = s.schemes
        /\ next.cursor = cursor /\ next.call = s.call /\ SameHand(next, s)
    BY ZenonT(60), <2>3 DEF ProcStates, SameHand
  <2>5. PICK new : new = SaveCursor(next)
    OBVIOUS
  <2>6. /\ new \in ProcStates /\ new.pc = "truncate" /\ new.file = "cursor"
        /\ new.call = next.call /\ Keeps(new, next) /\ SameHand(new, next)
    BY <2>4, <2>5, SaveCursorIs DEF Keeps, SameHand
  <2>7. LatestAs(new, s)
    BY <2>2, <2>4, <2>6 DEF LatestAs, Keeps, SameHand
  <2>8. Become(p, new)
    BY <1>5, <2>2, <2>3, <2>5 DEF Answered, LatestAnswered
  <2>9. QED
    BY <1>1, <1>5, <2>6, <2>7, <2>8 DEF AnsweredAs
<1>6. CASE s.call.op = "event"
  <2>1. s.answer \in EventAnswers
    BY <1>1, <1>6 DEF Fits, HandFits, IsAnswer, Asking, NetPcs
  <2>2. PICK event \in EventAnswers : event = s.answer
    BY <2>1
  <2>3. /\ event.upto \in Nat /\ event.more \in BOOLEAN /\ event.changes \in SUBSET Entries
    BY DEF EventAnswers
  <2>4. PICK work : work = Working(s)
    OBVIOUS
  <2>5. /\ work \in ProcStates /\ work.call = NoCall /\ Keeps(work, s) /\ SameHand(work, s)
    BY <2>4, WorkingIs DEF Keeps, SameHand
  <2>6. PICK state : state = WithCursor(work, event.upto, event.more)
    OBVIOUS
  <2>7. /\ state \in ProcStates /\ state.pc = "delete" /\ state.call = work.call
        /\ state.session = work.session /\ state.outer = work.outer
        /\ state.mail = work.mail /\ state.schemes = work.schemes /\ state.cursor = event.upto
        /\ SameHand(state, work)
    BY <2>3, <2>5, <2>6, WithCursorIs DEF SameHand
  <2>8. \/ Stop(p)
        \/ event.refresh /\ Begin(p, state, "refresh")
        \/ ~event.refresh /\ Become(p, WithChanges(state, event.changes, Changed(event.changes, {"delete"})))
    BY <1>6, <2>2, <2>4, <2>6 DEF Answered, EventAnswered, WithCursor, WithChanges
  <2>9. CASE event.refresh /\ Begin(p, state, "refresh")
    <3>1. ASSUME NEW new \in ProcStates, BegunAs(new, state, "refresh")
          PROVE  RefreshAs(new, s)
      BY <2>2, <2>5, <2>7, <2>9, <3>1 DEF BegunAs, RefreshAs, Keeps, SameHand
    <3>2. \/ Stop(p)
          \/ sessionFile \in Nat /\ \E new \in ProcStates : Become(p, new) /\ BegunAs(new, state, "refresh")
      BY <2>7, <2>9, BeginIs DEF Walks
    <3>3. QED
      BY <1>1, <1>6, <3>1, <3>2 DEF AnsweredAs
  <2>10. CASE ~event.refresh /\ Become(p, WithChanges(state, event.changes, Changed(event.changes, {"delete"})))
    <3>1. PICK todo \in Seq(Items) : todo = Changed(event.changes, {"delete"})
      BY <2>3, ChangedIs
    <3>2. PICK new : new = WithChanges(state, event.changes, todo)
      OBVIOUS
    <3>3. /\ new \in ProcStates /\ new.pc = state.pc /\ new.task = state.task
          /\ new.call = state.call /\ Keeps(new, state)
          /\ new.todo = todo /\ new.changes = event.changes
      BY <2>3, <2>7, <3>2, WithChangesIs DEF Keeps
    <3>4. ChangesAs(new, s)
      BY <2>2, <2>5, <2>7, <2>10, <3>1, <3>3 DEF ChangesAs, Keeps, SameHand
    <3>5. QED
      BY <1>1, <1>6, <2>10, <3>1, <3>2, <3>3, <3>4 DEF AnsweredAs
  <2>11. QED
    BY <1>1, <2>8, <2>9, <2>10
<1>7. CASE s.call.op \notin {"keys", "page", "fetch", "latest", "event"}
  BY <1>1, <1>7 DEF Answered
<1>8. QED
  BY <1>1, <1>2, <1>3, <1>4, <1>5, <1>6, <1>7

\* A deletion done, or the synchronization of what is left begun.
DeletedAs(new, s) ==
  \/ /\ s.todo # <<>> /\ Keeps(new, s) /\ new.pc = "delete" /\ new.call = NoCall
     /\ new.task = s.task /\ new.changes = s.changes /\ new.todo = Tail(s.todo)
  \/ /\ s.todo = <<>> /\ sessionFile \in Nat
     /\ new.session = sessionFile /\ new.outer = s.session /\ new.cursor = s.cursor
     /\ new.more = s.more /\ new.mail = s.mail /\ new.schemes = s.schemes
     /\ new.task = "events" /\ new.page = 0
     /\ new.changes = {} /\ new.todo = SyncIds(s.changes)
     /\ new.pc \in {"get", "item"} /\ new.call = NoCall

LEMMA MarkDeletedIs ==
  ASSUME Typed, NEW p \in Processes, NEW s \in ProcStates, s = procs[p], MarkDeleted(p)
  PROVE  /\ s.pc = "delete" /\ s.task = "idle" /\ s.cursor \in Nat
         /\ Stop(p) \/ \E new \in ProcStates : Become(p, new) /\ DeletedAs(new, s)
<1>1. Fits(s) /\ s.pc = "delete"
  BY DEF Typed, MarkDeleted, At
<1>2. s.call = NoCall /\ s.task = "idle" /\ s.cursor \in Nat /\ s.todo \in Seq(Items)
      /\ s.changes \in SUBSET Entries
  BY <1>1 DEF Fits, HandFits, ProcStates
<1> DEFINE Goes == Stop(p) \/ \E new \in ProcStates : Become(p, new) /\ DeletedAs(new, s)
<1>3. ASSUME s.todo # <<>>, Become(p, WithTodo(s, Tail(s.todo)))
      PROVE  Goes
  <2>1. PICK todo \in Seq(Items) : todo = Tail(s.todo)
    BY <1>2, <1>3, TailIs
  <2>2. PICK new : new = WithTodo(s, todo)
    OBVIOUS
  <2>3. /\ new \in ProcStates /\ new.pc = s.pc /\ new.task = s.task /\ Keeps(new, s)
        /\ new.call = s.call /\ new.changes = s.changes /\ new.todo = todo
    BY <2>2, WithTodoIs DEF Keeps
  <2>4. Become(p, new)
    BY <1>3, <2>1, <2>2
  <2>5. DeletedAs(new, s)
    BY <1>1, <1>2, <1>3, <2>1, <2>3 DEF DeletedAs
  <2>6. QED
    BY <2>3, <2>4, <2>5
<1>4. ASSUME s.todo = <<>>, Begin(p, WithChanges(s, {}, SyncIds(s.changes)), "events")
      PROVE  Goes
  <2>1. PICK todo \in Seq(Items) : todo = SyncIds(s.changes)
    BY <1>2, ChangedIs DEF SyncIds
  <2>2. PICK next : next = WithChanges(s, {}, todo)
    OBVIOUS
  <2>3. /\ next \in ProcStates /\ Keeps(next, s) /\ next.todo = todo /\ next.changes = {}
    BY <2>2, WithChangesIs DEF Keeps
  <2>4. Begin(p, next, "events")
    BY <1>4, <2>1, <2>2
  <2>5. \/ Stop(p)
        \/ sessionFile \in Nat /\ \E new \in ProcStates : Become(p, new) /\ BegunAs(new, next, "events")
    BY <2>3, <2>4, BeginIs DEF Walks
  <2>6. ASSUME sessionFile \in Nat, NEW new \in ProcStates, BegunAs(new, next, "events")
        PROVE  DeletedAs(new, s)
    BY <1>4, <2>1, <2>3, <2>6 DEF BegunAs, DeletedAs, Keeps
  <2>7. QED
    BY <2>5, <2>6
<1>5. \/ s.todo # <<>> /\ Become(p, WithTodo(s, Tail(s.todo)))
      \/ s.todo = <<>> /\ Begin(p, WithChanges(s, {}, SyncIds(s.changes)), "events")
  BY DEF MarkDeleted, WithTodo, WithChanges
<1>6. QED
  BY <1>1, <1>2, <1>3, <1>4, <1>5

\* An item to be ingested, fetched or left out, or the page or the sync at its end.
ItemAs(new, s) ==
  \/ /\ s.todo # <<>> /\ Keeps(new, s) /\ SameHand(new, s)
     /\ new.pc = "ingest" /\ new.call = NoCall
     /\ \/ s.task # "events" /\ new.answer.state = Head(s.todo).state
        \/ cache[Head(s.todo).id] \in MailStates /\ new.answer.state = cache[Head(s.todo).id]
  \/ /\ s.todo # <<>> /\ Keeps(new, s) /\ SameHand(new, s)
     /\ new.pc = "get" /\ new.call = [op |-> "fetch", id |-> Head(s.todo).id]
  \/ /\ s.todo # <<>> /\ s.task = "sync" /\ Keeps(new, s)
     /\ new.pc = "item" /\ new.call = NoCall
     /\ new.task = s.task /\ new.page = s.page /\ new.last = s.last
     /\ new.todo = Tail(s.todo) /\ new.changes = s.changes
  \/ s.todo = <<>> /\ (s.task = "events" \/ s.last) /\ EndedAs(new, s)
  \/ /\ s.todo = <<>> /\ s.task \in Walks /\ ~s.last /\ Keeps(new, s)
     /\ new.pc = "get" /\ new.call = PageCall(s.page + 1)
     /\ new.task = s.task /\ new.page = s.page + 1 /\ new.last = s.last
     /\ new.todo = s.todo /\ new.changes = s.changes

LEMMA ItemIs ==
  ASSUME Typed, NEW p \in Processes, NEW s \in ProcStates, s = procs[p], Item(p)
  PROVE  /\ s.pc = "item" /\ s.task \in Walks \union {"events"} /\ s.mail = NoMail
         /\ Stop(p) \/ \E new \in ProcStates : Become(p, new) /\ ItemAs(new, s)
<1>1. Fits(s) /\ s.pc = "item"
  BY DEF Typed, Item, At
<1>2. /\ s.task \in Walks \union {"events"} /\ s.mail = NoMail /\ s.todo \in Seq(Items)
      /\ s.call = NoCall
      /\ s.task \in Walks => s.todo \in Seq(ListedItems)
  BY <1>1 DEF Fits, HandFits, SendFits, ProcStates, Walks
<1> DEFINE Goes == Stop(p) \/ \E new \in ProcStates : Become(p, new) /\ ItemAs(new, s)
<1>3. ASSUME s.todo # <<>>, SyncMessage(p) PROVE Goes
  <2>1. PICK item \in Items : item = Head(s.todo)
    BY <1>2, <1>3, TailIs
  <2>2. item.id \in Msgs
    BY DEF Items
  <2>3. s.task # "events" => item.state \in MailStates
    <3>1. ASSUME s.task \in Walks PROVE item.state \in MailStates
      <4>1. item \in ListedItems
        BY <1>2, <1>3, <2>1, <3>1, TailIs
      <4>2. QED
        BY <4>1 DEF ListedItems
    <3>2. QED
      BY <1>2, <3>1
  <2>4. \/ s.task # "events" /\ Ingesting(p, item.state)
        \/ cache[item.id] \in MailStates /\ Ingesting(p, cache[item.id])
        \/ Stop(p)
        \/ Become(p, Calling(s, [op |-> "fetch", id |-> item.id]))
    BY <1>3, <2>1 DEF SyncMessage
  <2>5. ASSUME NEW state \in MailStates, Ingesting(p, state),
               \/ s.task # "events" /\ state = item.state
               \/ cache[item.id] \in MailStates /\ state = cache[item.id]
        PROVE  Goes
    <3>1. PICK answer \in [state : MailStates] : answer = [state |-> state]
      OBVIOUS
    <3>2. PICK new : new = WithAnswer(s, answer)
      OBVIOUS
    <3>3. /\ new \in ProcStates /\ new.pc = "ingest" /\ new.call = s.call
          /\ Keeps(new, s) /\ SameHand(new, s) /\ new.answer = answer
      BY <3>2, WithAnswerIs DEF Keeps, SameHand
    <3>4. new.answer.state = state
      BY <3>1, <3>3
    <3>5. ItemAs(new, s)
      BY <1>2, <1>3, <2>1, <2>5, <3>3, <3>4 DEF ItemAs
    <3>6. Become(p, new)
      BY <2>5, <3>1, <3>2 DEF Ingesting, WithAnswer
    <3>7. QED
      BY <3>3, <3>5, <3>6
  <2>6. ASSUME Become(p, Calling(s, [op |-> "fetch", id |-> item.id])) PROVE Goes
    <3>1. PICK call : call = [op |-> "fetch", id |-> item.id]
      OBVIOUS
    <3>2. call \in Calls
      BY <2>2, <3>1 DEF Calls
    <3>3. PICK new : new = Calling(s, call)
      OBVIOUS
    <3>4. /\ new \in ProcStates /\ new.pc = "get" /\ new.call = call
          /\ Keeps(new, s) /\ SameHand(new, s)
      BY <3>2, <3>3, CallingIs DEF Keeps, SameHand
    <3>5. ItemAs(new, s)
      BY <1>3, <2>1, <3>1, <3>4 DEF ItemAs
    <3>6. QED
      BY <2>6, <3>1, <3>3, <3>4, <3>5
  <2>7. QED
    BY <2>2, <2>3, <2>4, <2>5, <2>6
<1>4. ASSUME s.todo # <<>>, SkipMessage(p) PROVE Goes
  <2>1. PICK todo \in Seq(Items) : todo = Tail(s.todo)
    BY <1>2, <1>4, TailIs
  <2>2. PICK new : new = WithTodo(s, todo)
    OBVIOUS
  <2>3. /\ new \in ProcStates /\ new.pc = s.pc /\ new.call = s.call /\ new.task = s.task
        /\ Keeps(new, s) /\ new.page = s.page /\ new.last = s.last
        /\ new.todo = todo /\ new.changes = s.changes
    BY <2>2, WithTodoIs DEF Keeps
  <2>4. s.task = "sync" /\ Become(p, new)
    BY <1>4, <2>1, <2>2 DEF SkipMessage, WithTodo
  <2>5. ItemAs(new, s)
    BY <1>1, <1>2, <1>4, <2>1, <2>3, <2>4 DEF ItemAs
  <2>6. QED
    BY <2>3, <2>4, <2>5
<1>5. ASSUME s.todo = <<>>, s.task = "events" \/ s.last, End(p) PROVE Goes
  BY <1>5, EndIs DEF ItemAs
<1>6. ASSUME s.todo = <<>>, ~(s.task = "events" \/ s.last), NextPage(p) PROVE Goes
  <2>1. PICK page \in Nat : page = s.page + 1
    BY DEF ProcStates
  <2>2. PICK next : next = WithPage(s, page)
    OBVIOUS
  <2>3. /\ next \in ProcStates /\ next.task = s.task /\ Keeps(next, s)
        /\ next.page = page /\ next.last = s.last /\ next.todo = s.todo
        /\ next.changes = s.changes
    BY <2>2, WithPageIs DEF Keeps
  <2>4. PICK call : call = PageCall(page)
    OBVIOUS
  <2>5. call \in Calls
    BY <2>4 DEF PageCall, Calls
  <2>6. PICK new : new = Calling(next, call)
    OBVIOUS
  <2>7. /\ new \in ProcStates /\ new.pc = "get" /\ new.call = call
        /\ Keeps(new, next) /\ SameHand(new, next)
    BY <2>3, <2>5, <2>6, CallingIs DEF Keeps, SameHand
  <2>8. ItemAs(new, s)
    BY <1>2, <1>6, <2>1, <2>3, <2>4, <2>7 DEF ItemAs, Keeps, SameHand
  <2>9. Become(p, new)
    BY <1>6, <2>1, <2>2, <2>4, <2>6 DEF NextPage, WithPage
  <2>10. QED
    BY <2>7, <2>8, <2>9
<1>7. \/ s.todo # <<>> /\ (SyncMessage(p) \/ SkipMessage(p))
      \/ s.todo = <<>> /\ (s.task = "events" \/ s.last) /\ End(p)
      \/ s.todo = <<>> /\ ~(s.task = "events" \/ s.last) /\ NextPage(p)
  BY DEF Item
<1>8. QED
  BY <1>1, <1>2, <1>3, <1>4, <1>5, <1>6, <1>7

IngestedAs(new, s) ==
  /\ Keeps(new, s) /\ new.pc = "item" /\ new.call = NoCall
  /\ new.task = s.task /\ new.page = s.page /\ new.last = s.last
  /\ new.todo = Tail(s.todo) /\ new.changes = s.changes

LEMMA IngestIs ==
  ASSUME Typed, NEW p \in Processes, NEW s \in ProcStates, s = procs[p], Ingest(p)
  PROVE  /\ s.pc = "ingest" /\ s.task \in Walks \union {"events"} /\ s.mail = NoMail
         /\ s.todo # <<>> /\ s.answer \in [state : MailStates]
         /\ rows' = [rows EXCEPT ![Head(s.todo).id] = RowOf(s.answer.state)]
         /\ \/ s.task = "sync" /\ Stop(p)
            \/ \E new \in ProcStates : Become(p, new) /\ IngestedAs(new, s)
<1>1. Fits(s) /\ s.pc = "ingest"
  BY DEF Typed, Ingest, At
<1>2. /\ s.task \in Walks \union {"events"} /\ s.mail = NoMail
      /\ s.todo # <<>> /\ s.answer \in [state : MailStates]
  BY <1>1 DEF Fits, HandFits, SendFits, Walks
<1>3. PICK work : work = Working(s)
  OBVIOUS
<1>4. /\ work \in ProcStates /\ work.call = NoCall /\ Keeps(work, s) /\ SameHand(work, s)
  BY <1>3, WorkingIs DEF Keeps, SameHand
<1>5. work.todo # <<>> /\ work.todo = s.todo
  BY <1>2, <1>4 DEF SameHand
<1>6. PICK new : new = DoneWith(work)
  OBVIOUS
<1>7. /\ new \in ProcStates /\ new.pc = "item" /\ new.call = work.call /\ Keeps(new, work)
      /\ new.task = work.task /\ new.page = work.page /\ new.last = work.last
      /\ new.todo = Tail(work.todo) /\ new.changes = work.changes
  BY <1>4, <1>5, <1>6, DoneWithIs DEF Keeps
<1>8. IngestedAs(new, s)
  BY <1>4, <1>5, <1>7 DEF IngestedAs, Keeps, SameHand
<1>9. Become(p, new) \/ (s.task = "sync" /\ Stop(p))
  BY <1>3, <1>6 DEF Ingest, DoneWith
<1>10. rows' = [rows EXCEPT ![Head(s.todo).id] = RowOf(s.answer.state)]
  BY DEF Ingest
<1>11. QED
  BY <1>1, <1>2, <1>7, <1>8, <1>9, <1>10

\* A poll that asks for what follows its cursor, or for the latest id.
PollsAs(new, s) ==
  /\ Keeps(new, s) /\ SameHand(new, s) /\ new.pc = "get"
  /\ \/ s.cursor = None /\ new.call = [op |-> "latest"]
     \/ s.cursor \in Nat /\ new.call = EventCall(s.cursor)

LEMMA NextEventIs ==
  ASSUME Typed, NEW p \in Processes, NEW s \in ProcStates, s = procs[p], NextEvent(p)
  PROVE  /\ s.pc = "next" /\ s.task = "idle" /\ s.mail = NoMail /\ s.cursor \in Nat
         /\ Stop(p) \/ \E new \in ProcStates : Become(p, new) /\ PollsAs(new, s)
<1>1. Fits(s) /\ s.pc = "next"
  BY DEF Typed, NextEvent, At
<1>2. s.task = "idle" /\ s.mail = NoMail /\ s.cursor \in Nat
  BY <1>1 DEF Fits, HandFits, SendFits
<1>3. PICK call : call = EventCall(s.cursor)
  OBVIOUS
<1>4. call \in Calls
  BY <1>2, <1>3 DEF EventCall, Calls
<1>5. PICK new : new = Calling(s, call)
  OBVIOUS
<1>6. new \in ProcStates /\ PollsAs(new, s)
  BY <1>2, <1>3, <1>4, <1>5, CallingIs DEF PollsAs, Keeps, SameHand
<1>7. Stop(p) \/ Become(p, new)
  BY <1>3, <1>5 DEF NextEvent
<1>8. QED
  BY <1>1, <1>2, <1>6, <1>7

\* A command has loaded the session, and a poll the cursor.
StartedAs(new) ==
  /\ new.mail = NoMail /\ new.todo = NoItems /\ new.changes = {} /\ new.page = 0
  /\ new.session = sessionFile
  /\ \/ /\ new.outer = 0 /\ new.cursor = cursorFile /\ new.task = "idle" /\ new.pc = "get"
        /\ \/ cursorFile = None /\ new.call = [op |-> "latest"]
           \/ cursorFile \in Nat /\ new.call = EventCall(cursorFile)
     \/ /\ new.outer = sessionFile /\ new.cursor = cursorFile /\ new.task = "bootstrap"
        /\ new.pc = "get" /\ new.call \in {NoCall, PageCall(0)}
     \/ /\ new.outer = 0 /\ new.cursor = None /\ new.task = "sync"
        /\ new.pc = "get" /\ new.call \in {NoCall, PageCall(0)}

LEMMA StartPollIs ==
  ASSUME Typed, NEW p \in Processes, NEW job, StartPoll(p, job)
  PROVE  /\ procs[p].pc = "idle" /\ job \in setting.jobs[p]
         /\ \/ Stop(p)
            \/ /\ sessionFile \in Nat /\ cursorFile \in Nat \union {None}
               /\ \E new \in ProcStates : Become(p, new) /\ StartedAs(new)
<1>1. PICK session \in Nat, cursor \in Nat \union {None} :
        session = sessionFile /\ cursor = cursorFile
  BY DEF Typed, TypeOK, StartPoll
<1>2. PICK idle \in ProcStates : idle = Idle
  BY IdleIs
<1>3. /\ idle.task = "idle" /\ idle.outer = 0 /\ idle.todo = NoItems /\ idle.mail = NoMail
      /\ idle.changes = {} /\ idle.page = 0
  BY <1>2 DEF Idle, NoItems
<1>4. PICK s : s = WithFiles(idle, session, cursor)
  OBVIOUS
<1>5. /\ s \in ProcStates /\ s.session = session /\ s.cursor = cursor /\ s.task = idle.task
      /\ s.outer = idle.outer /\ s.todo = idle.todo /\ s.mail = idle.mail
      /\ s.changes = idle.changes /\ s.page = idle.page
  BY <1>4, WithFilesIs
<1>6. PICK call : call = IF cursor = None THEN [op |-> "latest"] ELSE EventCall(cursor)
  OBVIOUS
<1>7. \/ cursor = None /\ call = [op |-> "latest"]
      \/ cursor \in Nat /\ call = EventCall(cursor)
  BY <1>6
<1>8. call \in Calls
  BY <1>7 DEF EventCall, Calls
<1>9. PICK polling : polling = Calling(s, call)
  OBVIOUS
<1>10. /\ polling \in ProcStates /\ polling.pc = "get" /\ polling.call = call
       /\ Keeps(polling, s) /\ SameHand(polling, s)
  BY <1>5, <1>8, <1>9, CallingIs DEF Keeps, SameHand
<1>11. StartedAs(polling)
  BY <1>1, <1>3, <1>5, <1>7, <1>10 DEF StartedAs, Keeps, SameHand
<1>12. Begin(p, s, "bootstrap") \/ Become(p, polling)
  BY <1>1, <1>2, <1>4, <1>6, <1>9 DEF StartPoll, WithFiles
<1>13. CASE Begin(p, s, "bootstrap")
  <2>1. ASSUME NEW new \in ProcStates, BegunAs(new, s, "bootstrap") PROVE StartedAs(new)
    BY <1>1, <1>3, <1>5, <2>1 DEF BegunAs, StartedAs
  <2>2. \/ Stop(p)
        \/ sessionFile \in Nat /\ \E new \in ProcStates : Become(p, new) /\ BegunAs(new, s, "bootstrap")
    BY <1>5, <1>13, BeginIs DEF Walks
  <2>3. QED
    BY <1>1, <2>1, <2>2 DEF StartPoll, At
<1>14. QED
  BY <1>1, <1>10, <1>11, <1>12, <1>13 DEF StartPoll, At

LEMMA StartSyncIs ==
  ASSUME Typed, NEW p \in Processes, StartSync(p)
  PROVE  /\ procs[p].pc = "idle" /\ "sync" \in setting.jobs[p]
         /\ \/ Stop(p)
            \/ /\ sessionFile \in Nat
               /\ \E new \in ProcStates : Become(p, new) /\ StartedAs(new)
<1>1. PICK s \in ProcStates : s = Idle
  BY IdleIs
<1>2. /\ s.session = 0 /\ s.cursor = None /\ s.todo = NoItems /\ s.mail = NoMail
      /\ s.changes = {}
  BY <1>1, IdleIs
<1>3. Begin(p, s, "sync")
  BY <1>1 DEF StartSync
<1>4. ASSUME NEW new \in ProcStates, BegunAs(new, s, "sync") PROVE StartedAs(new)
  BY <1>2, <1>4 DEF BegunAs, StartedAs
<1>5. \/ Stop(p)
      \/ sessionFile \in Nat /\ \E new \in ProcStates : Become(p, new) /\ BegunAs(new, s, "sync")
  BY <1>3, BeginIs DEF Walks
<1>6. QED
  BY <1>4, <1>5 DEF StartSync, At

\* An answer is in hand, and the session is to be saved unless it is the same.
AskedAs(new, s) ==
  /\ Keeps(new, s) /\ SameHand(new, s) /\ new.call = s.call /\ new.file = "session"
  /\ new.answer \in Answers(s.call)
  /\ \/ new.pc = "truncate"
     \/ new.pc = "answered" /\ s.pc = "get" /\ s.call.op = "public_keys"

MovedAs(new, s, pc) ==
  /\ Keeps(new, s) /\ SameHand(new, s) /\ new.call = s.call /\ new.file = s.file
  /\ new.answer = s.answer /\ new.pc = pc

Replies ==
  {None} \union [key : {"internal", "external", "none"}] \union [state : MailStates]
  \union [items : Seq(Items), total : Nat] \union EventAnswers

WithReply(s, pc, answer) == [s EXCEPT !.pc = pc, !.file = "session", !.answer = answer]

LEMMA WithReplyIs ==
  ASSUME NEW s \in ProcStates, NEW pc \in Pcs, NEW answer \in Replies,
         NEW new, new = WithReply(s, pc, answer)
  PROVE  /\ new \in ProcStates
         /\ new.pc = pc /\ new.task = s.task /\ new.call = s.call /\ new.answer = answer
         /\ new.session = s.session /\ new.outer = s.outer /\ new.cursor = s.cursor
         /\ new.more = s.more /\ new.page = s.page /\ new.last = s.last
         /\ new.todo = s.todo /\ new.changes = s.changes /\ new.file = "session"
         /\ new.mail = s.mail /\ new.schemes = s.schemes
  BY DEF WithReply, ProcStates, Replies, EventAnswers

LEMMA AskIs ==
  ASSUME Typed, NEW p \in Processes, NEW s \in ProcStates, s = procs[p], Ask(p)
  PROVE  /\ s.pc \in {"get", "retry"}
         /\ \/ /\ Accepts(access, s.session) /\ SentOn(p)
               /\ \E new \in ProcStates : Become(p, new) /\ AskedAs(new, s)
            \/ /\ Accepts(access, s.session) /\ s.call.op = "send" /\ SentOn(p) /\ Stop(p)
               /\ "lost_reply" \in setting.failures
            \/ /\ Stop(p) /\ UNCHANGED outgoing
               /\ \/ Accepts(access, s.session) /\ Answers(s.call) = {}
                  \/ ~Accepts(access, s.session) /\ s.pc = "retry"
            \/ /\ s.pc = "get" /\ UNCHANGED outgoing /\ ~Accepts(access, s.session)
               /\ \E new \in ProcStates : Become(p, new) /\ MovedAs(new, s, "refresh")
<1>1. Fits(s) /\ s.pc \in {"get", "retry"}
  BY DEF Typed, Ask, At
<1>2. /\ s.call \in Calls /\ s.call.op \notin {"check", "login"}
  BY <1>1 DEF Fits, CallFits, ProcStates
<1>3. ASSUME NEW answer \in Answers(s.call),
             Become(p, [s EXCEPT !.pc = AfterAnswer(p), !.file = "session", !.answer = answer])
      PROVE  \E new \in ProcStates : Become(p, new) /\ AskedAs(new, s)
  <2>1. PICK new : new = WithReply(s, AfterAnswer(p), answer)
    OBVIOUS
  <2>2. answer \in Replies
    BY <1>2, AnswersFit DEF Replies
  <2>3. PICK pc \in {"answered", "truncate"} : pc = AfterAnswer(p)
    BY DEF AfterAnswer
  <2>4. pc = "answered" => s.pc = "get" /\ s.call.op = "public_keys"
    BY <2>3 DEF AfterAnswer, At
  <2>5. /\ new \in ProcStates /\ new.pc = pc /\ new.file = "session" /\ new.answer = answer
        /\ new.call = s.call /\ Keeps(new, s) /\ SameHand(new, s)
    <3>1. pc \in Pcs /\ new = WithReply(s, pc, answer)
      BY <2>1, <2>3 DEF Pcs
    <3>2. QED
      BY <2>2, <3>1, WithReplyIs DEF Keeps, SameHand
  <2>6. AskedAs(new, s)
    BY <1>3, <2>4, <2>5 DEF AskedAs
  <2>7. QED
    BY <1>3, <2>1, <2>5, <2>6 DEF WithReply
<1>4. ASSUME Goto(p, "refresh")
      PROVE  \E new \in ProcStates : Become(p, new) /\ MovedAs(new, s, "refresh")
  <2>1. PICK new : new = Moved(s, "refresh") /\ "refresh" \in Pcs
    BY DEF Pcs
  <2>2. new \in ProcStates /\ MovedAs(new, s, "refresh")
    BY <2>1, MovedIs DEF MovedAs, Keeps, SameHand
  <2>3. Become(p, new)
    BY <1>4, <2>1 DEF Goto, Become, Moved, Typed, TypeOK
  <2>4. QED
    BY <2>2, <2>3
<1>5. QED
  BY <1>1, <1>3, <1>4 DEF Ask, GiveUp, At

RefreshedAs(new, s) ==
  /\ SameHand(new, s) /\ new.call = s.call /\ new.file = s.file
  /\ new.outer = s.outer /\ new.cursor = s.cursor /\ new.mail = s.mail
  /\ new.session = access.last + 1
  /\ \/ s.call.op = "check" /\ new.pc = "truncate"
     \/ s.call.op # "check" /\ new.pc = "retry"

WithSession(s, pc, session) == [s EXCEPT !.pc = pc, !.session = session]

LEMMA WithSessionIs ==
  ASSUME NEW s \in ProcStates, NEW pc \in Pcs, NEW session \in Nat,
         NEW new, new = WithSession(s, pc, session)
  PROVE  /\ new \in ProcStates
         /\ new.pc = pc /\ new.task = s.task /\ new.call = s.call /\ new.answer = s.answer
         /\ new.session = session /\ new.outer = s.outer /\ new.cursor = s.cursor
         /\ new.more = s.more /\ new.page = s.page /\ new.last = s.last
         /\ new.todo = s.todo /\ new.changes = s.changes /\ new.file = s.file
         /\ new.mail = s.mail /\ new.schemes = s.schemes
  BY DEF WithSession, ProcStates

LEMMA RefreshIs ==
  ASSUME Typed, NEW p \in Processes, NEW s \in ProcStates, s = procs[p], RefreshSession(p)
  PROVE  /\ s.pc = "refresh"
         /\ \/ /\ s.session = access.last /\ access' = NewSession(access)
               /\ \E new \in ProcStates : Become(p, new) /\ RefreshedAs(new, s)
            \/ "lost_reply" \in setting.failures /\ access' = NewSession(access) /\ Stop(p)
            \/ s.session # access.last /\ UNCHANGED access /\ Stop(p)
<1>1. access.last + 1 \in Nat
  BY DEF Typed, TypeOK, Accesses
<1>2. PICK session \in Nat : session = access.last + 1
  BY <1>1
<1>3. PICK pc \in {"truncate", "retry"} :
        pc = IF s.call.op = "check" THEN "truncate" ELSE "retry"
  OBVIOUS
<1>4. PICK new : new = WithSession(s, pc, session) /\ pc \in Pcs
  BY DEF Pcs
<1>5. /\ new \in ProcStates /\ new.pc = pc /\ new.session = session
      /\ SameHand(new, s) /\ new.call = s.call /\ new.file = s.file
      /\ new.outer = s.outer /\ new.cursor = s.cursor /\ new.mail = s.mail
  BY <1>4, WithSessionIs DEF SameHand
<1>6. RefreshedAs(new, s)
  BY <1>2, <1>3, <1>5 DEF RefreshedAs
<1>7. QED
  BY <1>2, <1>3, <1>4, <1>5, <1>6 DEF RefreshSession, CanRefresh, At, WithSession

LEMMA TruncateIs ==
  ASSUME Typed, NEW p \in Processes, NEW s \in ProcStates, s = procs[p], Truncate(p)
  PROVE  /\ s.pc = "truncate"
         /\ \E new \in ProcStates : Become(p, new) /\ MovedAs(new, s, "write")
<1>1. PICK new : new = Moved(s, "write") /\ "write" \in Pcs
  BY DEF Pcs
<1>2. new \in ProcStates /\ MovedAs(new, s, "write")
  BY <1>1, MovedIs DEF MovedAs, Keeps, SameHand
<1>3. Become(p, new)
  BY <1>1 DEF Truncate, Goto, Become, Moved, Typed, TypeOK
<1>4. QED
  BY <1>2, <1>3 DEF Truncate, At

LEMMA WriteIs ==
  ASSUME Typed, NEW p \in Processes, NEW s \in ProcStates, s = procs[p], Write(p)
  PROVE  /\ s.pc = "write"
         /\ \E new \in ProcStates :
              /\ Become(p, new)
              /\ \/ s.file = "session" /\ MovedAs(new, s, "answered")
                 \/ s.file = "cursor" /\ MovedAs(new, s, "next")
                 \/ s.file = "cache" /\ MovedAs(new, s, "ingest")
<1>1. s.file \in {"session", "cursor", "cache"}
  BY DEF ProcStates
<1>2. PICK pc \in Pcs :
        \/ s.file = "session" /\ pc = "answered"
        \/ s.file = "cursor" /\ pc = "next"
        \/ s.file = "cache" /\ pc = "ingest"
  BY <1>1 DEF Pcs
<1>3. PICK new : new = Moved(s, pc)
  OBVIOUS
<1>4. new \in ProcStates /\ MovedAs(new, s, pc)
  BY <1>3, MovedIs DEF MovedAs, Keeps, SameHand
<1>5. Goto(p, pc)
  BY <1>2 DEF Write, AfterWrite
<1>6. Become(p, new)
  BY <1>3, <1>5 DEF Goto, Become, Moved, Typed, TypeOK
<1>7. QED
  BY <1>2, <1>4, <1>6 DEF Write, At

CommandAs(new, pc, op, session) ==
  /\ new.pc = pc /\ new.call = [op |-> op] /\ new.session = session /\ new.task = "idle"
  /\ new.outer = 0 /\ new.cursor = None /\ new.mail = NoMail /\ new.file = "session"
  /\ new.todo = NoItems /\ new.changes = {}

LEMMA SessionCommandIs ==
  ASSUME Typed, NEW p \in Processes, SessionCheck(p) \/ Login(p)
  PROVE  /\ procs[p].pc = "idle" /\ access.last < MaxSessions /\ setting.jobs[p] # {}
         /\ \/ /\ SessionCheck(p) /\ sessionFile \in Nat
               /\ \E new \in ProcStates :
                    Become(p, new) /\ CommandAs(new, "refresh", "check", sessionFile)
            \/ /\ Login(p)
               /\ \E new \in ProcStates :
                    Become(p, new) /\ CommandAs(new, "truncate", "login", access.last + 1)
<1>1. ASSUME NEW op \in {"check", "login"}, NEW pc \in Pcs, NEW session \in Nat,
             Become(p, WithCall(Idle, pc, [op |-> op], session))
      PROVE  \E new \in ProcStates : Become(p, new) /\ CommandAs(new, pc, op, session)
  <2>1. PICK call : call = [op |-> op]
    OBVIOUS
  <2>2. call \in Calls
    BY <2>1 DEF Calls
  <2>3. PICK s \in ProcStates : s = Idle
    BY IdleIs
  <2>4. PICK new : new = WithCall(s, pc, call, session)
    OBVIOUS
  <2>5. /\ new \in ProcStates /\ new.pc = pc /\ new.task = s.task /\ new.call = call
        /\ new.session = session /\ new.outer = s.outer /\ new.cursor = s.cursor
        /\ new.todo = s.todo /\ new.mail = s.mail /\ new.file = s.file
        /\ new.changes = s.changes
    BY <2>2, <2>4, WithCallIs
  <2>6. /\ s.task = "idle" /\ s.todo = NoItems /\ s.mail = NoMail /\ s.file = "session"
        /\ s.outer = 0 /\ s.cursor = None /\ s.changes = {}
    BY <2>3, IdleIs
  <2>7. CommandAs(new, pc, op, session)
    BY <2>1, <2>5, <2>6 DEF CommandAs
  <2>8. QED
    BY <1>1, <2>1, <2>3, <2>4, <2>5, <2>7
<1>2. "refresh" \in Pcs /\ "truncate" \in Pcs
  BY DEF Pcs
<1>3. CASE SessionCheck(p)
  <2>1. Become(p, WithCall(Idle, "refresh", [op |-> "check"], sessionFile))
    BY <1>3 DEF SessionCheck, WithCall
  <2>2. sessionFile \in Nat
    BY <1>3 DEF SessionCheck
  <2>3. \E new \in ProcStates : Become(p, new) /\ CommandAs(new, "refresh", "check", sessionFile)
    BY <1>1, <1>2, <2>1, <2>2
  <2>4. QED
    BY <1>3, <2>2, <2>3 DEF SessionCheck, At
<1>4. CASE Login(p)
  <2>1. Become(p, WithCall(Idle, "truncate", [op |-> "login"], access.last + 1))
    BY <1>4 DEF Login, WithCall
  <2>2. access.last + 1 \in Nat
    BY DEF Typed, TypeOK, Accesses
  <2>3. \E new \in ProcStates : Become(p, new) /\ CommandAs(new, "truncate", "login", access.last + 1)
    BY <1>1, <1>2, <2>1, <2>2
  <2>4. QED
    BY <1>4, <2>3 DEF Login, At
<1>5. QED
  BY <1>3, <1>4

-----------------------------------------------------------------------------
(* Sends: nothing is sent for a message before its last call is answered *)

Delivered(s) == s.call.op = "send" /\ s.pc \in {"truncate", "write", "answered"}

SendInv ==
  \A p \in Processes :
    procs[p].task = "send" =>
      \/ Delivered(procs[p]) /\ outgoing.out[p] # <<>>
      \/ ~Delivered(procs[p]) /\ outgoing.out[p] = <<>>

\* A step that sends nothing: the process stops, or goes on with what it sends.
QuietStep(p) ==
  /\ UNCHANGED outgoing
  /\ \E new \in ProcStates :
       /\ Become(p, new)
       /\ \/ new.mail = NoMail
          \/ new.mail = procs[p].mail /\ (Delivered(new) <=> Delivered(procs[p]))

LEMMA StopIsQuiet ==
  ASSUME NEW p \in Processes, Stop(p), UNCHANGED outgoing
  PROVE  QuietStep(p)
  BY IdleIs DEF QuietStep, Stop

LEMMA QuietSteps ==
  ASSUME Typed, NEW p \in Processes,
         \/ Poll(p) \/ StartSync(p) \/ SessionCheck(p) \/ Login(p)
         \/ RefreshSession(p) \/ Truncate(p) \/ Write(p) \/ Answered(p)
         \/ MarkDeleted(p) \/ Item(p) \/ Ingest(p) \/ NextEvent(p)
         \/ RequestFails(p) \/ Kill(p)
  PROVE  QuietStep(p)
<1>1. PICK s \in ProcStates : s = procs[p] /\ Fits(s)
  BY DEF Typed, TypeOK
<1>2. UNCHANGED outgoing
  BY DEF Poll, StartPoll, StartSync, SessionCheck, Login, RefreshSession, Truncate, Write,
         AfterWrite, Answered, MarkDeleted, Item, Ingest, NextEvent, RequestFails, Kill, serverVars
<1>3. ASSUME Stop(p) PROVE QuietStep(p)
  BY <1>2, <1>3, StopIsQuiet
<1>4. ASSUME NEW new \in ProcStates, Become(p, new), new.mail = NoMail PROVE QuietStep(p)
  BY <1>2, <1>4 DEF QuietStep
<1>5. CASE Poll(p) \/ StartSync(p)
  BY <1>3, <1>4, <1>5, StartPollIs, StartSyncIs DEF Poll, StartedAs
<1>6. CASE SessionCheck(p) \/ Login(p)
  BY <1>3, <1>4, <1>6, SessionCommandIs DEF CommandAs
<1>7. CASE RefreshSession(p)
  <2>1. ASSUME s.pc = "refresh", NEW new \in ProcStates, Become(p, new), RefreshedAs(new, s)
        PROVE  QuietStep(p)
    <3>1. s.mail # NoMail => s.call.op # "check"
      BY <1>1 DEF Fits, CallFits, SendFits
    <3>2. new.mail = s.mail /\ (s.mail # NoMail => ~Delivered(new) /\ ~Delivered(s))
      BY <2>1, <3>1 DEF RefreshedAs, Delivered
    <3>3. QED
      BY <1>1, <1>2, <2>1, <3>2 DEF QuietStep
  <2>2. QED
    BY <1>1, <1>3, <1>7, <2>1, RefreshIs
<1>8. CASE Truncate(p) \/ Write(p)
  <2>1. ASSUME NEW new \in ProcStates, Become(p, new), NEW pc, MovedAs(new, s, pc),
               \/ s.pc = "truncate" /\ pc = "write"
               \/ s.pc = "write" /\ s.file = "session" /\ pc = "answered"
               \/ s.pc = "write" /\ s.file # "session"
        PROVE  QuietStep(p)
    <3>1. s.mail # NoMail => s.file = "session" \/ s.pc = "truncate"
      BY <1>1, <2>1 DEF Fits, SendFits, Asking, NetPcs
    <3>2. new.mail = s.mail /\ (s.mail # NoMail => (Delivered(new) <=> Delivered(s)))
      BY <2>1, <3>1 DEF MovedAs, Keeps, Delivered
    <3>3. QED
      BY <1>1, <1>2, <2>1, <3>2 DEF QuietStep
  <2>2. QED
    BY <1>1, <1>8, <2>1, TruncateIs, WriteIs
<1>9. CASE Answered(p)
  <2>1. s.mail = NoMail
    BY <1>1, <1>9, AnsweredIs DEF Fits, SendFits
  <2>2. ASSUME NEW new \in ProcStates, AnsweredAs(new, s) PROVE new.mail = NoMail
    BY <2>1, <2>2
    DEF AnsweredAs, FirstOf, EndedAs, PagedAs, FetchedAs, LatestAs, ChangesAs, RefreshAs, Keeps
  <2>3. QED
    BY <1>1, <1>3, <1>4, <1>9, <2>2, AnsweredIs
<1>10. CASE MarkDeleted(p)
  <2>1. s.mail = NoMail
    BY <1>1, <1>10, MarkDeletedIs DEF Fits, SendFits
  <2>2. ASSUME NEW new \in ProcStates, DeletedAs(new, s) PROVE new.mail = NoMail
    BY <2>1, <2>2 DEF DeletedAs, Keeps
  <2>3. QED
    BY <1>1, <1>3, <1>4, <1>10, <2>2, MarkDeletedIs
<1>11. CASE Item(p)
  <2>1. ASSUME s.mail = NoMail, NEW new \in ProcStates, ItemAs(new, s) PROVE new.mail = NoMail
    BY <2>1 DEF ItemAs, EndedAs, Keeps
  <2>2. QED
    BY <1>1, <1>3, <1>4, <1>11, <2>1, ItemIs
<1>12. CASE Ingest(p)
  BY <1>1, <1>3, <1>4, <1>12, IngestIs DEF IngestedAs, Keeps
<1>13. CASE NextEvent(p)
  BY <1>1, <1>3, <1>4, <1>13, NextEventIs DEF PollsAs, Keeps
<1>14. CASE RequestFails(p) \/ Kill(p)
  BY <1>3, <1>14 DEF RequestFails, Kill
<1>15. QED
  BY <1>5, <1>6, <1>7, <1>8, <1>9, <1>10, <1>11, <1>12, <1>13, <1>14

\* The mail of each process, as the refinement has it.
Sending == [p \in Processes |-> procs[p].mail]

LEMMA SendingIs ==
  ASSUME Typed, NEW p \in Processes, NEW new, Become(p, new)
  PROVE  /\ Sending' = [Sending EXCEPT ![p] = new.mail]
         /\ procs'[p] = new /\ \A q \in Processes \ {p} : procs'[q] = procs[q]
  BY DEF Typed, TypeOK, Become, Sending

\* The same for what is sent on.
LEMMA OutIs ==
  ASSUME Typed
  PROVE  /\ outgoing.out \in [Processes -> Seq(Packages)]
         /\ outgoing.begun \in Nat /\ outgoing.done \in Nat
         /\ DOMAIN Sending = Processes /\ DOMAIN outgoing.out = Processes
         /\ Sending \in [Processes -> Mails \union {NoMail}]
         /\ \A p \in Processes : /\ Sending[p] = procs[p].mail
                                 /\ procs[p].task = "send" <=> procs[p].mail # NoMail
<1>1. outgoing \in Outgoing /\ procs \in [Processes -> ProcStates]
  BY DEF Typed, TypeOK
<1>2. \A p \in Processes : procs[p].mail \in Mails \union {NoMail}
  BY <1>1 DEF ProcStates
<1>3. \A p \in Processes : procs[p].task = "send" <=> procs[p].mail # NoMail
  BY DEF Typed, Fits, SendFits
<1>4. /\ outgoing.out \in [Processes -> Seq(Packages)]
      /\ outgoing.begun \in Nat /\ outgoing.done \in Nat
  BY <1>1 DEF Outgoing
<1>5. QED
  BY <1>2, <1>3, <1>4 DEF Sending

CallVars == <<Sending, outgoing.out, outgoing.done>>

CallStep == [Call!Next]_CallVars

LEMMA CallNextIs ==
  ASSUME NEW p \in Processes
  PROVE  /\ Call!Fail(p) => CallStep
         /\ Call!Begin(p) => CallStep
         /\ Call!Deliver(p) => CallStep
         /\ Call!Succeed(p) => CallStep
  BY DEF CallStep, Call!Next

\* A step that sends nothing is the end of a call, or none.
LEMMA QuietStepIs ==
  ASSUME Typed, SendInv, NEW p \in Processes, QuietStep(p), Typed'
  PROVE  SendInv' /\ CallStep
<1>1. PICK new \in ProcStates :
        /\ Become(p, new)
        /\ \/ new.mail = NoMail
           \/ new.mail = procs[p].mail /\ (Delivered(new) <=> Delivered(procs[p]))
  BY DEF QuietStep
<1>2. outgoing' = outgoing
  BY DEF QuietStep
<1>3. /\ procs'[p] = new /\ \A q \in Processes \ {p} : procs'[q] = procs[q]
      /\ Sending' = [Sending EXCEPT ![p] = new.mail]
  BY <1>1, SendingIs
<1>4. new.task = "send" <=> new.mail # NoMail
  BY <1>3 DEF Typed, Fits, SendFits
<1>5. SendInv'
  <2>1. ASSUME NEW q \in Processes, procs'[q].task = "send"
        PROVE  \/ Delivered(procs'[q]) /\ outgoing'.out[q] # <<>>
               \/ ~Delivered(procs'[q]) /\ outgoing'.out[q] = <<>>
    <3>1. CASE q = p
      <4>1. /\ new.mail = procs[p].mail /\ (Delivered(new) <=> Delivered(procs[p]))
            /\ procs[p].task = "send"
        BY <1>1, <1>3, <1>4, <2>1, <3>1, OutIs
      <4>2. QED
        BY <1>2, <1>3, <3>1, <4>1 DEF SendInv
    <3>2. CASE q # p
      BY <1>2, <1>3, <2>1, <3>2 DEF SendInv
    <3>3. QED
      BY <3>1, <3>2
  <2>2. QED
    BY <2>1 DEF SendInv
<1>6. CallStep
  <2>1. CASE new.mail = NoMail
    <3>1. Call!Fail(p)
      BY <1>2, <1>3, <2>1 DEF Call!Fail, Sending
    <3>2. QED
      BY <3>1, CallNextIs
  <2>2. CASE new.mail = procs[p].mail
    <3>1. Sending' = Sending
      BY <1>3, <2>2, OutIs
    <3>2. QED
      BY <1>2, <3>1 DEF CallStep, CallVars
  <2>3. QED
    BY <1>1, <2>1, <2>2
<1>7. QED
  BY <1>5, <1>6

\* The package of a message fits it.
LEMMA PackageFits ==
  ASSUME NEW s \in ProcStates, Fits(s), s.mail \in Mails, s.task = "send", s.call.op = "send",
         NEW package, package = Package(s.mail, s.schemes)
  PROVE  Call!Fits(package, s.mail)
<1>1. /\ s.mail.to \in Seq(Addresses) /\ s.schemes \in Seq(Schemes)
      /\ Len(s.schemes) = Len(s.mail.to)
      /\ s.mail.html => \A i \in DOMAIN s.schemes : s.schemes[i] # "inline"
  BY DEF Fits, SendFits, Mails, ProcStates
<1>2. PICK to \in Seq(Addresses), schemes \in Seq(Schemes) :
        /\ to = s.mail.to /\ schemes = s.schemes /\ DOMAIN to = DOMAIN schemes
  BY <1>1
<1>3. package = [to  |-> {[address |-> to[i], scheme |-> schemes[i]] : i \in DOMAIN to},
                 key |-> \E i \in DOMAIN schemes : schemes[i] = "clear"]
  BY <1>2 DEF Package
<1>4. package.to = {[address |-> to[i], scheme |-> schemes[i]] : i \in DOMAIN to}
  BY <1>3
<1>5. \A entry \in package.to :
        \E i \in DOMAIN to : entry.address = to[i] /\ entry.scheme = schemes[i]
  BY <1>4
<1>6. \A i \in DOMAIN to :
        \E entry \in package.to : entry.address = to[i] /\ entry.scheme = schemes[i]
  <2>1. ASSUME NEW i \in DOMAIN to
        PROVE  \E entry \in package.to : entry.address = to[i] /\ entry.scheme = schemes[i]
    <3>1. PICK entry : entry = [address |-> to[i], scheme |-> schemes[i]]
      OBVIOUS
    <3>2. entry \in package.to
      BY <1>4, <3>1
    <3>3. entry.address = to[i] /\ entry.scheme = schemes[i]
      BY <3>1
    <3>4. QED
      BY <3>2, <3>3
  <2>2. QED
    BY <2>1
<1>7. {entry.address : entry \in package.to} = {to[i] : i \in DOMAIN to}
  <2>1. ASSUME NEW entry \in package.to PROVE entry.address \in {to[i] : i \in DOMAIN to}
    BY <1>5
  <2>2. ASSUME NEW i \in DOMAIN to PROVE to[i] \in {entry.address : entry \in package.to}
    BY <1>6
  <2>3. QED
    BY <2>1, <2>2
<1>8. package.key <=> \E i \in DOMAIN schemes : schemes[i] = "clear"
  BY <1>3
<1>9. package.key <=> \E entry \in package.to : entry.scheme = "clear"
  BY <1>2, <1>5, <1>6, <1>8
<1>10. s.mail.html => \A entry \in package.to : entry.scheme # "inline"
  BY <1>1, <1>2, <1>5
<1>11. QED
  BY <1>2, <1>7, <1>9, <1>10 DEF Call!Fits, Call!Recipients

\* The send call sends the message, and the process goes on with it or stops.
LEMMA SentIs ==
  ASSUME Typed, SendInv, Typed', NEW p \in Processes, NEW s \in ProcStates, s = procs[p],
         s.pc \in {"get", "retry"}, s.call.op = "send", SentOn(p),
         NEW new, Become(p, new),
         new.mail = NoMail \/ (new.mail = s.mail /\ Delivered(new))
  PROVE  SendInv' /\ CallStep
<1>1. Fits(s) /\ s.task = "send" /\ s.mail \in Mails /\ s.mail # NoMail /\ ~Delivered(s)
  BY DEF Typed, Fits, CallFits, SendFits, ProcStates, Delivered
<1>2. PICK package : package = Package(s.mail, s.schemes)
  OBVIOUS
<1>3. Call!Fits(package, s.mail)
  BY <1>1, <1>2, PackageFits
<1>4. outgoing.out[p] = <<>>
  BY <1>1 DEF SendInv
<1>5. /\ outgoing'.out = [outgoing.out EXCEPT ![p] = Append(outgoing.out[p], package)]
      /\ outgoing'.done = outgoing.done
  <2>1. outgoing' = [outgoing EXCEPT !.out[p] = Append(@, package)]
    BY <1>2 DEF SentOn
  <2>2. outgoing \in Outgoing
    BY DEF Typed, TypeOK
  <2>3. QED
    BY <2>1, <2>2 DEF Outgoing
<1>6. PICK sent : sent = Append(outgoing.out[p], package)
  OBVIOUS
<1>7. Len(sent) = 1 /\ sent[1] = package /\ sent # <<>>
  BY <1>4, <1>6
<1>8. /\ outgoing'.out = [outgoing.out EXCEPT ![p] = sent]
      /\ outgoing'.out[p] = sent
      /\ \A q \in Processes \ {p} : outgoing'.out[q] = outgoing.out[q]
      /\ DOMAIN outgoing'.out = Processes
  BY <1>5, <1>6, OutIs
<1>9. /\ Sending' = [Sending EXCEPT ![p] = new.mail]
      /\ procs'[p] = new /\ \A q \in Processes \ {p} : procs'[q] = procs[q]
  BY SendingIs
<1>10. /\ Sending[p] = s.mail
       /\ Sending' = Sending \/ Sending' = [Sending EXCEPT ![p] = NoMail]
  BY <1>9, OutIs
<1>11. Call!Deliver(p)
  <2>1. Sending[p] # NoMail /\ outgoing.out[p] = <<>>
    BY <1>1, <1>4, <1>10
  <2>2. Len(outgoing'.out[p]) = 1 /\ Call!Fits(outgoing'.out[p][1], Sending[p])
    BY <1>3, <1>7, <1>8, <1>10
  <2>3. Call!Only(p, outgoing'.out, outgoing.out)
    BY <1>8 DEF Call!Only
  <2>4. QED
    BY <1>5, <1>10, <2>1, <2>2, <2>3 DEF Call!Deliver, Sending
<1>12. SendInv'
  <2>1. ASSUME NEW q \in Processes, procs'[q].task = "send"
        PROVE  \/ Delivered(procs'[q]) /\ outgoing'.out[q] # <<>>
               \/ ~Delivered(procs'[q]) /\ outgoing'.out[q] = <<>>
    <3>1. CASE q = p
      <4>1. new.mail # NoMail
        BY <1>9, <2>1, <3>1 DEF Typed, Fits, SendFits
      <4>2. QED
        BY <1>7, <1>8, <1>9, <3>1, <4>1
    <3>2. CASE q # p
      BY <1>8, <1>9, <2>1, <3>2 DEF SendInv
    <3>3. QED
      BY <3>1, <3>2
  <2>2. QED
    BY <2>1 DEF SendInv
<1>13. QED
  BY <1>11, <1>12, CallNextIs

LEMMA AskKeeps ==
  ASSUME Typed, SendInv, Typed', NEW p \in Processes, Ask(p)
  PROVE  SendInv' /\ CallStep
<1>1. PICK s \in ProcStates : s = procs[p] /\ Fits(s)
  BY DEF Typed, TypeOK
<1>2. s.pc \in {"get", "retry"} /\ ~Delivered(s)
  BY <1>1, AskIs DEF Delivered
<1>3. ASSUME UNCHANGED outgoing, Stop(p) PROVE SendInv' /\ CallStep
  BY <1>3, StopIsQuiet, QuietStepIs
<1>4. ASSUME UNCHANGED outgoing, NEW new \in ProcStates, Become(p, new), new.mail = s.mail,
             ~Delivered(new)
      PROVE  SendInv' /\ CallStep
  <2>1. QuietStep(p)
    BY <1>1, <1>2, <1>4 DEF QuietStep
  <2>2. QED
    BY <2>1, QuietStepIs
<1>5. ASSUME SentOn(p), NEW new \in ProcStates, Become(p, new), AskedAs(new, s)
      PROVE  SendInv' /\ CallStep
  <2>1. new.mail = s.mail /\ new.call = s.call /\ new.pc \in {"truncate", "answered"}
    BY <1>5 DEF AskedAs, Keeps
  <2>2. CASE s.call.op = "send"
    <3>1. Delivered(new)
      BY <2>1, <2>2 DEF Delivered
    <3>2. QED
      BY <1>1, <1>2, <1>5, <2>1, <2>2, <3>1, SentIs
  <2>3. CASE s.call.op # "send"
    <3>1. UNCHANGED outgoing
      BY <1>1, <1>5, <2>3 DEF SentOn
    <3>2. QED
      BY <1>4, <1>5, <2>1, <2>3, <3>1 DEF Delivered
  <2>4. QED
    BY <2>2, <2>3
<1>6. ASSUME s.call.op = "send", SentOn(p), Stop(p) PROVE SendInv' /\ CallStep
  <2>1. Become(p, Idle) /\ Idle.mail = NoMail
    BY <1>6, IdleIs DEF Stop
  <2>2. QED
    BY <1>1, <1>2, <1>6, <2>1, SentIs
<1>7. ASSUME UNCHANGED outgoing, NEW new \in ProcStates, Become(p, new), MovedAs(new, s, "refresh")
      PROVE  SendInv' /\ CallStep
  BY <1>4, <1>7 DEF MovedAs, Keeps, Delivered
<1>8. QED
  BY <1>1, <1>3, <1>5, <1>6, <1>7, AskIs

LEMMA StartSendKeeps ==
  ASSUME Typed, SendInv, Typed', NEW p \in Processes, StartSend(p)
  PROVE  SendInv' /\ CallStep
<1>1. PICK new \in ProcStates :
        /\ new.pc = "get" /\ new.mail \in Mails /\ new.task = "send" /\ Become(p, new)
  BY StartSendFits
<1>2. procs[p].mail = NoMail
  BY IdleIs DEF StartSend, At, Typed, Fits
<1>3. /\ outgoing'.out = [outgoing.out EXCEPT ![p] = <<>>]
      /\ outgoing'.done = outgoing.done
  <2>1. outgoing' = [outgoing EXCEPT !.out[p] = <<>>, !.begun = @ + 1]
    BY DEF StartSend
  <2>2. outgoing \in Outgoing
    BY DEF Typed, TypeOK
  <2>3. QED
    BY <2>1, <2>2 DEF Outgoing
<1>4. /\ outgoing'.out[p] = <<>>
      /\ \A q \in Processes \ {p} : outgoing'.out[q] = outgoing.out[q]
  BY <1>3, OutIs
<1>5. /\ Sending' = [Sending EXCEPT ![p] = new.mail]
      /\ procs'[p] = new /\ \A q \in Processes \ {p} : procs'[q] = procs[q]
  BY <1>1, SendingIs
<1>6. Call!Begin(p)
  <2>1. Sending[p] = NoMail /\ Sending'[p] # NoMail
    BY <1>1, <1>2, <1>5, OutIs, ClientAssumption
  <2>2. Call!Only(p, Sending', Sending)
    BY <1>5, OutIs DEF Call!Only
  <2>3. QED
    BY <1>3, <2>1, <2>2 DEF Call!Begin, Sending
<1>7. SendInv'
  <2>1. ASSUME NEW q \in Processes, procs'[q].task = "send"
        PROVE  \/ Delivered(procs'[q]) /\ outgoing'.out[q] # <<>>
               \/ ~Delivered(procs'[q]) /\ outgoing'.out[q] = <<>>
    <3>1. CASE q = p
      BY <1>1, <1>4, <1>5, <3>1 DEF Delivered
    <3>2. CASE q # p
      BY <1>4, <1>5, <2>1, <3>2 DEF SendInv
    <3>3. QED
      BY <3>1, <3>2
  <2>2. QED
    BY <2>1 DEF SendInv
<1>8. QED
  BY <1>6, <1>7, CallNextIs

LEMMA SendAnsweredKeeps ==
  ASSUME Typed, SendInv, Typed', NEW p \in Processes, SendAnswered(p)
  PROVE  SendInv' /\ CallStep
<1>1. PICK s \in ProcStates : s = procs[p] /\ s.pc = "answered" /\ s.task = "send"
  BY DEF Typed, TypeOK, SendAnswered, At
<1>2. outgoing \in Outgoing /\ s.mail # NoMail
  BY <1>1 DEF Typed, TypeOK, Fits, SendFits
<1>3. outgoing' = [outgoing EXCEPT !.done = IF s.call.op = "send" THEN @ + 1 ELSE @]
  BY <1>1 DEF SendAnswered
<1>4. CASE s.call.op # "send"
  <2>1. UNCHANGED outgoing
    BY <1>2, <1>3, <1>4 DEF Outgoing
  <2>2. ASSUME NEW new \in ProcStates, new.pc = "get", new.mail = s.mail, Become(p, new)
        PROVE  QuietStep(p)
    BY <1>1, <1>4, <2>1, <2>2 DEF QuietStep, Delivered
  <2>3. QuietStep(p)
    BY <1>1, <2>1, <2>2, SendAnsweredFits, StopIsQuiet
  <2>4. QED
    BY <2>3, QuietStepIs
<1>5. CASE s.call.op = "send"
  <2>1. Stop(p)
    BY <1>1, <1>5, SendAnsweredFits
  <2>2. PICK new \in ProcStates : new = Idle
    BY IdleIs
  <2>3. /\ new.mail = NoMail /\ new.task = "idle"
    BY <2>2, IdleIs
  <2>4. /\ Sending' = [Sending EXCEPT ![p] = NoMail]
        /\ procs'[p] = new /\ \A q \in Processes \ {p} : procs'[q] = procs[q]
    BY <2>1, <2>2, <2>3, SendingIs DEF Stop
  <2>5. outgoing'.out = outgoing.out /\ outgoing'.done = outgoing.done + 1
    BY <1>2, <1>3, <1>5 DEF Outgoing
  <2>6. outgoing.out[p] # <<>>
    BY <1>1, <1>5 DEF SendInv, Delivered
  <2>7. Sending[p] # NoMail
    BY <1>1, <1>2, OutIs
  <2>8. Call!Succeed(p)
    BY <2>4, <2>5, <2>6, <2>7 DEF Call!Succeed, Sending
  <2>9. SendInv'
    <3>1. ASSUME NEW q \in Processes, procs'[q].task = "send"
          PROVE  \/ Delivered(procs'[q]) /\ outgoing'.out[q] # <<>>
                 \/ ~Delivered(procs'[q]) /\ outgoing'.out[q] = <<>>
      <4>1. q # p
        BY <2>3, <2>4, <3>1
      <4>2. QED
        BY <2>4, <2>5, <3>1, <4>1 DEF SendInv
    <3>2. QED
      BY <3>1 DEF SendInv
  <2>10. QED
    BY <2>8, <2>9, CallNextIs
<1>6. QED
  BY <1>4, <1>5

LEMMA SendsKeep ==
  ASSUME Typed, SendInv, Typed', [SendNext]_vars
  PROVE  SendInv' /\ CallStep
<1>1. ASSUME UNCHANGED <<procs, outgoing>> PROVE SendInv' /\ CallStep
  BY <1>1 DEF SendInv, CallStep, CallVars, Sending
<1>2. CASE UNCHANGED vars
  BY <1>1, <1>2 DEF vars, serverVars
<1>3. CASE ServerEvent
  BY <1>1, <1>3 DEF ServerEvent
<1>4. ASSUME NEW p \in Processes,
             \/ Poll(p) \/ StartSync(p) \/ SessionCheck(p) \/ Login(p)
             \/ RefreshSession(p) \/ Truncate(p) \/ Write(p) \/ Answered(p)
             \/ MarkDeleted(p) \/ Item(p) \/ Ingest(p) \/ NextEvent(p)
             \/ RequestFails(p) \/ Kill(p)
      PROVE  SendInv' /\ CallStep
  <2>1. QuietStep(p)
    BY <1>4, QuietSteps
  <2>2. QED
    BY <2>1, QuietStepIs
<1>5. ASSUME NEW p \in Processes,
             \/ Poll(p) \/ StartSync(p) \/ SessionCheck(p) \/ Login(p)
             \/ Step(p) \/ RequestFails(p) \/ Kill(p)
      PROVE  SendInv' /\ CallStep
  BY <1>4, <1>5, AskKeeps DEF Step
<1>6. QED
  BY <1>2, <1>3, <1>5, StartSendKeeps, SendAnsweredKeeps DEF SendNext, Next

LEMMA SendsAtFirst ==
  ASSUME Init
  PROVE  SendInv /\ Call!Init
<1>1. \A p \in Processes : procs[p].mail = NoMail /\ procs[p].task = "idle"
  BY IdleIs DEF Init
<1>2. outgoing.out = [p \in Processes |-> <<>>] /\ outgoing.done = 0
  BY DEF Init
<1>3. Sending = [p \in Processes |-> NoMail]
  BY <1>1 DEF Sending
<1>4. QED
  BY <1>1, <1>2, <1>3 DEF SendInv, Call!Init, Sending

(* Through refreshed and lost sessions, lost answers, kills and whatever    *)
(* the other processes do, a send is the call that SendQueue takes it for   *)
(* (send_raw, send_draft).                                                  *)
THEOREM SendIsACall == SendSpec => SendsAtMostOnce
<1> DEFINE Inv == Typed /\ SendInv
<1>1. Init => Inv /\ Call!Init
  BY TypedAtFirst, SendsAtFirst
<1>2. Inv /\ [SendNext]_vars => Inv'
  BY TypedStays, SendsKeep
<1>3. Inv /\ [SendNext]_vars => CallStep
  BY TypedStays, SendsKeep
<1>4. CallStep => [Call!Next]_<<Sending, outgoing.out, outgoing.done>>
  BY DEF CallStep, CallVars
<1>5. QED
  BY <1>1, <1>2, <1>3, <1>4, PTL DEF SendSpec, SendsAtMostOnce, Call!Spec, Sending

-----------------------------------------------------------------------------
(* Nothing is missed: what the cursor, or a process with a cursor, has      *)
(* passed and is not there yet is still in hand.                            *)

Named(changes, actions) == {change.id : change \in {c \in changes : c.action \in actions}}

HasAnswer(s) == Asking(s) /\ s.pc \notin NetPcs

\* A message that the log names has come in, and what it deletes stays away.
LogInv ==
  \A i \in DOMAIN log :
    log[i].action # "refresh" =>
      /\ mails[log[i].id] # Unborn
      /\ log[i].action = "delete" => mails[log[i].id] = Gone

\* What came in up to c since the first cursor, exists, and has no row.
Lacking(c) ==
  {m \in Msgs : /\ Exists(mails, m) /\ ~Live(m)
                /\ \E i \in (since + 1)..c : log[i].action = "create" /\ log[i].id = m}

\* What is on that page of the list or behind it.
Later(page) ==
  {m \in Existing(mails) : AsNew(Existing(mails), m) > page * setting.pageSize}

InHand(s) == s.pc \in {"item", "ingest"} \/ s.call.op = "fetch"

Paged(s) == HasAnswer(s) /\ s.call.op = "page"

\* A refresh has m on the page in hand or will ask for m's page.
StillLists(s, m) ==
  \/ InHand(s) /\ m \in IdsOf(s.todo)
  \/ InHand(s) /\ ~s.last /\ m \in Later(s.page + 1)
  \/ Paged(s) /\ m \in IdsOf(s.answer.items)
  \/ /\ Paged(s) /\ s.answer.items # <<>> /\ m \in Later(s.page + 1)
     /\ (s.page + 1) * setting.pageSize < s.answer.total
  \/ ~InHand(s) /\ ~Paged(s) /\ m \in Later(s.page)

\* What the process will ingest before it saves its cursor, if ever.
Owes(s, m) ==
  \/ s.task = "refresh" /\ StillLists(s, m)
  \/ s.task = "events" /\ m \in IdsOf(s.todo)
  \/ s.pc = "delete" /\ m \in Named(s.changes, {"create", "update"})
  \/ s.pc \in FilePcs /\ s.file = "cursor" /\ s.call.op = "latest"

CursorInv(s) ==
  s.cursor \in Nat => s.cursor <= Len(log) /\ \A m \in Lacking(s.cursor) : Owes(s, m)

AnswerInv(s) ==
  HasAnswer(s) /\ s.call.op \in {"latest", "event"} =>
    /\ s.answer.upto <= Len(log)
    /\ s.call.op = "event" =>
         Lacking(s.answer.upto) \subseteq Named(s.answer.changes, {"create", "update"})
    /\ \A m \in Named(s.answer.changes, {"delete"}) : mails[m] = Gone

DeleteInv(s) ==
  s.pc = "delete" => \A m \in IdsOf(s.todo) : mails[m] = Gone

PageInv(s) ==
  s.task = "refresh" =>
    /\ s.call.op = "page" => s.call.page = s.page
    /\ s.call.op = "keys" /\ Asking(s) => s.page = 0

WalkInv(s) == CursorInv(s) /\ AnswerInv(s) /\ DeleteInv(s) /\ PageInv(s)

FileInv == cursorFile \in Nat => cursorFile <= Len(log) /\ Lacking(cursorFile) = {}

MissInv ==
  /\ LogInv /\ FileInv
  /\ \A p \in Processes, s \in ProcStates : s = procs[p] => WalkInv(s)

Stable == "delete" \notin setting.events \/ setting.pageSize >= MaxMsgs

LEMMA IdsAre ==
  /\ IdsOf(NoItems) = {} /\ IdsOf(<<>>) = {}
  /\ \A items \in Seq(Items) :
       items # <<>> => IdsOf(items) = {Head(items).id} \union IdsOf(Tail(items))
<1>1. IdsOf(NoItems) = {} /\ IdsOf(<<>>) = {}
  BY DEF IdsOf, NoItems
<1>2. ASSUME NEW items \in Seq(Items), items # <<>>
      PROVE  IdsOf(items) = {Head(items).id} \union IdsOf(Tail(items))
  <2>1. /\ Len(items) \in Nat \ {0} /\ DOMAIN items = 1..Len(items)
        /\ Head(items) = items[1]
        /\ DOMAIN Tail(items) = 1..(Len(items) - 1)
        /\ \A i \in 1..(Len(items) - 1) : Tail(items)[i] = items[i + 1]
    BY <1>2
  <2>2. ASSUME NEW i \in DOMAIN items
        PROVE  items[i].id \in {Head(items).id} \union IdsOf(Tail(items))
    <3>1. CASE i = 1
      BY <2>1, <3>1
    <3>2. CASE i # 1
      <4>1. i - 1 \in DOMAIN Tail(items) /\ Tail(items)[i - 1] = items[i]
        BY <2>1, <3>2
      <4>2. QED
        BY <4>1 DEF IdsOf
    <3>3. QED
      BY <3>1, <3>2
  <2>3. Head(items).id \in IdsOf(items)
    BY <2>1 DEF IdsOf
  <2>4. ASSUME NEW i \in DOMAIN Tail(items) PROVE Tail(items)[i].id \in IdsOf(items)
    <3>1. i + 1 \in DOMAIN items /\ items[i + 1] = Tail(items)[i]
      BY <2>1
    <3>2. QED
      BY <3>1 DEF IdsOf
  <2>5. QED
    BY <2>2, <2>3, <2>4 DEF IdsOf
<1>3. QED
  BY <1>1, <1>2

LEMMA NamedIs ==
  ASSUME NEW changes \in SUBSET Entries, NEW actions \in SUBSET {"create", "update", "delete"}
  PROVE  IdsOf(Changed(changes, actions)) = Named(changes, actions)
<1>1. PICK todo : todo = Changed(changes, actions)
  OBVIOUS
<1>2. /\ \A i \in DOMAIN todo :
           \E change \in changes : change.action \in actions /\ change.id = todo[i].id
      /\ \A change \in changes :
           change.action \in actions => \E i \in DOMAIN todo : todo[i].id = change.id
  BY <1>1, ChangedIs
<1>3. IdsOf(todo) = Named(changes, actions)
  BY <1>2 DEF IdsOf, Named
<1>4. QED
  BY <1>1, <1>3

\* What a step of anybody leaves as it was.
Calm ==
  /\ setting' = setting /\ since <= since'
  /\ Len(log) <= Len(log') /\ \A i \in DOMAIN log : log'[i] = log[i]
  /\ \A m \in Msgs : mails[m] = Gone => mails'[m] = Gone
  /\ \A m \in Msgs : mails[m] # Unborn /\ Exists(mails', m) => Exists(mails, m)
  /\ \A m \in Msgs : Live(m) /\ Exists(mails', m) => Live(m)'
  /\ \A page \in Nat : \A m \in Later(page) : Exists(mails', m) => m \in Later(page)'

LEMMA LackingShrinks ==
  ASSUME Typed, Typed', LogInv, Calm, NEW c \in Nat, c <= Len(log)
  PROVE  /\ c <= Len(log')
         /\ \A m \in Lacking(c)' : m \in Lacking(c) /\ m \in Msgs /\ Exists(mails', m) /\ ~Live(m)'
<1>1. since \in Nat /\ since' \in Nat /\ log \in Seq(Entries) /\ log' \in Seq(Entries)
  BY DEF Typed, TypeOK
<1>2. Len(log) \in Nat /\ Len(log') \in Nat /\ Len(log) <= Len(log') /\ since <= since'
  BY <1>1 DEF Calm
<1>3. c <= Len(log')
  BY <1>2
<1>4. ASSUME NEW m \in Lacking(c)'
      PROVE  m \in Lacking(c) /\ m \in Msgs /\ Exists(mails', m) /\ ~Live(m)'
  <2>1. /\ m \in Msgs /\ Exists(mails', m) /\ ~Live(m)'
        /\ \E i \in (since' + 1)..c : log'[i].action = "create" /\ log'[i].id = m
    BY <1>4 DEF Lacking
  <2>2. PICK i \in (since' + 1)..c : log'[i].action = "create" /\ log'[i].id = m
    BY <2>1
  <2>3. i \in DOMAIN log /\ i \in (since + 1)..c
    <3>1. DOMAIN log = 1..Len(log)
      BY <1>1, LenProperties
    <3>2. PICK from \in Nat : from = since'
      BY <1>1
    <3>3. i \in Int /\ i >= from + 1 /\ i <= c
      BY <2>2, <3>2
    <3>4. since <= from
      BY <1>2, <3>2
    <3>5. QED
      BY <1>1, <1>2, <3>1, <3>3, <3>4
  <2>4. log[i].action = "create" /\ log[i].id = m
    BY <2>2, <2>3 DEF Calm
  <2>5. mails[m] # Unborn
    BY <2>3, <2>4 DEF LogInv
  <2>6. Exists(mails, m) /\ ~Live(m)
    BY <2>1, <2>5 DEF Calm
  <2>7. QED
    BY <2>1, <2>3, <2>4, <2>6 DEF Lacking
<1>5. QED
  BY <1>3, <1>4

LEMMA OwesStays ==
  ASSUME Typed, Calm, NEW s \in ProcStates, NEW m \in Msgs, Exists(mails', m), Owes(s, m)
  PROVE  Owes(s, m)'
<1>1. s.page \in Nat /\ s.page + 1 \in Nat
  BY DEF ProcStates
<1>2. \A page \in Nat : m \in Later(page) => m \in Later(page)'
  BY DEF Calm
<1>3. setting' = setting
  BY DEF Calm
<1>4. StillLists(s, m) => StillLists(s, m)'
  BY <1>1, <1>2, <1>3 DEF StillLists
<1>5. QED
  BY <1>4 DEF Owes

\* What a process has in hand is as good as it was after a step of another one.
LEMMA WalkStays ==
  ASSUME Typed, Typed', LogInv, Calm, NEW s \in ProcStates, Fits(s), WalkInv(s)
  PROVE  WalkInv(s)'
<1>1. ASSUME s.cursor \in Nat
      PROVE  s.cursor <= Len(log') /\ \A m \in Lacking(s.cursor)' : Owes(s, m)'
  <2>1. s.cursor <= Len(log) /\ \A m \in Lacking(s.cursor) : Owes(s, m)
    BY <1>1 DEF WalkInv, CursorInv
  <2>2. QED
    BY <1>1, <2>1, LackingShrinks, OwesStays
<1>2. CursorInv(s)'
  BY <1>1 DEF CursorInv
<1>3. AnswerInv(s)'
  <2>1. ASSUME HasAnswer(s), s.call.op \in {"latest", "event"}
        PROVE  /\ s.answer.upto <= Len(log')
               /\ s.call.op = "event" =>
                    Lacking(s.answer.upto)' \subseteq Named(s.answer.changes, {"create", "update"})
               /\ \A m \in Named(s.answer.changes, {"delete"}) : mails'[m] = Gone
    <3>1. s.answer \in EventAnswers
      BY <2>1 DEF Fits, HandFits, HasAnswer, IsAnswer
    <3>2. s.answer.upto \in Nat /\ s.answer.changes \in SUBSET Entries
      BY <3>1 DEF EventAnswers
    <3>3. /\ s.answer.upto <= Len(log)
          /\ s.call.op = "event" =>
               Lacking(s.answer.upto) \subseteq Named(s.answer.changes, {"create", "update"})
          /\ \A m \in Named(s.answer.changes, {"delete"}) : mails[m] = Gone
      BY <2>1 DEF WalkInv, AnswerInv
    <3>4. Named(s.answer.changes, {"delete"}) \subseteq Msgs
      BY <3>2 DEF Named, Entries
    <3>5. \A m \in Named(s.answer.changes, {"delete"}) : mails'[m] = Gone
      BY <3>3, <3>4 DEF Calm
    <3>6. QED
      BY <3>2, <3>3, <3>5, LackingShrinks
  <2>2. QED
    BY <2>1 DEF AnswerInv
<1>4. DeleteInv(s)'
  <2>1. ASSUME s.pc = "delete", NEW m \in IdsOf(s.todo) PROVE mails'[m] = Gone
    <3>1. mails[m] = Gone
      BY <2>1 DEF WalkInv, DeleteInv
    <3>2. m \in Msgs
      <4>1. s.todo \in Seq(Items)
        BY DEF ProcStates
      <4>2. PICK i \in DOMAIN s.todo : m = s.todo[i].id
        BY <2>1 DEF IdsOf
      <4>3. s.todo[i] \in Items
        BY <4>1, <4>2
      <4>4. QED
        BY <4>2, <4>3 DEF Items
    <3>3. QED
      BY <3>1, <3>2 DEF Calm
  <2>2. QED
    BY <2>1 DEF DeleteInv
<1>5. PageInv(s)'
  BY DEF WalkInv, PageInv
<1>6. QED
  BY <1>2, <1>3, <1>4, <1>5 DEF WalkInv

\* The ranks of messages grow while none is deleted.
LEMMA LaterGrows ==
  ASSUME Typed, Typed', Stable, setting' = setting,
         "delete" \notin setting.events => \A m \in Msgs : Exists(mails, m) => Exists(mails', m),
         NEW page \in Nat, NEW m \in Later(page), Exists(mails', m)
  PROVE  m \in Later(page)'
<1> DEFINE ids == Existing(mails)
           next == Existing(mails')
           size == setting.pageSize
<1>1. /\ ids \in SUBSET Msgs /\ next \in SUBSET Msgs /\ m \in ids /\ m \in next
      /\ AsNew(ids, m) > page * size
  BY DEF Later, Existing
<1>2. size \in Nat \ {0}
  BY ClientAssumption DEF Typed, TypeOK
<1>3. /\ IsFiniteSet(ids) /\ AsNew(ids, m) \in 1..Cardinality(ids)
      /\ IsFiniteSet(next) /\ AsNew(next, m) \in 1..Cardinality(next)
      /\ Cardinality(ids) \in Nat /\ Cardinality(next) \in Nat
  BY <1>1, AsNewIs
<1>4. AsNew(next, m) > page * size
  <2>1. CASE "delete" \notin setting.events
    <3>1. ids \subseteq next
      BY <2>1 DEF Existing
    <3>2. {other \in ids : other >= m} \subseteq {other \in next : other >= m}
      BY <3>1
    <3>3. IsFiniteSet({other \in next : other >= m})
      BY <1>3, FS_Subset
    <3>4. AsNew(ids, m) <= AsNew(next, m)
      BY <3>2, <3>3, FS_Subset DEF AsNew
    <3>5. page * size \in Nat
      BY <1>2
    <3> HIDE DEF ids, next, size
    <3>6. QED
      BY <1>1, <1>3, <3>4, <3>5
  <2>2. CASE size >= MaxMsgs
    <3>1. /\ IsFiniteSet(Msgs) /\ Cardinality(Msgs) = MaxMsgs /\ MaxMsgs \in Nat
      BY FS_Interval, ProtonAssumption DEF Msgs
    <3>2. Cardinality(ids) <= MaxMsgs
      BY <1>1, <3>1, FS_Subset
    <3> HIDE DEF ids, next, size
    <3>3. AsNew(ids, m) <= size
      BY <1>2, <1>3, <2>2, <3>1, <3>2
    <3>4. page = 0 \/ page * size >= size
      <4>1. CASE page # 0
        <5>1. page - 1 \in Nat /\ page * size = (page - 1) * size + size
          BY <1>2, <4>1
        <5>2. (page - 1) * size \in Nat
          BY <1>2, <5>1
        <5>3. QED
          BY <1>2, <5>1, <5>2
      <4>2. QED
        BY <4>1
    <3>5. page = 0
      <4>1. page * size \in Nat
        BY <1>2
      <4>2. QED
        BY <1>1, <1>2, <1>3, <3>3, <3>4, <4>1
    <3>6. page * size = 0
      BY <1>2, <3>5
    <3>7. QED
      BY <1>3, <3>6
  <2>3. QED
    BY <2>1, <2>2 DEF Stable
<1>5. QED
  BY <1>1, <1>4 DEF Later

\* What the server does.
LEMMA ServerIsCalm ==
  ASSUME Typed, Typed', Stable, LogInv, ServerEvent
  PROVE  LogInv' /\ Calm
<1>1. /\ mails \in Mailboxes /\ log \in Seq(Entries) /\ since \in Nat
      /\ UNCHANGED <<setting, rows, since>>
  BY DEF Typed, TypeOK, ServerEvent
<1>2. DOMAIN log = 1..Len(log) /\ Len(log) \in Nat
  BY <1>1, LenProperties
<1>3. \/ mails' = mails /\ log' = log
      \/ mails' = mails /\ \E entry : /\ log' = Append(log, entry) /\ entry.action = "refresh"
      \/ \E m \in Msgs, new \in MailStates \union {Gone} :
           /\ mails' = [mails EXCEPT ![m] = new]
           /\ new = Gone => Exists(mails, m) /\ "delete" \in setting.events
           /\ new # Gone => mails[m] = Unborn \/ Exists(mails, m)
           /\ \E entry : /\ log' = Append(log, entry) /\ entry.id = m
                         /\ entry.action = "delete" => new = Gone
  <2>1. ASSUME NEW m \in Msgs, NEW state \in MailStates, Receive(m, state) \/ Change(m, state)
        PROVE  /\ mails' = [mails EXCEPT ![m] = state]
               /\ mails[m] = Unborn \/ Exists(mails, m)
               /\ \E entry : /\ log' = Append(log, entry) /\ entry.id = m
                             /\ entry.action = "delete" => state = Gone
    BY <2>1 DEF Receive, Change, Logged
  <2>2. ASSUME NEW m \in Msgs, DeleteMail(m)
        PROVE  /\ mails' = [mails EXCEPT ![m] = Gone]
               /\ Exists(mails, m) /\ "delete" \in setting.events
               /\ \E entry : log' = Append(log, entry) /\ entry.id = m
    BY <2>2 DEF DeleteMail, Logged
  <2>3. CASE AskForRefresh
    BY <2>3 DEF AskForRefresh, Logged
  <2>4. CASE Expire
    BY <2>4 DEF Expire
  <2>5. Gone \notin MailStates
    BY ProtonAssumption
  <2>6. QED
    BY <2>1, <2>2, <2>3, <2>4, <2>5 DEF ServerEvent
<1>4. ASSUME NEW m \in Msgs, NEW new \in MailStates \union {Gone},
             mails' = [mails EXCEPT ![m] = new],
             new = Gone => Exists(mails, m) /\ "delete" \in setting.events,
             new # Gone => mails[m] = Unborn \/ Exists(mails, m)
      PROVE  /\ \A n \in Msgs : /\ mails[n] = Gone => mails'[n] = Gone
                                /\ mails[n] # Unborn => mails'[n] # Unborn
                                /\ mails[n] # Unborn /\ Exists(mails', n) => Exists(mails, n)
             /\ "delete" \notin setting.events =>
                  \A n \in Msgs : Exists(mails, n) => Exists(mails', n)
             /\ mails'[m] = new
  BY <1>1, <1>4, ProtonAssumption DEF Mailboxes, Exists
<1> DEFINE News ==
      /\ \A n \in Msgs : /\ mails[n] = Gone => mails'[n] = Gone
                         /\ mails[n] # Unborn => mails'[n] # Unborn
                         /\ mails[n] # Unborn /\ Exists(mails', n) => Exists(mails, n)
      /\ "delete" \notin setting.events => \A n \in Msgs : Exists(mails, n) => Exists(mails', n)
      /\ \/ log' = log
         \/ \E entry : /\ log' = Append(log, entry)
                       /\ entry.action # "refresh" =>
                            /\ mails'[entry.id] # Unborn
                            /\ entry.action = "delete" => mails'[entry.id] = Gone
<1>5. News
  <2>1. ASSUME mails' = mails
        PROVE  /\ \A n \in Msgs : /\ mails[n] = Gone => mails'[n] = Gone
                                  /\ mails[n] # Unborn => mails'[n] # Unborn
                                  /\ mails[n] # Unborn /\ Exists(mails', n) => Exists(mails, n)
               /\ "delete" \notin setting.events =>
                    \A n \in Msgs : Exists(mails, n) => Exists(mails', n)
    BY <2>1
  <2>2. CASE mails' = mails /\ log' = log
    BY <2>1, <2>2
  <2>3. CASE mails' = mails /\ \E entry : /\ log' = Append(log, entry)
                                         /\ entry.action = "refresh"
    BY <2>1, <2>3
  <2>4. ASSUME NEW m \in Msgs, NEW new \in MailStates \union {Gone},
               mails' = [mails EXCEPT ![m] = new],
               new = Gone => Exists(mails, m) /\ "delete" \in setting.events,
               new # Gone => mails[m] = Unborn \/ Exists(mails, m),
               NEW entry, log' = Append(log, entry), entry.id = m,
               entry.action = "delete" => new = Gone
        PROVE  News
    <3>1. mails'[m] = new /\ new # Unborn
      BY <1>4, <2>4, ProtonAssumption
    <3>2. QED
      BY <1>4, <2>4, <3>1
  <2>5. QED
    BY <1>3, <2>2, <2>3, <2>4
<1>6. /\ Len(log) <= Len(log') /\ \A i \in DOMAIN log : log'[i] = log[i]
      /\ LogInv'
  <2>1. ASSUME NEW i \in DOMAIN log, log[i].action # "refresh"
        PROVE  /\ mails'[log[i].id] # Unborn
               /\ log[i].action = "delete" => mails'[log[i].id] = Gone
    <3>1. log[i] \in Entries /\ log[i].id \in Msgs
      BY <1>1, <1>2, <2>1 DEF Entries
    <3>2. QED
      BY <1>5, <2>1, <3>1 DEF LogInv
  <2>2. CASE log' = log
    BY <1>2, <2>1, <2>2 DEF LogInv
  <2>3. ASSUME NEW entry, log' = Append(log, entry),
               entry.action # "refresh" =>
                 /\ mails'[entry.id] # Unborn
                 /\ entry.action = "delete" => mails'[entry.id] = Gone
        PROVE  /\ Len(log) <= Len(log') /\ \A i \in DOMAIN log : log'[i] = log[i]
               /\ LogInv'
    <3>1. /\ Len(log') = Len(log) + 1 /\ DOMAIN log' = 1..(Len(log) + 1)
          /\ \A i \in 1..Len(log) : log'[i] = log[i]
          /\ log'[Len(log) + 1] = entry
      BY <1>1, <2>3
    <3>2. ASSUME NEW i \in DOMAIN log', log'[i].action # "refresh"
          PROVE  /\ mails'[log'[i].id] # Unborn
                 /\ log'[i].action = "delete" => mails'[log'[i].id] = Gone
      <4>1. CASE i \in DOMAIN log
        BY <1>2, <2>1, <3>1, <3>2, <4>1
      <4>2. CASE i = Len(log) + 1
        BY <2>3, <3>1, <3>2, <4>2
      <4>3. QED
        BY <1>2, <3>1, <4>1, <4>2
    <3>3. QED
      BY <1>2, <3>1, <3>2 DEF LogInv
  <2>4. QED
    BY <1>5, <2>2, <2>3
<1>7. \A m \in Msgs : Live(m) => Live(m)'
  BY <1>1 DEF Live
<1>8. Calm
  BY <1>1, <1>5, <1>6, <1>7, LaterGrows DEF Calm
<1>9. QED
  BY <1>6, <1>8

-----------------------------------------------------------------------------
(* What each step does with what is owed *)

LEMMA PassOn ==
  ASSUME NEW s \in ProcStates, NEW new \in ProcStates, CursorInv(s), new.cursor = s.cursor,
         \A m \in Msgs : Exists(mails, m) /\ Owes(s, m) => Owes(new, m)
  PROVE  CursorInv(new)
<1>1. \A m \in Lacking(s.cursor) : m \in Msgs /\ Exists(mails, m)
  BY DEF Lacking
<1>2. QED
  BY <1>1 DEF CursorInv

\* Nothing is owed: the cursor may be saved, or read again.
NothingOwed(s) == s.cursor \in Nat => s.cursor <= Len(log) /\ Lacking(s.cursor) = {}

LEMMA OwesNothing ==
  ASSUME NEW s \in ProcStates, CursorInv(s), \A m \in Msgs : Exists(mails, m) => ~Owes(s, m)
  PROVE  NothingOwed(s)
<1>1. \A m \in Lacking(s.cursor) : m \in Msgs /\ Exists(mails, m)
  BY DEF Lacking
<1>2. QED
  BY <1>1 DEF CursorInv, NothingOwed

LEMMA NotOwing ==
  ASSUME NEW s \in ProcStates, NEW new \in ProcStates, NothingOwed(s),
         new.cursor = s.cursor \/ new.cursor = None
  PROVE  CursorInv(new)
  BY ClientAssumption DEF NothingOwed, CursorInv

LEMMA WalkIf ==
  ASSUME NEW s \in ProcStates, CursorInv(s), s.pc # "delete"
  PROVE  /\ s.pc \in NetPcs /\ PageInv(s) => WalkInv(s)
         /\ s.pc \in {"item", "ingest", "next", "idle"} /\ s.call.op # "page" => WalkInv(s)
         /\ s.pc \in FilePcs /\ s.file # "session" /\ s.call.op # "page" => WalkInv(s)
<1>1. s.pc \in NetPcs => ~HasAnswer(s)
  BY DEF HasAnswer
<1>2. \/ s.pc \in {"item", "ingest", "next", "idle"}
      \/ s.pc \in FilePcs /\ s.file # "session"
      => ~HasAnswer(s) /\ ~Asking(s)
  BY DEF HasAnswer, Asking, NetPcs, FilePcs
<1>3. QED
  BY <1>1, <1>2 DEF WalkInv, AnswerInv, DeleteInv, PageInv

\* Every message has a page.
LEMMA AllLater ==
  ASSUME NEW m \in Msgs, Exists(mails, m), setting.pageSize \in Nat
  PROVE  m \in Later(0)
<1>1. Existing(mails) \in SUBSET Msgs /\ m \in Existing(mails)
  BY DEF Existing
<1>2. AsNew(Existing(mails), m) > 0
  BY <1>1, AsNewIs
<1>3. 0 * setting.pageSize = 0
  OBVIOUS
<1>4. QED
  BY <1>1, <1>2, <1>3 DEF Later

LEMMA NatLeast ==
  ASSUME NEW S \in SUBSET Nat, S # {}
  PROVE  \E n \in S : \A k \in S : n <= k
<1>1. PICK n \in S : \A k \in S : <<k, n>> \notin OpToRel(<, Nat)
  BY WFMin, NatLessThanWellFounded, Zenon
<1>2. n \in Nat /\ \A k \in S : k \in Nat /\ ~(k < n)
  BY <1>1, Zenon DEF OpToRel
<1>3. QED
  BY <1>2

\* The log up to some position names the last entry of each message.
LEMMA MergedIs ==
  ASSUME Typed, LogInv, NEW from \in Nat, NEW upto \in Nat, upto <= Len(log),
         NEW changes, changes = Merged(log, from, upto)
  PROVE  /\ changes \in SUBSET Entries
         /\ \A i \in (from + 1)..upto :
              log[i].action # "refresh" /\ Exists(mails, log[i].id) =>
                log[i].id \in Named(changes, {"create", "update"})
         /\ \A m \in Named(changes, {"delete"}) : mails[m] = Gone
<1>1. log \in Seq(Entries) /\ Len(log) \in Nat /\ DOMAIN log = 1..Len(log)
  <2>1. log \in Seq(Entries)
    BY DEF Typed, TypeOK
  <2>2. QED
    BY <2>1, LenProperties
<1>2. \A i \in (from + 1)..upto : i \in DOMAIN log /\ log[i] \in Entries
  BY <1>1
<1>3. changes \in SUBSET Entries
  BY <1>2 DEF Merged
<1>4. ASSUME NEW i \in (from + 1)..upto, log[i].action # "refresh", Exists(mails, log[i].id)
      PROVE  log[i].id \in Named(changes, {"create", "update"})
  <2> DEFINE behind == {upto - j : j \in {k \in (from + 1)..upto :
                          log[k].action # "refresh" /\ log[k].id = log[i].id}}
  <2>1. behind \in SUBSET Nat
    OBVIOUS
  <2>2. upto - i \in behind
    BY <1>4
  <2>3. PICK least \in behind : \A k \in behind : least <= k
    <3> HIDE DEF behind
    <3>1. QED
      BY <2>1, <2>2, NatLeast
  <2>4. PICK j \in (from + 1)..upto :
          least = upto - j /\ log[j].action # "refresh" /\ log[j].id = log[i].id
    OBVIOUS
  <2>5. \A k \in (j + 1)..upto : log[k].action # "refresh" => log[k].id # log[j].id
    <3>1. ASSUME NEW k \in (j + 1)..upto, log[k].action # "refresh", log[k].id = log[j].id
          PROVE  FALSE
      <4>1. k \in (from + 1)..upto
        BY <2>4
      <4>2. upto - k \in behind
        BY <2>4, <3>1, <4>1
      <4>3. upto - j <= upto - k
        BY <2>3, <2>4, <4>2
      <4>4. QED
        BY <2>4, <3>1, <4>3
    <3>2. QED
      BY <3>1
  <2>6. log[j] \in changes
    BY <2>4, <2>5 DEF Merged
  <2>7. log[j].action \in {"create", "update"}
    <3>1. log[j] \in Entries /\ j \in DOMAIN log
      BY <1>2, <2>4
    <3>2. log[j].action # "delete"
      BY <1>4, <2>4, <3>1, ProtonAssumption DEF LogInv, Exists
    <3>3. QED
      BY <2>4, <3>1, <3>2 DEF Entries
  <2>8. QED
    BY <2>4, <2>6, <2>7 DEF Named
<1>5. ASSUME NEW m \in Named(changes, {"delete"}) PROVE mails[m] = Gone
  <2>1. PICK change \in changes : change.action = "delete" /\ change.id = m
    BY <1>5 DEF Named
  <2>2. PICK i \in (from + 1)..upto : change = log[i]
    BY <2>1 DEF Merged
  <2>3. QED
    BY <1>2, <2>1, <2>2 DEF LogInv
<1>6. QED
  BY <1>3, <1>4, <1>5

\* An answer says what is missing behind the cursor, or on the page.
LEMMA AskedWalks ==
  ASSUME Typed, LogInv, NEW s \in ProcStates, NEW new \in ProcStates, Fits(s), WalkInv(s),
         s.pc \in {"get", "retry"}, AskedAs(new, s)
  PROVE  WalkInv(new)
<1>1. /\ new.cursor = s.cursor /\ new.task = s.task /\ new.page = s.page /\ new.last = s.last
      /\ new.todo = s.todo /\ new.changes = s.changes /\ new.call = s.call
      /\ new.file = "session" /\ new.pc \in {"truncate", "answered"}
      /\ new.answer \in Answers(s.call)
  BY DEF AskedAs, Keeps, SameHand
<1>2. /\ HasAnswer(new) /\ Asking(s) /\ ~HasAnswer(s)
      /\ (Paged(new) <=> s.call.op = "page") /\ ~Paged(s)
      /\ (InHand(new) <=> s.call.op = "fetch") /\ (InHand(s) <=> s.call.op = "fetch")
  BY <1>1 DEF HasAnswer, Asking, Paged, InHand, NetPcs, FilePcs
<1>3. /\ setting.pageSize \in Nat \ {0} /\ setting.merge \in Nat \ {0}
      /\ mails \in Mailboxes /\ log \in Seq(Entries) /\ Len(log) \in Nat
  BY ClientAssumption DEF Typed, TypeOK
<1>4. s.page \in Nat /\ s.page + 1 \in Nat /\ s.call \in Calls
  BY DEF ProcStates
<1>5. ASSUME s.task = "refresh", s.call.op = "page", NEW m \in Later(s.page)
      PROVE  StillLists(new, m)
  <2>1. s.call.page = s.page
    BY <1>5 DEF WalkInv, PageInv
  <2>2. PICK items : items = MessagePage(mails, s.page, setting.pageSize)
    OBVIOUS
  <2>3. new.answer.items = items /\ new.answer.total = Total(mails)
    BY <1>1, <1>5, <2>1, <2>2 DEF Answers
  <2>4. /\ Total(mails) = Cardinality(Existing(mails)) /\ Total(mails) \in Nat
        /\ \A n \in Existing(mails) :
             OnPage(mails, s.page, setting.pageSize, n) => n \in IdsOf(items)
        /\ s.page * setting.pageSize < Total(mails) => items # <<>>
    <3>1. Total(mails) = Cardinality(Existing(mails)) /\ Total(mails) \in Nat
      BY <1>3, <1>4, <2>2, PageIs
    <3>2. ASSUME NEW n \in Existing(mails), OnPage(mails, s.page, setting.pageSize, n)
          PROVE  n \in IdsOf(items)
      BY <1>3, <1>4, <2>2, <3>2, PageIs
    <3>3. s.page * setting.pageSize < Total(mails) => items # <<>>
      BY <1>3, <1>4, <2>2, PageIs
    <3>4. QED
      BY <3>1, <3>2, <3>3
  <2>5. /\ m \in Existing(mails) /\ s.page * setting.pageSize < AsNew(Existing(mails), m)
        /\ AsNew(Existing(mails), m) \in 1..Cardinality(Existing(mails))
    <3>1. Existing(mails) \in SUBSET Msgs /\ m \in Existing(mails)
      BY <1>5 DEF Existing, Later
    <3>2. AsNew(Existing(mails), m) \in 1..Cardinality(Existing(mails))
      BY <3>1, AsNewIs
    <3>3. QED
      BY <1>3, <1>4, <1>5, <3>1, <3>2 DEF Later
  <2>6. PICK rank \in Nat, size \in Nat : rank = AsNew(Existing(mails), m) /\ size = setting.pageSize
    BY <1>3, <2>5
  <2>7. s.page * size \in Nat /\ (s.page + 1) * size \in Nat
    BY <1>4
  <2>8. CASE rank <= (s.page + 1) * size
    <3>1. m \in IdsOf(items)
      BY <2>4, <2>5, <2>6, <2>8 DEF OnPage
    <3>2. QED
      BY <1>2, <1>5, <2>3, <3>1 DEF StillLists
  <2>9. CASE rank > (s.page + 1) * size
    <3>1. m \in Later(s.page + 1)
      BY <2>5, <2>6, <2>9 DEF Later
    <3>2. rank <= Total(mails) /\ s.page * size < Total(mails) /\ (s.page + 1) * size < Total(mails)
      BY <2>4, <2>5, <2>6, <2>7, <2>9
    <3>3. items # <<>>
      BY <2>4, <2>6, <3>2
    <3>4. QED
      BY <1>1, <1>2, <1>5, <2>3, <2>6, <3>1, <3>2, <3>3 DEF StillLists
  <2>10. QED
    BY <2>6, <2>7, <2>8, <2>9
<1>6. ASSUME NEW m \in Msgs, Owes(s, m) PROVE Owes(new, m)
  <2>1. CASE s.task = "refresh"
    <3>1. StillLists(s, m)
      BY <1>6, <2>1 DEF Owes, FilePcs
    <3>2. CASE s.call.op = "fetch"
      BY <1>1, <1>2, <2>1, <3>1, <3>2 DEF Owes, StillLists
    <3>3. CASE s.call.op = "page"
      BY <1>1, <1>2, <1>5, <2>1, <3>1, <3>3 DEF Owes, StillLists
    <3>4. CASE s.call.op \notin {"fetch", "page"}
      BY <1>1, <1>2, <2>1, <3>1, <3>4 DEF Owes, StillLists
    <3>5. QED
      BY <3>2, <3>3, <3>4
  <2>2. CASE s.task # "refresh"
    BY <1>1, <1>6, <2>2 DEF Owes, FilePcs
  <2>3. QED
    BY <2>1, <2>2
<1>7. CursorInv(new)
  BY <1>1, <1>6, PassOn DEF WalkInv
<1>8. AnswerInv(new)
  <2>1. CASE s.call.op = "latest"
    <3>1. /\ new.answer = [upto |-> Len(log), more |-> FALSE, refresh |-> FALSE, changes |-> {}]
      BY <1>1, <2>1 DEF Answers
    <3>2. new.answer.upto = Len(log) /\ new.answer.changes = {}
      BY <3>1
    <3>3. QED
      BY <1>1, <1>3, <2>1, <3>2 DEF AnswerInv, Named
  <2>2. CASE s.call.op = "event"
    <3>1. PICK from \in Nat : from = s.call.from /\ from = s.cursor
      BY <1>4, <2>2 DEF Calls, Fits, CallFits
    <3>2. PICK upto \in Nat : upto = Upto(from) /\ upto <= Len(log)
      BY <1>3, <3>1 DEF Upto
    <3>3. PICK changes : changes = Merged(log, from, upto)
      OBVIOUS
    <3>4. new.answer.upto = upto /\ new.answer.changes = changes
      BY <1>1, <2>2, <3>1, <3>2, <3>3 DEF Answers
    <3>5. \A m \in Named(changes, {"delete"}) : mails[m] = Gone
      BY <3>2, <3>3, MergedIs
    <3>6. Lacking(from) = {}
      <4>1. s.task = "idle"
        BY <2>2 DEF Fits, CallFits
      <4>2. \A m \in Msgs : ~Owes(s, m)
        BY <2>2, <4>1 DEF Owes
      <4>3. QED
        BY <3>1, <4>2, OwesNothing DEF WalkInv, NothingOwed
    <3>7. ASSUME NEW m \in Lacking(upto) PROVE m \in Named(changes, {"create", "update"})
      <4>1. /\ m \in Msgs /\ Exists(mails, m) /\ ~Live(m)
            /\ \E i \in (since + 1)..upto : log[i].action = "create" /\ log[i].id = m
        BY <3>7 DEF Lacking
      <4>2. PICK i \in (since + 1)..upto : log[i].action = "create" /\ log[i].id = m
        BY <4>1
      <4>3. i \notin (since + 1)..from
        BY <3>6, <4>1, <4>2 DEF Lacking
      <4>4. i \in (from + 1)..upto
        BY <4>3 DEF Typed, TypeOK
      <4>5. QED
        BY <3>2, <3>3, <4>1, <4>2, <4>4, MergedIs
    <3>8. QED
      BY <1>1, <2>2, <3>2, <3>4, <3>5, <3>7 DEF AnswerInv
  <2>3. QED
    BY <1>1, <2>1, <2>2 DEF AnswerInv
<1>9. DeleteInv(new) /\ PageInv(new)
  BY <1>1, <1>2 DEF WalkInv, DeleteInv, PageInv
<1>10. QED
  BY <1>7, <1>8, <1>9 DEF WalkInv

LEMMA FirstWalks ==
  ASSUME NEW s \in ProcStates, NEW new \in ProcStates, Fits(s), WalkInv(s),
         s.pc = "answered", s.call.op = "keys", FirstOf(new, s)
  PROVE  WalkInv(new)
<1>1. /\ new.cursor = s.cursor /\ new.task = s.task /\ new.page = s.page
      /\ new.todo = s.todo /\ new.pc # "delete"
      /\ \/ s.task = "events" /\ new.pc = "item" /\ new.call = NoCall
         \/ s.task # "events" /\ new.pc = "get" /\ new.call = PageCall(0)
  BY DEF FirstOf, Keeps, SameHand
<1>2. /\ ~InHand(s) /\ ~Paged(s) /\ Asking(s)
      /\ s.task = "refresh" => s.page = 0
  BY DEF InHand, Paged, Asking, WalkInv, PageInv
<1>3. new.pc = "get" => ~InHand(new) /\ ~Paged(new)
  BY <1>1 DEF InHand, Paged, HasAnswer, NetPcs, PageCall
<1>4. ASSUME NEW m \in Msgs, Owes(s, m) PROVE Owes(new, m)
  BY <1>1, <1>2, <1>3, <1>4 DEF Owes, StillLists, FilePcs
<1>5. CursorInv(new)
  BY <1>1, <1>4, PassOn DEF WalkInv
<1>6. PageInv(new)
  BY <1>1, <1>2 DEF PageInv, PageCall
<1>7. QED
  BY <1>1, <1>5, <1>6, WalkIf DEF NetPcs, NoCall

LEMMA EndedWalks ==
  ASSUME NEW s \in ProcStates, NEW new \in ProcStates, NothingOwed(s), EndedAs(new, s)
  PROVE  WalkInv(new)
<1>1. /\ new.cursor = s.cursor /\ new.task = "idle"
      /\ \/ new.pc = "get"
         \/ new.pc = "truncate" /\ new.file = "cursor" /\ new.call = NoCall
  BY DEF EndedAs
<1>2. CursorInv(new) /\ PageInv(new)
  BY <1>1, NotOwing DEF PageInv
<1>3. QED
  BY <1>1, <1>2, WalkIf DEF NetPcs, FilePcs, NoCall

\* Any task but a refresh or the events of an answer has nothing to do for its cursor.
LEMMA OthersOwe ==
  ASSUME NEW s \in ProcStates, WalkInv(s), s.task \notin {"refresh", "events"},
         s.pc \notin {"delete"} \union FilePcs \/ (s.pc \in FilePcs /\ s.file # "cursor")
  PROVE  NothingOwed(s)
<1>1. \A m \in Msgs : ~Owes(s, m)
  BY DEF Owes, FilePcs
<1>2. QED
  BY <1>1, OwesNothing DEF WalkInv

LEMMA PagedWalks ==
  ASSUME Typed, NEW s \in ProcStates, NEW new \in ProcStates, Fits(s), WalkInv(s),
         s.pc = "answered", s.call.op = "page"
  PROVE  /\ PagedAs(new, s) => WalkInv(new)
         /\ s.answer.items = <<>> /\ EndedAs(new, s) => WalkInv(new)
<1>1. /\ ~InHand(s) /\ Paged(s)
  BY DEF InHand, Paged, Asking, HasAnswer, NetPcs
<1>2. s.task # "events"
  BY DEF Fits, CallFits, Walks
<1>3. ASSUME PagedAs(new, s) PROVE WalkInv(new)
  <2>1. /\ new.cursor = s.cursor /\ new.task = s.task /\ new.page = s.page
        /\ new.todo = s.answer.items /\ new.pc = "item" /\ new.call = NoCall
        /\ new.last => (s.page + 1) * setting.pageSize >= s.answer.total
    BY <1>3 DEF PagedAs, Keeps
  <2>2. InHand(new)
    BY <2>1 DEF InHand
  <2>3. ~((s.page + 1) * setting.pageSize < s.answer.total) \/ ~new.last
    <3>1. s.answer.total \in Nat
      BY DEF Fits, HandFits, IsAnswer, Asking, NetPcs
    <3>2. (s.page + 1) * setting.pageSize >= s.answer.total
            => ~((s.page + 1) * setting.pageSize < s.answer.total)
      <4>0. s.page \in Nat /\ setting.pageSize \in Nat
        BY ClientAssumption DEF ProcStates, Typed, TypeOK
      <4>1. PICK bound \in Nat : bound = (s.page + 1) * setting.pageSize
        BY <4>0
      <4>2. bound >= s.answer.total => ~(bound < s.answer.total)
        BY <3>1
      <4>3. QED
        BY <4>1, <4>2
    <3>3. QED
      BY <2>1, <3>2
  <2>4. ASSUME NEW m \in Msgs, Owes(s, m) PROVE Owes(new, m)
    <3>1. s.task = "refresh" /\ StillLists(s, m)
      BY <1>2, <2>4 DEF Owes, FilePcs
    <3>2. StillLists(new, m)
      BY <1>1, <2>1, <2>2, <2>3, <3>1 DEF StillLists
    <3>3. QED
      BY <2>1, <3>1, <3>2 DEF Owes
  <2>5. CursorInv(new)
    BY <2>1, <2>4, PassOn DEF WalkInv
  <2>6. QED
    BY <2>1, <2>5, WalkIf DEF NoCall
<1>4. ASSUME s.answer.items = <<>>, EndedAs(new, s) PROVE WalkInv(new)
  <2>1. \A m \in Msgs : ~Owes(s, m)
    BY <1>1, <1>2, <1>4, IdsAre DEF Owes, StillLists, FilePcs
  <2>2. NothingOwed(s)
    BY <2>1, OwesNothing DEF WalkInv
  <2>3. QED
    BY <1>4, <2>2, EndedWalks
<1>5. QED
  BY <1>3, <1>4

LEMMA ChangesWalk ==
  ASSUME Typed, NEW s \in ProcStates, NEW new \in ProcStates, Fits(s), WalkInv(s),
         s.pc = "answered", s.call.op = "event", ChangesAs(new, s) \/ RefreshAs(new, s)
  PROVE  WalkInv(new)
<1>1. HasAnswer(s) /\ s.task = "idle" /\ s.answer \in EventAnswers
  BY DEF HasAnswer, Asking, NetPcs, Fits, CallFits, HandFits, IsAnswer
<1>2. /\ s.answer.upto \in Nat /\ s.answer.changes \in SUBSET Entries
  BY <1>1 DEF EventAnswers
<1>3. /\ s.answer.upto <= Len(log)
      /\ Lacking(s.answer.upto) \subseteq Named(s.answer.changes, {"create", "update"})
      /\ \A m \in Named(s.answer.changes, {"delete"}) : mails[m] = Gone
  BY <1>1 DEF WalkInv, AnswerInv
<1>4. CASE ChangesAs(new, s)
  <2>1. /\ new.cursor = s.answer.upto /\ new.pc = "delete" /\ new.call = NoCall
        /\ new.changes = s.answer.changes /\ new.task = "idle"
        /\ new.todo = Changed(s.answer.changes, {"delete"})
    BY <1>1, <1>4 DEF ChangesAs
  <2>2. CursorInv(new)
    BY <1>3, <2>1 DEF CursorInv, Owes
  <2>3. IdsOf(new.todo) = Named(s.answer.changes, {"delete"})
    BY <1>2, <2>1, NamedIs
  <2>4. DeleteInv(new)
    BY <1>3, <2>3 DEF DeleteInv
  <2>5. AnswerInv(new) /\ PageInv(new)
    BY <2>1 DEF AnswerInv, PageInv, HasAnswer, Asking, NetPcs, FilePcs
  <2>6. QED
    BY <2>2, <2>4, <2>5 DEF WalkInv
<1>5. CASE RefreshAs(new, s)
  <2>1. /\ new.cursor = s.answer.upto /\ new.pc = "get" /\ new.call \in {NoCall, PageCall(0)}
        /\ new.task = "refresh" /\ new.page = 0
    BY <1>5 DEF RefreshAs
  <2>2. ~InHand(new) /\ ~Paged(new)
    BY <2>1 DEF InHand, Paged, HasAnswer, NetPcs, NoCall, PageCall
  <2>3. setting.pageSize \in Nat
    BY ClientAssumption DEF Typed, TypeOK
  <2>4. \A m \in Lacking(new.cursor) : m \in Msgs /\ Exists(mails, m)
    BY DEF Lacking
  <2>5. \A m \in Lacking(new.cursor) : Owes(new, m)
    BY <2>1, <2>2, <2>3, <2>4, AllLater DEF Owes, StillLists
  <2>6. CursorInv(new) /\ PageInv(new)
    BY <1>3, <2>1, <2>5 DEF CursorInv, PageInv, NoCall, PageCall
  <2>7. QED
    BY <2>1, <2>6, WalkIf DEF NetPcs
<1>6. QED
  BY <1>4, <1>5

LEMMA AnsweredWalks ==
  ASSUME Typed, NEW s \in ProcStates, NEW new \in ProcStates, Fits(s), WalkInv(s),
         s.pc = "answered", AnsweredAs(new, s)
  PROVE  WalkInv(new)
<1>1. CASE s.call.op = "keys" /\ FirstOf(new, s)
  BY <1>1, FirstWalks
<1>2. CASE s.call.op = "page" /\ s.answer.items = <<>> /\ EndedAs(new, s)
  BY <1>2, PagedWalks
<1>3. CASE s.call.op = "page" /\ PagedAs(new, s)
  BY <1>3, PagedWalks
<1>4. CASE s.call.op = "fetch" /\ FetchedAs(new, s)
  <2>1. /\ new.cursor = s.cursor /\ new.task = s.task /\ new.page = s.page /\ new.last = s.last
        /\ new.todo = s.todo /\ new.pc = "truncate" /\ new.file = "cache" /\ new.call = s.call
    BY <1>4 DEF FetchedAs, Keeps, SameHand
  <2>2. InHand(s) /\ InHand(new) /\ ~Paged(s)
    BY <1>4, <2>1 DEF InHand, Paged
  <2>3. ASSUME NEW m \in Msgs, Owes(s, m) PROVE Owes(new, m)
    BY <2>1, <2>2, <2>3 DEF Owes, StillLists, FilePcs
  <2>4. CursorInv(new)
    BY <2>1, <2>3, PassOn DEF WalkInv
  <2>5. QED
    BY <1>4, <2>1, <2>4, WalkIf DEF FilePcs
<1>5. CASE s.call.op = "latest" /\ LatestAs(new, s)
  <2>1. /\ new.cursor = s.answer.upto /\ new.pc = "truncate" /\ new.file = "cursor"
        /\ new.call = s.call
    BY <1>5 DEF LatestAs
  <2>2. s.answer.upto <= Len(log)
    BY <1>5 DEF WalkInv, AnswerInv, HasAnswer, Asking, NetPcs
  <2>3. CursorInv(new)
    BY <1>5, <2>1, <2>2 DEF CursorInv, Owes, FilePcs
  <2>4. QED
    BY <1>5, <2>1, <2>3, WalkIf DEF FilePcs
<1>6. CASE s.call.op = "event" /\ (ChangesAs(new, s) \/ RefreshAs(new, s))
  BY <1>6, ChangesWalk
<1>7. QED
  BY <1>1, <1>2, <1>3, <1>4, <1>5, <1>6 DEF AnsweredAs

LEMMA DeletedWalks ==
  ASSUME NEW s \in ProcStates, NEW new \in ProcStates, Fits(s), WalkInv(s),
         s.pc = "delete", DeletedAs(new, s)
  PROVE  WalkInv(new)
<1>1. s.task = "idle" /\ s.todo \in Seq(Items) /\ s.changes \in SUBSET Entries
  BY DEF Fits, HandFits, ProcStates
<1>2. CASE s.todo # <<>> /\ new.pc = "delete"
  <2>1. /\ new.cursor = s.cursor /\ new.task = "idle" /\ new.changes = s.changes
        /\ new.todo = Tail(s.todo)
    BY <1>1, <1>2 DEF DeletedAs, Keeps
  <2>2. ASSUME NEW m \in Msgs, Owes(s, m) PROVE Owes(new, m)
    BY <1>1, <1>2, <2>1, <2>2 DEF Owes, FilePcs
  <2>3. CursorInv(new)
    BY <2>1, <2>2, PassOn DEF WalkInv
  <2>4. IdsOf(new.todo) \subseteq IdsOf(s.todo)
    BY <1>1, <1>2, <2>1, IdsAre
  <2>5. DeleteInv(new)
    BY <2>4 DEF WalkInv, DeleteInv
  <2>6. AnswerInv(new) /\ PageInv(new)
    BY <1>2, <2>1 DEF AnswerInv, PageInv, HasAnswer, Asking, NetPcs, FilePcs
  <2>7. QED
    BY <2>3, <2>5, <2>6 DEF WalkInv
<1>3. CASE new.pc # "delete"
  <2>1. /\ new.cursor = s.cursor /\ new.task = "events" /\ new.todo = SyncIds(s.changes)
        /\ new.pc \in {"get", "item"} /\ new.call = NoCall
    BY <1>3 DEF DeletedAs
  <2>2. IdsOf(new.todo) = Named(s.changes, {"create", "update"})
    BY <1>1, <2>1, NamedIs DEF SyncIds
  <2>3. ASSUME NEW m \in Msgs, Owes(s, m) PROVE Owes(new, m)
    BY <1>1, <2>1, <2>2, <2>3 DEF Owes, FilePcs
  <2>4. CursorInv(new)
    BY <2>1, <2>3, PassOn DEF WalkInv
  <2>5. QED
    BY <2>1, <2>4, WalkIf DEF NetPcs, NoCall, PageInv
<1>4. QED
  BY <1>2, <1>3 DEF DeletedAs

LEMMA ItemWalks ==
  ASSUME NEW s \in ProcStates, NEW new \in ProcStates, Fits(s), WalkInv(s),
         s.pc = "item", s.task # "send", ItemAs(new, s)
  PROVE  WalkInv(new)
<1>1. InHand(s) /\ ~Paged(s) /\ s.call = NoCall /\ s.page \in Nat
  BY DEF InHand, Paged, HasAnswer, Asking, NetPcs, FilePcs, Fits, HandFits, ProcStates
<1>2. CASE new.pc \in {"ingest", "get"} /\ SameHand(new, s) /\ Keeps(new, s) /\ s.todo # <<>>
           /\ (new.pc = "ingest" => new.call = NoCall)
           /\ (new.pc = "get" => new.call.op = "fetch")
  <2>1. /\ new.cursor = s.cursor /\ new.task = s.task /\ new.page = s.page /\ new.last = s.last
        /\ new.todo = s.todo
    BY <1>2 DEF Keeps, SameHand
  <2>2. InHand(new) /\ ~Paged(new)
    BY <1>2 DEF InHand, Paged, HasAnswer, Asking, NetPcs, FilePcs
  <2>3. ASSUME NEW m \in Msgs, Owes(s, m) PROVE Owes(new, m)
    BY <1>1, <2>1, <2>2, <2>3 DEF Owes, StillLists, FilePcs
  <2>4. CursorInv(new)
    BY <2>1, <2>3, PassOn DEF WalkInv
  <2>5. QED
    BY <1>2, <2>4, WalkIf DEF NetPcs, NoCall, PageInv
<1>3. CASE s.task = "sync" /\ new.pc = "item" /\ new.call = NoCall /\ Keeps(new, s)
           /\ new.task = s.task
  <2>1. NothingOwed(s)
    BY <1>3, OthersOwe DEF FilePcs
  <2>2. CursorInv(new)
    BY <1>3, <2>1, NotOwing DEF Keeps
  <2>3. QED
    BY <1>3, <2>2, WalkIf DEF NoCall
<1>4. CASE s.todo = <<>> /\ (s.task = "events" \/ s.last) /\ EndedAs(new, s)
  <2>1. \A m \in Msgs : ~Owes(s, m)
    BY <1>1, <1>4, IdsAre DEF Owes, StillLists, FilePcs
  <2>2. NothingOwed(s)
    BY <2>1, OwesNothing DEF WalkInv
  <2>3. QED
    BY <1>4, <2>2, EndedWalks
<1>5. CASE s.todo = <<>> /\ s.task \in Walks /\ Keeps(new, s) /\ new.pc = "get"
           /\ new.call = PageCall(s.page + 1) /\ new.task = s.task /\ new.page = s.page + 1
  <2>1. new.cursor = s.cursor /\ ~InHand(new) /\ ~Paged(new)
    BY <1>5 DEF Keeps, InHand, Paged, HasAnswer, NetPcs, PageCall
  <2>2. ASSUME NEW m \in Msgs, Owes(s, m) PROVE Owes(new, m)
    <3>1. s.task = "refresh" /\ m \in Later(s.page + 1)
      BY <1>1, <1>5, <2>2, IdsAre DEF Owes, StillLists, FilePcs, Walks
    <3>2. QED
      BY <1>5, <2>1, <3>1 DEF Owes, StillLists
  <2>3. CursorInv(new)
    BY <2>1, <2>2, PassOn DEF WalkInv
  <2>4. PageInv(new)
    BY <1>5 DEF PageInv, PageCall
  <2>5. QED
    BY <1>5, <2>3, <2>4, WalkIf DEF NetPcs
<1>6. QED
  BY <1>2, <1>3, <1>4, <1>5 DEF ItemAs

LEMMA PollsWalk ==
  ASSUME NEW s \in ProcStates, NEW new \in ProcStates, Fits(s), WalkInv(s),
         s.pc = "next", PollsAs(new, s)
  PROVE  WalkInv(new)
<1>1. new.cursor = s.cursor /\ new.task = "idle" /\ s.task = "idle" /\ new.pc = "get"
  BY DEF PollsAs, Keeps, SameHand, Fits, HandFits
<1>2. NothingOwed(s)
  BY <1>1, OthersOwe DEF FilePcs
<1>3. CursorInv(new) /\ PageInv(new)
  BY <1>1, <1>2, NotOwing DEF PageInv
<1>4. QED
  BY <1>1, <1>3, WalkIf DEF NetPcs

\* A command that begins, on the cursor that it has loaded.
LEMMA FreshWalks ==
  ASSUME NEW new \in ProcStates,
         \/ new.cursor = None
         \/ new.cursor = cursorFile /\ FileInv,
         \/ new.pc \in NetPcs /\ new.task # "refresh"
         \/ new.pc = "truncate" /\ new.task = "idle" /\ new.call.op = "login"
         \/ new.pc = "idle" /\ new.call = NoCall
  PROVE  WalkInv(new)
<1>1. CursorInv(new)
  BY ClientAssumption DEF CursorInv, FileInv
<1>2. new.pc \in NetPcs /\ new.task # "refresh" => PageInv(new)
  BY DEF PageInv
<1>3. new.pc = "truncate" /\ new.task = "idle" /\ new.call.op = "login" => WalkInv(new)
  BY <1>1 DEF WalkInv, AnswerInv, DeleteInv, PageInv
<1>4. QED
  BY <1>1, <1>2, <1>3, WalkIf DEF NetPcs, NoCall

\* A session that was refreshed, or a file that is written.
LEMMA MovedWalks ==
  ASSUME NEW s \in ProcStates, NEW new \in ProcStates, NEW pc, Fits(s), WalkInv(s),
         MovedAs(new, s, pc),
         \/ s.pc = "get" /\ pc = "refresh"
         \/ s.pc = "truncate" /\ pc = "write"
         \/ s.pc = "write" /\ s.file = "session" /\ pc = "answered"
         \/ s.pc = "write" /\ s.file = "cache" /\ pc = "ingest"
  PROVE  WalkInv(new)
<1>1. /\ new.cursor = s.cursor /\ new.task = s.task /\ new.page = s.page /\ new.last = s.last
      /\ new.todo = s.todo /\ new.changes = s.changes /\ new.call = s.call
      /\ new.file = s.file /\ new.answer = s.answer /\ new.pc = pc
  BY DEF MovedAs, Keeps, SameHand
<1>2. /\ s.pc = "write" /\ s.file = "cache" => s.call.op = "fetch"
  BY DEF Fits, HandFits, FilePcs
<1>3. /\ InHand(new) <=> InHand(s)
      /\ Paged(new) <=> Paged(s)
      /\ HasAnswer(new) <=> HasAnswer(s)
      /\ Asking(new) <=> Asking(s)
  BY <1>1, <1>2 DEF InHand, Paged, HasAnswer, Asking, NetPcs, FilePcs
<1>4. ASSUME NEW m \in Msgs, Owes(s, m) PROVE Owes(new, m)
  BY <1>1, <1>2, <1>3, <1>4 DEF Owes, StillLists, FilePcs
<1>5. CursorInv(new)
  BY <1>1, <1>4, PassOn DEF WalkInv
<1>6. QED
  BY <1>1, <1>3, <1>5 DEF WalkInv, AnswerInv, DeleteInv, PageInv

LEMMA RefreshedWalks ==
  ASSUME NEW s \in ProcStates, NEW new \in ProcStates, Fits(s), WalkInv(s),
         s.pc = "refresh", RefreshedAs(new, s)
  PROVE  WalkInv(new)
<1>1. /\ new.cursor = s.cursor /\ new.task = s.task /\ new.page = s.page /\ new.last = s.last
      /\ new.todo = s.todo /\ new.changes = s.changes /\ new.call = s.call
  BY DEF RefreshedAs, SameHand
<1>2. CASE s.call.op # "check"
  <2>1. new.pc = "retry"
    BY <1>2 DEF RefreshedAs
  <2>2. /\ InHand(new) <=> InHand(s)
        /\ ~Paged(new) /\ ~Paged(s) /\ Asking(s)
    BY <1>1, <2>1 DEF InHand, Paged, HasAnswer, Asking, NetPcs
  <2>3. ASSUME NEW m \in Msgs, Owes(s, m) PROVE Owes(new, m)
    BY <1>1, <2>2, <2>3 DEF Owes, StillLists, FilePcs
  <2>4. CursorInv(new)
    BY <1>1, <2>3, PassOn DEF WalkInv
  <2>5. PageInv(new)
    BY <1>1, <2>2 DEF WalkInv, PageInv
  <2>6. QED
    BY <2>1, <2>4, <2>5, WalkIf DEF NetPcs
<1>3. CASE s.call.op = "check"
  <2>1. new.pc = "truncate" /\ new.task = "idle" /\ s.task = "idle"
    BY <1>1, <1>3 DEF RefreshedAs, Fits, CallFits
  <2>2. NothingOwed(s)
    BY <2>1, OthersOwe DEF FilePcs
  <2>3. CursorInv(new)
    BY <1>1, <2>2, NotOwing
  <2>4. QED
    BY <1>1, <1>3, <2>1, <2>3 DEF WalkInv, AnswerInv, DeleteInv, PageInv
<1>4. QED
  BY <1>2, <1>3

LEMMA SendWalks ==
  ASSUME NEW s \in ProcStates, NEW new \in ProcStates, Fits(s), WalkInv(s),
         s.pc = "answered", s.task = "send", new.cursor = s.cursor, new.task = "send", new.pc = "get"
  PROVE  WalkInv(new)
<1>1. NothingOwed(s)
  BY OthersOwe DEF FilePcs
<1>2. CursorInv(new) /\ PageInv(new)
  BY <1>1, NotOwing DEF PageInv
<1>3. QED
  BY <1>2, WalkIf DEF NetPcs

-----------------------------------------------------------------------------
(* Rows: no message that exists loses its row *)

LEMMA RowsCalm ==
  ASSUME Typed, Typed', MissInv, NEW p \in Processes, NEW s \in ProcStates, s = procs[p],
         MarkDeleted(p) \/ Ingest(p)
  PROVE  /\ \A m \in Msgs : Live(m) /\ Exists(mails, m) => Live(m)'
         /\ Ingest(p) => Live(Head(s.todo).id)'
<1>1. Fits(s) /\ WalkInv(s)
  BY DEF Typed, MissInv
<1>2. rows \in [Msgs -> Rows \union {None}] /\ s.todo \in Seq(Items)
  BY DEF Typed, TypeOK, ProcStates
<1>3. CASE Ingest(p)
  <2>1. /\ rows' = [rows EXCEPT ![Head(s.todo).id] = RowOf(s.answer.state)]
        /\ s.todo # <<>> /\ s.answer.state \in MailStates
    BY <1>1, <1>3, IngestIs
  <2>2. PICK id \in Msgs : id = Head(s.todo).id
    <3>1. Head(s.todo) \in Items
      BY <1>2, <2>1
    <3>2. QED
      BY <3>1 DEF Items
  <2>3. PICK row \in Rows : row = RowOf(s.answer.state)
    BY <2>1, RowTyped
  <2>4. row.live /\ row # None
    BY <2>3, ClientAssumption DEF RowOf
  <2>5. rows'[id] = row /\ \A m \in Msgs : m # id => rows'[m] = rows[m]
    BY <1>2, <2>1, <2>2, <2>3
  <2>6. Live(id)'
    BY <2>4, <2>5 DEF Live
  <2>7. \A m \in Msgs : m # id /\ Live(m) => Live(m)'
    BY <2>5 DEF Live
  <2>8. QED
    BY <1>1, <2>2, <2>6, <2>7
<1>4. CASE MarkDeleted(p)
  <2>1. s.pc = "delete"
    BY <1>1, <1>4, MarkDeletedIs
  <2>2. CASE s.todo = <<>>
    <3>1. rows' = rows
      BY <1>1, <1>4, <2>2 DEF MarkDeleted
    <3>2. QED
      BY <1>4, <3>1, IngestIs DEF Live, Ingest, MarkDeleted, At
  <2>3. CASE s.todo # <<>>
    <3>1. PICK id \in Msgs : id = Head(s.todo).id /\ id \in IdsOf(s.todo)
      <4>1. Head(s.todo) \in Items
        BY <1>2, <2>3
      <4>2. QED
        BY <1>2, <2>3, <4>1, IdsAre DEF Items
    <3>2. ~Exists(mails, id)
      BY <1>1, <2>1, <3>1, ProtonAssumption DEF WalkInv, DeleteInv, Exists
    <3>3. \A m \in Msgs : m # id => rows'[m] = rows[m]
      BY <1>1, <1>2, <1>4, <2>3, <3>1 DEF MarkDeleted
    <3>4. \A m \in Msgs : m # id /\ Live(m) => Live(m)'
      BY <3>3 DEF Live
    <3>5. QED
      BY <1>4, <3>2, <3>4 DEF Ingest, MarkDeleted, At
  <2>4. QED
    BY <2>2, <2>3
<1>5. QED
  BY <1>3, <1>4

\* A cursor is saved when nothing is owed for it, or as the first cursor.
LEMMA SavedIs ==
  ASSUME Typed, Typed', LogInv, Calm, NEW p \in Processes, NEW s \in ProcStates, s = procs[p],
         Fits(s), WalkInv(s), Write(p), s.file = "cursor"
  PROVE  /\ s.cursor \in Nat /\ s.cursor <= Len(log') /\ Lacking(s.cursor)' = {}
         /\ cursorFile' = s.cursor
<1>1. s.pc = "write" /\ s.cursor \in Nat /\ s.task = "idle"
  BY WriteIs DEF Fits, HandFits, FilePcs
<1>2. s.cursor <= Len(log)
  BY <1>1 DEF WalkInv, CursorInv
<1>3. s.cursor <= Len(log')
  BY <1>1, <1>2, LackingShrinks
<1>4. cursorFile' = s.cursor
  BY DEF Write, Written
<1>5. CASE s.call.op = "latest"
  <2>1. since' = IF s.cursor > since THEN s.cursor ELSE since
    BY <1>5 DEF Write, AfterWrite
  <2>2. since \in Nat /\ since' \in Nat
    BY DEF Typed, TypeOK
  <2>3. s.cursor <= since'
    BY <1>1, <2>1, <2>2
  <2>4. (since' + 1)..s.cursor = {}
    BY <1>1, <2>2, <2>3
  <2>5. Lacking(s.cursor)' = {}
    BY <2>4 DEF Lacking
  <2>6. QED
    BY <1>1, <1>3, <1>4, <2>5
<1>6. CASE s.call.op # "latest"
  <2>1. \A m \in Msgs : ~Owes(s, m)
    BY <1>1, <1>6 DEF Owes
  <2>2. Lacking(s.cursor) = {}
    BY <1>1, <2>1, OwesNothing DEF WalkInv, NothingOwed
  <2>3. Lacking(s.cursor)' = {}
    BY <1>1, <1>2, <2>2, LackingShrinks
  <2>4. QED
    BY <1>1, <1>3, <1>4, <2>3
<1>7. QED
  BY <1>5, <1>6

\* A step of a process leaves the server alone, and the others' rows and cursors.
LEMMA StepIsCalm ==
  ASSUME Typed, Typed', MissInv, NEW p \in Processes,
         \/ Poll(p) \/ StartSync(p) \/ SessionCheck(p) \/ Login(p) \/ Step(p)
         \/ RequestFails(p) \/ Kill(p) \/ StartSend(p) \/ SendAnswered(p)
  PROVE  Calm /\ LogInv' /\ UNCHANGED <<setting, mails, log>>
<1>1. UNCHANGED <<setting, mails, log>>
  BY DEF Poll, StartPoll, StartSync, SessionCheck, Login, Step, Ask, RefreshSession, Truncate,
         Write, AfterWrite, Answered, MarkDeleted, Item, Ingest, NextEvent, RequestFails, Kill,
         StartSend, SendAnswered, serverVars
<1>2. since <= since'
  <2>1. since \in Nat /\ since' \in Nat
    BY DEF Typed, TypeOK
  <2>2. CASE Write(p)
    <3>1. PICK s \in ProcStates : s = procs[p] /\ s.cursor \in Nat \union {None}
      BY DEF Typed, TypeOK, ProcStates
    <3>2. /\ s.pc = "write"
          /\ s.file = "cursor" => s.cursor \in Nat
      BY <2>2, <3>1, WriteIs DEF Typed, Fits, HandFits, FilePcs
    <3>3. \/ since' = since
          \/ s.file = "cursor" /\ s.cursor > since /\ since' = s.cursor
      BY <2>2, <3>1 DEF Write, AfterWrite
    <3>4. QED
      BY <2>1, <3>2, <3>3
  <2>3. CASE ~Write(p)
    <3>1. since' = since
      BY <2>3 DEF Poll, StartPoll, StartSync, SessionCheck, Login, Step, Ask, RefreshSession, Truncate,
         Answered, MarkDeleted, Item, Ingest, NextEvent, RequestFails, Kill, StartSend, SendAnswered
    <3>2. QED
      BY <2>1, <3>1
  <2>4. QED
    BY <2>2, <2>3
<1>3. \A m \in Msgs : Live(m) /\ Exists(mails, m) => Live(m)'
  <2>1. CASE MarkDeleted(p) \/ Ingest(p)
    <3>1. PICK s \in ProcStates : s = procs[p]
      BY DEF Typed, TypeOK
    <3>2. QED
      BY <2>1, <3>1, RowsCalm
  <2>2. CASE ~(MarkDeleted(p) \/ Ingest(p))
    <3>1. rows' = rows
      BY <2>2 DEF Poll, StartPoll, StartSync, SessionCheck, Login, Step, Ask, RefreshSession, Truncate,
         Write, AfterWrite, Answered, Item, NextEvent, RequestFails, Kill, StartSend, SendAnswered
    <3>2. QED
      BY <3>1 DEF Live
  <2>3. QED
    BY <2>1, <2>2
<1>4. LogInv'
  BY <1>1 DEF MissInv, LogInv
<1>5. Len(log) \in Nat
  BY DEF Typed, TypeOK
<1>6. \A page \in Nat : \A m \in Later(page) : m \in Later(page)'
  BY <1>1 DEF Later
<1>7. Calm
  BY <1>1, <1>2, <1>3, <1>5, <1>6 DEF Calm
<1>8. QED
  BY <1>1, <1>4, <1>7

\* The processes after a step of one of them.
LEMMA OthersWalk ==
  ASSUME Typed, Typed', MissInv, Calm, NEW p \in Processes, NEW new \in ProcStates,
         Become(p, new), WalkInv(new) \/ WalkInv(new)'
  PROVE  \A q \in Processes, r \in ProcStates : r = procs'[q] => WalkInv(r)'
<1>1. procs'[p] = new /\ \A q \in Processes \ {p} : procs'[q] = procs[q]
  BY SendingIs
<1>2. LogInv
  BY DEF MissInv
<1>3. Fits(new)
  BY <1>1 DEF Typed
<1>4. WalkInv(new)'
  BY <1>2, <1>3, WalkStays
<1>5. ASSUME NEW q \in Processes \ {p}, NEW r \in ProcStates, r = procs'[q]
      PROVE  WalkInv(r)'
  <2>1. r = procs[q] /\ Fits(r)
    BY <1>1, <1>5 DEF Typed
  <2>2. WalkInv(r)
    BY <2>1 DEF MissInv
  <2>3. QED
    BY <1>2, <2>1, <2>2, WalkStays
<1>6. QED
  BY <1>1, <1>4, <1>5

\* Whatever it does, what a process owes is in its hands.
LEMMA StepWalks ==
  ASSUME Typed, Typed', MissInv, NEW p \in Processes, NEW s \in ProcStates, s = procs[p],
         \/ Poll(p) \/ StartSync(p) \/ SessionCheck(p) \/ Login(p) \/ Step(p)
         \/ RequestFails(p) \/ Kill(p) \/ StartSend(p) \/ SendAnswered(p)
  PROVE  \E new \in ProcStates : Become(p, new) /\ (WalkInv(new) \/ WalkInv(new)')
<1>1. Fits(s) /\ WalkInv(s) /\ LogInv /\ FileInv /\ Calm
  BY StepIsCalm DEF Typed, MissInv
<1> DEFINE Goes == \E new \in ProcStates : Become(p, new) /\ (WalkInv(new) \/ WalkInv(new)')
<1>2. ASSUME Stop(p) PROVE Goes
  <2>1. PICK new \in ProcStates : new = Idle
    BY IdleIs
  <2>2. new.cursor = None /\ new.pc = "idle" /\ new.call = NoCall
    BY <2>1, IdleIs
  <2>3. WalkInv(new)
    BY <2>2, FreshWalks
  <2>4. QED
    BY <1>2, <2>1, <2>3 DEF Stop
<1>3. ASSUME NEW new \in ProcStates, Become(p, new), WalkInv(new) PROVE Goes
  BY <1>3
<1>4. CASE Poll(p) \/ StartSync(p)
  <2>1. ASSUME NEW new \in ProcStates, StartedAs(new) PROVE WalkInv(new)
    <3>1. /\ new.pc = "get" /\ new.task # "refresh"
          /\ new.cursor = None \/ new.cursor = cursorFile
      BY <2>1 DEF StartedAs
    <3>2. QED
      BY <1>1, <3>1, FreshWalks DEF NetPcs
  <2>2. QED
    BY <1>2, <1>3, <1>4, <2>1, StartPollIs, StartSyncIs DEF Poll
<1>5. CASE SessionCheck(p) \/ Login(p)
  <2>1. ASSUME NEW new \in ProcStates, NEW session,
               \/ CommandAs(new, "refresh", "check", session)
               \/ CommandAs(new, "truncate", "login", session)
        PROVE  WalkInv(new)
    <3>1. /\ new.cursor = None /\ new.task = "idle"
          /\ new.pc = "refresh" \/ (new.pc = "truncate" /\ new.call.op = "login")
      BY <2>1 DEF CommandAs
    <3>2. QED
      BY <3>1, FreshWalks DEF NetPcs
  <2>2. QED
    BY <1>3, <1>5, <2>1, SessionCommandIs
<1>6. CASE Ask(p)
  <2>1. ASSUME s.pc \in {"get", "retry"}, NEW new \in ProcStates, AskedAs(new, s)
        PROVE  WalkInv(new)
    BY <1>1, <2>1, AskedWalks
  <2>2. ASSUME s.pc = "get", NEW new \in ProcStates, MovedAs(new, s, "refresh")
        PROVE  WalkInv(new)
    BY <1>1, <2>2, MovedWalks
  <2>3. QED
    BY <1>2, <1>3, <1>6, <2>1, <2>2, AskIs
<1>7. CASE RefreshSession(p)
  BY <1>1, <1>2, <1>3, <1>7, RefreshIs, RefreshedWalks
<1>8. CASE Truncate(p)
  BY <1>1, <1>3, <1>8, TruncateIs, MovedWalks
<1>9. CASE Write(p)
  <2>1. PICK new \in ProcStates :
          /\ Become(p, new)
          /\ \/ s.file = "session" /\ MovedAs(new, s, "answered")
             \/ s.file = "cursor" /\ MovedAs(new, s, "next")
             \/ s.file = "cache" /\ MovedAs(new, s, "ingest")
    BY <1>9, WriteIs
  <2>2. s.pc = "write"
    BY <1>9, WriteIs
  <2>3. CASE s.file # "cursor"
    BY <1>1, <1>3, <2>1, <2>2, <2>3, MovedWalks
  <2>4. CASE s.file = "cursor"
    <3>1. /\ s.cursor \in Nat /\ s.cursor <= Len(log') /\ Lacking(s.cursor)' = {}
      BY <1>1, <1>9, <2>4, SavedIs
    <3>2. new.cursor = s.cursor /\ new.pc = "next" /\ new.task = s.task /\ s.task = "idle"
      BY <1>1, <2>1, <2>2, <2>4 DEF MovedAs, Keeps, SameHand, Fits, HandFits, FilePcs
    <3>3. CursorInv(new)'
      BY <3>1, <3>2 DEF CursorInv
    <3>4. AnswerInv(new)' /\ DeleteInv(new)' /\ PageInv(new)'
      BY <3>2 DEF AnswerInv, DeleteInv, PageInv, HasAnswer, Asking, NetPcs, FilePcs
    <3>5. WalkInv(new)'
      BY <3>3, <3>4 DEF WalkInv
    <3>6. QED
      BY <2>1, <3>5
  <2>5. QED
    BY <2>3, <2>4
<1>10. CASE Answered(p)
  BY <1>1, <1>2, <1>3, <1>10, AnsweredIs, AnsweredWalks
<1>11. CASE MarkDeleted(p)
  BY <1>1, <1>2, <1>3, <1>11, MarkDeletedIs, DeletedWalks
<1>12. CASE Item(p)
  <2>1. s.pc = "item" /\ s.task # "send"
    BY <1>12, ItemIs DEF Walks
  <2>2. QED
    BY <1>1, <1>2, <1>3, <1>12, <2>1, ItemIs, ItemWalks
<1>13. CASE Ingest(p)
  <2>1. /\ s.pc = "ingest" /\ s.todo # <<>>
        /\ Stop(p) \/ \E new \in ProcStates : Become(p, new) /\ IngestedAs(new, s)
    BY <1>13, IngestIs
  <2>2. ASSUME NEW new \in ProcStates, Become(p, new), IngestedAs(new, s) PROVE WalkInv(new)'
    <3>1. /\ new.cursor = s.cursor /\ new.task = s.task /\ new.page = s.page /\ new.last = s.last
          /\ new.todo = Tail(s.todo) /\ new.pc = "item" /\ new.call = NoCall
      BY <2>2 DEF IngestedAs, Keeps
    <3>2. IdsOf(s.todo) = {Head(s.todo).id} \union IdsOf(new.todo)
      BY <2>1, <3>1, IdsAre DEF ProcStates
    <3>3. Live(Head(s.todo).id)'
      BY <1>13, RowsCalm
    <3>4. WalkInv(s)'
      BY <1>1, WalkStays
    <3>5. /\ InHand(s) /\ InHand(new) /\ ~Paged(s)
      BY <2>1, <3>1 DEF InHand, Paged, HasAnswer, Asking, NetPcs, FilePcs
    <3>6. ASSUME NEW m \in Msgs, Owes(s, m)', m # Head(s.todo).id PROVE Owes(new, m)'
      BY <2>1, <3>1, <3>2, <3>5, <3>6 DEF Owes, StillLists, FilePcs
    <3>7. \A m \in Lacking(s.cursor)' : m \in Msgs /\ m # Head(s.todo).id
      BY <3>3 DEF Lacking
    <3>8. CursorInv(new)'
      BY <3>1, <3>4, <3>6, <3>7 DEF WalkInv, CursorInv
    <3>9. AnswerInv(new)' /\ DeleteInv(new)' /\ PageInv(new)'
      BY <3>1 DEF AnswerInv, DeleteInv, PageInv, HasAnswer, Asking, NetPcs, FilePcs, NoCall
    <3>10. QED
      BY <3>8, <3>9 DEF WalkInv
  <2>3. QED
    BY <1>2, <2>1, <2>2
<1>14. CASE NextEvent(p)
  BY <1>1, <1>2, <1>3, <1>14, NextEventIs, PollsWalk
<1>15. CASE RequestFails(p) \/ Kill(p)
  BY <1>2, <1>15 DEF RequestFails, Kill
<1>16. CASE StartSend(p)
  <2>1. PICK new \in ProcStates : /\ new.pc = "get" /\ new.cursor = None /\ new.task = "send"
                                  /\ Become(p, new)
    BY <1>16, StartSendFits
  <2>2. WalkInv(new)
    BY <2>1, FreshWalks DEF NetPcs
  <2>3. QED
    BY <2>1, <2>2
<1>17. CASE SendAnswered(p)
  <2>1. s.pc = "answered" /\ s.task = "send"
    BY <1>17 DEF SendAnswered, At
  <2>2. ASSUME NEW new \in ProcStates, new.pc = "get", new.cursor = s.cursor, new.task = "send"
        PROVE  WalkInv(new)
    BY <1>1, <2>1, <2>2, SendWalks
  <2>3. QED
    BY <1>2, <1>3, <1>17, <2>2, SendAnsweredFits
<1>18. QED
  BY <1>4, <1>5, <1>6, <1>7, <1>8, <1>9, <1>10, <1>11, <1>12, <1>13, <1>14, <1>15, <1>16, <1>17
  DEF Step

-----------------------------------------------------------------------------
(* The theorem *)

LEMMA FileStays ==
  ASSUME Typed, Typed', LogInv, FileInv, Calm, cursorFile' = cursorFile
  PROVE  FileInv'
<1>1. PICK c \in Nat \union {None, Torn} : c = cursorFile
  BY DEF Typed, TypeOK
<1>2. ASSUME c \in Nat PROVE c <= Len(log') /\ Lacking(c)' = {}
  <2>1. c <= Len(log) /\ Lacking(c) = {}
    BY <1>1, <1>2 DEF FileInv
  <2>2. QED
    BY <1>2, <2>1, LackingShrinks
<1>3. QED
  BY <1>1, <1>2 DEF FileInv

\* The cursor is saved, cut off for a moment, or left alone.
LEMMA FilesKeep ==
  ASSUME Typed, Typed', MissInv, Calm, NEW p \in Processes,
         \/ Poll(p) \/ StartSync(p) \/ SessionCheck(p) \/ Login(p) \/ Step(p)
         \/ RequestFails(p) \/ Kill(p) \/ StartSend(p) \/ SendAnswered(p)
  PROVE  FileInv'
<1>1. PICK s \in ProcStates : s = procs[p]
  BY DEF Typed, TypeOK
<1>2. Fits(s) /\ WalkInv(s) /\ LogInv /\ FileInv
  BY <1>1 DEF Typed, MissInv
<1>3. CASE Write(p) /\ s.file = "cursor"
  <2>1. PICK c \in Nat : c = s.cursor /\ c <= Len(log') /\ Lacking(c)' = {} /\ cursorFile' = c
    BY <1>1, <1>2, <1>3, SavedIs
  <2>2. QED
    BY <2>1 DEF FileInv
<1>4. CASE Truncate(p) /\ s.file = "cursor"
  <2>1. cursorFile' = Torn
    BY <1>1, <1>4 DEF Truncate, Written
  <2>2. QED
    BY <2>1, ClientAssumption DEF FileInv
<1>5. CASE ~((Write(p) \/ Truncate(p)) /\ s.file = "cursor")
  <2>1. s.file \in {"session", "cursor", "cache"}
    BY DEF ProcStates
  <2>2. Write(p) \/ Truncate(p) => cursorFile' = cursorFile
    BY <1>1, <1>5, <2>1 DEF Write, Truncate, Written
  <2>3. ~Write(p) /\ ~Truncate(p) => cursorFile' = cursorFile
    BY DEF Poll, StartPoll, StartSync, SessionCheck, Login, Step, Ask, RefreshSession,
         Answered, MarkDeleted, Item, Ingest, NextEvent, RequestFails, Kill, StartSend,
         SendAnswered, files
  <2>4. QED
    BY <1>2, <2>2, <2>3, FileStays
<1>6. QED
  BY <1>3, <1>4, <1>5

LEMMA MissStays ==
  ASSUME Typed, Typed', Stable, MissInv, [SendNext]_vars
  PROVE  MissInv'
<1>1. ASSUME UNCHANGED vars PROVE MissInv'
  BY <1>1 DEF MissInv, LogInv, FileInv, WalkInv, CursorInv, AnswerInv, DeleteInv, PageInv, Lacking,
     Owes, StillLists, Later, Live, vars, serverVars, files
<1>2. ASSUME ServerEvent PROVE MissInv'
  <2>1. LogInv' /\ Calm /\ LogInv /\ FileInv
    BY <1>2, ServerIsCalm DEF MissInv
  <2>2. UNCHANGED <<cursorFile, procs>>
    BY <1>2 DEF ServerEvent, files
  <2>3. FileInv'
    BY <2>1, <2>2, FileStays
  <2>4. ASSUME NEW q \in Processes, NEW r \in ProcStates, r = procs'[q] PROVE WalkInv(r)'
    <3>1. Fits(r) /\ WalkInv(r)
      BY <2>2, <2>4 DEF Typed, MissInv
    <3>2. QED
      BY <2>1, <3>1, WalkStays
  <2>5. QED
    BY <2>1, <2>3, <2>4 DEF MissInv
<1>3. ASSUME NEW p \in Processes,
             \/ Poll(p) \/ StartSync(p) \/ SessionCheck(p) \/ Login(p) \/ Step(p)
             \/ RequestFails(p) \/ Kill(p) \/ StartSend(p) \/ SendAnswered(p)
      PROVE  MissInv'
  <2>1. Calm /\ LogInv'
    BY <1>3, StepIsCalm
  <2>2. FileInv'
    BY <1>3, <2>1, FilesKeep
  <2>3. PICK s \in ProcStates : s = procs[p]
    BY DEF Typed, TypeOK
  <2>4. PICK new \in ProcStates : Become(p, new) /\ (WalkInv(new) \/ WalkInv(new)')
    BY <1>3, <2>3, StepWalks
  <2>5. \A q \in Processes, r \in ProcStates : r = procs'[q] => WalkInv(r)'
    BY <2>1, <2>4, OthersWalk
  <2>6. QED
    BY <2>1, <2>2, <2>5 DEF MissInv
<1>4. QED
  BY <1>1, <1>2, <1>3 DEF SendNext, Next

LEMMA MissAtFirst == Init => MissInv
<1> SUFFICES ASSUME Init PROVE MissInv
  OBVIOUS
<1>1. /\ DOMAIN log = {} /\ cursorFile = None
      /\ \A p \in Processes : procs[p] = Idle
  BY DEF Init
<1>2. LogInv /\ FileInv
  BY <1>1, ClientAssumption DEF LogInv, FileInv
<1>3. ASSUME NEW p \in Processes, NEW s \in ProcStates, s = procs[p] PROVE WalkInv(s)
  BY <1>1, <1>3, IdleIs, FreshWalks
<1>4. QED
  BY <1>2, <1>3 DEF MissInv

\* A row for all that the cursor has passed.
LEMMA MissSays ==
  ASSUME Typed, Stable => MissInv
  PROVE  NothingMissed
<1> SUFFICES ASSUME Stable, NEW i \in Passed, log[i].action = "create", Exists(mails, log[i].id)
             PROVE  Live(log[i].id)
  BY DEF NothingMissed, Stable
<1>1. PICK c \in Nat : c = cursorFile /\ i \in (since + 1)..c /\ since \in Nat
  BY ClientAssumption DEF Passed, Typed, TypeOK
<1>2. c <= Len(log) /\ Lacking(c) = {}
  BY <1>1 DEF MissInv, FileInv
<1>3. log \in Seq(Entries) /\ Len(log) \in Nat /\ DOMAIN log = 1..Len(log)
  BY LenProperties DEF Typed, TypeOK
<1>4. i \in DOMAIN log
  BY <1>1, <1>2, <1>3
<1>5. log[i].id \in Msgs
  <2>1. log[i] \in Entries
    BY <1>3, <1>4
  <2>2. QED
    BY <1>1, <2>1 DEF Entries
<1>6. QED
  BY <1>1, <1>2, <1>5 DEF Lacking

(* Whatever is merged, killed, lost or done by other processes meanwhile,   *)
(* the cursor passes no message that came in and has no row (apply_event    *)
(* before save_state), as long as deletions do not shift the pages.         *)
THEOREM NothingIsMissed == SendSpec => []NothingMissed
<1> DEFINE Inv == Typed /\ (Stable => MissInv)
<1>1. Init => Inv
  BY TypedAtFirst, MissAtFirst
<1>2. Inv /\ [SendNext]_vars => Inv'
  <2> SUFFICES ASSUME Inv, [SendNext]_vars PROVE Inv'
    OBVIOUS
  <2>1. Typed'
    BY TypedStays
  <2>2. setting' = setting
    BY DEF SendNext, Next, ServerEvent, Poll, StartPoll, StartSync, SessionCheck, Login, Step, Ask,
         RefreshSession, Truncate, Write, AfterWrite, Answered, MarkDeleted, Item, Ingest,
         NextEvent, RequestFails, Kill, StartSend, SendAnswered, vars
  <2>3. ASSUME Stable' PROVE MissInv'
    BY <2>1, <2>2, <2>3, MissStays DEF Stable
  <2>4. QED
    BY <2>1, <2>3
<1>3. Inv => NothingMissed
  BY MissSays
<1>4. QED
  BY <1>1, <1>2, <1>3, PTL DEF SendSpec

-----------------------------------------------------------------------------
(* Steps of one process, and of the server *)

Acts(p) ==
  \/ Poll(p) \/ StartSync(p) \/ SessionCheck(p) \/ Login(p) \/ Step(p)
  \/ RequestFails(p) \/ Kill(p) \/ StartSend(p) \/ SendAnswered(p)

LEMMA StepsAre ==
  ASSUME [SendNext]_vars
  PROVE  UNCHANGED vars \/ ServerEvent \/ \E p \in Processes : Acts(p)
  BY DEF SendNext, Next, Acts

LEMMA ActsIs ==
  ASSUME Typed, NEW p \in Processes, Acts(p)
  PROVE  \E new \in ProcStates : Become(p, new)
<1>1. PICK s \in ProcStates : s = procs[p]
  BY DEF Typed, TypeOK
<1>2. CASE Ask(p)
  BY <1>1, <1>2, AskIs, IdleIs DEF Stop
<1>3. CASE StartSend(p)
  BY <1>3, StartSendFits
<1>4. CASE SendAnswered(p)
  BY <1>4, SendAnsweredFits, IdleIs DEF Stop
<1>5. QED
  BY <1>2, <1>3, <1>4, QuietSteps DEF Acts, Step, QuietStep

LEMMA ActsAlone ==
  ASSUME Typed, NEW p \in Processes, Acts(p)
  PROVE  /\ UNCHANGED <<setting, mails, log>>
         /\ \A q \in Processes \ {p} : procs'[q] = procs[q]
<1>1. UNCHANGED <<setting, mails, log>>
  BY DEF Acts, Poll, StartPoll, StartSync, SessionCheck, Login, Step, Ask, RefreshSession,
         Truncate, Write, AfterWrite, Answered, MarkDeleted, Item, Ingest, NextEvent,
         RequestFails, Kill, StartSend, SendAnswered, serverVars
<1>2. QED
  BY <1>1, ActsIs, SendingIs

LEMMA SettingStays ==
  ASSUME Typed, [SendNext]_vars
  PROVE  setting' = setting
  BY StepsAre, ActsAlone DEF ServerEvent, vars

\* What happens to a message is logged; nothing happens to one that is gone.
LEMMA ServerIs ==
  ASSUME Typed, ServerEvent
  PROVE  \/ UNCHANGED <<mails, log>>
         \/ \E entry \in Entries :
              /\ log' = Append(log, entry)
              /\ \/ /\ entry.action = "refresh" /\ "refresh" \in setting.events
                    /\ UNCHANGED mails
                 \/ \E new \in MailStates \union {Gone} :
                      /\ entry.action # "refresh" /\ entry.id \in Msgs
                      /\ mails' = [mails EXCEPT ![entry.id] = new]
                      /\ mails[entry.id] # Gone
                      /\ new = Gone <=> entry.action = "delete"
                      /\ new = Gone => "delete" \in setting.events
<1>0. Gone # Unborn /\ Gone \notin MailStates
  BY ProtonAssumption
<1>1. ASSUME NEW m \in Msgs, NEW action \in {"create", "update", "delete"},
             NEW new \in MailStates \union {Gone},
             log' = Append(log, [action |-> action, id |-> m]),
             mails' = [mails EXCEPT ![m] = new], mails[m] # Gone,
             new = Gone <=> action = "delete",
             new = Gone => "delete" \in setting.events
      PROVE  \E entry \in Entries :
               /\ log' = Append(log, entry)
               /\ entry.action # "refresh" /\ entry.id \in Msgs
               /\ mails' = [mails EXCEPT ![entry.id] = new]
               /\ mails[entry.id] # Gone
               /\ new = Gone <=> entry.action = "delete"
               /\ new = Gone => "delete" \in setting.events
  <2>1. [action |-> action, id |-> m] \in Entries
    BY DEF Entries
  <2>2. QED
    BY <1>1, <2>1
<1>2. ASSUME NEW m \in Msgs, NEW state \in MailStates, Receive(m, state)
      PROVE  /\ log' = Append(log, [action |-> "create", id |-> m])
             /\ mails' = [mails EXCEPT ![m] = state] /\ mails[m] # Gone
  BY <1>0, <1>2 DEF Receive, Logged
<1>3. ASSUME NEW m \in Msgs, NEW state \in MailStates, Change(m, state)
      PROVE  /\ log' = Append(log, [action |-> "update", id |-> m])
             /\ mails' = [mails EXCEPT ![m] = state] /\ mails[m] # Gone
  BY <1>0, <1>3 DEF Change, Logged, Exists
<1>4. ASSUME NEW m \in Msgs, DeleteMail(m)
      PROVE  /\ log' = Append(log, [action |-> "delete", id |-> m])
             /\ mails' = [mails EXCEPT ![m] = Gone] /\ mails[m] # Gone
             /\ "delete" \in setting.events
  BY <1>0, <1>4 DEF DeleteMail, Logged, Exists
<1>5. ASSUME AskForRefresh
      PROVE  /\ log' = Append(log, [action |-> "refresh"]) /\ UNCHANGED mails
             /\ [action |-> "refresh"] \in Entries /\ "refresh" \in setting.events
  BY <1>5 DEF AskForRefresh, Logged, Entries
<1>6. ASSUME Expire PROVE UNCHANGED <<mails, log>>
  BY <1>6 DEF Expire
<1>7. CASE \E m \in Msgs, state \in MailStates : Receive(m, state)
  <2>1. PICK m \in Msgs, state \in MailStates : Receive(m, state)
    BY <1>7
  <2>2. PICK entry \in Entries : entry = [action |-> "create", id |-> m]
    BY DEF Entries
  <2>3. log' = Append(log, entry) /\ entry.action = "create" /\ entry.id = m
    BY <1>2, <2>1, <2>2
  <2>4. QED
    BY <1>0, <1>2, <2>1, <2>3
<1>8. CASE \E m \in Msgs, state \in MailStates : Change(m, state)
  <2>1. PICK m \in Msgs, state \in MailStates : Change(m, state)
    BY <1>8
  <2>2. PICK entry \in Entries : entry = [action |-> "update", id |-> m]
    BY DEF Entries
  <2>3. log' = Append(log, entry) /\ entry.action = "update" /\ entry.id = m
    BY <1>3, <2>1, <2>2
  <2>4. QED
    BY <1>0, <1>3, <2>1, <2>3
<1>9. CASE \E m \in Msgs : DeleteMail(m)
  BY <1>1, <1>4, <1>9
<1>10. CASE AskForRefresh
  BY <1>5, <1>10
<1>11. QED
  BY <1>6, <1>7, <1>8, <1>9, <1>10 DEF ServerEvent

\* Only processes with a job do anything.
JobsInv == \A p \in Processes : setting.jobs[p] = {} => procs[p].pc = "idle"

LEMMA ActsOfWorkers ==
  ASSUME Typed, JobsInv, NEW p \in Processes, Acts(p)
  PROVE  p \in Workers
<1>1. CASE Poll(p) \/ StartSync(p)
  BY <1>1, StartPollIs, StartSyncIs DEF Poll, Workers
<1>2. CASE SessionCheck(p) \/ Login(p)
  BY <1>2, SessionCommandIs DEF Workers
<1>3. CASE StartSend(p)
  BY <1>3 DEF StartSend, Workers
<1>4. CASE Step(p) \/ RequestFails(p) \/ Kill(p) \/ SendAnswered(p)
  <2>1. procs[p].pc # "idle"
    BY <1>4 DEF Step, Ask, RefreshSession, Truncate, Write, Answered, MarkDeleted, Item, Ingest,
                NextEvent, RequestFails, Kill, SendAnswered, At
  <2>2. QED
    BY <2>1 DEF JobsInv, Workers
<1>5. QED
  BY <1>1, <1>2, <1>3, <1>4 DEF Acts

LEMMA JobsStay ==
  ASSUME Typed, JobsInv, [SendNext]_vars
  PROVE  JobsInv'
<1>1. CASE UNCHANGED vars \/ ServerEvent
  BY <1>1 DEF vars, ServerEvent, JobsInv
<1>2. ASSUME NEW p \in Processes, Acts(p) PROVE JobsInv'
  BY <1>2, ActsAlone, ActsOfWorkers DEF JobsInv, Workers
<1>3. QED
  BY <1>1, <1>2, StepsAre

LEMMA OneWorker ==
  ASSUME Alone, NEW p \in Workers, NEW q \in Workers
  PROVE  p = q
<1>1. IsFiniteSet(Workers)
  <2>1. Workers \in SUBSET Processes
    BY DEF Workers
  <2>2. QED
    BY <2>1, FS_Subset, ClientAssumption
<1>2. PICK only : Workers = {only}
  BY <1>1, FS_Singleton DEF Alone
<1>3. QED
  BY <1>2

-----------------------------------------------------------------------------
(* The session of a process that is alone *)

NoDelete == "delete" \notin setting.events

AnyChange == {"create", "update", "delete"}

\* Where nothing is deleted, what a process is about to fetch is there.
LogThere ==
  \A i \in DOMAIN log : log[i].action # "refresh" => Exists(mails, log[i].id)

HandThere(s) ==
  /\ \A m \in IdsOf(s.todo) \union Named(s.changes, AnyChange) : Exists(mails, m)
  /\ s.call.op = "fetch" => Exists(mails, s.call.id)
  /\ HasAnswer(s) /\ s.call.op = "event" =>
       \A m \in Named(s.answer.changes, AnyChange) : Exists(mails, m)
  /\ HasAnswer(s) /\ s.call.op = "page" =>
       \A m \in IdsOf(s.answer.items) : Exists(mails, m)

ThereInv ==
  /\ LogThere
  /\ \A p \in Processes, s \in ProcStates : s = procs[p] => HandThere(s)

\* Nothing fails, and what was listed can be fetched.
Untroubled == setting.failures = {} /\ NoDelete

SessionInHand(s) ==
  /\ s.pc \in FilePcs /\ s.file = "session" => s.session = access.last
  /\ s.pc = "retry" => s.session = access.last /\ access.fresh

SessionOnDisk(s) ==
  \/ s.pc \in Using \/ (s.pc \in FilePcs /\ s.file # "session")
  \/ s.pc = "get" /\ s.session = access.last
  \/ Untroubled /\ s.pc \in {"idle", "get", "refresh"}
  => sessionFile = access.last

SessionInv ==
  \A p \in Workers, s \in ProcStates :
    s = procs[p] => SessionInHand(s) /\ SessionOnDisk(s)

\* What is in hand are messages.
LEMMA IdsTyped ==
  ASSUME NEW s \in ProcStates, Fits(s)
  PROVE  /\ IdsOf(s.todo) \subseteq Msgs
         /\ Named(s.changes, AnyChange) \subseteq Msgs
         /\ s.call.op = "fetch" => s.call.id \in Msgs
         /\ HasAnswer(s) /\ s.call.op = "event" => Named(s.answer.changes, AnyChange) \subseteq Msgs
         /\ HasAnswer(s) /\ s.call.op = "page" => IdsOf(s.answer.items) \subseteq Msgs
<1>1. \A items \in Seq(Items) : IdsOf(items) \subseteq Msgs
  <2>1. ASSUME NEW items \in Seq(Items), NEW i \in DOMAIN items PROVE items[i].id \in Msgs
    <3>1. items[i] \in Items
      BY <2>1
    <3>2. QED
      BY <3>1 DEF Items
  <2>2. QED
    BY <2>1 DEF IdsOf
<1>2. \A changes \in SUBSET Entries : Named(changes, AnyChange) \subseteq Msgs
  BY DEF Named, Entries, AnyChange
<1>3. s.todo \in Seq(Items) /\ s.changes \in SUBSET Entries /\ s.call \in Calls
  BY DEF ProcStates
<1>4. HasAnswer(s) => IsAnswer(s.call, s.answer)
  BY DEF Fits, HandFits, HasAnswer
<1>5. HasAnswer(s) /\ s.call.op = "event" => s.answer.changes \in SUBSET Entries
  BY <1>4 DEF IsAnswer, EventAnswers
<1>6. \A items \in Seq(ListedItems) : IdsOf(items) \subseteq Msgs
  <2>1. ASSUME NEW items \in Seq(ListedItems), NEW i \in DOMAIN items PROVE items[i].id \in Msgs
    <3>1. items[i] \in ListedItems
      BY <2>1
    <3>2. QED
      BY <3>1 DEF ListedItems
  <2>2. QED
    BY <2>1 DEF IdsOf
<1>7. HasAnswer(s) /\ s.call.op = "page" => s.answer.items \in Seq(ListedItems)
  BY <1>4 DEF IsAnswer
<1>8. s.call.op = "fetch" => s.call.id \in Msgs
  BY <1>3 DEF Calls
<1>9. IdsOf(s.todo) \subseteq Msgs /\ Named(s.changes, AnyChange) \subseteq Msgs
  BY <1>1, <1>2, <1>3
<1>10. HasAnswer(s) /\ s.call.op = "event" => Named(s.answer.changes, AnyChange) \subseteq Msgs
  BY <1>2, <1>5
<1>11. HasAnswer(s) /\ s.call.op = "page" => IdsOf(s.answer.items) \subseteq Msgs
  BY <1>6, <1>7
<1>12. QED
  BY <1>8, <1>9, <1>10, <1>11

\* It is still there as long as nothing is deleted.
LEMMA HandStays ==
  ASSUME NEW s \in ProcStates, Fits(s), HandThere(s),
         \A m \in Msgs : Exists(mails, m) => Exists(mails', m)
  PROVE  HandThere(s)'
  BY IdsTyped DEF HandThere

LEMMA MergedThere ==
  ASSUME Typed, LogThere, NEW from \in Nat, NEW upto \in Nat, upto <= Len(log),
         NEW m \in Named(Merged(log, from, upto), AnyChange)
  PROVE  Exists(mails, m)
<1>1. PICK change \in Merged(log, from, upto) : change.action \in AnyChange /\ change.id = m
  BY DEF Named
<1>2. PICK i \in (from + 1)..upto : change = log[i]
  BY <1>1 DEF Merged
<1>3. i \in DOMAIN log
  BY <1>2, LenProperties DEF Typed, TypeOK
<1>4. QED
  BY <1>1, <1>2, <1>3 DEF LogThere, AnyChange

\* What the server names or lists is there.
LEMMA AskedThere ==
  ASSUME Typed, LogThere, NEW s \in ProcStates, NEW new \in ProcStates, Fits(s), HandThere(s),
         s.pc \in {"get", "retry"}, AskedAs(new, s)
  PROVE  HandThere(new)
<1>1. /\ new.todo = s.todo /\ new.changes = s.changes /\ new.call = s.call
      /\ new.answer \in Answers(s.call)
  BY DEF AskedAs, SameHand
<1>2. /\ setting.pageSize \in Nat \ {0} /\ setting.merge \in Nat \ {0}
      /\ mails \in Mailboxes /\ log \in Seq(Entries) /\ Len(log) \in Nat
  BY ClientAssumption DEF Typed, TypeOK
<1>3. s.call \in Calls
  BY DEF ProcStates
<1>4. ASSUME s.call.op = "event", NEW m \in Named(new.answer.changes, AnyChange)
      PROVE  Exists(mails, m)
  <2>1. PICK from \in Nat : from = s.call.from
    BY <1>3, <1>4 DEF Calls
  <2>2. PICK upto \in Nat : upto = Upto(from) /\ upto <= Len(log)
    BY <1>2, <2>1 DEF Upto
  <2>3. new.answer.changes = Merged(log, from, upto)
    BY <1>1, <1>4, <2>1, <2>2 DEF Answers
  <2>4. QED
    BY <1>4, <2>2, <2>3, MergedThere
<1>5. ASSUME s.call.op = "page", NEW m \in IdsOf(new.answer.items)
      PROVE  Exists(mails, m)
  <2>1. PICK page \in Nat : page = s.call.page
    BY <1>3, <1>5 DEF Calls
  <2>2. PICK items : items = MessagePage(mails, page, setting.pageSize)
    OBVIOUS
  <2>3. new.answer.items = items
    BY <1>1, <1>5, <2>1, <2>2 DEF Answers
  <2>4. \A i \in DOMAIN items : Exists(mails, items[i].id)
    BY <1>2, <2>2, PageIs
  <2>5. QED
    BY <1>5, <2>3, <2>4 DEF IdsOf
<1>6. QED
  BY <1>1, <1>4, <1>5 DEF HandThere

LEMMA FreshThere ==
  ASSUME NEW new \in ProcStates, new.todo = NoItems, new.changes = {}, new.call.op # "fetch",
         ~HasAnswer(new) \/ new.call.op \notin {"event", "page"}
  PROVE  HandThere(new)
<1>1. IdsOf(new.todo) = {}
  BY IdsAre
<1>2. Named(new.changes, AnyChange) = {}
  BY DEF Named
<1>3. QED
  BY <1>1, <1>2 DEF HandThere

\* What goes on with no more than was in hand.
LEMMA PassThere ==
  ASSUME NEW s \in ProcStates, NEW new \in ProcStates, HandThere(s),
         IdsOf(new.todo) \subseteq IdsOf(s.todo) \union Named(s.changes, AnyChange),
         Named(new.changes, AnyChange) \subseteq Named(s.changes, AnyChange),
         new.call.op = "fetch" => new.call.id \in IdsOf(s.todo) \/ new.call = s.call,
         HasAnswer(new) /\ new.call.op \in {"event", "page"} =>
           HasAnswer(s) /\ new.call = s.call /\ new.answer = s.answer
  PROVE  HandThere(new)
  BY DEF HandThere

LEMMA AnsweredThere ==
  ASSUME Typed, NEW s \in ProcStates, NEW new \in ProcStates, Fits(s), HandThere(s),
         s.pc = "answered", AnsweredAs(new, s)
  PROVE  HandThere(new)
<1>0. HasAnswer(s)
  BY DEF HasAnswer, Asking, NetPcs
<1>1. CASE s.call.op = "keys" /\ FirstOf(new, s)
  <2>1. /\ new.todo = s.todo /\ new.changes = s.changes /\ new.call \in {NoCall, PageCall(0)}
        /\ new.pc \in {"item", "get"}
    BY <1>1 DEF FirstOf, SameHand
  <2>2. new.call.op # "fetch" /\ ~HasAnswer(new)
    BY <2>1 DEF NoCall, PageCall, HasAnswer, Asking, NetPcs, FilePcs
  <2>3. QED
    BY <2>1, <2>2, PassThere
<1>2. CASE s.call.op = "page" /\ EndedAs(new, s)
  <2>1. /\ new.todo = NoItems /\ new.changes = s.changes
        /\ new.pc = "get" \/ new.call = NoCall
        /\ new.call \in {NoCall, [op |-> "latest"]} \/ new.call = EventCall(s.cursor)
    BY <1>2 DEF EndedAs
  <2>2. new.call.op # "fetch" /\ (HasAnswer(new) => new.call.op = "keys")
    BY <2>1 DEF NoCall, EventCall, HasAnswer, Asking, NetPcs, FilePcs
  <2>3. IdsOf(new.todo) = {}
    BY <2>1, IdsAre
  <2>4. QED
    BY <2>1, <2>2, <2>3, PassThere
<1>3. CASE s.call.op = "page" /\ PagedAs(new, s)
  <2>1. /\ new.todo = s.answer.items /\ new.changes = s.changes /\ new.call = NoCall
        /\ new.pc = "item"
    BY <1>3 DEF PagedAs
  <2>2. new.call.op # "fetch" /\ ~HasAnswer(new)
    BY <2>1 DEF NoCall, HasAnswer, Asking, NetPcs, FilePcs
  <2>3. QED
    BY <1>0, <1>3, <2>1, <2>2 DEF HandThere
<1>4. CASE s.call.op = "fetch" /\ FetchedAs(new, s)
  <2>1. new.todo = s.todo /\ new.changes = s.changes /\ new.call = s.call
    BY <1>4 DEF FetchedAs, SameHand
  <2>2. QED
    BY <1>4, <2>1, PassThere
<1>5. CASE s.call.op = "latest" /\ LatestAs(new, s)
  <2>1. new.todo = s.todo /\ new.changes = s.changes /\ new.call = s.call
    BY <1>5 DEF LatestAs, SameHand
  <2>2. QED
    BY <1>5, <2>1, PassThere
<1>6. CASE s.call.op = "event" /\ ChangesAs(new, s)
  <2>1. /\ new.changes = s.answer.changes /\ new.pc = "delete" /\ new.call = NoCall
        /\ new.todo = Changed(s.answer.changes, {"delete"})
    BY <1>6 DEF ChangesAs
  <2>2. s.answer.changes \in SUBSET Entries
    BY <1>0, <1>6 DEF Fits, HandFits, HasAnswer, IsAnswer, EventAnswers
  <2>3. IdsOf(new.todo) = Named(s.answer.changes, {"delete"})
    BY <2>1, <2>2, NamedIs
  <2>4. Named(s.answer.changes, {"delete"}) \subseteq Named(s.answer.changes, AnyChange)
    BY DEF Named, AnyChange
  <2>5. new.call.op # "fetch" /\ ~HasAnswer(new)
    BY <2>1 DEF NoCall, HasAnswer, Asking, NetPcs, FilePcs
  <2>6. QED
    BY <1>0, <1>6, <2>1, <2>3, <2>4, <2>5 DEF HandThere
<1>7. CASE s.call.op = "event" /\ RefreshAs(new, s)
  <2>1. /\ new.todo = s.todo /\ new.changes = s.changes /\ new.call \in {NoCall, PageCall(0)}
        /\ new.pc = "get"
    BY <1>7 DEF RefreshAs
  <2>2. new.call.op # "fetch" /\ ~HasAnswer(new)
    BY <2>1 DEF NoCall, PageCall, HasAnswer, NetPcs
  <2>3. QED
    BY <2>1, <2>2, PassThere
<1>8. QED
  BY <1>1, <1>2, <1>3, <1>4, <1>5, <1>6, <1>7 DEF AnsweredAs

LEMMA DeletedThere ==
  ASSUME NEW s \in ProcStates, NEW new \in ProcStates, HandThere(s), DeletedAs(new, s)
  PROVE  HandThere(new)
<1>1. /\ new.call = NoCall /\ new.call.op = "keys"
      /\ HasAnswer(new) => new.call.op = "keys"
  BY DEF DeletedAs, NoCall
<1>2. CASE s.todo # <<>> /\ new.todo = Tail(s.todo) /\ new.changes = s.changes
  <2>1. IdsOf(new.todo) \subseteq IdsOf(s.todo)
    BY <1>2, IdsAre DEF ProcStates
  <2>2. QED
    BY <1>1, <1>2, <2>1, PassThere
<1>3. CASE new.changes = {} /\ new.todo = SyncIds(s.changes)
  <2>1. s.changes \in SUBSET Entries
    BY DEF ProcStates
  <2>2. IdsOf(new.todo) = Named(s.changes, {"create", "update"})
    BY <1>3, <2>1, NamedIs DEF SyncIds
  <2>3. IdsOf(new.todo) \subseteq Named(s.changes, AnyChange)
    BY <2>2 DEF Named, AnyChange
  <2>4. Named(new.changes, AnyChange) = {}
    BY <1>3 DEF Named
  <2>5. QED
    BY <1>1, <2>3, <2>4, PassThere
<1>4. QED
  BY <1>2, <1>3 DEF DeletedAs

LEMMA ItemThere ==
  ASSUME NEW s \in ProcStates, NEW new \in ProcStates, HandThere(s), ItemAs(new, s)
  PROVE  HandThere(new)
<1>1. new.changes = s.changes
  BY DEF ItemAs, SameHand, EndedAs
<1>2. CASE s.todo # <<>> /\ SameHand(new, s) /\ new.pc = "ingest" /\ new.call = NoCall
  BY <1>1, <1>2, PassThere DEF SameHand, NoCall
<1>3. CASE /\ s.todo # <<>> /\ SameHand(new, s) /\ new.pc = "get"
           /\ new.call = [op |-> "fetch", id |-> Head(s.todo).id]
  <2>1. Head(s.todo).id \in IdsOf(s.todo)
    BY <1>3, IdsAre DEF ProcStates
  <2>2. new.call.op = "fetch" /\ new.call.id = Head(s.todo).id /\ new.todo = s.todo
    BY <1>3 DEF SameHand
  <2>3. QED
    BY <1>1, <2>1, <2>2, PassThere
<1>4. CASE s.todo # <<>> /\ new.call = NoCall /\ new.todo = Tail(s.todo)
  <2>1. IdsOf(new.todo) \subseteq IdsOf(s.todo)
    BY <1>4, IdsAre DEF ProcStates
  <2>2. new.call.op = "keys"
    BY <1>4 DEF NoCall
  <2>3. QED
    BY <1>1, <2>1, <2>2, PassThere
<1>5. CASE EndedAs(new, s)
  <2>1. /\ new.todo = NoItems
        /\ new.pc = "get" \/ new.call = NoCall
        /\ new.call \in {NoCall, [op |-> "latest"]} \/ new.call = EventCall(s.cursor)
    BY <1>5 DEF EndedAs
  <2>2. new.call.op # "fetch" /\ (HasAnswer(new) => new.call.op = "keys")
    BY <2>1 DEF NoCall, EventCall, HasAnswer, Asking, NetPcs, FilePcs
  <2>3. IdsOf(new.todo) = {}
    BY <2>1, IdsAre
  <2>4. QED
    BY <1>1, <2>1, <2>2, <2>3, PassThere
<1>6. CASE new.pc = "get" /\ new.call = PageCall(s.page + 1) /\ new.todo = s.todo
  <2>1. new.call.op = "page" /\ ~HasAnswer(new)
    BY <1>6 DEF PageCall, HasAnswer, NetPcs
  <2>2. QED
    BY <1>1, <1>6, <2>1, PassThere
<1>7. QED
  BY <1>2, <1>3, <1>4, <1>5, <1>6 DEF ItemAs

LEMMA MovedThere ==
  ASSUME NEW s \in ProcStates, NEW new \in ProcStates, NEW pc, HandThere(s), MovedAs(new, s, pc),
         \/ s.pc = "get" /\ pc = "refresh"
         \/ s.pc = "truncate" /\ pc = "write"
         \/ s.pc = "write" /\ s.file = "session" /\ pc = "answered"
         \/ s.pc = "write" /\ pc \in {"next", "ingest"}
  PROVE  HandThere(new)
<1>1. /\ new.todo = s.todo /\ new.changes = s.changes /\ new.call = s.call
      /\ new.answer = s.answer /\ new.pc = pc /\ new.file = s.file
  BY DEF MovedAs, SameHand
<1>2. HasAnswer(new) => HasAnswer(s)
  BY <1>1 DEF HasAnswer, Asking, NetPcs, FilePcs
<1>3. QED
  BY <1>1, <1>2, PassThere

\* Whatever a process does, what it goes on with is there.
LEMMA StepThere ==
  ASSUME Typed, LogThere, NEW p \in Processes, NEW s \in ProcStates, s = procs[p],
         HandThere(s), Acts(p)
  PROVE  \E new \in ProcStates : Become(p, new) /\ HandThere(new)
<1>1. Fits(s)
  BY DEF Typed
<1> DEFINE Goes == \E new \in ProcStates : Become(p, new) /\ HandThere(new)
<1>2. ASSUME Stop(p) PROVE Goes
  <2>1. PICK new \in ProcStates : new = Idle
    BY IdleIs
  <2>2. /\ new.todo = NoItems /\ new.changes = {} /\ new.call = NoCall
    BY <2>1, IdleIs
  <2>3. HandThere(new)
    BY <2>2, FreshThere DEF NoCall
  <2>4. QED
    BY <1>2, <2>1, <2>3 DEF Stop
<1>3. ASSUME NEW new \in ProcStates, Become(p, new), HandThere(new) PROVE Goes
  BY <1>3
<1>4. CASE Poll(p) \/ StartSync(p)
  <2>1. ASSUME NEW new \in ProcStates, StartedAs(new) PROVE HandThere(new)
    <3>1. /\ new.pc = "get" /\ new.todo = NoItems /\ new.changes = {}
          /\ \/ new.call \in {NoCall, PageCall(0), [op |-> "latest"]}
             \/ new.call = EventCall(cursorFile)
      BY <2>1 DEF StartedAs
    <3>2. new.call.op # "fetch" /\ ~HasAnswer(new)
      BY <3>1 DEF NoCall, PageCall, EventCall, HasAnswer, NetPcs
    <3>3. QED
      BY <3>1, <3>2, FreshThere
  <2>2. QED
    BY <1>2, <1>3, <1>4, <2>1, StartPollIs, StartSyncIs DEF Poll
<1>5. CASE SessionCheck(p) \/ Login(p)
  <2>1. ASSUME NEW new \in ProcStates, NEW session,
               \/ CommandAs(new, "refresh", "check", session)
               \/ CommandAs(new, "truncate", "login", session)
        PROVE  HandThere(new)
    <3>1. /\ new.todo = NoItems /\ new.changes = {} /\ new.call.op \in {"check", "login"}
      BY <2>1 DEF CommandAs
    <3>2. QED
      BY <3>1, FreshThere
  <2>2. QED
    BY <1>3, <1>5, <2>1, SessionCommandIs
<1>6. CASE Ask(p)
  <2>1. ASSUME s.pc \in {"get", "retry"}, NEW new \in ProcStates, AskedAs(new, s)
        PROVE  HandThere(new)
    BY <1>1, <2>1, AskedThere
  <2>2. ASSUME s.pc = "get", NEW new \in ProcStates, MovedAs(new, s, "refresh")
        PROVE  HandThere(new)
    BY <2>2, MovedThere
  <2>3. QED
    BY <1>2, <1>3, <1>6, <2>1, <2>2, AskIs
<1>7. CASE RefreshSession(p)
  <2>1. ASSUME s.pc = "refresh", NEW new \in ProcStates, RefreshedAs(new, s) PROVE HandThere(new)
    <3>1. /\ new.todo = s.todo /\ new.changes = s.changes /\ new.call = s.call
          /\ s.call.op = "check" \/ new.pc = "retry"
      BY <2>1 DEF RefreshedAs, SameHand
    <3>2. new.call.op = "check" \/ ~HasAnswer(new)
      BY <3>1 DEF HasAnswer, NetPcs
    <3>3. QED
      BY <3>1, <3>2, PassThere
  <2>2. QED
    BY <1>2, <1>3, <1>7, <2>1, RefreshIs
<1>8. CASE Truncate(p)
  BY <1>3, <1>8, TruncateIs, MovedThere
<1>9. CASE Write(p)
  BY <1>3, <1>9, WriteIs, MovedThere
<1>10. CASE Answered(p)
  BY <1>1, <1>2, <1>3, <1>10, AnsweredIs, AnsweredThere
<1>11. CASE MarkDeleted(p)
  BY <1>2, <1>3, <1>11, MarkDeletedIs, DeletedThere
<1>12. CASE Item(p)
  BY <1>2, <1>3, <1>12, ItemIs, ItemThere
<1>13. CASE Ingest(p)
  <2>1. ASSUME s.todo # <<>>, NEW new \in ProcStates, IngestedAs(new, s) PROVE HandThere(new)
    <3>1. new.todo = Tail(s.todo) /\ new.changes = s.changes /\ new.call = NoCall
      BY <2>1 DEF IngestedAs
    <3>2. IdsOf(new.todo) \subseteq IdsOf(s.todo) /\ new.call.op = "keys"
      BY <2>1, <3>1, IdsAre DEF ProcStates, NoCall
    <3>3. QED
      BY <3>1, <3>2, PassThere
  <2>2. QED
    BY <1>2, <1>3, <1>13, <2>1, IngestIs
<1>14. CASE NextEvent(p)
  <2>1. ASSUME NEW new \in ProcStates, PollsAs(new, s) PROVE HandThere(new)
    <3>1. /\ new.todo = s.todo /\ new.changes = s.changes /\ new.pc = "get"
          /\ new.call = [op |-> "latest"] \/ new.call = EventCall(s.cursor)
      BY <2>1 DEF PollsAs, SameHand
    <3>2. new.call.op # "fetch" /\ ~HasAnswer(new)
      BY <3>1 DEF EventCall, HasAnswer, NetPcs
    <3>3. QED
      BY <3>1, <3>2, PassThere
  <2>2. QED
    BY <1>2, <1>3, <1>14, <2>1, NextEventIs
<1>15. CASE RequestFails(p) \/ Kill(p)
  BY <1>2, <1>15 DEF RequestFails, Kill
<1>16. CASE StartSend(p)
  <2>1. PICK new \in ProcStates : /\ new.call.op = "public_keys" /\ new.todo = NoItems
                                  /\ new.changes = {} /\ Become(p, new)
    BY <1>16, StartSendFits
  <2>2. HandThere(new)
    BY <2>1, FreshThere
  <2>3. QED
    BY <2>1, <2>2
<1>17. CASE SendAnswered(p)
  <2>1. ASSUME NEW new \in ProcStates, Fits(new), new.pc = "get", new.todo = s.todo,
               new.changes = s.changes, new.task = "send"
        PROVE  HandThere(new)
    <3>1. new.call.op # "fetch" /\ ~HasAnswer(new)
      BY <2>1 DEF Fits, SendFits, HasAnswer, NetPcs
    <3>2. QED
      BY <2>1, <3>1, PassThere
  <2>2. QED
    BY <1>2, <1>3, <1>17, <2>1, SendAnsweredFits
<1>18. QED
  BY <1>4, <1>5, <1>6, <1>7, <1>8, <1>9, <1>10, <1>11, <1>12, <1>13, <1>14, <1>15, <1>16, <1>17
  DEF Acts, Step

LEMMA ThereStays ==
  ASSUME Typed, Typed', NoDelete, ThereInv, [SendNext]_vars
  PROVE  ThereInv'
<1>1. ASSUME UNCHANGED <<mails, log, procs>> PROVE ThereInv'
  BY <1>1 DEF ThereInv, LogThere, HandThere
<1>2. ASSUME ServerEvent PROVE ThereInv'
  <2>1. procs' = procs
    BY <1>2 DEF ServerEvent
  <2>2. CASE UNCHANGED <<mails, log>>
    BY <1>1, <2>1, <2>2
  <2>3. CASE ~UNCHANGED <<mails, log>>
    <3>1. PICK entry \in Entries :
             /\ log' = Append(log, entry)
             /\ \/ entry.action = "refresh" /\ UNCHANGED mails
                \/ \E new \in MailStates \union {Gone} :
                      /\ entry.action # "refresh" /\ entry.id \in Msgs
                      /\ mails' = [mails EXCEPT ![entry.id] = new]
                      /\ new = Gone => "delete" \in setting.events
      BY <1>2, <2>3, ServerIs
    <3>2. log \in Seq(Entries) /\ mails \in Mailboxes
      BY DEF Typed, TypeOK
    <3>3. \A m \in Msgs : Exists(mails, m) => Exists(mails', m)
      BY <3>1, <3>2 DEF NoDelete, Exists, Mailboxes
    <3>4. entry.action # "refresh" => Exists(mails', entry.id)
      BY <3>1, <3>2 DEF NoDelete, Exists, Mailboxes
    <3>5. LogThere'
      <4>1. ASSUME NEW i \in DOMAIN log', log'[i].action # "refresh" PROVE Exists(mails', log'[i].id)
        <5>1. CASE i \in DOMAIN log
          <6>1. log'[i] = log[i] /\ log[i] \in Entries
            BY <3>1, <3>2, <5>1
          <6>2. Exists(mails, log[i].id) /\ log[i].id \in Msgs
            BY <4>1, <5>1, <6>1 DEF ThereInv, LogThere, Entries
          <6>3. QED
            BY <3>3, <6>1, <6>2
        <5>2. CASE i \notin DOMAIN log
          <6>1. log'[i] = entry
            BY <3>1, <3>2, <4>1, <5>2
          <6>2. QED
            BY <3>4, <4>1, <6>1
        <5>3. QED
          BY <5>1, <5>2
      <4>2. QED
        BY <4>1 DEF LogThere
    <3>6. ASSUME NEW q \in Processes, NEW r \in ProcStates, r = procs'[q] PROVE HandThere(r)'
      <4>1. Fits(r) /\ HandThere(r)
        BY <2>1, <3>6 DEF Typed, ThereInv
      <4>2. QED
        BY <3>3, <4>1, HandStays
    <3>7. QED
      BY <3>5, <3>6 DEF ThereInv
  <2>4. QED
    BY <2>2, <2>3
<1>3. ASSUME NEW p \in Processes, Acts(p) PROVE ThereInv'
  <2>1. UNCHANGED <<setting, mails, log>> /\ \A q \in Processes \ {p} : procs'[q] = procs[q]
    BY <1>3, ActsAlone
  <2>2. PICK s \in ProcStates : s = procs[p]
    BY DEF Typed, TypeOK
  <2>3. PICK new \in ProcStates : Become(p, new) /\ HandThere(new)
    BY <1>3, <2>2, StepThere DEF ThereInv
  <2>4. procs'[p] = new
    BY <2>3, SendingIs
  <2>5. ASSUME NEW q \in Processes, NEW r \in ProcStates, r = procs'[q] PROVE HandThere(r)'
    <3>1. HandThere(r)
      BY <2>1, <2>3, <2>4, <2>5 DEF ThereInv
    <3>2. QED
      BY <2>1, <3>1 DEF HandThere
  <2>6. LogThere'
    BY <2>1 DEF ThereInv, LogThere
  <2>7. QED
    BY <2>5, <2>6 DEF ThereInv
<1>4. QED
  BY <1>1, <1>2, <1>3, StepsAre DEF vars, serverVars

LEMMA ThereAtFirst == Init => ThereInv
<1> SUFFICES ASSUME Init PROVE ThereInv
  OBVIOUS
<1>1. DOMAIN log = {} /\ \A p \in Processes : procs[p] = Idle
  BY DEF Init
<1>2. LogThere
  BY <1>1 DEF LogThere
<1>3. ASSUME NEW p \in Processes, NEW s \in ProcStates, s = procs[p] PROVE HandThere(s)
  BY <1>1, <1>3, IdleIs, FreshThere DEF NoCall
<1>4. QED
  BY <1>2, <1>3 DEF ThereInv

\* A process that goes on with the saved session.
LEMMA HeldOn ==
  ASSUME NEW new \in ProcStates, sessionFile' = access'.last,
         new.pc \in FilePcs => new.file # "session" \/ new.session = access'.last,
         new.pc # "retry"
  PROVE  SessionInHand(new)' /\ SessionOnDisk(new)'
  BY DEF SessionInHand, SessionOnDisk

\* What an answer leads to is not a request again, nor the session file.
LEMMA UsesOn ==
  ASSUME NEW s \in ProcStates, NEW new \in ProcStates,
         \/ AnsweredAs(new, s) \/ DeletedAs(new, s) \/ ItemAs(new, s) \/ IngestedAs(new, s)
         \/ PollsAs(new, s)
  PROVE  new.pc # "retry" /\ (new.pc \in FilePcs => new.file # "session")
<1>1. CASE AnsweredAs(new, s)
  BY <1>1 DEF AnsweredAs, FirstOf, EndedAs, PagedAs, FetchedAs, LatestAs, ChangesAs, RefreshAs,
              FilePcs
<1>2. CASE DeletedAs(new, s)
  BY <1>2 DEF DeletedAs, FilePcs
<1>3. CASE ItemAs(new, s)
  BY <1>3 DEF ItemAs, EndedAs, FilePcs
<1>4. CASE IngestedAs(new, s) \/ PollsAs(new, s)
  BY <1>4 DEF IngestedAs, PollsAs, FilePcs
<1>5. QED
  BY <1>1, <1>2, <1>3, <1>4

\* A request for what is there is answered.
LEMMA ThereAnswers ==
  ASSUME Typed, NEW s \in ProcStates, Fits(s), s.pc \in {"get", "retry"}, HandThere(s)
  PROVE  Answers(s.call) # {}
<1>1. s.call \in Calls /\ s.call.op \notin {"check", "login"}
  BY DEF Fits, CallFits, ProcStates
<1>2. s.call.op = "fetch" => s.call.id \in Msgs /\ Exists(mails, s.call.id)
  BY <1>1 DEF HandThere, Calls
<1>3. s.call.op \in {"keys", "draft", "send", "public_keys", "latest", "page", "fetch", "event"}
  BY <1>1 DEF Calls
<1>4. CASE s.call.op = "fetch"
  <2>1. [state |-> mails[s.call.id]] \in {[state |-> mails[m]] : m \in {s.call.id} \cap Existing(mails)}
    BY <1>2, <1>4 DEF Existing
  <2>2. QED
    BY <1>4, <2>1 DEF Answers
<1>5. CASE s.call.op # "fetch"
  BY <1>3, <1>5 DEF Answers
<1>6. QED
  BY <1>4, <1>5

\* The files and the server's session, in a step of a process.
LEMMA SessionFileIs ==
  ASSUME Typed, NEW p \in Processes, NEW s \in ProcStates, s = procs[p], Acts(p)
  PROVE  /\ ~((Truncate(p) \/ Write(p)) /\ s.file = "session") => sessionFile' = sessionFile
         /\ Truncate(p) /\ s.file = "session" => sessionFile' = Torn
         /\ Write(p) /\ s.file = "session" => sessionFile' = s.session
         /\ ~(RefreshSession(p) \/ Login(p)) => access' = access
         /\ Login(p) => access' = NewSession(access)
<1>1. s.file \in {"session", "cursor", "cache"}
  BY DEF ProcStates
<1>2. CASE Truncate(p) \/ Write(p)
  BY <1>1, <1>2
  DEF Truncate, Write, AfterWrite, Written, serverVars, RefreshSession, Login, At
<1>3. CASE RefreshSession(p) \/ Login(p)
  BY <1>3 DEF RefreshSession, Login, files, Truncate, Write, At
<1>4. CASE ~(Truncate(p) \/ Write(p)) /\ ~(RefreshSession(p) \/ Login(p))
  BY <1>4
  DEF Acts, Poll, StartPoll, StartSync, SessionCheck, Step, Ask, Answered, MarkDeleted, Item,
      Ingest, NextEvent, RequestFails, Kill, StartSend, SendAnswered, serverVars, files
<1>5. QED
  BY <1>2, <1>3, <1>4

\* Whatever the process does, it has saved the session that it works with.
LEMMA StepHolds ==
  ASSUME Typed, NEW p \in Processes, NEW s \in ProcStates, s = procs[p],
         SessionInHand(s), SessionOnDisk(s), Untroubled => HandThere(s), Acts(p)
  PROVE  \E new \in ProcStates :
           Become(p, new) /\ SessionInHand(new)' /\ SessionOnDisk(new)'
<1> DEFINE Goes == \E new \in ProcStates :
                     Become(p, new) /\ SessionInHand(new)' /\ SessionOnDisk(new)'
<1>0. Fits(s) /\ setting' = setting
  BY ActsAlone DEF Typed
<1>1. (Untroubled <=> Untroubled') /\ access \in Accesses /\ access.last \in Nat
  BY <1>0 DEF Untroubled, NoDelete, Typed, TypeOK, Accesses
\* An end that troubles bring about, or that leaves the session as it is.
<1>2. ASSUME Stop(p), Untroubled => sessionFile' = access'.last PROVE Goes
  <2>1. PICK new \in ProcStates : new = Idle /\ new.pc = "idle"
    BY IdleIs
  <2>2. SessionInHand(new)' /\ SessionOnDisk(new)'
    BY <1>1, <1>2, <2>1 DEF SessionInHand, SessionOnDisk, Using, FilePcs
  <2>3. QED
    BY <1>2, <2>1, <2>2 DEF Stop
<1>3. ASSUME NEW new \in ProcStates, Become(p, new), sessionFile' = access'.last,
             new.pc \in FilePcs => new.file # "session" \/ new.session = access'.last,
             new.pc # "retry"
      PROVE  Goes
  BY <1>3, HeldOn
\* A start, which takes the session from the file.
<1>4. ASSUME NEW new \in ProcStates, Become(p, new), s.pc = "idle",
             UNCHANGED <<sessionFile, access>>,
             new.session = sessionFile, new.pc \in {"get", "refresh"}
      PROVE  Goes
  <2>1. Untroubled => sessionFile = access.last
    BY <1>4 DEF SessionOnDisk
  <2>2. SessionInHand(new)' /\ SessionOnDisk(new)'
    BY <1>1, <1>4, <2>1 DEF SessionInHand, SessionOnDisk, Using, FilePcs
  <2>3. QED
    BY <1>4, <2>2
<1>5. CASE Poll(p) \/ StartSync(p)
  <2>1. s.pc = "idle" /\ UNCHANGED <<sessionFile, access>>
    BY <1>5, StartPollIs, StartSyncIs DEF Poll, StartPoll, StartSync, files, serverVars
  <2>2. ASSUME Stop(p) PROVE Goes
    BY <1>1, <1>2, <2>1, <2>2 DEF SessionOnDisk
  <2>3. ASSUME NEW new \in ProcStates, Become(p, new), StartedAs(new) PROVE Goes
    <3>1. new.session = sessionFile /\ new.pc = "get"
      BY <2>3 DEF StartedAs
    <3>2. QED
      BY <1>4, <2>1, <2>3, <3>1
  <2>4. QED
    BY <1>5, <2>2, <2>3, StartPollIs, StartSyncIs DEF Poll
<1>6. CASE SessionCheck(p)
  <2>1. s.pc = "idle" /\ UNCHANGED <<sessionFile, access>>
    BY <1>6 DEF SessionCheck, At, files, serverVars
  <2>2. ASSUME NEW new \in ProcStates, Become(p, new), CommandAs(new, "refresh", "check", sessionFile)
        PROVE  Goes
    BY <1>4, <2>1, <2>2 DEF CommandAs
  <2>3. ASSUME NEW new \in ProcStates, Login(p) PROVE FALSE
    <3>1. access' = NewSession(access)
      BY <2>3 DEF Login
    <3>2. access'.last = access.last + 1
      BY <3>1 DEF NewSession
    <3>3. QED
      BY <1>1, <2>1, <3>2
  <2>4. QED
    BY <1>6, <2>2, <2>3, SessionCommandIs
<1>7. CASE Login(p)
  <2>1. access'.last = access.last + 1
    BY <1>7, SessionFileIs DEF NewSession
  <2>2. ~SessionCheck(p)
    BY <1>1, <2>1 DEF SessionCheck, serverVars
  <2>3. PICK new \in ProcStates :
          Become(p, new) /\ CommandAs(new, "truncate", "login", access.last + 1)
    BY <1>7, <2>2, SessionCommandIs
  <2>4. new.pc = "truncate" /\ new.file = "session" /\ new.session = access'.last
    BY <2>1, <2>3 DEF CommandAs
  <2>5. SessionInHand(new)' /\ SessionOnDisk(new)'
    BY <2>4 DEF SessionInHand, SessionOnDisk, Using, FilePcs
  <2>6. QED
    BY <2>3, <2>5
<1>8. CASE Ask(p)
  <2>0. UNCHANGED <<sessionFile, access>>
    BY <1>8 DEF Ask, files
  <2>1. s.pc \in {"get", "retry"}
    BY <1>8, AskIs
  <2>2. ASSUME Accepts(access, s.session), NEW new \in ProcStates, Become(p, new), AskedAs(new, s)
        PROVE  Goes
    <3>1. s.session = access.last /\ new.session = s.session
      BY <2>2 DEF Accepts, AskedAs, Keeps
    <3>2. CASE new.pc = "truncate"
      <4>1. new.file = "session"
        BY <2>2 DEF AskedAs
      <4>2. SessionInHand(new)' /\ SessionOnDisk(new)'
        BY <2>0, <3>1, <3>2, <4>1 DEF SessionInHand, SessionOnDisk, Using, FilePcs
      <4>3. QED
        BY <2>2, <4>2
    <3>3. CASE new.pc = "answered" /\ s.pc = "get"
      <4>1. sessionFile = access.last
        BY <3>1, <3>3 DEF SessionOnDisk
      <4>2. QED
        BY <1>3, <2>0, <2>2, <3>3, <4>1 DEF FilePcs
    <3>4. QED
      BY <2>2, <3>2, <3>3 DEF AskedAs
  <2>3. ASSUME Stop(p), "lost_reply" \in setting.failures PROVE Goes
    BY <1>2, <2>3 DEF Untroubled
  <2>4. ASSUME Stop(p), Accepts(access, s.session), Answers(s.call) = {} PROVE Goes
    <3>1. ~Untroubled
      BY <1>0, <2>1, <2>4, ThereAnswers
    <3>2. QED
      BY <1>2, <2>4, <3>1
  <2>5. ~Accepts(access, s.session) => s.pc # "retry"
    BY DEF SessionInHand, Accepts
  <2>6. ASSUME NEW new \in ProcStates, Become(p, new), s.pc = "get", MovedAs(new, s, "refresh")
        PROVE  Goes
    <3>1. new.pc = "refresh"
      BY <2>6 DEF MovedAs
    <3>2. Untroubled => sessionFile = access.last
      BY <2>6 DEF SessionOnDisk
    <3>3. SessionInHand(new)' /\ SessionOnDisk(new)'
      BY <1>1, <2>0, <3>1, <3>2 DEF SessionInHand, SessionOnDisk, Using, FilePcs
    <3>4. QED
      BY <2>6, <3>3
  <2>7. QED
    BY <1>8, <2>2, <2>3, <2>4, <2>5, <2>6, AskIs
<1>9. CASE RefreshSession(p)
  <2>0. sessionFile' = sessionFile /\ s.pc = "refresh"
    BY <1>9, RefreshIs DEF RefreshSession, files
  <2>1. ASSUME NEW new \in ProcStates, Become(p, new), RefreshedAs(new, s),
               access' = NewSession(access)
        PROVE  Goes
    <3>1. access'.last = access.last + 1 /\ access'.fresh
      BY <2>1 DEF NewSession
    <3>2. new.session = access'.last /\ (new.pc = "retry" \/ (new.pc = "truncate" /\ new.file = "session"))
      BY <1>0, <2>1, <3>1 DEF RefreshedAs, Fits, CallFits
    <3>3. SessionInHand(new)' /\ SessionOnDisk(new)'
      BY <3>1, <3>2 DEF SessionInHand, SessionOnDisk, Using, FilePcs
    <3>4. QED
      BY <2>1, <3>3
  <2>2. ASSUME "lost_reply" \in setting.failures, Stop(p) PROVE Goes
    BY <1>2, <2>2 DEF Untroubled
  <2>3. ASSUME UNCHANGED access, Stop(p) PROVE Goes
    BY <1>2, <2>0, <2>3 DEF SessionOnDisk
  <2>4. QED
    BY <1>9, <2>1, <2>2, <2>3, RefreshIs
<1>10. CASE Truncate(p)
  <2>1. PICK new \in ProcStates : Become(p, new) /\ MovedAs(new, s, "write")
    BY <1>10, TruncateIs
  <2>2. /\ new.pc = "write" /\ new.file = s.file /\ new.session = s.session
        /\ s.pc = "truncate" /\ access' = access
    BY <1>10, <2>1, TruncateIs DEF MovedAs, Keeps, Truncate, serverVars
  <2>3. s.file # "session" => sessionFile' = sessionFile
    BY <1>10, SessionFileIs
  <2>4. SessionInHand(new)' /\ SessionOnDisk(new)'
    BY <2>2, <2>3 DEF SessionInHand, SessionOnDisk, Using, FilePcs
  <2>5. QED
    BY <2>1, <2>4
<1>11. CASE Write(p)
  <2>1. PICK new \in ProcStates : Become(p, new) /\ new.pc \in {"answered", "next", "ingest"}
    BY <1>11, WriteIs DEF MovedAs
  <2>2. s.pc = "write" /\ access' = access
    BY <1>11, WriteIs DEF Write, AfterWrite, serverVars
  <2>3. sessionFile' = access.last
    BY <1>11, <2>2, SessionFileIs DEF SessionInHand, SessionOnDisk, FilePcs
  <2>4. QED
    BY <1>3, <2>1, <2>2, <2>3 DEF FilePcs
<1>12. CASE Answered(p) \/ MarkDeleted(p) \/ Item(p) \/ Ingest(p) \/ NextEvent(p)
  <2>1. s.pc \in Using
    BY <1>12, AnsweredIs, MarkDeletedIs, ItemIs, IngestIs, NextEventIs DEF Using
  <2>2. UNCHANGED <<sessionFile, access>>
    BY <1>12 DEF Answered, MarkDeleted, Item, Ingest, NextEvent, files, serverVars
  <2>3. sessionFile' = access'.last
    BY <2>1, <2>2 DEF SessionOnDisk
  <2>4. Stop(p) \/ \E new \in ProcStates :
          /\ Become(p, new)
          /\ \/ AnsweredAs(new, s) \/ DeletedAs(new, s) \/ ItemAs(new, s) \/ IngestedAs(new, s)
             \/ PollsAs(new, s)
    BY <1>12, AnsweredIs, MarkDeletedIs, ItemIs, IngestIs, NextEventIs
  <2>5. QED
    BY <1>2, <1>3, <2>3, <2>4, UsesOn
<1>13. CASE RequestFails(p) \/ Kill(p)
  BY <1>2, <1>13 DEF RequestFails, Kill, Untroubled
<1>14. CASE StartSend(p)
  <2>1. s.pc = "idle" /\ UNCHANGED <<sessionFile, access>>
    BY <1>14 DEF StartSend, At, files
  <2>2. PICK new \in ProcStates : new.pc = "get" /\ new.session = sessionFile /\ Become(p, new)
    BY <1>14, StartSendFits
  <2>3. QED
    BY <1>4, <2>1, <2>2
<1>15. CASE SendAnswered(p)
  <2>1. s.pc = "answered" /\ UNCHANGED <<sessionFile, access>>
    BY <1>15 DEF SendAnswered, At, files
  <2>2. sessionFile' = access'.last
    BY <2>1 DEF SessionOnDisk, Using
  <2>3. QED
    BY <1>2, <1>3, <1>15, <2>2, SendAnsweredFits DEF FilePcs
<1>16. QED
  BY <1>5, <1>6, <1>7, <1>8, <1>9, <1>10, <1>11, <1>12, <1>13, <1>14, <1>15 DEF Acts, Step

LEMMA SessionStays ==
  ASSUME Typed, Typed', Alone, JobsInv, NoDelete => ThereInv, SessionInv, [SendNext]_vars
  PROVE  SessionInv'
<1>1. setting' = setting /\ Workers' = Workers
  BY SettingStays DEF Workers
<1>2. ASSUME UNCHANGED vars PROVE SessionInv'
  BY <1>1, <1>2 DEF SessionInv, SessionInHand, SessionOnDisk, Untroubled, NoDelete, vars,
                    serverVars, files
<1>3. ASSUME ServerEvent PROVE SessionInv'
  <2>1. UNCHANGED <<procs, sessionFile>>
    BY <1>3 DEF ServerEvent, files
  <2>2. access'.last = access.last /\ (access' = access \/ \A p \in Processes : procs[p].pc # "retry")
    <3>1. CASE Expire
      BY <3>1 DEF Expire, At, Typed, TypeOK, Accesses
    <3>2. CASE ~Expire
      BY <1>3, <3>2 DEF ServerEvent, Receive, Change, DeleteMail, AskForRefresh
    <3>3. QED
      BY <3>1, <3>2
  <2>3. ASSUME NEW p \in Workers', NEW s \in ProcStates, s = procs'[p]
        PROVE  SessionInHand(s)' /\ SessionOnDisk(s)'
    <3>1. SessionInHand(s) /\ SessionOnDisk(s) /\ s = procs[p] /\ p \in Processes
      BY <1>1, <2>1, <2>3 DEF SessionInv, Workers
    <3>2. SessionInHand(s)'
      BY <2>2, <3>1 DEF SessionInHand
    <3>3. SessionOnDisk(s)'
      BY <1>1, <2>1, <2>2, <3>1 DEF SessionOnDisk, Untroubled, NoDelete
    <3>4. QED
      BY <3>2, <3>3
  <2>4. QED
    BY <2>3 DEF SessionInv
<1>4. ASSUME NEW p \in Processes, Acts(p) PROVE SessionInv'
  <2>1. p \in Workers /\ \A q \in Workers : q = p
    BY <1>4, ActsOfWorkers, OneWorker
  <2>2. PICK s \in ProcStates : s = procs[p]
    BY DEF Typed, TypeOK
  <2>3. /\ SessionInHand(s) /\ SessionOnDisk(s)
        /\ Untroubled => HandThere(s)
    BY <2>1, <2>2 DEF SessionInv, Untroubled, ThereInv
  <2>4. PICK new \in ProcStates : Become(p, new) /\ SessionInHand(new)' /\ SessionOnDisk(new)'
    BY <1>4, <2>2, <2>3, StepHolds
  <2>5. procs'[p] = new
    BY <2>4, SendingIs
  <2>6. ASSUME NEW q \in Workers', NEW r \in ProcStates, r = procs'[q]
        PROVE  SessionInHand(r)' /\ SessionOnDisk(r)'
    <3>1. r = new
      BY <1>1, <2>1, <2>5, <2>6
    <3>2. QED
      BY <2>4, <3>1
  <2>7. QED
    BY <2>6 DEF SessionInv
<1>5. QED
  BY <1>2, <1>3, <1>4, StepsAre

LEMMA SessionAtFirst == Init => SessionInv /\ JobsInv
<1> SUFFICES ASSUME Init PROVE SessionInv /\ JobsInv
  OBVIOUS
<1>1. /\ sessionFile = 1 /\ access.last = 1
      /\ \A p \in Processes : procs[p] = Idle
  BY DEF Init
<1>2. JobsInv
  BY <1>1, IdleIs DEF JobsInv
<1>3. ASSUME NEW p \in Workers, NEW s \in ProcStates, s = procs[p]
      PROVE  SessionInHand(s) /\ SessionOnDisk(s)
  <2>1. s.pc = "idle"
    BY <1>1, <1>3, IdleIs DEF Workers
  <2>2. QED
    BY <1>1, <2>1 DEF SessionInHand, SessionOnDisk, FilePcs, Using
<1>4. QED
  BY <1>2, <1>3 DEF SessionInv

LEMMA SessionSays ==
  ASSUME Typed, Alone => SessionInv
  PROVE  SessionHeld
<1> SUFFICES ASSUME Alone, NEW p \in Workers,
                    \/ procs[p].pc \in Using
                    \/ At(p, "idle") /\ setting.failures = {} /\ "delete" \notin setting.events
             PROVE  sessionFile = access.last
  BY DEF SessionHeld
<1>1. PICK s \in ProcStates : s = procs[p]
  BY DEF Typed, TypeOK, Workers
<1>2. SessionOnDisk(s)
  BY <1>1 DEF SessionInv
<1>3. QED
  BY <1>1, <1>2 DEF SessionOnDisk, Untroubled, NoDelete, At

(* A process that is alone on the account works with an answer only once    *)
(* the session that the answer came with is on disk, and where nothing      *)
(* fails or is deleted it leaves the session that the server accepts (each  *)
(* caller of ProtonApiClient).                                              *)
THEOREM SessionIsHeld == SendSpec => []SessionHeld
<1> DEFINE Inv == Typed /\ JobsInv /\ (NoDelete => ThereInv) /\ (Alone => SessionInv)
<1>1. Init => Inv
  BY TypedAtFirst, ThereAtFirst, SessionAtFirst
<1>2. Inv /\ [SendNext]_vars => Inv'
  <2> SUFFICES ASSUME Inv, [SendNext]_vars PROVE Inv'
    OBVIOUS
  <2>1. Typed' /\ JobsInv' /\ setting' = setting
    BY TypedStays, JobsStay, SettingStays
  <2>2. (NoDelete <=> NoDelete') /\ (Alone <=> Alone')
    BY <2>1 DEF NoDelete, Alone, Workers
  <2>3. ASSUME NoDelete PROVE ThereInv'
    BY <2>1, <2>3, ThereStays
  <2>4. ASSUME Alone PROVE SessionInv'
    BY <2>1, <2>4, SessionStays
  <2>5. QED
    BY <2>1, <2>2, <2>3, <2>4
<1>3. Inv => SessionHeld
  BY SessionSays
<1>4. QED
  BY <1>1, <1>2, <1>3, PTL DEF SendSpec
-----------------------------------------------------------------------------
(* What was deleted stays deleted for a process that is alone *)

\* Without refreshes: a message that is deleted is gone, and named no more.
Departures ==
  \A i \in DOMAIN log :
    /\ log[i].action # "refresh"
    /\ log[i].action = "delete" =>
         /\ mails[log[i].id] = Gone
         /\ \A j \in DOMAIN log : i < j => log[j].id # log[i].id

\* What was deleted up to c, and what of it since the first cursor.
DeletedBy(c) == {log[i].id : i \in {j \in 1..c : log[j].action = "delete"}}

DeletedSince(c) == {log[i].id : i \in {j \in (since + 1)..c : log[j].action = "delete"}}

Dead(c) == \A m \in DeletedSince(c) : ~Live(m)

Apart(ids, c) == \A m \in ids : m \notin DeletedBy(c)

CursorDead == cursorFile \in Nat => cursorFile <= Len(log) /\ Dead(cursorFile)

\* The cursor in hand is the one on disk, or one that follows it.
CursorInHand(s) ==
  /\ s.cursor \in Nat => s.cursor <= Len(log)
  /\ s.task # "refresh"
  /\ s.task = "bootstrap" \/ s.pc = "next" => s.cursor = cursorFile
  /\ s.call.op = "event" => s.call.from = cursorFile
  /\ s.pc \in FilePcs /\ s.file = "cursor" => s.call.op # "event"
  /\ s.task = "events" \/ s.pc = "delete" =>
       cursorFile \in Nat /\ cursorFile <= s.cursor

AnswerApart(s) ==
  /\ HasAnswer(s) /\ s.call.op \in {"latest", "event"} =>
       s.answer.upto <= Len(log) /\ ~s.answer.refresh
  /\ HasAnswer(s) /\ s.call.op = "page" /\ cursorFile \in Nat =>
       Apart(IdsOf(s.answer.items), cursorFile)
  /\ HasAnswer(s) /\ s.call.op = "event" =>
       /\ cursorFile <= s.answer.upto
       /\ \A m \in DeletedSince(s.answer.upto) :
            m \in DeletedSince(cursorFile) \union Named(s.answer.changes, {"delete"})
       /\ Apart(Named(s.answer.changes, {"create", "update"}), s.answer.upto)

HandApart(s) ==
  /\ s.task \in Walks /\ cursorFile \in Nat => Apart(IdsOf(s.todo), cursorFile)
  /\ s.pc = "delete" =>
       /\ \A m \in DeletedSince(s.cursor) : ~Live(m) \/ m \in IdsOf(s.todo)
       /\ Apart(Named(s.changes, {"create", "update"}), s.cursor)
  /\ s.task = "events" => Apart(IdsOf(s.todo), s.cursor) /\ Dead(s.cursor)
  /\ s.pc \in FilePcs /\ s.file = "cursor" /\ s.call.op # "latest" => Dead(s.cursor)

Buries(s) == CursorInHand(s) /\ AnswerApart(s) /\ HandApart(s)

DepartInv ==
  /\ Departures /\ CursorDead
  /\ \A p \in Workers, s \in ProcStates : s = procs[p] => Buries(s)

NoRefresh == "refresh" \notin setting.events

LEMMA LogIs ==
  ASSUME Typed
  PROVE  /\ log \in Seq(Entries) /\ Len(log) \in Nat /\ DOMAIN log = 1..Len(log)
         /\ \A i \in DOMAIN log :
              /\ log[i] \in Entries
              /\ log[i].action # "refresh" => log[i].id \in Msgs
         /\ since \in Nat /\ cursorFile \in Nat \union {None, Torn}
         /\ mails \in Mailboxes /\ rows \in [Msgs -> Rows \union {None}]
<1>1. /\ log \in Seq(Entries) /\ since \in Nat /\ cursorFile \in Nat \union {None, Torn}
      /\ mails \in Mailboxes /\ rows \in [Msgs -> Rows \union {None}]
  BY DEF Typed, TypeOK
<1>2. Len(log) \in Nat /\ DOMAIN log = 1..Len(log) /\ \A i \in DOMAIN log : log[i] \in Entries
  BY <1>1, LenProperties
<1>3. ASSUME NEW i \in DOMAIN log, log[i].action # "refresh" PROVE log[i].id \in Msgs
  BY <1>2, <1>3 DEF Entries
<1>4. QED
  BY <1>1, <1>2, <1>3

\* What was deleted up to c is deleted, whatever happens then.
LEMMA DeletedKeep ==
  ASSUME Typed, NEW entry \in Entries, log' = log \/ log' = Append(log, entry), since' = since,
         NEW c \in Nat, c <= Len(log)
  PROVE  /\ c <= Len(log')
         /\ DeletedBy(c)' = DeletedBy(c) /\ DeletedSince(c)' = DeletedSince(c)
<1>1. log \in Seq(Entries) /\ Len(log) \in Nat /\ since \in Nat
  BY LogIs
<1>2. c <= Len(log') /\ \A i \in 1..c : log'[i] = log[i]
  BY <1>1
<1>3. DeletedBy(c)' = DeletedBy(c)
  BY <1>2 DEF DeletedBy
<1>4. \A i \in (since + 1)..c : i \in 1..c
  BY <1>1
<1>5. DeletedSince(c)' = DeletedSince(c)
  BY <1>2, <1>4 DEF DeletedSince
<1>6. QED
  BY <1>2, <1>3, <1>5

LEMMA DeletedAre ==
  ASSUME Typed, NEW c \in Nat
  PROVE  /\ DeletedSince(c) \subseteq DeletedBy(c)
         /\ \A d \in Nat : c <= d => DeletedBy(c) \subseteq DeletedBy(d)
         /\ Departures /\ c <= Len(log) => \A m \in DeletedBy(c) : m \in Msgs /\ mails[m] = Gone
<1>1. /\ log \in Seq(Entries) /\ Len(log) \in Nat /\ DOMAIN log = 1..Len(log) /\ since \in Nat
      /\ \A i \in DOMAIN log : log[i].action # "refresh" => log[i].id \in Msgs
  BY LogIs
<1>2. DeletedSince(c) \subseteq DeletedBy(c)
  BY <1>1 DEF DeletedSince, DeletedBy
<1>3. ASSUME NEW d \in Nat, c <= d PROVE DeletedBy(c) \subseteq DeletedBy(d)
  BY <1>3 DEF DeletedBy
<1>4. ASSUME Departures, c <= Len(log), NEW m \in DeletedBy(c) PROVE m \in Msgs /\ mails[m] = Gone
  <2>1. PICK i \in 1..c : log[i].action = "delete" /\ log[i].id = m
    BY <1>4 DEF DeletedBy
  <2>2. i \in DOMAIN log
    BY <1>1, <1>4
  <2>3. QED
    BY <1>1, <1>4, <2>1, <2>2 DEF Departures
<1>5. QED
  BY <1>2, <1>3, <1>4

\* The server logs nothing of a message that it has deleted.
LEMMA DeparturesStay ==
  ASSUME Typed, NoRefresh, Departures, ServerEvent
  PROVE  /\ Departures'
         /\ \E entry \in Entries : log' = log \/ log' = Append(log, entry)
<1>1. /\ log \in Seq(Entries) /\ Len(log) \in Nat /\ DOMAIN log = 1..Len(log)
      /\ \A i \in DOMAIN log : log[i].action # "refresh" => log[i].id \in Msgs
      /\ mails \in Mailboxes
  BY LogIs
<1>2. CASE UNCHANGED <<mails, log>>
  <2>1. [action |-> "refresh"] \in Entries
    BY DEF Entries
  <2>2. QED
    BY <1>2, <2>1 DEF Departures
<1>3. CASE ~UNCHANGED <<mails, log>>
  <2>1. PICK entry \in Entries, new \in MailStates \union {Gone} :
          /\ log' = Append(log, entry)
          /\ entry.action # "refresh" /\ entry.id \in Msgs
          /\ mails' = [mails EXCEPT ![entry.id] = new]
          /\ mails[entry.id] # Gone
          /\ new = Gone <=> entry.action = "delete"
    BY <1>3, ServerIs DEF NoRefresh
  <2>2. DOMAIN log' = 1..(Len(log) + 1)
    BY <1>1, <2>1
  <2>3. log'[Len(log) + 1] = entry /\ \A i \in DOMAIN log : log'[i] = log[i]
    BY <1>1, <2>1
  <2>4. \A m \in Msgs : mails'[m] = IF m = entry.id THEN new ELSE mails[m]
    BY <1>1, <2>1 DEF Mailboxes
  <2>5. ASSUME NEW i \in DOMAIN log' PROVE log'[i].action # "refresh"
    BY <1>1, <2>1, <2>2, <2>3 DEF Departures
  <2>6. ASSUME NEW i \in DOMAIN log', log'[i].action = "delete"
        PROVE  mails'[log'[i].id] = Gone /\ \A j \in DOMAIN log' : i < j => log'[j].id # log'[i].id
    <3>1. CASE i = Len(log) + 1
      <4>1. mails'[entry.id] = Gone
        BY <2>1, <2>3, <2>4, <2>6, <3>1
      <4>2. \A j \in DOMAIN log' : ~(i < j)
        BY <1>1, <2>2, <3>1
      <4>3. QED
        BY <2>3, <3>1, <4>1, <4>2
    <3>2. CASE i \in DOMAIN log
      <4>1. /\ log'[i] = log[i] /\ mails[log[i].id] = Gone /\ log[i].id \in Msgs
            /\ \A j \in DOMAIN log : i < j => log[j].id # log[i].id
        BY <1>1, <2>3, <2>6, <3>2 DEF Departures
      <4>2. log[i].id # entry.id
        BY <2>1, <4>1
      <4>3. QED
        BY <1>1, <2>2, <2>3, <2>4, <4>1, <4>2
    <3>3. QED
      BY <1>1, <2>2, <3>1, <3>2
  <2>7. Departures'
    BY <2>5, <2>6 DEF Departures
  <2>8. QED
    BY <2>1, <2>7
<1>4. QED
  BY <1>2, <1>3

\* The state of the commands and files decides the rest.
LEMMA BuriesStay ==
  ASSUME Typed, CursorDead, NEW s \in ProcStates, Fits(s), Buries(s),
         NEW entry \in Entries, log' = log \/ log' = Append(log, entry),
         UNCHANGED <<cursorFile, rows, since>>
  PROVE  Buries(s)' /\ CursorDead'
<1>0. /\ since' = since /\ rows' = rows /\ cursorFile' = cursorFile
      /\ \A c \in Nat : c <= Len(log) => /\ c <= Len(log')
                                         /\ DeletedBy(c)' = DeletedBy(c)
                                         /\ DeletedSince(c)' = DeletedSince(c)
  BY DeletedKeep
<1>1. \A c \in Nat : c <= Len(log) => (Dead(c)' <=> Dead(c))
  BY <1>0 DEF Dead, Live
<1>2. cursorFile \in Nat => cursorFile <= Len(log)
  BY DEF CursorDead
<1>3. CursorDead'
  BY <1>0, <1>1, <1>2 DEF CursorDead
<1>4. s.cursor \in Nat => s.cursor <= Len(log)
  BY DEF Buries, CursorInHand
<1>5. CursorInHand(s)'
  BY <1>0, <1>4 DEF Buries, CursorInHand
<1>6. AnswerApart(s)'
  <2>1. HasAnswer(s) /\ s.call.op \in {"latest", "event"} => s.answer.upto \in Nat
    BY DEF Fits, HandFits, HasAnswer, IsAnswer, EventAnswers
  <2>2. ASSUME HasAnswer(s), s.call.op = "event" PROVE cursorFile \in Nat
    BY <2>2 DEF Buries, CursorInHand, ProcStates, Calls
  <2>3. ASSUME HasAnswer(s), s.call.op \in {"latest", "event"}
        PROVE  s.answer.upto <= Len(log') /\ ~s.answer.refresh
    BY <1>0, <2>1, <2>3 DEF Buries, AnswerApart
  <2>4. ASSUME HasAnswer(s), s.call.op = "page", cursorFile' \in Nat
        PROVE  Apart(IdsOf(s.answer.items), cursorFile)'
    BY <1>0, <1>2, <2>4 DEF Buries, AnswerApart, Apart
  <2>5. ASSUME HasAnswer(s), s.call.op = "event"
        PROVE  /\ cursorFile' <= s.answer.upto
               /\ \A m \in DeletedSince(s.answer.upto)' :
                    m \in DeletedSince(cursorFile)' \union Named(s.answer.changes, {"delete"})
               /\ Apart(Named(s.answer.changes, {"create", "update"}), s.answer.upto)'
    <3>1. s.answer.upto \in Nat /\ s.answer.upto <= Len(log) /\ cursorFile \in Nat
      BY <2>1, <2>2, <2>5 DEF Buries, AnswerApart
    <3>2. PICK upto \in Nat : upto = s.answer.upto
      BY <3>1
    <3>3. DeletedBy(upto)' = DeletedBy(upto) /\ DeletedSince(upto)' = DeletedSince(upto)
      BY <1>0, <3>1, <3>2
    <3>4. DeletedSince(cursorFile)' = DeletedSince(cursorFile)
      BY <1>0, <1>2, <3>1
    <3>5. QED
      BY <1>0, <2>5, <3>1, <3>2, <3>3, <3>4 DEF Buries, AnswerApart, Apart
  <2>6. QED
    BY <2>3, <2>4, <2>5 DEF AnswerApart
<1>7. HandApart(s)'
  <2>1. ASSUME s.task \in Walks, cursorFile' \in Nat PROVE Apart(IdsOf(s.todo), cursorFile)'
    BY <1>0, <1>2, <2>1 DEF Buries, HandApart, Apart
  <2>2. ASSUME s.pc = "delete"
        PROVE  /\ \A m \in DeletedSince(s.cursor)' : ~Live(m)' \/ m \in IdsOf(s.todo)
               /\ Apart(Named(s.changes, {"create", "update"}), s.cursor)'
    <3>1. PICK c \in Nat : c = s.cursor /\ c <= Len(log)
      BY <1>4, <2>2 DEF Fits, HandFits
    <3>2. QED
      BY <1>0, <2>2, <3>1 DEF Buries, HandApart, Apart, Live
  <2>3. ASSUME s.task = "events" PROVE Apart(IdsOf(s.todo), s.cursor)' /\ Dead(s.cursor)'
    <3>1. PICK c \in Nat : c = s.cursor /\ c <= Len(log)
      BY <1>4, <2>3 DEF Fits, HandFits
    <3>2. QED
      BY <1>0, <1>1, <2>3, <3>1 DEF Buries, HandApart, Apart
  <2>4. ASSUME s.pc \in FilePcs, s.file = "cursor", s.call.op # "latest" PROVE Dead(s.cursor)'
    <3>1. PICK c \in Nat : c = s.cursor /\ c <= Len(log)
      BY <1>4, <2>4 DEF Fits, HandFits
    <3>2. QED
      BY <1>1, <2>4, <3>1 DEF Buries, HandApart
  <2>5. QED
    BY <2>1, <2>2, <2>3, <2>4 DEF HandApart
<1>8. QED
  BY <1>3, <1>5, <1>6, <1>7 DEF Buries

\* A merge names what it deletes, and nothing else that is deleted.
LEMMA MergedApart ==
  ASSUME Typed, Departures, NEW from \in Nat, NEW upto \in Nat, from <= upto, upto <= Len(log),
         NEW changes, changes = Merged(log, from, upto)
  PROVE  /\ \A m \in DeletedSince(upto) :
              m \in DeletedSince(from) \union Named(changes, {"delete"})
         /\ Apart(Named(changes, {"create", "update"}), upto)
         /\ ~NeedsRefresh(log, from, upto)
<1>1. /\ Len(log) \in Nat /\ DOMAIN log = 1..Len(log) /\ since \in Nat
  BY LogIs
<1>2. ASSUME NEW m \in DeletedSince(upto)
      PROVE  m \in DeletedSince(from) \union Named(changes, {"delete"})
  <2>1. PICK i \in (since + 1)..upto : log[i].action = "delete" /\ log[i].id = m
    BY <1>2 DEF DeletedSince
  <2>2. CASE i <= from
    BY <1>1, <2>1, <2>2 DEF DeletedSince
  <2>3. CASE i > from
    <3>1. i \in (from + 1)..upto /\ i \in DOMAIN log
      BY <1>1, <2>1, <2>3
    <3>2. \A k \in (i + 1)..upto : k \in DOMAIN log /\ i < k
      BY <1>1, <3>1
    <3>3. \A k \in (i + 1)..upto : log[k].id # log[i].id
      BY <2>1, <3>1, <3>2 DEF Departures
    <3>4. log[i] \in changes
      BY <2>1, <3>1, <3>3 DEF Merged
    <3>5. QED
      BY <2>1, <3>4 DEF Named
  <2>4. QED
    BY <1>1, <2>1, <2>2, <2>3
<1>3. ASSUME NEW m \in Named(changes, {"create", "update"}), m \in DeletedBy(upto) PROVE FALSE
  <2>1. PICK change \in changes : change.action \in {"create", "update"} /\ change.id = m
    BY <1>3 DEF Named
  <2>2. PICK j \in (from + 1)..upto :
          /\ change = log[j] /\ log[j].action # "refresh"
          /\ \A k \in (j + 1)..upto : log[k].action # "refresh" => log[k].id # log[j].id
    BY <2>1 DEF Merged
  <2>3. PICK i \in 1..upto : log[i].action = "delete" /\ log[i].id = m
    BY <1>3 DEF DeletedBy
  <2>4. i \in DOMAIN log /\ j \in DOMAIN log
    BY <1>1, <2>2
  <2>5. i # j
    BY <2>1, <2>2, <2>3
  <2>6. CASE i < j
    BY <2>1, <2>2, <2>3, <2>4, <2>6 DEF Departures
  <2>7. CASE i > j
    BY <2>1, <2>2, <2>3, <2>7
  <2>8. QED
    BY <2>5, <2>6, <2>7
<1>4. \A i \in (from + 1)..upto : log[i].action # "refresh"
  BY <1>1 DEF Departures
<1>5. QED
  BY <1>2, <1>3, <1>4 DEF Apart, NeedsRefresh

LEMMA AskedBuries ==
  ASSUME Typed, Departures, CursorDead, NEW s \in ProcStates, NEW new \in ProcStates,
         Fits(s), Buries(s), s.pc \in {"get", "retry"}, AskedAs(new, s)
  PROVE  Buries(new)
<1>1. /\ new.cursor = s.cursor /\ new.task = s.task /\ new.todo = s.todo
      /\ new.changes = s.changes /\ new.call = s.call /\ new.file = "session"
      /\ new.pc \in {"truncate", "answered"} /\ new.answer \in Answers(s.call)
  BY DEF AskedAs, Keeps, SameHand
<1>2. /\ setting.pageSize \in Nat \ {0} /\ setting.merge \in Nat \ {0}
      /\ mails \in Mailboxes /\ Len(log) \in Nat
  BY LogIs, ClientAssumption DEF Typed, TypeOK
<1>3. s.call \in Calls
  BY DEF ProcStates
<1>4. CursorInHand(new) /\ HandApart(new)
  BY <1>1 DEF Buries, CursorInHand, HandApart
<1>5. ASSUME s.call.op = "latest" PROVE AnswerApart(new)
  <2>1. new.answer = [upto |-> Len(log), more |-> FALSE, refresh |-> FALSE, changes |-> {}]
    BY <1>1, <1>5 DEF Answers
  <2>2. new.answer.upto = Len(log)
    BY <2>1
  <2>3. ~new.answer.refresh
    <3>1. new.answer.refresh = FALSE
      BY <2>1
    <3>2. QED
      BY <3>1, Zenon
  <2>4. QED
    BY <1>1, <1>2, <1>5, <2>2, <2>3 DEF AnswerApart
<1>6. ASSUME s.call.op = "event" PROVE AnswerApart(new)
  <2>1. PICK from \in Nat : from = s.call.from /\ from = cursorFile /\ from <= Len(log)
    BY <1>3, <1>6 DEF Calls, Buries, CursorInHand, CursorDead
  <2>2. PICK upto \in Nat : upto = Upto(from) /\ upto <= Len(log) /\ from <= upto
    BY <1>2, <2>1 DEF Upto
  <2>3. PICK changes : changes = Merged(log, from, upto)
    OBVIOUS
  <2>4. /\ \A m \in DeletedSince(upto) : m \in DeletedSince(from) \union Named(changes, {"delete"})
        /\ Apart(Named(changes, {"create", "update"}), upto)
        /\ ~NeedsRefresh(log, from, upto)
    BY <2>1, <2>2, <2>3, MergedApart
  <2>5. new.answer = [upto |-> Upto(s.call.from), more |-> Upto(s.call.from) < Len(log),
                      refresh |-> NeedsRefresh(log, s.call.from, Upto(s.call.from)),
                      changes |-> Merged(log, s.call.from, Upto(s.call.from))]
    BY <1>1, <1>6 DEF Answers
  <2>6. new.answer.upto = upto /\ new.answer.changes = changes
    BY <1>1, <1>6, <2>1, <2>2, <2>3 DEF Answers
  <2>7. PICK needs, more : needs = NeedsRefresh(log, from, upto) /\ more = (upto < Len(log))
    OBVIOUS
  <2>8. ~new.answer.refresh
    <3>1. new.answer = [upto |-> upto, more |-> more, refresh |-> needs, changes |-> changes]
      BY <2>1, <2>2, <2>3, <2>5, <2>7, Zenon
    <3>2. new.answer.refresh = needs
      BY <3>1
    <3>3. ~needs
      BY <2>4, <2>7, Zenon
    <3>4. QED
      BY <3>2, <3>3, Zenon
  <2>9. QED
    BY <1>1, <1>6, <2>1, <2>2, <2>4, <2>6, <2>8 DEF AnswerApart
<1>7. ASSUME s.call.op = "page" PROVE AnswerApart(new)
  <2>1. PICK page \in Nat : page = s.call.page
    BY <1>3, <1>7 DEF Calls
  <2>2. PICK items : items = MessagePage(mails, page, setting.pageSize)
    OBVIOUS
  <2>3. new.answer.items = items
    BY <1>1, <1>7, <2>1, <2>2 DEF Answers
  <2>4. \A i \in DOMAIN items : Exists(mails, items[i].id)
    BY <1>2, <2>2, PageIs
  <2>5. \A m \in IdsOf(items) : Exists(mails, m)
    BY <2>4 DEF IdsOf
  <2>6. cursorFile \in Nat => \A m \in DeletedBy(cursorFile) : mails[m] = Gone
    BY DeletedAre DEF CursorDead
  <2>7. cursorFile \in Nat => Apart(IdsOf(items), cursorFile)
    BY <2>5, <2>6, ProtonAssumption DEF Apart, Exists
  <2>8. QED
    BY <1>1, <1>7, <2>3, <2>7 DEF AnswerApart
<1>8. QED
  BY <1>1, <1>4, <1>5, <1>6, <1>7 DEF Buries, AnswerApart

\* A command that begins, or has ended.
LEMMA FreshBuries ==
  ASSUME CursorDead, NEW new \in ProcStates,
         IdsOf(new.todo) = {}, ~HasAnswer(new) \/ new.call.op \in {"check", "login"},
         new.pc \in {"idle", "get", "refresh", "truncate"},
         new.pc = "truncate" => new.file = "session",
         new.task \in {"idle", "bootstrap", "sync", "send"},
         \/ new.cursor = None /\ new.task # "bootstrap" /\ new.call.op # "event"
         \/ /\ new.cursor = cursorFile
            /\ new.call.op = "event" => new.call.from = cursorFile
  PROVE  Buries(new)
<1>1. CursorInHand(new)
  BY ClientAssumption DEF CursorInHand, CursorDead, FilePcs
<1>2. AnswerApart(new)
  BY DEF AnswerApart
<1>3. HandApart(new)
  BY DEF HandApart, Apart, FilePcs
<1>4. QED
  BY <1>1, <1>2, <1>3 DEF Buries

\* What goes on with what was in hand, or less.
LEMMA PassBuries ==
  ASSUME NEW s \in ProcStates, NEW new \in ProcStates, Buries(s),
         new.cursor = s.cursor, new.task = s.task, new.changes = s.changes,
         IdsOf(new.todo) \subseteq IdsOf(s.todo), new.pc \notin {"delete", "next"},
         new.pc \in FilePcs => new.file = "session" \/ new.file = "cache" \/ new.call.op = "latest"
                               \/ (s.pc \in FilePcs /\ s.file = "cursor" /\ new.call = s.call),
         new.call.op = "event" => new.call = s.call \/ (s.pc = "next" /\ new.call.from = s.cursor),
         HasAnswer(new) /\ new.call.op \in {"latest", "event", "page"} =>
           HasAnswer(s) /\ new.call = s.call /\ new.answer = s.answer,
         new.pc \in FilePcs /\ new.file = "cursor" => new.call.op # "event"
  PROVE  Buries(new)
<1>1. CursorInHand(new)
  BY DEF Buries, CursorInHand
<1>2. AnswerApart(new)
  BY DEF Buries, AnswerApart
<1>3. HandApart(new)
  BY DEF Buries, HandApart, Apart
<1>4. QED
  BY <1>1, <1>2, <1>3 DEF Buries

\* A sync that has come to its end has buried what its cursor passes.
LEMMA EndedBuries ==
  ASSUME Typed, CursorDead, NEW s \in ProcStates, NEW new \in ProcStates, Fits(s), Buries(s),
         s.task \in Walks \union {"events"}, s.pc \notin {"delete", "next"}, EndedAs(new, s)
  PROVE  Buries(new)
<1>1. /\ new.cursor = s.cursor /\ new.task = "idle" /\ new.todo = NoItems
      /\ IdsOf(new.todo) = {}
  BY IdsAre DEF EndedAs
<1>2. CASE s.task = "bootstrap"
  <2>1. /\ new.pc = "get"
        /\ \/ s.cursor = None /\ new.call = [op |-> "latest"]
           \/ s.cursor \in Nat /\ new.call = EventCall(s.cursor)
    BY <1>2 DEF EndedAs
  <2>2. s.cursor = cursorFile
    BY <1>2 DEF Buries, CursorInHand
  <2>3. ~HasAnswer(new) /\ (new.call.op = "event" => new.call.from = cursorFile)
    BY <2>1, <2>2 DEF HasAnswer, NetPcs, EventCall
  <2>4. QED
    BY <1>1, <2>1, <2>2, <2>3, FreshBuries
<1>3. CASE s.task = "events"
  <2>1. new.pc = "truncate" /\ new.file = "cursor" /\ new.call = NoCall
    BY <1>3 DEF EndedAs
  <2>2. new.call.op = "keys"
    BY <2>1 DEF NoCall
  <2>3. Dead(s.cursor) /\ (s.cursor \in Nat => s.cursor <= Len(log))
    BY <1>3 DEF Buries, HandApart, CursorInHand
  <2>4. CursorInHand(new)
    BY <1>1, <2>1, <2>2, <2>3 DEF CursorInHand
  <2>5. AnswerApart(new)
    BY <2>2 DEF AnswerApart
  <2>6. HandApart(new)
    BY <1>1, <2>1, <2>3 DEF HandApart, Walks
  <2>7. QED
    BY <2>4, <2>5, <2>6 DEF Buries
<1>4. s.task \notin {"sync", "refresh"}
  BY DEF Buries, CursorInHand, EndedAs
<1>5. QED
  BY <1>2, <1>3, <1>4 DEF Walks

LEMMA AnsweredBuries ==
  ASSUME Typed, CursorDead, NEW s \in ProcStates, NEW new \in ProcStates, Fits(s), Buries(s),
         s.pc = "answered", s.task # "send", AnsweredAs(new, s)
  PROVE  Buries(new)
<1>0. HasAnswer(s)
  BY DEF HasAnswer, Asking, NetPcs
<1>1. CASE s.call.op = "keys" /\ FirstOf(new, s)
  <2>1. /\ new.cursor = s.cursor /\ new.task = s.task
        /\ new.todo = s.todo /\ new.changes = s.changes /\ new.call \in {NoCall, PageCall(0)}
        /\ new.pc \in {"item", "get"}
    BY <1>1 DEF FirstOf, SameHand, Keeps
  <2>2. new.call.op \in {"keys", "page"} /\ ~HasAnswer(new)
    BY <2>1 DEF NoCall, PageCall, HasAnswer, Asking, NetPcs, FilePcs
  <2>3. QED
    BY <2>1, <2>2, PassBuries DEF FilePcs
<1>2. CASE s.call.op = "page" /\ EndedAs(new, s)
  <2>1. s.task \in Walks
    BY <1>2 DEF Fits, CallFits
  <2>2. QED
    BY <1>2, <2>1, EndedBuries
<1>3. CASE s.call.op = "page" /\ PagedAs(new, s)
  <2>1. /\ new.cursor = s.cursor /\ new.task = s.task
        /\ new.todo = s.answer.items /\ new.changes = s.changes /\ new.call = NoCall
        /\ new.pc = "item"
    BY <1>3 DEF PagedAs, Keeps
  <2>2. new.call.op = "keys" /\ s.task \in Walks
    BY <1>3, <2>1 DEF NoCall, Fits, CallFits
  <2>3. cursorFile \in Nat => Apart(IdsOf(new.todo), cursorFile)
    BY <1>0, <1>3, <2>1 DEF Buries, AnswerApart
  <2>4. CursorInHand(new)
    BY <2>1, <2>2 DEF Buries, CursorInHand, FilePcs, Walks
  <2>5. AnswerApart(new)
    BY <2>2 DEF AnswerApart
  <2>6. HandApart(new)
    BY <2>1, <2>2, <2>3 DEF HandApart, FilePcs, Walks
  <2>7. QED
    BY <2>4, <2>5, <2>6 DEF Buries
<1>4. CASE s.call.op = "fetch" /\ FetchedAs(new, s)
  <2>1. /\ new.todo = s.todo /\ new.changes = s.changes /\ new.call = s.call
        /\ new.cursor = s.cursor /\ new.task = s.task /\ new.pc = "truncate" /\ new.file = "cache"
    BY <1>4 DEF FetchedAs, SameHand, Keeps
  <2>2. QED
    BY <1>4, <2>1, PassBuries
<1>5. CASE s.call.op = "latest" /\ LatestAs(new, s)
  <2>1. /\ new.cursor = s.answer.upto /\ new.task = s.task /\ new.pc = "truncate"
        /\ new.file = "cursor" /\ new.call = s.call
    BY <1>5 DEF LatestAs, SameHand
  <2>2. s.task = "idle" /\ s.answer.upto <= Len(log)
    BY <1>0, <1>5 DEF Fits, CallFits, Buries, AnswerApart
  <2>3. CursorInHand(new)
    BY <1>5, <2>1, <2>2 DEF CursorInHand
  <2>4. AnswerApart(new)
    BY <1>5, <2>1 DEF AnswerApart, HasAnswer, Asking, NetPcs, FilePcs
  <2>5. HandApart(new)
    BY <1>5, <2>1, <2>2 DEF HandApart, Walks
  <2>6. QED
    BY <2>3, <2>4, <2>5 DEF Buries
<1>6. CASE s.call.op = "event" /\ ChangesAs(new, s)
  <2>1. /\ new.changes = s.answer.changes /\ new.pc = "delete" /\ new.call = NoCall
        /\ new.todo = Changed(s.answer.changes, {"delete"}) /\ new.cursor = s.answer.upto
        /\ new.task = s.task
    BY <1>6 DEF ChangesAs
  <2>2. s.answer.changes \in SUBSET Entries /\ s.answer.upto \in Nat /\ s.task = "idle"
    BY <1>0, <1>6 DEF Fits, HandFits, CallFits, HasAnswer, IsAnswer, EventAnswers
  <2>3. IdsOf(new.todo) = Named(s.answer.changes, {"delete"})
    BY <2>1, <2>2, NamedIs
  <2>4. /\ cursorFile \in Nat /\ cursorFile <= s.answer.upto /\ s.answer.upto <= Len(log)
        /\ \A m \in DeletedSince(s.answer.upto) :
             m \in DeletedSince(cursorFile) \union Named(s.answer.changes, {"delete"})
        /\ Apart(Named(s.answer.changes, {"create", "update"}), s.answer.upto)
    BY <1>0, <1>6 DEF Buries, AnswerApart, CursorInHand, ProcStates, Calls
  <2>5. Dead(cursorFile)
    BY <2>4 DEF CursorDead
  <2>6. CursorInHand(new)
    BY <2>1, <2>2, <2>4 DEF CursorInHand, NoCall, FilePcs
  <2>7. AnswerApart(new)
    BY <2>1 DEF AnswerApart, NoCall
  <2>8. HandApart(new)
    BY <2>1, <2>2, <2>3, <2>4, <2>5 DEF HandApart, Dead, FilePcs, Walks
  <2>9. QED
    BY <2>6, <2>7, <2>8 DEF Buries
<1>7. CASE s.call.op = "event" /\ RefreshAs(new, s)
  <2>1. ~s.answer.refresh
    BY <1>0, <1>7 DEF Buries, AnswerApart
  <2>2. s.answer.refresh
    BY <1>7 DEF RefreshAs
  <2>3. QED
    BY <2>1, <2>2, Zenon
<1>8. QED
  BY <1>1, <1>2, <1>3, <1>4, <1>5, <1>6, <1>7 DEF AnsweredAs

LEMMA ItemBuries ==
  ASSUME Typed, CursorDead, NEW s \in ProcStates, NEW new \in ProcStates, Fits(s), Buries(s),
         s.pc = "item", ItemAs(new, s)
  PROVE  Buries(new)
<1>1. CASE s.todo # <<>> /\ SameHand(new, s) /\ Keeps(new, s) /\ new.pc = "ingest" /\ new.call = NoCall
  <2>1. /\ new.cursor = s.cursor /\ new.task = s.task /\ new.changes = s.changes
        /\ new.todo = s.todo /\ new.call.op = "keys"
    BY <1>1 DEF SameHand, Keeps, NoCall
  <2>2. QED
    BY <1>1, <2>1, PassBuries DEF FilePcs
<1>2. CASE /\ s.todo # <<>> /\ SameHand(new, s) /\ Keeps(new, s) /\ new.pc = "get"
           /\ new.call = [op |-> "fetch", id |-> Head(s.todo).id]
  <2>1. /\ new.cursor = s.cursor /\ new.task = s.task /\ new.changes = s.changes
        /\ new.todo = s.todo /\ new.call.op = "fetch"
    BY <1>2 DEF SameHand, Keeps
  <2>2. QED
    BY <1>2, <2>1, PassBuries DEF FilePcs
<1>3. CASE /\ s.todo # <<>> /\ Keeps(new, s) /\ new.pc = "item" /\ new.call = NoCall
           /\ new.task = s.task /\ new.todo = Tail(s.todo) /\ new.changes = s.changes
  <2>1. IdsOf(new.todo) \subseteq IdsOf(s.todo)
    BY <1>3, IdsAre DEF ProcStates
  <2>2. new.cursor = s.cursor /\ new.call.op = "keys"
    BY <1>3 DEF Keeps, NoCall
  <2>3. QED
    BY <1>3, <2>1, <2>2, PassBuries DEF FilePcs
<1>4. CASE EndedAs(new, s)
  <2>1. s.task \in Walks \union {"events"}
    BY DEF Fits, HandFits
  <2>2. QED
    BY <1>4, <2>1, EndedBuries
<1>5. CASE /\ Keeps(new, s) /\ new.pc = "get" /\ new.call = PageCall(s.page + 1)
           /\ new.task = s.task /\ new.todo = s.todo /\ new.changes = s.changes
  <2>1. new.cursor = s.cursor /\ new.call.op = "page" /\ ~HasAnswer(new)
    BY <1>5 DEF Keeps, PageCall, HasAnswer, NetPcs
  <2>2. QED
    BY <1>5, <2>1, PassBuries DEF FilePcs
<1>6. QED
  BY <1>1, <1>2, <1>3, <1>4, <1>5 DEF ItemAs

\* Marking a message leaves the other rows as they are.
LEMMA RowsDie ==
  ASSUME Typed, NEW p \in Processes, NEW s \in ProcStates, s = procs[p], MarkDeleted(p)
  PROVE  /\ \A m \in Msgs : Live(m)' => Live(m)
         /\ s.todo # <<>> => ~Live(Head(s.todo).id)'
<1>1. rows \in [Msgs -> Rows \union {None}] /\ s.todo \in Seq(Items)
  BY DEF Typed, TypeOK, ProcStates
<1>2. CASE s.todo = <<>> \/ rows[Head(s.todo).id] = None
  <2>1. rows' = rows
    BY <1>2 DEF MarkDeleted
  <2>2. QED
    BY <1>2, <2>1 DEF Live
<1>3. CASE s.todo # <<>> /\ rows[Head(s.todo).id] # None
  <2>1. PICK item \in Items : item = Head(s.todo)
    BY <1>1, <1>3, TailIs
  <2>2. PICK id \in Msgs : id = Head(s.todo).id
    BY <2>1 DEF Items
  <2>3. PICK row \in Rows : row = rows[id]
    BY <1>1, <1>3, <2>2
  <2>4. PICK dead : dead = [row EXCEPT !.live = FALSE]
    OBVIOUS
  <2>5. rows' = [rows EXCEPT ![id] = dead]
    BY <1>3, <2>2, <2>3, <2>4 DEF MarkDeleted
  <2>6. rows'[id] = dead /\ \A m \in Msgs : m # id => rows'[m] = rows[m]
    BY <1>1, <2>5
  <2>7. ~dead.live
    <3>1. dead.live = FALSE
      BY <2>4 DEF Rows
    <3>2. QED
      BY <3>1, Zenon
  <2>8. ~Live(id)'
    BY <2>6, <2>7 DEF Live
  <2>9. \A m \in Msgs : m # id /\ Live(m)' => Live(m)
    BY <2>6 DEF Live
  <2>10. QED
    BY <2>2, <2>8, <2>9
<1>4. QED
  BY <1>2, <1>3

\* What the answer deletes is marked before the rest is fetched.
LEMMA DeletedBuries ==
  ASSUME Typed, Departures, CursorDead, NEW p \in Processes, NEW s \in ProcStates, s = procs[p],
         Buries(s), MarkDeleted(p)
  PROVE  /\ CursorDead'
         /\ Stop(p) \/ \E new \in ProcStates : Become(p, new) /\ Buries(new)'
<1>1. /\ Fits(s) /\ s.pc = "delete" /\ s.task = "idle" /\ s.cursor \in Nat
      /\ s.changes \in SUBSET Entries /\ s.todo \in Seq(Items)
  BY MarkDeletedIs DEF Typed, ProcStates
<1>2. UNCHANGED <<log, since, cursorFile>>
  BY DEF MarkDeleted, serverVars, files
<1>3. /\ \A m \in Msgs : Live(m)' => Live(m)
      /\ s.todo # <<>> => ~Live(Head(s.todo).id)'
  BY RowsDie
<1>4. /\ s.cursor <= Len(log) /\ cursorFile \in Nat /\ cursorFile <= s.cursor
      /\ cursorFile <= Len(log)
  BY <1>1 DEF Buries, CursorInHand, CursorDead
<1>5. /\ \A m \in DeletedSince(s.cursor) : m \in Msgs
      /\ \A m \in DeletedSince(cursorFile) : m \in Msgs
  BY <1>1, <1>4, DeletedAre
<1>6. CursorDead'
  <2>1. Dead(cursorFile)
    BY <1>4 DEF CursorDead
  <2>2. Dead(cursorFile)'
    BY <1>2, <1>3, <1>5, <2>1 DEF Dead, DeletedSince
  <2>3. QED
    BY <1>2, <1>4, <2>2 DEF CursorDead
<1>7. /\ \A m \in DeletedSince(s.cursor) : ~Live(m) \/ m \in IdsOf(s.todo)
      /\ Apart(Named(s.changes, {"create", "update"}), s.cursor)
  BY <1>1 DEF Buries, HandApart
<1>8. DeletedSince(s.cursor)' = DeletedSince(s.cursor) /\ DeletedBy(s.cursor)' = DeletedBy(s.cursor)
  BY <1>2 DEF DeletedSince, DeletedBy
<1>9. ASSUME NEW new \in ProcStates, DeletedAs(new, s) PROVE Buries(new)'
  <2>1. new.cursor = s.cursor /\ new.call = NoCall /\ new.call.op = "keys"
    BY <1>9 DEF DeletedAs, Keeps, NoCall
  <2>2. AnswerApart(new)'
    BY <2>1 DEF AnswerApart
  <2>3. CASE s.todo # <<>>
    <3>1. /\ new.pc = "delete" /\ new.task = "idle" /\ new.changes = s.changes
          /\ new.todo = Tail(s.todo)
      BY <1>1, <1>9, <2>3 DEF DeletedAs
    <3>2. IdsOf(s.todo) = {Head(s.todo).id} \union IdsOf(new.todo)
      BY <1>1, <2>3, <3>1, IdsAre
    <3>3. \A m \in DeletedSince(s.cursor) : ~Live(m)' \/ m \in IdsOf(new.todo)
      BY <1>3, <1>5, <1>7, <2>3, <3>2
    <3>4. CursorInHand(new)'
      BY <1>2, <1>4, <2>1, <3>1 DEF CursorInHand, FilePcs
    <3>5. HandApart(new)'
      BY <1>7, <1>8, <2>1, <3>1, <3>3 DEF HandApart, Apart, FilePcs, Walks
    <3>6. QED
      BY <2>2, <3>4, <3>5 DEF Buries
  <2>4. CASE s.todo = <<>>
    <3>1. /\ new.pc \in {"get", "item"} /\ new.task = "events" /\ new.todo = SyncIds(s.changes)
      BY <1>9, <2>4 DEF DeletedAs
    <3>2. IdsOf(new.todo) = Named(s.changes, {"create", "update"})
      BY <1>1, <3>1, NamedIs DEF SyncIds
    <3>3. IdsOf(s.todo) = {}
      BY <2>4, IdsAre
    <3>4. \A m \in DeletedSince(s.cursor) : ~Live(m)'
      BY <1>3, <1>5, <1>7, <3>3
    <3>5. CursorInHand(new)'
      BY <1>2, <1>4, <2>1, <3>1 DEF CursorInHand, FilePcs
    <3>6. HandApart(new)'
      BY <1>7, <1>8, <2>1, <3>1, <3>2, <3>4 DEF HandApart, Apart, Dead, FilePcs, Walks
    <3>7. QED
      BY <2>2, <3>5, <3>6 DEF Buries
  <2>5. QED
    BY <2>3, <2>4
<1>10. QED
  BY <1>6, <1>9, MarkDeletedIs

\* A message is ingested that the cursor does not bury.
LEMMA IngestBuries ==
  ASSUME Typed, CursorDead, NEW p \in Processes, NEW s \in ProcStates, s = procs[p],
         Buries(s), Ingest(p)
  PROVE  /\ CursorDead'
         /\ Stop(p) \/ \E new \in ProcStates : Become(p, new) /\ Buries(new)'
<1>1. /\ Fits(s) /\ s.pc = "ingest" /\ s.task \in Walks \union {"events"} /\ s.todo # <<>>
      /\ s.todo \in Seq(Items) /\ since \in Nat
  BY IngestIs, LogIs DEF Typed, ProcStates
<1>2. UNCHANGED <<log, since, cursorFile>>
  BY DEF Ingest, serverVars, files
<1>3. PICK id \in Msgs : id = Head(s.todo).id
  <2>1. Head(s.todo) \in Items
    BY <1>1, TailIs
  <2>2. QED
    BY <2>1 DEF Items
<1>4. \A m : m # id => (Live(m)' => Live(m))
  <2>1. rows' = [rows EXCEPT ![id] = RowOf(s.answer.state)] /\ rows \in [Msgs -> Rows \union {None}]
    BY <1>3, IngestIs, LogIs
  <2>2. \A m : m # id => rows'[m] = rows[m]
    BY <2>1
  <2>3. QED
    BY <2>2 DEF Live
<1>5. id \in IdsOf(s.todo) /\ IdsOf(s.todo) = {id} \union IdsOf(Tail(s.todo))
  BY <1>1, <1>3, IdsAre
<1>6. ASSUME s.task = "events"
      PROVE  /\ s.cursor \in Nat /\ cursorFile \in Nat /\ cursorFile <= s.cursor
             /\ Apart(IdsOf(s.todo), s.cursor) /\ Dead(s.cursor)
  BY <1>1, <1>6 DEF Buries, CursorInHand, HandApart, Fits, HandFits
<1>7. ASSUME cursorFile \in Nat PROVE id \notin DeletedBy(cursorFile)
  <2>1. CASE s.task = "events"
    BY <1>5, <1>6, <1>7, <2>1, DeletedAre DEF Apart
  <2>2. CASE s.task \in Walks
    BY <1>5, <1>7, <2>2 DEF Buries, HandApart, Apart
  <2>3. QED
    BY <1>1, <2>1, <2>2
<1>8. CursorDead'
  <2>1. ASSUME cursorFile \in Nat PROVE cursorFile <= Len(log) /\ Dead(cursorFile)'
    <3>1. id \notin DeletedSince(cursorFile)
      BY <1>7, <2>1, DeletedAre
    <3>2. cursorFile <= Len(log) /\ Dead(cursorFile)
      BY <2>1 DEF CursorDead
    <3>3. QED
      BY <1>2, <1>4, <3>1, <3>2 DEF Dead, DeletedSince
  <2>2. QED
    BY <1>2, <2>1 DEF CursorDead
<1>9. ASSUME NEW new \in ProcStates, IngestedAs(new, s) PROVE Buries(new)'
  <2>1. /\ new.cursor = s.cursor /\ new.task = s.task /\ new.todo = Tail(s.todo)
        /\ new.pc = "item" /\ new.call = NoCall /\ new.call.op = "keys"
    BY <1>9 DEF IngestedAs, Keeps, NoCall
  <2>2. CursorInHand(new)'
    BY <1>2, <2>1 DEF Buries, CursorInHand, FilePcs
  <2>3. AnswerApart(new)'
    BY <2>1 DEF AnswerApart
  <2>4. ASSUME s.task \in Walks, cursorFile' \in Nat PROVE Apart(IdsOf(new.todo), cursorFile)'
    BY <1>2, <1>5, <2>1, <2>4 DEF Buries, HandApart, Apart, DeletedBy
  <2>5. ASSUME s.task = "events" PROVE Apart(IdsOf(new.todo), s.cursor)' /\ Dead(s.cursor)'
    <3>1. Apart(IdsOf(new.todo), s.cursor)'
      BY <1>2, <1>5, <1>6, <2>1, <2>5 DEF Apart, DeletedBy
    <3>2. id \notin DeletedSince(s.cursor)
      BY <1>5, <1>6, <2>5, DeletedAre DEF Apart
    <3>3. QED
      BY <1>2, <1>4, <1>6, <2>5, <3>1, <3>2 DEF Dead, DeletedSince
  <2>6. HandApart(new)'
    BY <2>1, <2>4, <2>5 DEF HandApart, FilePcs
  <2>7. QED
    BY <2>2, <2>3, <2>6 DEF Buries
<1>10. QED
  BY <1>8, <1>9, IngestIs

LEMMA MovedBuries ==
  ASSUME NEW s \in ProcStates, NEW new \in ProcStates, NEW pc, Buries(s), MovedAs(new, s, pc),
         \/ s.pc = "get" /\ pc = "refresh"
         \/ s.pc = "truncate" /\ pc = "write"
         \/ s.pc = "write" /\ s.file = "session" /\ pc = "answered"
         \/ s.pc = "write" /\ s.file = "cache" /\ pc = "ingest"
  PROVE  Buries(new)
<1>1. /\ new.todo = s.todo /\ new.changes = s.changes /\ new.call = s.call
      /\ new.answer = s.answer /\ new.pc = pc /\ new.file = s.file
      /\ new.cursor = s.cursor /\ new.task = s.task /\ s.file \in {"session", "cursor", "cache"}
  BY DEF MovedAs, SameHand, Keeps, ProcStates
<1>2. HasAnswer(new) => HasAnswer(s)
  BY <1>1 DEF HasAnswer, Asking, NetPcs, FilePcs
<1>3. new.pc \in FilePcs => s.pc \in FilePcs
  BY <1>1 DEF FilePcs
<1>4. new.pc \in FilePcs /\ new.file = "cursor" => new.call.op # "event"
  BY <1>1, <1>3 DEF Buries, CursorInHand
<1>5. new.pc \notin {"delete", "next"}
  BY <1>1
<1>6. QED
  BY <1>1, <1>2, <1>3, <1>4, <1>5, PassBuries

\* The cursor's file is cut off, then names what is buried.
LEMMA WritingBuries ==
  ASSUME Typed, CursorDead, NEW p \in Processes, NEW s \in ProcStates, s = procs[p],
         Buries(s), Truncate(p) \/ Write(p)
  PROVE  /\ CursorDead'
         /\ \E new \in ProcStates : Become(p, new) /\ Buries(new)'
<1>1. /\ Fits(s) /\ s.file \in {"session", "cursor", "cache"} /\ since \in Nat
      /\ log' = log /\ rows' = rows
  BY LogIs DEF Typed, ProcStates, Truncate, Write, AfterWrite, serverVars
<1>2. PICK new \in ProcStates :
        /\ Become(p, new)
        /\ \/ Truncate(p) /\ s.pc = "truncate" /\ MovedAs(new, s, "write")
           \/ /\ Write(p) /\ s.pc = "write"
              /\ \/ s.file = "session" /\ MovedAs(new, s, "answered")
                 \/ s.file = "cursor" /\ MovedAs(new, s, "next")
                 \/ s.file = "cache" /\ MovedAs(new, s, "ingest")
  BY TruncateIs, WriteIs
<1>3. CASE s.file # "cursor"
  <2>1. UNCHANGED <<cursorFile, since>>
    BY <1>1, <1>3 DEF Truncate, Write, AfterWrite, Written
  <2>2. Buries(new)
    BY <1>2, <1>3, MovedBuries
  <2>3. PICK entry \in Entries : TRUE
    <3>1. [action |-> "refresh"] \in Entries
      BY DEF Entries
    <3>2. QED
      BY <3>1
  <2>4. Fits(new)
    <3>1. /\ procs' \in [Processes -> ProcStates] /\ \A q \in Processes : Fits(procs'[q])
      BY WritingFits
    <3>2. QED
      BY <1>2, <3>1, SendingIs
  <2>5. QED
    BY <1>1, <1>2, <2>1, <2>2, <2>4, BuriesStay
<1>4. CASE s.file = "cursor"
  <2>1. s.pc \in FilePcs /\ s.cursor \in Nat /\ s.task = "idle" /\ s.cursor <= Len(log)
    BY <1>1, <1>2, <1>4 DEF Fits, HandFits, FilePcs, Buries, CursorInHand
  <2>2. s.call.op # "event" /\ (s.call.op # "latest" => Dead(s.cursor))
    BY <1>4, <2>1 DEF Buries, CursorInHand, HandApart
  <2>3. /\ new.cursor = s.cursor /\ new.task = "idle" /\ new.call = s.call /\ new.file = "cursor"
        /\ new.pc \in {"write", "next"}
    BY <1>2, <1>4, <2>1 DEF MovedAs, SameHand, Keeps
  <2>4. ~HasAnswer(new)
    BY <2>3 DEF HasAnswer, Asking, NetPcs, FilePcs
  <2>5. AnswerApart(new)'
    BY <2>4 DEF AnswerApart
  <2>6. CASE Truncate(p)
    <3>1. cursorFile' = Torn /\ since' = since
      BY <1>4, <2>6 DEF Truncate, Written
    <3>2. new.pc = "write"
      BY <1>2, <2>6 DEF MovedAs, Truncate, At
    <3>3. CursorDead'
      BY <3>1, ClientAssumption DEF CursorDead
    <3>4. CursorInHand(new)'
      BY <1>1, <2>1, <2>2, <2>3, <3>2 DEF CursorInHand
    <3>5. Dead(s.cursor)' <=> Dead(s.cursor)
      BY <1>1, <3>1 DEF Dead, DeletedSince, Live
    <3>6. HandApart(new)'
      BY <2>2, <2>3, <3>2, <3>5 DEF HandApart, Walks
    <3>7. QED
      BY <1>2, <2>5, <3>3, <3>4, <3>6 DEF Buries
  <2>7. CASE Write(p)
    <3>1. cursorFile' = s.cursor
      BY <1>4, <2>7 DEF Write, Written
    <3>2. new.pc = "next"
      BY <1>2, <1>4, <2>7 DEF MovedAs, Write, At
    <3>3. Dead(s.cursor)'
      <4>1. CASE s.call.op = "latest"
        <5>1. since' = IF s.cursor > since THEN s.cursor ELSE since
          BY <1>4, <2>7, <4>1 DEF Write, AfterWrite
        <5>2. (since' + 1)..s.cursor = {}
          BY <1>1, <2>1, <5>1
        <5>3. DeletedSince(s.cursor)' = {}
          BY <5>2 DEF DeletedSince
        <5>4. QED
          BY <5>3 DEF Dead
      <4>2. CASE s.call.op # "latest"
        <5>1. since' = since
          BY <2>7, <4>2 DEF Write, AfterWrite
        <5>2. QED
          BY <1>1, <2>2, <4>2, <5>1 DEF Dead, DeletedSince, Live
      <4>3. QED
        BY <4>1, <4>2
    <3>4. CursorDead'
      BY <1>1, <2>1, <3>1, <3>3 DEF CursorDead
    <3>5. CursorInHand(new)'
      BY <1>1, <2>1, <2>2, <2>3, <3>1, <3>2 DEF CursorInHand, FilePcs
    <3>6. HandApart(new)'
      BY <2>3, <3>2 DEF HandApart, Walks, FilePcs
    <3>7. QED
      BY <1>2, <2>5, <3>4, <3>5, <3>6 DEF Buries
  <2>8. QED
    BY <2>6, <2>7
<1>5. QED
  BY <1>3, <1>4

\* The steps that leave cursor and rows alone.
LEMMA QuietBuries ==
  ASSUME Typed, Departures, CursorDead, NEW p \in Processes, NEW s \in ProcStates, s = procs[p],
         Buries(s), Acts(p), ~(MarkDeleted(p) \/ Ingest(p) \/ Truncate(p) \/ Write(p))
  PROVE  /\ UNCHANGED <<cursorFile, rows, since, log>>
         /\ \E new \in ProcStates : Become(p, new) /\ Buries(new)
<1>1. Fits(s)
  BY DEF Typed
<1>2. UNCHANGED <<cursorFile, rows, since, log>>
  BY DEF Acts, Step, Poll, StartPoll, StartSync, SessionCheck, Login, Ask, RefreshSession, Answered,
         Item, NextEvent, RequestFails, Kill, StartSend, SendAnswered, serverVars, files
<1> DEFINE Goes == \E new \in ProcStates : Become(p, new) /\ Buries(new)
<1> SUFFICES Goes
  BY <1>2
<1>3. ASSUME Stop(p) PROVE Goes
  <2>1. PICK new \in ProcStates : new = Idle
    BY IdleIs
  <2>2. /\ IdsOf(new.todo) = {} /\ new.pc = "idle" /\ new.task = "idle" /\ new.cursor = None
        /\ new.call = NoCall
    BY <2>1, IdleIs, IdsAre
  <2>3. ~HasAnswer(new) /\ new.call.op = "keys"
    BY <2>2 DEF HasAnswer, Asking, NetPcs, FilePcs, NoCall
  <2>4. Buries(new)
    BY <2>2, <2>3, FreshBuries
  <2>5. QED
    BY <1>3, <2>1, <2>4 DEF Stop
<1>4. ASSUME NEW new \in ProcStates, Become(p, new), Buries(new) PROVE Goes
  BY <1>4
<1>5. CASE Poll(p) \/ StartSync(p)
  <2>1. ASSUME NEW new \in ProcStates, StartedAs(new) PROVE Buries(new)
    <3>1. /\ new.pc = "get" /\ new.task \in {"idle", "bootstrap", "sync"} /\ IdsOf(new.todo) = {}
          /\ \/ new.cursor = cursorFile
             \/ new.cursor = None /\ new.task = "sync" /\ new.call \in {NoCall, PageCall(0)}
          /\ \/ new.call \in {NoCall, PageCall(0), [op |-> "latest"]}
             \/ new.call = EventCall(cursorFile)
      BY <2>1, IdsAre DEF StartedAs
    <3>2. ~HasAnswer(new) /\ (new.call.op = "event" => new.call.from = cursorFile)
      BY <3>1 DEF NoCall, PageCall, EventCall, HasAnswer, NetPcs
    <3>3. new.call \in {NoCall, PageCall(0)} => new.call.op # "event"
      BY DEF NoCall, PageCall
    <3>4. QED
      BY <3>1, <3>2, <3>3, FreshBuries
  <2>2. QED
    BY <1>3, <1>4, <1>5, <2>1, StartPollIs, StartSyncIs DEF Poll
<1>6. CASE SessionCheck(p) \/ Login(p)
  <2>1. ASSUME NEW new \in ProcStates, NEW session,
               \/ CommandAs(new, "refresh", "check", session)
               \/ CommandAs(new, "truncate", "login", session)
        PROVE  Buries(new)
    <3>1. /\ IdsOf(new.todo) = {} /\ new.call.op \in {"check", "login"} /\ new.task = "idle"
          /\ new.cursor = None /\ new.file = "session" /\ new.pc \in {"refresh", "truncate"}
      BY <2>1, IdsAre DEF CommandAs
    <3>2. QED
      BY <3>1, FreshBuries
  <2>2. QED
    BY <1>4, <1>6, <2>1, SessionCommandIs
<1>7. CASE Ask(p)
  <2>1. ASSUME s.pc \in {"get", "retry"}, NEW new \in ProcStates, AskedAs(new, s)
        PROVE  Buries(new)
    BY <1>1, <2>1, AskedBuries
  <2>2. ASSUME s.pc = "get", NEW new \in ProcStates, MovedAs(new, s, "refresh")
        PROVE  Buries(new)
    BY <2>2, MovedBuries
  <2>3. QED
    BY <1>3, <1>4, <1>7, <2>1, <2>2, AskIs
<1>8. CASE RefreshSession(p)
  <2>1. ASSUME s.pc = "refresh", NEW new \in ProcStates, RefreshedAs(new, s) PROVE Buries(new)
    <3>1. /\ new.todo = s.todo /\ new.changes = s.changes /\ new.call = s.call
          /\ new.cursor = s.cursor /\ new.task = s.task /\ new.file = s.file
          /\ \/ s.call.op = "check" /\ new.pc = "truncate"
             \/ new.pc = "retry"
      BY <2>1 DEF RefreshedAs, SameHand
    <3>2. s.call.op = "check" => s.file = "session"
      BY <1>1 DEF Fits, CallFits
    <3>3. new.call.op = "check" \/ ~HasAnswer(new)
      BY <3>1 DEF HasAnswer, NetPcs
    <3>4. new.pc \in FilePcs => new.file = "session"
      BY <3>1, <3>2 DEF FilePcs
    <3>5. QED
      BY <3>1, <3>3, <3>4, PassBuries
  <2>2. QED
    BY <1>3, <1>4, <1>8, <2>1, RefreshIs
<1>9. CASE Answered(p)
  BY <1>1, <1>3, <1>4, <1>9, AnsweredIs, AnsweredBuries
<1>10. CASE Item(p)
  BY <1>1, <1>3, <1>4, <1>10, ItemIs, ItemBuries
<1>11. CASE NextEvent(p)
  <2>1. ASSUME s.pc = "next", s.task = "idle", s.cursor \in Nat, NEW new \in ProcStates,
               PollsAs(new, s)
        PROVE  Buries(new)
    <3>1. /\ new.todo = s.todo /\ new.task = "idle" /\ new.pc = "get" /\ new.cursor = s.cursor
          /\ new.call = EventCall(s.cursor)
      BY <2>1, ClientAssumption DEF PollsAs, SameHand, Keeps
    <3>2. s.cursor = cursorFile
      BY <2>1 DEF Buries, CursorInHand
    <3>3. ~HasAnswer(new) /\ (new.call.op = "event" => new.call.from = cursorFile)
      BY <3>1, <3>2 DEF EventCall, HasAnswer, NetPcs
    <3>4. IdsOf(new.todo) = {}
      BY <1>1, <2>1, <3>1, IdsAre DEF Fits, HandFits
    <3>5. QED
      BY <3>1, <3>2, <3>3, <3>4, FreshBuries
  <2>2. QED
    BY <1>3, <1>4, <1>11, <2>1, NextEventIs
<1>12. CASE RequestFails(p) \/ Kill(p)
  BY <1>3, <1>12 DEF RequestFails, Kill
<1>13. CASE StartSend(p)
  <2>1. PICK new \in ProcStates : /\ new.pc = "get" /\ new.call.op = "public_keys"
                                  /\ new.task = "send" /\ new.cursor = None
                                  /\ new.todo = NoItems /\ Become(p, new)
    BY <1>13, StartSendFits
  <2>2. IdsOf(new.todo) = {} /\ ~HasAnswer(new)
    BY <2>1, IdsAre DEF HasAnswer, NetPcs
  <2>3. Buries(new)
    BY <2>1, <2>2, FreshBuries
  <2>4. QED
    BY <2>1, <2>3
<1>14. CASE SendAnswered(p)
  <2>1. ASSUME NEW new \in ProcStates, Fits(new), new.pc = "get", new.todo = s.todo,
               new.changes = s.changes, new.cursor = s.cursor, new.task = "send"
        PROVE  Buries(new)
    <3>1. /\ new.call.op \notin {"event", "latest", "page"} /\ ~HasAnswer(new)
          /\ s.task = "send" /\ new.pc \notin FilePcs
      BY <1>14, <2>1 DEF Fits, SendFits, HasAnswer, NetPcs, FilePcs, SendAnswered
    <3>2. QED
      BY <2>1, <3>1, PassBuries
  <2>2. QED
    BY <1>3, <1>4, <1>14, <2>1, SendAnsweredFits
<1>15. QED
  BY <1>5, <1>6, <1>7, <1>8, <1>9, <1>10, <1>11, <1>12, <1>13, <1>14 DEF Acts, Step

\* Whatever the process does, it brings nothing back.
LEMMA StepBuries ==
  ASSUME Typed, Typed', Departures, CursorDead, NEW p \in Processes, NEW s \in ProcStates,
         s = procs[p], Buries(s), Acts(p)
  PROVE  CursorDead' /\ \E new \in ProcStates : Become(p, new) /\ Buries(new)'
<1>1. CASE MarkDeleted(p) \/ Ingest(p)
  <2>1. CursorDead' /\ (Stop(p) \/ \E new \in ProcStates : Become(p, new) /\ Buries(new)')
    BY <1>1, DeletedBuries, IngestBuries
  <2>2. ASSUME Stop(p) PROVE \E new \in ProcStates : Become(p, new) /\ Buries(new)'
    <3>1. PICK new \in ProcStates : new = Idle
      BY IdleIs
    <3>2. /\ IdsOf(new.todo) = {} /\ new.pc = "idle" /\ new.task = "idle" /\ new.cursor = None
          /\ new.call = NoCall
      BY <3>1, IdleIs, IdsAre
    <3>3. ~HasAnswer(new) /\ new.call.op = "keys"
      BY <3>2 DEF HasAnswer, Asking, NetPcs, FilePcs, NoCall
    <3>4. CursorInHand(new)' /\ AnswerApart(new)' /\ HandApart(new)'
      BY <3>2, <3>3, ClientAssumption DEF CursorInHand, AnswerApart, HandApart, FilePcs, Walks
    <3>5. QED
      BY <2>2, <3>1, <3>4 DEF Buries, Stop
  <2>3. QED
    BY <2>1, <2>2
<1>2. CASE Truncate(p) \/ Write(p)
  BY <1>2, WritingBuries
<1>3. CASE ~(MarkDeleted(p) \/ Ingest(p) \/ Truncate(p) \/ Write(p))
  <2>1. UNCHANGED <<cursorFile, rows, since, log>>
    BY <1>3, QuietBuries
  <2>2. PICK new \in ProcStates : Become(p, new) /\ Buries(new)
    BY <1>3, QuietBuries
  <2>3. Fits(new)
    BY <2>2, SendingIs DEF Typed
  <2>4. PICK entry \in Entries : TRUE
    <3>1. [action |-> "refresh"] \in Entries
      BY DEF Entries
    <3>2. QED
      BY <3>1
  <2>5. QED
    BY <2>1, <2>2, <2>3, BuriesStay
<1>4. QED
  BY <1>1, <1>2, <1>3

LEMMA DepartStays ==
  ASSUME Typed, Typed', Alone, NoRefresh, JobsInv, DepartInv, [SendNext]_vars
  PROVE  DepartInv'
<1>1. setting' = setting /\ Workers' = Workers
  BY SettingStays DEF Workers
<1>2. ASSUME UNCHANGED vars PROVE DepartInv'
  BY <1>1, <1>2
  DEF DepartInv, Departures, CursorDead, Buries, CursorInHand, AnswerApart, HandApart, Apart,
      Dead, DeletedBy, DeletedSince, Live, vars, serverVars, files
<1>3. ASSUME ServerEvent PROVE DepartInv'
  <2>1. UNCHANGED <<procs, cursorFile, rows, since>>
    BY <1>3 DEF ServerEvent, files
  <2>2. Departures'
    BY <1>3, DeparturesStay DEF DepartInv
  <2>3. PICK entry \in Entries : log' = log \/ log' = Append(log, entry)
    BY <1>3, DeparturesStay DEF DepartInv
  <2>4. ASSUME NEW q \in Workers, NEW r \in ProcStates, r = procs[q] PROVE Buries(r)' /\ CursorDead'
    <3>1. Fits(r) /\ Buries(r)
      BY <2>4 DEF Typed, DepartInv, Workers
    <3>2. QED
      BY <2>1, <2>3, <3>1, BuriesStay DEF DepartInv
  <2>5. PICK only \in Workers : procs[only] \in ProcStates
    <3>1. \E q : q \in Workers
      BY FS_EmptySet DEF Alone
    <3>2. QED
      BY <3>1 DEF Workers, Typed, TypeOK
  <2>6. CursorDead'
    BY <2>4, <2>5
  <2>7. \A q \in Workers', r \in ProcStates : r = procs'[q] => Buries(r)'
    BY <1>1, <2>1, <2>4
  <2>8. QED
    BY <2>2, <2>6, <2>7 DEF DepartInv
<1>4. ASSUME NEW p \in Processes, Acts(p) PROVE DepartInv'
  <2>1. p \in Workers /\ \A q \in Workers : q = p
    BY <1>4, ActsOfWorkers, OneWorker
  <2>2. PICK s \in ProcStates : s = procs[p]
    BY DEF Typed, TypeOK
  <2>3. Departures /\ CursorDead /\ Buries(s)
    BY <2>1, <2>2 DEF DepartInv
  <2>4. CursorDead'
    BY <1>4, <2>2, <2>3, StepBuries
  <2>5. PICK new \in ProcStates : Become(p, new) /\ Buries(new)'
    BY <1>4, <2>2, <2>3, StepBuries
  <2>6. procs'[p] = new
    BY <2>5, SendingIs
  <2>7. \A q \in Workers', r \in ProcStates : r = procs'[q] => Buries(r)'
    BY <1>1, <2>1, <2>5, <2>6
  <2>8. Departures'
    <3>1. log' = log /\ mails' = mails
      BY <1>4, ActsAlone
    <3>2. QED
      BY <2>3, <3>1 DEF Departures
  <2>9. QED
    BY <2>4, <2>7, <2>8 DEF DepartInv
<1>5. QED
  BY <1>2, <1>3, <1>4, StepsAre

LEMMA DepartAtFirst == Init => DepartInv
<1> SUFFICES ASSUME Init PROVE DepartInv
  OBVIOUS
<1>1. /\ DOMAIN log = {} /\ cursorFile = None
      /\ \A p \in Processes : procs[p] = Idle
  BY DEF Init
<1>2. Departures /\ CursorDead
  BY <1>1, ClientAssumption DEF Departures, CursorDead
<1>3. ASSUME NEW p \in Workers, NEW s \in ProcStates, s = procs[p] PROVE Buries(s)
  <2>1. /\ s.todo = NoItems /\ s.pc = "idle" /\ s.task = "idle" /\ s.cursor = None
        /\ s.call = NoCall
    BY <1>1, <1>3, IdleIs DEF Workers
  <2>2. IdsOf(s.todo) = {} /\ ~HasAnswer(s) /\ s.call.op = "keys"
    BY <2>1, IdsAre DEF HasAnswer, Asking, NetPcs, FilePcs, NoCall
  <2>3. QED
    BY <1>2, <2>1, <2>2, FreshBuries
<1>4. QED
  BY <1>2, <1>3 DEF DepartInv

LEMMA DepartSays ==
  ASSUME Typed, Alone /\ NoRefresh => DepartInv
  PROVE  DeletedStays
<1> SUFFICES ASSUME Alone, NoRefresh, NEW i \in Passed, log[i].action = "delete"
             PROVE  ~Live(log[i].id)
  BY DEF DeletedStays, NoRefresh
<1>1. PICK c \in Nat : c = cursorFile /\ i \in (since + 1)..c
  BY ClientAssumption DEF Passed, Typed, TypeOK
<1>2. Dead(c)
  BY <1>1 DEF DepartInv, CursorDead
<1>3. log[i].id \in DeletedSince(c)
  BY <1>1 DEF DeletedSince
<1>4. QED
  BY <1>2, <1>3 DEF Dead

(* A message whose deletion the cursor of a process that is alone has       *)
(* passed stays deleted, whatever is listed, applied again or found in the  *)
(* raw cache afterwards, through kills and failed requests: an answer's     *)
(* deletions are marked before the rest of it is ingested, and none of the  *)
(* rest, nor of a page, was deleted by then (delete_message_id,             *)
(* apply_event).                                                            *)
THEOREM DeletedStayDeleted == SendSpec => []DeletedStays
<1> DEFINE Inv == Typed /\ JobsInv /\ (Alone /\ NoRefresh => DepartInv)
<1>1. Init => Inv
  BY TypedAtFirst, DepartAtFirst, SessionAtFirst
<1>2. Inv /\ [SendNext]_vars => Inv'
  <2> SUFFICES ASSUME Inv, [SendNext]_vars PROVE Inv'
    OBVIOUS
  <2>1. Typed' /\ JobsInv' /\ setting' = setting
    BY TypedStays, JobsStay, SettingStays
  <2>2. (NoRefresh <=> NoRefresh') /\ (Alone <=> Alone')
    BY <2>1 DEF NoRefresh, Alone, Workers
  <2>3. ASSUME Alone, NoRefresh PROVE DepartInv'
    BY <2>1, <2>3, DepartStays
  <2>4. QED
    BY <2>1, <2>2, <2>3
<1>3. Inv => DeletedStays
  BY DepartSays
<1>4. QED
  BY <1>1, <1>2, <1>3, PTL DEF SendSpec
=============================================================================
