---------------------------- MODULE ProtonEvents ----------------------------
(***************************************************************************)
(* `vivi sync-events` and `vivi sync` on a Proton account: the event       *)
(* cursor, the pages of the message list, and the messages that an event   *)
(* names (src/src/proton_events.rs, proton_sync.rs, proton_sync/events.rs).*)
(* Each request, each truncation and writing of a file and each statement  *)
(* on the rows is a step of its own.                                       *)
(***************************************************************************)
EXTENDS ProtonClient

\* Mutant: the role is whatever label comes first.
FirstLabel(labels) ==
  IF labels = {} THEN "archive" ELSE CHOOSE label \in labels : label # "inbox"

RoleLabels == <<"inbox", "sent", "drafts", "trash">>

\* The first of these labels that the message has.
LocalRole(labels) ==
  LET first == {i \in 1..4 : /\ RoleLabels[i] \in labels
                             /\ \A j \in 1..(i - 1) : RoleLabels[j] \notin labels}
  IN  IF first = {} THEN "archive" ELSE RoleLabels[CHOOSE i \in first : TRUE]

RowOf(state) ==
  [role |-> LocalRole(state.labels), read |-> ~state.unread, live |-> TRUE]

PageCall(page) == [op |-> "page", page |-> page]

EventCall(cursor) == [op |-> "event", from |-> cursor]

-----------------------------------------------------------------------------
(* A sync of the list, or of the messages in todo, that `state` begins *)

FirstStep(state) ==
  CASE state.task = "events" -> [Working(state) EXCEPT !.pc = "item"]
    [] OTHER -> Calling(state, PageCall(0))

\* It loads the session itself; its caller keeps the one it had.
Begin(p, state, task) ==
  LET inner == [state EXCEPT !.task = task, !.outer = state.session,
                             !.session = sessionFile, !.page = 0]
  IN  \/ sessionFile = Torn /\ Stop(p)
      \/ /\ sessionFile # Torn
         /\ Become(p, IF setting.bodies THEN Calling(inner, [op |-> "keys"])
                                        ELSE FirstStep(inner))

\* A poll loads session and cursor; with --bootstrap it syncs the list first.
StartPoll(p, job) ==
  /\ At(p, "idle")
  /\ job \in setting.jobs[p]
  /\ sessionFile # Torn /\ cursorFile # Torn
  /\ LET state == [Idle EXCEPT !.session = sessionFile, !.cursor = cursorFile] IN
     IF job = "bootstrap"
     THEN Begin(p, state, "bootstrap")
     ELSE Become(p, Calling(state, IF cursorFile = None THEN [op |-> "latest"]
                                   ELSE EventCall(cursorFile)))
  /\ UNCHANGED <<setting, serverVars, files, rows, since>>

StartSync(p) ==
  /\ At(p, "idle")
  /\ "sync" \in setting.jobs[p]
  /\ sessionFile # Torn
  /\ Begin(p, Idle, "sync")
  /\ UNCHANGED <<setting, serverVars, files, rows, since>>

-----------------------------------------------------------------------------
(* The changes that an event names, in the order of their ids *)

Changed(changes, actions) ==
  LET ids == {change.id : change \in {c \in changes : c.action \in actions}}
      order == NewestFirst(ids)
      last == Cardinality(ids)
  IN  [i \in 1..last |-> [id |-> order[last + 1 - i], state |-> None]]

\* Mutants: the arm of Create does not note the id; every arm notes it.
SyncUpdated(changes) == Changed(changes, {"update"})
SyncEvery(changes) == Changed(changes, {"create", "update", "delete"})

SyncIds(changes) == Changed(changes, {"create", "update"})

-----------------------------------------------------------------------------
(* What the loop does with an answer *)

\* The caller of a sync goes on with the session that it had.
Returned(state) == [state EXCEPT !.task = "idle", !.session = state.outer, !.outer = 0]

Settled(state) ==
  [Working(Returned(state)) EXCEPT !.page = 0, !.last = FALSE, !.todo = <<>>]

SaveCursor(state) == [state EXCEPT !.pc = "truncate", !.file = "cursor"]

\* Mutant: after a refresh the cursor is not saved.
EndUnsaved(p) ==
  CASE procs[p].task \in {"sync", "refresh"} -> Stop(p)
    [] procs[p].task = "bootstrap" ->
         Become(p, Calling(Settled(procs[p]),
           IF procs[p].cursor = None THEN [op |-> "latest"]
                                     ELSE EventCall(procs[p].cursor)))
    [] OTHER -> Become(p, SaveCursor(Settled(procs[p])))

\* The sync has come to its end.
End(p) ==
  CASE procs[p].task = "sync" -> Stop(p)
    [] procs[p].task = "bootstrap" ->
         Become(p, Calling(Settled(procs[p]),
           IF procs[p].cursor = None THEN [op |-> "latest"]
                                     ELSE EventCall(procs[p].cursor)))
    [] OTHER -> Become(p, SaveCursor(Settled(procs[p])))

PageAnswered(p) ==
  LET page == procs[p].answer IN
  IF page.items = <<>>
  THEN End(p)
  ELSE Become(p, [Working(procs[p]) EXCEPT
         !.pc = "item", !.todo = page.items,
         !.last = (procs[p].page + 1) * setting.pageSize >= page.total])

\* The latest id becomes the first cursor.
LatestAnswered(p) ==
  Become(p, SaveCursor([procs[p] EXCEPT !.cursor = procs[p].answer.upto,
                                        !.answer = None]))

(* An answer without news ends the poll.  A refresh lists everything again, *)
(* and other answers are applied change by change.                          *)
EventAnswered(p) ==
  LET event == procs[p].answer
      state == [Working(procs[p]) EXCEPT !.pc = "delete", !.cursor = event.upto,
                  !.more = event.more]
  IN  \/ event.upto = procs[p].cursor /\ Stop(p)
      \/ /\ event.upto # procs[p].cursor
         /\ IF event.refresh
            THEN Begin(p, state, "refresh")
            ELSE Become(p, [state EXCEPT !.changes = event.changes,
                              !.todo = Changed(event.changes, {"delete"})])

FetchAnswered(p) ==
  Become(p, [procs[p] EXCEPT !.pc = "truncate", !.file = "cache"])

Answered(p) ==
  /\ At(p, "answered")
  /\ procs[p].task # "send"
  /\ CASE procs[p].call.op = "keys" -> Become(p, FirstStep(procs[p]))
       [] procs[p].call.op = "page" -> PageAnswered(p)
       [] procs[p].call.op = "fetch" -> FetchAnswered(p)
       [] procs[p].call.op = "latest" -> LatestAnswered(p)
       [] procs[p].call.op = "event" -> EventAnswered(p)
       [] OTHER -> Stop(p)
  /\ UNCHANGED <<setting, serverVars, files, rows, since>>

\* Deletions are applied first, each by a statement of its own.
MarkDeleted(p) ==
  LET todo == procs[p].todo
      changes == procs[p].changes
  IN  /\ At(p, "delete")
      /\ \/ /\ todo # <<>>
            /\ rows' = IF rows[Head(todo).id] = None THEN rows
                       ELSE [rows EXCEPT ![Head(todo).id].live = FALSE]
            /\ Become(p, [procs[p] EXCEPT !.todo = Tail(@)])
         \/ /\ todo = <<>>
            /\ Begin(p, [procs[p] EXCEPT !.changes = {}, !.todo = SyncIds(changes)],
                     "events")
            /\ UNCHANGED rows
      /\ UNCHANGED <<setting, serverVars, files, since>>

-----------------------------------------------------------------------------
(* One message *)

NextPage(p) ==
  LET page == procs[p].page + 1 IN
  Become(p, Calling([procs[p] EXCEPT !.page = page], PageCall(page)))

Ingesting(p, state) ==
  Become(p, [procs[p] EXCEPT !.pc = "ingest", !.answer = [state |-> state]])

(* A message is ingested as it was listed, or in full: from the raw cache,  *)
(* and from the server only when the cache has no such message.             *)
SyncMessage(p) ==
  LET item == Head(procs[p].todo)
      cached == cache[item.id]
      full == setting.bodies \/ procs[p].task = "events"
  IN  \/ ~full /\ Ingesting(p, item.state)
      \/ full /\ cached \in MailStates /\ Ingesting(p, cached)
      \/ full /\ cached = Torn /\ Stop(p)
      \/ /\ full /\ cached = None
         /\ Become(p, Calling(procs[p], [op |-> "fetch", id |-> item.id]))

\* A message outside the window that `vivi sync` was given.
SkipMessage(p) ==
  /\ procs[p].task = "sync"
  /\ Become(p, [procs[p] EXCEPT !.todo = Tail(@)])

Item(p) ==
  /\ At(p, "item")
  /\ IF procs[p].todo # <<>>
     THEN SyncMessage(p) \/ SkipMessage(p)
     ELSE IF procs[p].task = "events" \/ procs[p].last THEN End(p) ELSE NextPage(p)
  /\ UNCHANGED <<setting, serverVars, files, rows, since>>

\* The limit of `vivi sync` may be reached with any message.
Ingest(p) ==
  /\ At(p, "ingest")
  /\ rows' = [rows EXCEPT ![Head(procs[p].todo).id] = RowOf(procs[p].answer.state)]
  /\ \/ Become(p, [Working(procs[p]) EXCEPT !.pc = "item", !.todo = Tail(@)])
     \/ procs[p].task = "sync" /\ Stop(p)
  /\ UNCHANGED <<setting, serverVars, files, since>>

\* Behind the cursor there may be more.
NextEvent(p) ==
  /\ At(p, "next")
  /\ IF procs[p].more THEN Become(p, Calling(procs[p], EventCall(procs[p].cursor)))
                      ELSE Stop(p)
  /\ UNCHANGED <<setting, serverVars, files, rows, since>>

-----------------------------------------------------------------------------
Step(p) ==
  \/ Ask(p) \/ RefreshSession(p) \/ Truncate(p) \/ Write(p) \/ Answered(p)
  \/ MarkDeleted(p) \/ Item(p) \/ Ingest(p) \/ NextEvent(p)

Poll(p) == \E job \in {"poll", "bootstrap"} : StartPoll(p, job)

Next ==
  \/ \E p \in Processes :
       \/ Poll(p) \/ StartSync(p) \/ SessionCheck(p) \/ Login(p)
       \/ Step(p) \/ RequestFails(p) \/ Kill(p)
  \/ ServerEvent

Spec == Init /\ [][Next]_vars

(* `sync-events --watch` polls again and again, and a process that is not   *)
(* killed goes on.                                                          *)
FairSpec ==
  /\ Spec
  /\ \A p \in Processes : WF_vars(Step(p)) /\ WF_vars(Poll(p))

-----------------------------------------------------------------------------
TypeOK ==
  /\ setting \in Settings
  /\ mails \in Mailboxes
  /\ log \in Seq(Entries)
  /\ access \in Accesses
  /\ outgoing \in Outgoing
  /\ sessionFile \in Nat \union {Torn}
  /\ cursorFile \in Nat \union {None, Torn}
  /\ cache \in [Msgs -> MailStates \union {None, Torn}]
  /\ rows \in [Msgs -> Rows \union {None}]
  /\ procs \in [Processes -> ProcStates]
  /\ since \in Nat

Live(m) == rows[m] # None /\ rows[m].live

\* Positions in the log that the cursor has passed.
Passed == IF cursorFile \in Nat THEN (since + 1)..cursorFile ELSE {}

Workers == {p \in Processes : setting.jobs[p] # {}}

Alone == Cardinality(Workers) = 1

(* The cursor never passes a message that is not there: a message that came *)
(* in since the first cursor and still exists has a row, through kills,     *)
(* failed requests and racing pollers (apply_event before the cursor's      *)
(* save).  Messages deleted while pages are walked are left out: they shift *)
(* the pages.                                                               *)
NothingMissed ==
  "delete" \notin setting.events \/ setting.pageSize >= MaxMsgs =>
    \A i \in Passed :
      log[i].action = "create" /\ Exists(mails, log[i].id) => Live(log[i].id)

(* A message whose deletion the cursor has passed stays deleted, whatever   *)
(* is applied again or found in the raw cache afterwards; a refresh does    *)
(* not delete, and a second process may bring it back (delete_message_id).  *)
DeletedStays ==
  Alone /\ "refresh" \notin setting.events =>
    \A i \in Passed : log[i].action = "delete" => ~Live(log[i].id)

(* A process that works with an answer has saved the session that the       *)
(* answer came with, and a poll that nothing disturbs leaves the session    *)
(* that the server accepts (each caller of ProtonApiClient).                *)
Using == {"answered", "item", "ingest", "delete", "next"}

SessionHeld ==
  Alone =>
    \A p \in Workers :
      \/ procs[p].pc \in Using
      \/ At(p, "idle") /\ setting.failures = {} /\ "delete" \notin setting.events
      => sessionFile = access.last

(* Polled again and again, the cursor comes to the end of the log, also     *)
(* when the session expires or messages are deleted between two requests.   *)
(* The exceptions: a request that fails after a refresh of the session      *)
(* loses the session, and a message that one answer creates and a later one *)
(* deletes cannot be fetched (fetch_event_message).                         *)
Reliable ==
  /\ Alone /\ setting.failures = {}
  /\ \A p \in Workers : setting.jobs[p] \subseteq {"poll", "bootstrap"}
  /\ "delete" \in setting.events =>
       "expire" \notin setting.events /\ setting.merge >= setting.maxLog

CaughtUp == Reliable => <>[](cursorFile = Len(log))

(* The command polls "events and sync changed mail" (cli.rs): once it is    *)
(* through, a message whose last change it has seen shows that change.      *)
UpdatesReachRows ==
  \A p \in Processes, m \in Msgs :
    /\ At(p, "idle") /\ cursorFile = Len(log)
    /\ \E i \in Passed : log[i].action = "update" /\ log[i].id = m
    /\ Exists(mails, m)
    => rows[m] = RowOf(mails[m])
=============================================================================
