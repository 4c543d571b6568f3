---------------------------- MODULE ProtonClient ----------------------------
(***************************************************************************)
(* How a vivi-mail process talks to the Proton API and keeps its files:    *)
(* every request is tried, after a 401 the session is refreshed and the    *)
(* request tried once more, and the session is saved before the answer is  *)
(* used (src/src/proton_api.rs, proton_api/session.rs).  The session file, *)
(* the event cursor and the raw cache are truncated and written in place.  *)
(***************************************************************************)
EXTENDS ProtonServer

CONSTANTS
  Processes,    \* processes on the account
  None,         \* no cursor, no cached message, no row
  Torn,         \* a file that was truncated and not written
  Settings,     \* the circumstances a behaviour may have, see below
  MaxSessions,  \* bound: sessions
  Addresses,    \* recipients of mail that is sent
  NoMail        \* nothing is sent

ServerEvents == {"receive", "change", "delete", "refresh", "expire"}

Jobs == {"poll", "bootstrap", "sync", "check", "send"}

Failures == {"kill", "error", "lost_reply"}

\* What is sent: to whom (To, Cc and Bcc), and whether its body is HTML.
Mails == [to : Seq(Addresses), html : BOOLEAN]

Roles == {"inbox", "sent", "drafts", "trash", "archive"}

Rows == [role : Roles, read : BOOLEAN, live : BOOLEAN]

(* A setting is fixed for a behaviour:                                      *)
(*   bodies     the storage mode keeps bodies, or headers only              *)
(*   jobs       the commands that each process runs                         *)
(*   pageSize   messages in a page of the list                              *)
(*   merge      events in an answer, at most                                *)
(*   mails      the mailbox at first                                        *)
(*   events     what may happen on the server                               *)
(*   maxLog     bound: events in the log                                    *)
(*   failures   what may go wrong                                           *)
(*   mail       what may be sent                                            *)
(*   keys       whose key an address has: Proton's, one of its own, or none *)
(*   maxSends   bound: sends                                                *)
ASSUME ClientAssumption ==
  /\ IsFiniteSet(Processes)
  /\ {None, Torn} \cap (Nat \union MailStates \union Rows) = {} /\ None # Torn
  /\ NoMail \notin Mails
  /\ MaxSessions \in Nat
  /\ \A s \in Settings :
       /\ s.bodies \in BOOLEAN
       /\ s.jobs \in [Processes -> SUBSET Jobs]
       /\ s.pageSize \in Nat \ {0} /\ s.merge \in Nat \ {0}
       /\ s.mails \in Mailboxes
       /\ s.events \subseteq ServerEvents /\ s.maxLog \in Nat
       /\ s.failures \subseteq Failures
       /\ s.mail \subseteq Mails /\ s.maxSends \in Nat
       /\ s.keys \in [Addresses -> {"internal", "external", "none"}]

Items == [id : Msgs, state : MailStates \union {None}]

Calls == [op : {"keys", "latest", "check", "login", "draft", "send"}]
         \union [op : {"public_keys"}, to : Addresses]
         \union [op : {"page"}, page : Nat]
         \union [op : {"fetch"}, id : Msgs]
         \union [op : {"event"}, from : Nat]

NoCall == [op |-> "keys"]

\* How a recipient is sent a message: to its Proton key, to its own, or in the clear.
Schemes == {"internal", "inline", "clear"}

Packages == [to : SUBSET [address : Addresses, scheme : Schemes], key : BOOLEAN]

Pcs == {"idle", "get", "refresh", "retry", "truncate", "write", "answered",
        "item", "ingest", "delete", "next"}

ProcStates ==
  [pc      : Pcs,
   task    : {"idle", "bootstrap", "refresh", "events", "sync", "send"},
   call    : Calls,
   answer  : {None} \union [key : {"internal", "external", "none"}]
             \union [state : MailStates]
             \union [items : Seq(Items), total : Nat]
             \union [upto : Nat, more : BOOLEAN, refresh : BOOLEAN,
                     changes : SUBSET Entries],
   session : Nat,
   outer   : Nat,     \* the session the caller of a sync holds meanwhile
   cursor  : Nat \union {None},
   more    : BOOLEAN, \* events behind the cursor
   page    : Nat,     \* the page in hand
   last    : BOOLEAN, \* it is the last one
   todo    : Seq(Items),
   changes : SUBSET Entries,
   file    : {"session", "cursor", "cache"},  \* what is written
   mail    : Mails \union {NoMail},           \* what is sent
   schemes : Seq(Schemes)]                    \* how its first recipients take it

-----------------------------------------------------------------------------
VARIABLES
  setting,      \* the circumstances, fixed at first
  mails,        \* the server's messages
  log,          \* its events
  access,       \* its current session
  outgoing,     \* what it has sent on
  sessionFile,  \* proton-session.json
  cursorFile,   \* proton-events.json
  cache,        \* the raw cache: a file for each message
  rows,         \* the message rows in storage.sqlite
  procs,        \* the processes
  since         \* history: the last event id from which the cursor was set

serverVars == <<mails, log, access, outgoing>>
files == <<sessionFile, cursorFile, cache>>
vars == <<setting, serverVars, files, rows, procs, since>>

Idle == [pc |-> "idle", task |-> "idle", call |-> NoCall, answer |-> None,
         session |-> 0, outer |-> 0, cursor |-> None, more |-> FALSE,
         page |-> 0, last |-> FALSE, todo |-> <<>>, changes |-> {},
         file |-> "session", mail |-> NoMail, schemes |-> <<>>]

(* What the server has sent on for the last send of each process; and how   *)
(* many sends were begun and how many ended without an error.               *)
Outgoing == [out : [Processes -> Seq(Packages)], begun : Nat, done : Nat]

Init ==
  /\ setting \in Settings
  /\ mails = setting.mails
  /\ log = <<>>
  /\ access = [last |-> 1, fresh |-> TRUE]
  /\ outgoing = [out |-> [p \in Processes |-> <<>>], begun |-> 0, done |-> 0]
  /\ sessionFile = 1
  /\ cursorFile = None
  /\ cache = [m \in Msgs |-> None]
  /\ rows = [m \in Msgs |-> None]
  /\ procs = [p \in Processes |-> Idle]
  /\ since = 0

At(p, pc) == procs[p].pc = pc

Become(p, state) == procs' = [procs EXCEPT ![p] = state]

Goto(p, pc) == procs' = [procs EXCEPT ![p].pc = pc]

\* An error ends the command.
Stop(p) == Become(p, Idle)

\* The state of a process that has done with an answer.
Working(state) == [state EXCEPT !.answer = None, !.call = NoCall, !.file = "session"]

\* The state of a process that makes a call next.
Calling(state, call) == [state EXCEPT !.pc = "get", !.call = call]

-----------------------------------------------------------------------------
(* One request *)

Upto(from) == IF Len(log) < from + setting.merge THEN Len(log)
                                                 ELSE from + setting.merge

(* What the server answers: nothing but an error when it has no such        *)
(* message.                                                                 *)
Answers(call) ==
  CASE call.op \in {"keys", "draft", "send"} -> {None}
    [] call.op = "public_keys" -> {[key |-> setting.keys[call.to]]}
    [] call.op = "latest" ->
         {[upto |-> Len(log), more |-> FALSE, refresh |-> FALSE, changes |-> {}]}
    [] call.op = "page" ->
         {[items |-> MessagePage(mails, call.page, setting.pageSize),
           total |-> Total(mails)]}
    [] call.op = "fetch" ->
         {[state |-> mails[m]] : m \in {call.id} \cap Existing(mails)}
    [] call.op = "event" ->
         {[upto |-> Upto(call.from), more |-> Upto(call.from) < Len(log),
           refresh |-> NeedsRefresh(log, call.from, Upto(call.from)),
           changes |-> Merged(log, call.from, Upto(call.from))]}

(* The package of a message, whose address list is a map.  The body's key   *)
(* is in it when a recipient takes the message in the clear.                *)
Package(mail, schemes) ==
  [to  |-> {[address |-> mail.to[i], scheme |-> schemes[i]] : i \in DOMAIN mail.to},
   key |-> \E i \in DOMAIN schemes : schemes[i] = "clear"]

SentOn(p) ==
  outgoing' = IF procs[p].call.op = "send"
              THEN [outgoing EXCEPT !.out[p] =
                      Append(@, Package(procs[p].mail, procs[p].schemes))]
              ELSE outgoing

\* Mutant: a send without an answer is sent again.
AskOnceMore(p) == Goto(p, "get")

GiveUp(p) == Stop(p)

\* A recipient's keys are not taken for news of the session when it is the same.
AfterAnswer(p) ==
  IF procs[p].call.op = "public_keys" /\ At(p, "get") THEN "answered" ELSE "truncate"

(* The request, with the session as it is and once more with a refreshed    *)
(* one; what the server did stays done when its answer is lost.             *)
Ask(p) ==
  LET accepted == Accepts(access, procs[p].session)
      answers == Answers(procs[p].call)
  IN  /\ At(p, "get") \/ At(p, "retry")
      /\ \/ \E answer \in answers :
              /\ accepted
              /\ SentOn(p)
              /\ Become(p, [procs[p] EXCEPT !.pc = AfterAnswer(p), !.file = "session",
                                            !.answer = answer])
         \/ /\ accepted /\ procs[p].call.op = "send"
            /\ "lost_reply" \in setting.failures
            /\ SentOn(p) /\ GiveUp(p)
         \/ accepted /\ answers = {} /\ Stop(p) /\ UNCHANGED outgoing
         \/ ~accepted /\ At(p, "get") /\ Goto(p, "refresh") /\ UNCHANGED outgoing
         \/ ~accepted /\ At(p, "retry") /\ Stop(p) /\ UNCHANGED outgoing
      /\ UNCHANGED <<setting, mails, log, access, files, rows, since>>

(* The refresh token is used up whether or not the answer arrives.          *)
RefreshSession(p) ==
  LET next == IF procs[p].call.op = "check" THEN "truncate" ELSE "retry" IN
  /\ At(p, "refresh")
  /\ \/ /\ CanRefresh(access, procs[p].session)
        /\ access' = NewSession(access)
        /\ \/ Become(p, [procs[p] EXCEPT !.pc = next, !.session = access.last + 1])
           \/ "lost_reply" \in setting.failures /\ Stop(p)
     \/ /\ ~CanRefresh(access, procs[p].session)
        /\ Stop(p)
        /\ UNCHANGED access
  /\ UNCHANGED <<setting, mails, log, outgoing, files, rows, since>>

RequestFails(p) ==
  /\ "error" \in setting.failures
  /\ procs[p].pc \in {"get", "refresh", "retry"}
  /\ Stop(p)
  /\ UNCHANGED <<setting, serverVars, files, rows, since>>

-----------------------------------------------------------------------------
(* Writing a file in place *)

Written(p, session, cursor, message) ==
  CASE procs[p].file = "session" ->
         sessionFile' = session /\ UNCHANGED <<cursorFile, cache>>
    [] procs[p].file = "cursor" ->
         cursorFile' = cursor /\ UNCHANGED <<sessionFile, cache>>
    [] procs[p].file = "cache" ->
         /\ cache' = [cache EXCEPT ![procs[p].call.id] = message]
         /\ UNCHANGED <<sessionFile, cursorFile>>

Truncate(p) ==
  /\ At(p, "truncate")
  /\ Written(p, Torn, Torn, Torn)
  /\ Goto(p, "write")
  /\ UNCHANGED <<setting, serverVars, rows, since>>

AfterWrite(p) ==
  /\ Goto(p, CASE procs[p].file = "session" -> "answered"
               [] procs[p].file = "cursor" -> "next"
               [] procs[p].file = "cache" -> "ingest")
  /\ since' = IF /\ procs[p].file = "cursor" /\ procs[p].call.op = "latest"
                 /\ procs[p].cursor > since
              THEN procs[p].cursor ELSE since
  /\ UNCHANGED <<setting, serverVars, rows>>

\* Mutant: a session that was refreshed for a fetch is not saved.
WriteUnrefreshed(p) ==
  LET kept == IF procs[p].call.op = "fetch" THEN procs[p].outer
                                            ELSE procs[p].session IN
  /\ At(p, "write")
  /\ Written(p, kept, procs[p].cursor, procs[p].answer.state)
  /\ AfterWrite(p)

Write(p) ==
  /\ At(p, "write")
  /\ Written(p, procs[p].session, procs[p].cursor, procs[p].answer.state)
  /\ AfterWrite(p)

-----------------------------------------------------------------------------
(* Commands on the session, being killed, and the server *)

(* `proton login`, which the user turns to when the session is lost and     *)
(* nothing else runs.                                                       *)
Login(p) ==
  /\ setting.jobs[p] # {}
  /\ \A other \in Processes : At(other, "idle")
  /\ sessionFile # access.last
  /\ access.last < MaxSessions
  /\ access' = NewSession(access)
  /\ Become(p, [Idle EXCEPT !.pc = "truncate", !.call = [op |-> "login"],
                            !.session = access.last + 1])
  /\ UNCHANGED <<setting, mails, log, outgoing, files, rows, since>>

\* `proton session-check` refreshes the session whatever its age.
SessionCheck(p) ==
  /\ At(p, "idle")
  /\ "check" \in setting.jobs[p]
  /\ sessionFile \in Nat
  /\ access.last < MaxSessions
  /\ Become(p, [Idle EXCEPT !.pc = "refresh", !.call = [op |-> "check"],
                            !.session = sessionFile])
  /\ UNCHANGED <<setting, serverVars, files, rows, since>>

Kill(p) ==
  /\ "kill" \in setting.failures
  /\ ~At(p, "idle")
  /\ Stop(p)
  /\ UNCHANGED <<setting, serverVars, files, rows, since>>

\* A token that was just handed out is good for one request at least.
Expire ==
  /\ "expire" \in setting.events
  /\ access.last < MaxSessions
  /\ access.fresh
  /\ \A p \in Processes : ~At(p, "retry")
  /\ access' = [access EXCEPT !.fresh = FALSE]
  /\ UNCHANGED <<mails, log>>

Logged(entry) ==
  /\ Len(log) < setting.maxLog
  /\ log' = Append(log, entry)

Receive(m, state) ==
  /\ "receive" \in setting.events
  /\ mails[m] = Unborn /\ \A older \in 1..(m - 1) : mails[older] # Unborn
  /\ mails' = [mails EXCEPT ![m] = state]
  /\ Logged([action |-> "create", id |-> m])
  /\ UNCHANGED access

Change(m, state) ==
  /\ "change" \in setting.events
  /\ Exists(mails, m) /\ state # mails[m]
  /\ mails' = [mails EXCEPT ![m] = state]
  /\ Logged([action |-> "update", id |-> m])
  /\ UNCHANGED access

DeleteMail(m) ==
  /\ "delete" \in setting.events
  /\ Exists(mails, m)
  /\ mails' = [mails EXCEPT ![m] = Gone]
  /\ Logged([action |-> "delete", id |-> m])
  /\ UNCHANGED access

AskForRefresh ==
  /\ "refresh" \in setting.events
  /\ Logged([action |-> "refresh"])
  /\ UNCHANGED <<mails, access>>

ServerEvent ==
  /\ \/ \E m \in Msgs, state \in MailStates : Receive(m, state) \/ Change(m, state)
     \/ \E m \in Msgs : DeleteMail(m)
     \/ AskForRefresh
     \/ Expire
  /\ UNCHANGED <<setting, outgoing, files, rows, procs, since>>
=============================================================================
