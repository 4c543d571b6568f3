----------------------------- MODULE ProtonSend -----------------------------
(***************************************************************************)
(* A message sent through the Proton API (src/src/proton_send.rs,          *)
(* proton_api/send.rs), beside the processes of ProtonEvents: the keys of  *)
(* each recipient, the account's keys, a draft, and the draft sent with a  *)
(* package.  Every answer may come with a refreshed session.               *)
(***************************************************************************)
EXTENDS ProtonEvents

PublicKeysOf(address) == [op |-> "public_keys", to |-> address]

\* draft_request_from_eml wants a recipient; the session is loaded after it.
StartSend(p) ==
  /\ At(p, "idle")
  /\ "send" \in setting.jobs[p]
  /\ outgoing.begun < setting.maxSends
  /\ sessionFile # Torn
  /\ \E mail \in setting.mail :
       /\ mail.to # <<>>
       /\ Become(p, Calling([Idle EXCEPT !.task = "send", !.mail = mail,
                                         !.session = sessionFile],
                            PublicKeysOf(Head(mail.to))))
  /\ outgoing' = [outgoing EXCEPT !.out[p] = <<>>, !.begun = @ + 1]
  /\ UNCHANGED <<setting, mails, log, access, files, rows, since>>

\* A key outside Proton takes plain text only.
CannotTake(mail, key) == key = "external" /\ mail.html

SchemeFor(key) ==
  CASE key = "internal" -> "internal" [] key = "external" -> "inline"
    [] key = "none" -> "clear"

PublicKeysAnswered(p) ==
  LET mail == procs[p].mail
      key == procs[p].answer.key
      schemes == Append(procs[p].schemes, SchemeFor(key))
      state == [Working(procs[p]) EXCEPT !.schemes = schemes]
  IN  IF CannotTake(mail, key) THEN Stop(p)
      ELSE Become(p, Calling(state, IF Len(schemes) < Len(mail.to)
                                    THEN PublicKeysOf(mail.to[Len(schemes) + 1])
                                    ELSE [op |-> "keys"]))

\* The draft is made with an encrypted body, then sent.
SendAnswered(p) ==
  /\ At(p, "answered") /\ procs[p].task = "send"
  /\ CASE procs[p].call.op = "public_keys" -> PublicKeysAnswered(p)
       [] procs[p].call.op = "keys" -> Become(p, Calling(Working(procs[p]), [op |-> "draft"]))
       [] procs[p].call.op = "draft" -> Become(p, Calling(Working(procs[p]), [op |-> "send"]))
       [] procs[p].call.op = "send" -> Stop(p)
  /\ outgoing' = [outgoing EXCEPT !.done = IF procs[p].call.op = "send" THEN @ + 1 ELSE @]
  /\ UNCHANGED <<setting, mails, log, access, files, rows, since>>

SendNext ==
  \/ Next
  \/ \E p \in Processes : StartSend(p) \/ SendAnswered(p)

SendSpec == Init /\ [][SendNext]_vars

FairSendSpec ==
  /\ SendSpec
  /\ \A p \in Processes : WF_vars(Step(p)) /\ WF_vars(Poll(p)) /\ WF_vars(SendAnswered(p))

-----------------------------------------------------------------------------
(* A send is what SendQueue takes it for, through refreshed and lost        *)
(* sessions, lost answers, kills and other processes on the account: the    *)
(* message is sent at most once in a call, to its recipients, and it was    *)
(* sent when there is no error (send_raw, send_draft).                      *)
Call == INSTANCE SendCall WITH
  Callers <- Processes, NoMail <- NoMail,
  sending <- [p \in Processes |-> procs[p].mail],
  out <- outgoing.out, done <- outgoing.done

SendsAtMostOnce == Call!Spec
=============================================================================
