----------------------------- MODULE ImapServer -----------------------------
(***************************************************************************)
(* The account's IMAP server, external to vivi-mail: what its mailboxes    *)
(* hold and what each command the client issues does to them (RFC 3501     *)
(* COPY, STORE and UIDVALIDITY, RFC 4315 UID EXPUNGE, RFC 6851 UID MOVE).  *)
(* A mailbox gives each message the next UID and never reuses one while    *)
(* its UIDVALIDITY stays the same.                                         *)
(***************************************************************************)
EXTENDS Integers, FiniteSets

CONSTANTS
  Mailboxes,    \* the mailboxes of the account
  Mails,        \* messages, as sent: headers and body
  NoMessage,    \* no message has this UID
  MaxUid        \* bound: UIDs a mailbox hands out

ASSUME ServerAssumption == MaxUid \in Nat

Uids == 1..MaxUid

Messages == [mail : Mails, seen : BOOLEAN, flagged : BOOLEAN, deleted : BOOLEAN]

MailboxStates == [validity : Nat,
                  next     : Nat,
                  msgs     : [Uids -> Messages \union {NoMessage}]]

Servers == [Mailboxes -> MailboxStates]

Present(server, box, uid) ==
  uid \in Uids /\ server[box].msgs[uid] # NoMessage

UidsIn(server, box) == {uid \in Uids : Present(server, box, uid)}

\* A message has a UID that its mailbox has handed out.
Numbered(server) ==
  \A box \in Mailboxes : \A uid \in UidsIn(server, box) : uid < server[box].next

\* The messages that are somewhere on the server.
Located(server) ==
  {server[at[1]].msgs[at[2]].mail :
     at \in {at \in Mailboxes \X Uids : Present(server, at[1], at[2])}}

HasRoom(server, box) == server[box].next \in Uids

\* The message gets the mailbox's next UID.
Deposit(server, box, message) ==
  LET old == server[box] IN
  [server EXCEPT ![box] = [validity |-> old.validity, next |-> old.next + 1,
                           msgs |-> [old.msgs EXCEPT ![old.next] = message]]]

Remove(server, box, uid) == [server EXCEPT ![box].msgs[uid] = NoMessage]

(* A UID command on a UID that is not there succeeds and changes nothing.   *)
SetFlag(server, box, uid, flag, value) ==
  IF Present(server, box, uid)
  THEN [server EXCEPT
          ![box].msgs[uid] = [server[box].msgs[uid] EXCEPT ![flag] = value]]
  ELSE server

\* The copy keeps the flags, \Deleted too.
Copy(server, box, uid, target) ==
  IF Present(server, box, uid)
  THEN Deposit(server, target, server[box].msgs[uid])
  ELSE server

UidMove(server, box, uid, target) ==
  IF Present(server, box, uid)
  THEN Remove(Copy(server, box, uid, target), box, uid)
  ELSE server

\* UID EXPUNGE removes the messages it names that are marked \Deleted.
Expunge(server, box, uid) ==
  IF Present(server, box, uid) /\ server[box].msgs[uid].deleted
  THEN Remove(server, box, uid)
  ELSE server

\* The server renumbers a mailbox, in order, under a new UIDVALIDITY.
Renumber(server, box) ==
  LET old == UidsIn(server, box)
      rank(uid) == Cardinality({other \in old : other <= uid})
  IN  [server EXCEPT
         ![box] = [validity |-> server[box].validity + 1,
                   next |-> Cardinality(old) + 1,
                   msgs |-> [new \in Uids |->
                               IF \E uid \in old : rank(uid) = new
                               THEN server[box].msgs[CHOOSE uid \in old : rank(uid) = new]
                               ELSE NoMessage]]]
=============================================================================
