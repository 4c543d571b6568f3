-------------------------- MODULE MCRemoteMutations --------------------------
(* RemoteMutations on small instances: one or two messages in the inbox, one *)
(* or two processes, in the settings that each hazard needs.                 *)
EXTENDS RemoteMutations

CONSTANTS m1, m2, p, q

MCRfc == [mail \in Mails |-> mail]
MCSize == [mail \in Mails |-> 2]
MCHeaderSize == [mail \in Mails |-> 1]

MCFolder == [role \in Roles |-> CASE role = "inbox" -> "INBOX"
                                  [] role = "archive" -> "Archive"
                                  [] OTHER -> "Trash"]

Unread(mail) ==
  [mail |-> mail, seen |-> FALSE, flagged |-> FALSE, deleted |-> FALSE]

Empty == [validity |-> 1, next |-> 1, msgs |-> [uid \in Uids |-> NoMessage]]

\* UID 1 was used by a message that is gone.
OneMail == [validity |-> 1, next |-> 3,
            msgs |-> [uid \in Uids |-> IF uid = 2 THEN Unread(m1) ELSE NoMessage]]

TwoMails == [validity |-> 1, next |-> 4,
             msgs |-> [uid \in Uids |-> CASE uid = 2 -> Unread(m1)
                                          [] uid = 3 -> Unread(m2)
                                          [] OTHER -> NoMessage]]

Holds(place, mailbox) ==
  [box \in Mailboxes |-> IF box = place THEN mailbox ELSE Empty]

Archive == [kind |-> "move", role |-> "archive"]
Inbox == [kind |-> "move", role |-> "inbox"]
Trash == [kind |-> "move", role |-> "trash"]
MarkRead == [kind |-> "flag", flag |-> "seen", value |-> TRUE]
Star == [kind |-> "flag", flag |-> "flagged", value |-> TRUE]
HardExpunge == [kind |-> "expunge", confirm |-> TRUE]
Unconfirmed == [kind |-> "expunge", confirm |-> FALSE]
AllKinds == {Archive, Star, HardExpunge, Unconfirmed}

TheInbox == [roles |-> {"inbox"}, part |-> "full", views |-> {}]

\* One process that moves and flags two messages, with every failure.
Trail ==
  [server |-> Holds("INBOX", TwoMails), capabilities |-> {"MOVE"},
   stored |-> TheInbox, mutators |-> {p},
   actions |-> {Archive, Inbox, MarkRead}, runs |-> 3,
   events |-> {"crash", "power_loss", "refuse", "lost_reply", "audit_error",
               "database_error"}]

\* Two processes while mailboxes are renumbered and messages deleted.
StaleUids ==
  [server |-> Holds("INBOX", TwoMails), capabilities |-> {"MOVE", "UIDPLUS"},
   stored |-> TheInbox, mutators |-> {p, q}, actions |-> AllKinds, runs |-> 2,
   events |-> {"renumber", "other_expunge"}]

\* A server without MOVE, beside another client that moves messages.
CopyPath ==
  [server |-> Holds("INBOX", OneMail), capabilities |-> {"UIDPLUS"},
   stored |-> TheInbox, mutators |-> {p}, actions |-> {Archive, Trash}, runs |-> 2,
   events |-> {"crash", "refuse", "lost_reply", "other_move"}]

\* Two processes that move one message by COPY, STORE and EXPUNGE.
CopyPathTwice ==
  [server |-> Holds("INBOX", OneMail), capabilities |-> {"UIDPLUS"},
   stored |-> TheInbox, mutators |-> {p, q}, actions |-> {Archive, Trash}, runs |-> 2,
   events |-> {"crash", "refuse", "lost_reply", "other_flag"}]

\* An archive that a release before 11.0 filled from All Mail.
View ==
  [server |-> Holds("All Mail", OneMail), capabilities |-> {"MOVE"},
   stored |-> [roles |-> {}, part |-> "full", views |-> {"All Mail"}],
   mutators |-> {p}, actions |-> {Trash}, runs |-> 1, events |-> {"other_move"}]

MutationSettings == {Trail, StaleUids, CopyPath, CopyPathTwice, View}

\* A hard expunge on a server that has everything it needs.
ExpungeOnly ==
  {[server |-> Holds("INBOX", OneMail), capabilities |-> {"UIDPLUS"},
    stored |-> TheInbox, mutators |-> {p}, actions |-> AllKinds, runs |-> 1,
    events |-> {}]}
==============================================================================
