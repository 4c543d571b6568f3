----------------------------- MODULE MCMailSync -----------------------------
(* WatchInbox on small instances: one sync, one watcher and at most two      *)
(* mutators, with messages that have a Message-ID (m1, m2) and messages that *)
(* have none (n1, n2), in the settings that each hazard needs.               *)
EXTENDS WatchInbox

CONSTANTS m1, m2, n1, n2, p, q

MCRfc == [mail \in Mails |-> IF mail \in {n1, n2} THEN NoId ELSE mail]
MCSize == [mail \in Mails |-> 2]
MCHeaderSize == [mail \in Mails |-> 1]

MCFolder == [role \in Roles |-> IF role = "inbox" THEN "INBOX" ELSE "Archive"]

Unread(mail) ==
  [mail |-> mail, seen |-> FALSE, flagged |-> FALSE, deleted |-> FALSE]

Empty == [validity |-> 1, next |-> 1, msgs |-> [uid \in Uids |-> NoMessage]]

Holding(first, second) ==
  [validity |-> 1, next |-> 3,
   msgs |-> [uid \in Uids |-> CASE uid = 1 -> first [] uid = 2 -> second
                                [] OTHER -> NoMessage]]

\* No other mailbox has the UIDVALIDITY of the inbox.
Inbox(mailbox) ==
  [box \in Mailboxes |-> IF box = "INBOX" THEN mailbox ELSE [Empty EXCEPT !.validity = 2]]

Archive == [kind |-> "move", role |-> "archive"]
ToInbox == [kind |-> "move", role |-> "inbox"]
MarkRead == [kind |-> "flag", flag |-> "seen", value |-> TRUE]
Star == [kind |-> "flag", flag |-> "flagged", value |-> TRUE]

TheInbox == [roles |-> {"inbox"}, part |-> "full", views |-> {}]
Nothing == [roles |-> {}, part |-> "full", views |-> {}]

Syncing(plans, parts, limits, fails) ==
  [plans |-> plans, parts |-> parts, limits |-> limits, fails |-> fails]

\* Messages come in, move away or get new UIDs, in the storage modes given.
NewUids(events, parts) ==
  [server |-> Inbox(Holding(NoMessage, Unread(n1))), capabilities |-> {},
   stored |-> TheInbox, mutators |-> {}, actions |-> {}, runs |-> 0,
   events |-> events, arriving |-> {n2},
   watching |-> FALSE, sync |-> Syncing({<<"inbox">>}, parts, {NoLimit}, TRUE)]

\* A process archives and stars while the sync lists and stores.
BesideMutations ==
  [server |-> Inbox(Holding(Unread(n1), Unread(m2))), capabilities |-> {"MOVE"},
   stored |-> TheInbox, mutators |-> {p}, actions |-> {Archive, Star}, runs |-> 2,
   events |-> {"crash", "lost_reply"}, arriving |-> {},
   watching |-> FALSE, sync |-> Syncing({<<"inbox", "archive">>}, {"full"}, {NoLimit}, TRUE)]

\* A message is archived, stored there by the sync, and moved back.
MovedBack ==
  [server |-> Inbox(Holding(NoMessage, Unread(n1))), capabilities |-> {"MOVE"},
   stored |-> TheInbox, mutators |-> {p}, actions |-> {Archive, ToInbox}, runs |-> 2,
   events |-> {"crash", "lost_reply"}, arriving |-> {},
   watching |-> FALSE, sync |-> Syncing({<<"inbox", "archive">>}, {"full"}, {NoLimit}, FALSE)]

\* The mailbox is renumbered between the listing and the download.
Renumbered ==
  [server |-> Inbox(Holding(Unread(n1), Unread(n2))), capabilities |-> {},
   stored |-> Nothing, mutators |-> {p}, actions |-> {MarkRead, Star}, runs |-> 1,
   events |-> {"renumber", "other_expunge"}, arriving |-> {},
   watching |-> FALSE, sync |-> Syncing({<<"inbox">>}, {"full"}, {NoLimit}, FALSE)]

\* Two mutators set flags while the sync refreshes them.
RacingFlags ==
  [server |-> Inbox(Holding(NoMessage, Unread(m1))), capabilities |-> {},
   stored |-> TheInbox, mutators |-> {p, q}, actions |-> {MarkRead, Star}, runs |-> 2,
   events |-> {"crash", "lost_reply"}, arriving |-> {},
   watching |-> FALSE, sync |-> Syncing({<<"inbox">>}, {"full"}, {NoLimit}, FALSE)]

\* Messages come in and move, and a sync downloads one of them at a time.
OneAtATime ==
  [server |-> Inbox(Empty), capabilities |-> {},
   stored |-> Nothing, mutators |-> {}, actions |-> {}, runs |-> 0,
   events |-> {"other_move"}, arriving |-> {n1, m2},
   watching |-> FALSE, sync |-> Syncing({<<"inbox", "archive">>}, {"full"}, {1}, FALSE)]

\* The inbox is watched while messages come in, move away and get new UIDs.
Watched ==
  [server |-> Inbox(Empty), capabilities |-> {"MOVE"},
   stored |-> TheInbox, mutators |-> {p}, actions |-> {Archive}, runs |-> 1,
   events |-> {"other_move"}, arriving |-> {m2, n2},
   watching |-> TRUE, sync |-> Syncing({}, {"full"}, {NoLimit}, FALSE)]

\* A sync runs beside the watcher, and either may fail.
WatchedAndSynced ==
  [server |-> Inbox(Holding(NoMessage, Unread(n1))), capabilities |-> {},
   stored |-> TheInbox, mutators |-> {}, actions |-> {}, runs |-> 0,
   events |-> {"renumber"}, arriving |-> {m2},
   watching |-> TRUE, sync |-> Syncing({<<"inbox">>}, {"full"}, {NoLimit}, TRUE)]

SyncSettings == {NewUids({"renumber"}, Parts), NewUids({"other_move", "renumber"}, {"full"}),
                 NewUids({"other_move", "renumber"}, {"headers"}), BesideMutations, MovedBack,
                 Renumbered, RacingFlags, OneAtATime, Watched, WatchedAndSynced}
==============================================================================
