---------------------------- MODULE ProtonServer ----------------------------
(***************************************************************************)
(* The Proton API, external to vivi-mail, as src/src/proton_api.rs and     *)
(* proton_api/events.rs use it: a message list in pages, newest first; a   *)
(* log of events that is read from an event id on; a session whose access  *)
(* token expires and whose refresh token is good for one use.              *)
(***************************************************************************)
EXTENDS Integers, Sequences, FiniteSets

CONSTANTS
  MaxMsgs,      \* bound: messages that ever exist
  MailStates,   \* what a message's metadata may say
  Unborn,       \* the message has not come in yet
  Gone          \* the message was deleted for good

\* Message ids, in the order in which the messages come in.
Msgs == 1..MaxMsgs

Labels == {"inbox", "drafts", "sent", "trash", "starred"}

ASSUME ProtonAssumption ==
  /\ MaxMsgs \in Nat
  /\ MailStates \subseteq [labels : SUBSET Labels, unread : BOOLEAN]
  /\ {Unborn, Gone} \cap MailStates = {} /\ Unborn # Gone

Mailboxes == [Msgs -> MailStates \union {Unborn, Gone}]

Exists(mails, m) == mails[m] \in MailStates

\* What happened; "refresh" tells clients to list everything again.
Entries == [action : {"create", "update", "delete"}, id : Msgs]
           \union [action : {"refresh"}]

(* Event ids are positions in the log.  An answer merges what follows `from` *)
(* up to `upto`: for each message the last entry.                            *)
Merged(log, from, upto) ==
  {log[i] : i \in {j \in (from + 1)..upto :
     /\ log[j].action # "refresh"
     /\ \A k \in (j + 1)..upto :
          log[k].action # "refresh" => log[k].id # log[j].id}}

NeedsRefresh(log, from, upto) ==
  \E i \in (from + 1)..upto : log[i].action = "refresh"

\* How many of the ids are as new.
AsNew(ids, m) == Cardinality({other \in ids : other >= m})

NewestFirst(ids) ==
  [i \in 1..Cardinality(ids) |-> CHOOSE m \in ids : AsNew(ids, m) = i]

Existing(mails) == {m \in Msgs : Exists(mails, m)}

Listed(mails) == NewestFirst(Existing(mails))

\* Pages are asked for by number, counted from 0.
MessagePage(mails, page, size) ==
  LET list == Listed(mails)
      first == page * size + 1
      last == IF first + size - 1 < Len(list) THEN first + size - 1 ELSE Len(list)
      ids == SubSeq(list, first, last)
  IN  [i \in 1..Len(ids) |-> [id |-> ids[i], state |-> mails[ids[i]]]]

Total(mails) == Len(Listed(mails))

-----------------------------------------------------------------------------
(* Sessions are numbered.  The server accepts the access token of the last   *)
(* one until it expires, and its refresh token once.                         *)
Accesses == [last : Nat, fresh : BOOLEAN]

Accepts(access, session) == session = access.last /\ access.fresh

CanRefresh(access, session) == session = access.last

NewSession(access) == [last |-> access.last + 1, fresh |-> TRUE]
=============================================================================
