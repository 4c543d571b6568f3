------------------------------ MODULE WatchInbox ------------------------------
(***************************************************************************)
(* `vivi-mail watch-inbox` (src/src/watch_inbox.rs, imap/idle.rs) beside   *)
(* other syncs and the mutations: the watcher waits for the inbox to       *)
(* change, syncs it by the steps of MailSync, and announces what that sync *)
(* stored, one event to a sync.                                            *)
(***************************************************************************)
EXTENDS MailSync

CONSTANT Watchers   \* the watchers among the Syncers

(* A setting says, beside what MailSync has, whether an inbox is watched     *)
(* (watching); without a plan nobody else syncs.  Mail comes in at INBOX.   *)
ASSUME WatchAssumption ==
  /\ Watchers \subseteq Syncers
  /\ "INBOX" \in Mailboxes
  /\ \A s \in Settings :
       /\ s.watching \in BOOLEAN
       /\ s.watching => "inbox" \in Roles

\* What an event says of a message: its event id, and which message it is.
Entries == [identity : [box : Mailboxes, validity : Nat, uid : Uids], mail : Mails]

VARIABLES
  watches,     \* where each watcher is, and what its sync has stored
  announced    \* the messages of each watcher's events

watchVars == <<watches, announced>>

systemVars == <<allVars, watchVars>>

Waiting == [pc |-> "waiting", stored |-> {}]

WatchInit ==
  /\ SyncInit
  /\ watches = [w \in Watchers |-> Waiting]
  /\ announced = [w \in Watchers |-> {}]

WatchAt(w, pc) == watches[w].pc = pc

(* The wait ends: the server says that the inbox changed, 29 minutes of     *)
(* IDLE are over, or 30 seconds where the server has no IDLE.  A wait that  *)
(* fails is tried again after a pause, which changes nothing.               *)
Wake(w) ==
  /\ WatchAt(w, "waiting") /\ setting.watching
  /\ watches' = [watches EXCEPT ![w].pc = "syncing"]
  /\ \E part \in setting.sync.parts :
       syncs' = [syncs EXCEPT ![w].pc = "list", ![w].plan = <<"inbox">>,
                              ![w].part = part, ![w].limit = NoLimit]
  /\ UNCHANGED <<vars, announced>>

\* The steps of the sync that neither store a message nor end it.
WatchSyncs(w) ==
  /\ WatchAt(w, "syncing")
  /\ \/ ListFolder(w) \/ RefreshFlags(w) \/ ReadSizes(w) \/ ReadIndex(w)
     \/ FindMissing(w) \/ \E uid \in syncs[w].missing : FetchMessage(w, uid)
  /\ syncs'[w].pc # "idle"
  /\ UNCHANGED watchVars

\* Each message stored is new, and an entry of the sync's result.
WatchStores(w) ==
  /\ WatchAt(w, "syncing")
  /\ \E message \in syncs[w].fetched :
       /\ StoreMessage(w, message)
       /\ watches' = IF CanIngest(rows, StoredRow(w, message))
                     THEN [watches EXCEPT
                             ![w].stored = @ \union
                               {[identity |-> ListedIdentity(w, message.uid),
                                 mail |-> message.content.mail]}]
                     ELSE [watches EXCEPT ![w] = Waiting]
  /\ UNCHANGED announced

\* A sync that has stored nothing is not announced.
WatchSynced(w) ==
  /\ WatchAt(w, "syncing")
  /\ ListFolder(w) \/ FindMissing(w) \/ Downloaded(w)
  /\ syncs'[w].pc = "idle"
  /\ watches' = [watches EXCEPT ![w] = IF @.stored = {} THEN Waiting
                                       ELSE [@ EXCEPT !.pc = "announce"]]
  /\ UNCHANGED announced

\* Mutant: entries are told apart by their mailbox.
EntryOfBox(w) == {CHOOSE entry \in watches[w].stored : TRUE}

\* event_from_result: an entry for each event id.
EventEntries(w) == watches[w].stored

\* Mutant: the entries are added to those of the syncs before.
AnnounceAll(w) ==
  /\ WatchAt(w, "announce")
  /\ announced' = [announced EXCEPT ![w] = @ \union EventEntries(w)]
  /\ watches' = [watches EXCEPT ![w].pc = "waiting"]
  /\ UNCHANGED allVars

Announce(w) ==
  /\ WatchAt(w, "announce")
  /\ announced' = [announced EXCEPT ![w] = @ \union EventEntries(w)]
  /\ watches' = [watches EXCEPT ![w] = Waiting]
  /\ UNCHANGED allVars

(* The sync fails, or the extraction after it; the event cannot be written, *)
(* or the watcher is killed, and somebody starts it again.                  *)
WatchFails(w) ==
  /\ setting.sync.fails
  /\ ~WatchAt(w, "waiting")
  /\ watches' = [watches EXCEPT ![w] = Waiting]
  /\ syncs' = [syncs EXCEPT ![w] = AtRest]
  /\ UNCHANGED <<vars, announced>>

WatchStep(w) ==
  Wake(w) \/ WatchSyncs(w) \/ WatchStores(w) \/ WatchSynced(w) \/ Announce(w)

WatchNext ==
  \/ /\ \/ Next /\ UNCHANGED syncs
        \/ \E s \in Syncers \ Watchers : SyncStep(s) \/ SyncFails(s)
        \/ \E mail \in Mails : Deliver("INBOX", mail)
     /\ UNCHANGED watchVars
  \/ \E w \in Watchers : WatchStep(w) \/ WatchFails(w)

WatchSpec == WatchInit /\ [][WatchNext]_systemVars

(* The user or a scheduler runs sync again and again, a wait ends by its    *)
(* timeout, and a sync that was started goes on.                            *)
FairWatchSpec ==
  /\ WatchSpec
  /\ \A s \in Syncers \ Watchers : WF_systemVars(SyncStep(s) /\ UNCHANGED watchVars)
  /\ \A w \in Watchers : WF_systemVars(WatchStep(w))

-----------------------------------------------------------------------------
WatchTypeOK ==
  /\ SyncTypeOK
  /\ watches \in [Watchers -> [pc : {"waiting", "syncing", "announce"},
                               stored : SUBSET Entries]]
  /\ announced \in [Watchers -> SUBSET Entries]

(* A watcher announces no message twice under the same event id, though     *)
(* others sync and mutate the messages between the listing and the event: a *)
(* sync does not store again what an earlier one announced (find_missing).  *)
(* Out of this are --headers-only storage, where a message without          *)
(* Message-ID is fetched by every sync, as its stored size is never the     *)
(* listed one; hard expunges, which may remove a row and leave its message; *)
(* and moves where keys do not tell messages apart: in a mailbox that gets  *)
(* a new UIDVALIDITY, where the UID of a message that left may be another   *)
(* one's when it is fetched, and between mailboxes of one UIDVALIDITY.      *)
Moves == \E action \in setting.actions : action.kind = "move"

(* Between the two statements of a move, or after a crash there, a row has  *)
(* its new role and its old UID.  If the mailboxes of the two roles have    *)
(* one UIDVALIDITY, it may hide the size of the role's own row of that UID  *)
(* (local_sizes_by_role): that message, if it has no Message-ID, is fetched *)
(* and stored again.                                                        *)
KeysTellApart ==
  Moves => /\ ~Enabled("renumber")
           /\ \A box, other \in Mailboxes :
                setting.server[box].validity = setting.server[other].validity =>
                  box = other

Recognised ==
  /\ setting.sync.parts = {"full"}
  /\ ~Expunges
  /\ KeysTellApart

AnnouncedOnce ==
  [][\A w \in Watchers :
       Announce(w) /\ Recognised =>
         \A entry \in watches[w].stored, old \in announced[w] :
           entry.identity # old.identity]_systemVars

(* A sync beside the mutations puts no row back where its message no longer *)
(* is, though it stores what it listed before a move (store_message).  With *)
(* one process that syncs, one that mutates and no other mail client, the   *)
(* audit file accounts for each row whose folder does not hold the message: *)
(* the row has a run that was approved and not reconciled, or a run was     *)
(* approved on another row of the message, which a sync may store after a   *)
(* move, as the move leaves its row without a binding.  Out of this are     *)
(* --headers-only storage, rows of an aggregate view, and mailboxes of one  *)
(* UIDVALIDITY, where a row may be stored again in the role it has left.    *)
MaySync(s) == IF s \in Watchers THEN setting.watching ELSE setting.sync.plans # {}

OneSync ==
  /\ \A one, other \in Syncers : MaySync(one) /\ MaySync(other) => one = other
  /\ setting.sync.parts = {"full"}

ApprovedForOther(row) ==
  \E i \in DOMAIN audit :
    /\ audit[i].status = "approved"
    /\ audit[i].handle # row.id
    /\ audit[i].handle.content.mail = row.content.mail

PlaceIsTrueOrUnsettled ==
  Alone /\ OneSync /\ KeysTellApart /\ setting.stored.views = {} =>
    \A row \in rows : InItsFolder(row) \/ Unsettled(row.id) \/ ApprovedForOther(row)

(* When nobody else syncs and syncs do not fail, every message that comes   *)
(* in and stays in the inbox is announced, though it came in after the      *)
(* listing or between a sync and the next wait (watch_inbox).               *)
WatchedAlone == setting.watching /\ setting.sync.plans = {} /\ ~setting.sync.fails

ArrivalsAnnounced ==
  <>[](WatchedAlone =>
         \A uid \in UidsIn(server, "INBOX") :
           LET mail == server["INBOX"].msgs[uid].mail IN
           mail \in setting.arriving =>
           \E w \in Watchers : \E entry \in announced[w] : entry.mail = mail)
=============================================================================
