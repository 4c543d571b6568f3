---------------------------- MODULE MailSyncProofs ----------------------------
(***************************************************************************)
(* Proofs about the syncs and the watcher beside the mutations, for any    *)
(* mailboxes, messages, processes and settings.  A sync works on what it   *)
(* listed and read some steps ago; what it may still rely on is that an    *)
(* identity goes on denoting one message (Denotes), and that a row keeps   *)
(* its id and its content as long as it is there.                          *)
(***************************************************************************)
EXTENDS WatchInbox, RemoteMutationsProofs, NaturalsInduction, WellFoundedInduction

-----------------------------------------------------------------------------
(* Sequences and smallest UIDs *)

LEMMA TailTyped ==
  ASSUME NEW S, NEW seq \in Seq(S), seq # <<>>
  PROVE  Head(seq) \in S /\ Tail(seq) \in Seq(S)
OBVIOUS

LEMMA SmallestIs ==
  ASSUME NEW uids \in SUBSET Uids, uids # {}
  PROVE  Smallest(uids) \in uids
<1>1. uids \in SUBSET Nat
  BY DEF Uids
<1>2. PICK uid \in uids : \A other \in uids : <<other, uid>> \notin OpToRel(<, Nat)
  BY <1>1, WFMin, NatLessThanWellFounded, Zenon
<1>3. uid \in Nat /\ \A other \in uids : other \in Nat /\ ~(other < uid)
  BY <1>1, <1>2, Zenon DEF OpToRel
<1>4. \A other \in uids : uid <= other
  BY <1>3
<1>5. QED
  BY <1>4 DEF Smallest

-----------------------------------------------------------------------------
(* Each step of the system *)

\* s goes on as state; the other syncs stay as they are.
Turns(s, state) == syncs' = [syncs EXCEPT ![s] = state]

\* A step of one sync, by what it does to the server and to the rows.
Reads(s) ==
  /\ UNCHANGED vars
  /\ \/ StartSync(s) \/ ListFolder(s) \/ ReadSizes(s) \/ ReadIndex(s) \/ FindMissing(s)
     \/ Downloaded(s) \/ SyncFails(s)
     \/ \E uid \in syncs[s].missing : FetchMessage(s, uid)
     \/ \E part \in setting.sync.parts :
          /\ setting.watching /\ SyncAt(s, "idle")
          /\ syncs' = [syncs EXCEPT ![s].pc = "list", ![s].plan = <<"inbox">>,
                                    ![s].part = part, ![s].limit = NoLimit]
     \/ Turns(s, AtRest)

\* A watcher that is not syncing has no sync under way.
Paired == \A w \in Watchers : ~WatchAt(w, "syncing") => SyncAt(w, "idle")

Writes(s) ==
  RefreshFlags(s) \/ \E message \in syncs[s].fetched : StoreMessage(s, message)

LEMMA SyncStepKinds ==
  ASSUME NEW s \in Syncers, SyncStep(s) \/ SyncFails(s)
  PROVE  Reads(s) \/ Writes(s)
<1>1. CASE RefreshFlags(s) \/ \E message \in syncs[s].fetched : StoreMessage(s, message)
  BY <1>1 DEF Writes
<1>2. CASE ~(RefreshFlags(s) \/ \E message \in syncs[s].fetched : StoreMessage(s, message))
  BY <1>2
  DEF SyncStep, Reads, StartSync, ListFolder, ReadSizes, ReadIndex, FindMissing,
      Downloaded, SyncFails, FetchMessage
<1>3. QED
  BY <1>1, <1>2

LEMMA WatchStepKinds ==
  ASSUME Paired, NEW w \in Watchers, WatchStep(w) \/ WatchFails(w)
  PROVE  Announce(w) \/ Reads(w) \/ Writes(w)
<1>1. CASE Wake(w) \/ WatchFails(w)
  BY <1>1 DEF Wake, WatchFails, Reads, Turns, Paired, WatchAt
<1>2. CASE WatchSyncs(w) \/ WatchStores(w) \/ WatchSynced(w)
  BY <1>2, SyncStepKinds, WatchAssumption
  DEF WatchSyncs, WatchStores, WatchSynced, SyncStep
<1>3. QED
  BY <1>1, <1>2 DEF WatchStep

LEMMA StepKinds ==
  ASSUME Paired, [WatchNext]_systemVars
  PROVE  \/ [Next]_vars /\ UNCHANGED syncs
         \/ \E s \in Syncers : Reads(s) \/ Writes(s)
         \/ \E mail \in Mails : Deliver("INBOX", mail)
<1>1. CASE UNCHANGED systemVars
  BY <1>1 DEF systemVars, allVars
<1>2. ASSUME NEW s \in Syncers, SyncStep(s) \/ SyncFails(s)
      PROVE  Reads(s) \/ Writes(s)
  BY <1>2, SyncStepKinds
<1>3. ASSUME NEW w \in Watchers, WatchStep(w) \/ WatchFails(w)
      PROVE  \/ [Next]_vars /\ UNCHANGED syncs
             \/ Reads(w) \/ Writes(w)
  BY <1>3, WatchStepKinds DEF Announce, allVars
<1>4. QED
  BY <1>1, <1>2, <1>3, WatchAssumption DEF WatchNext

-----------------------------------------------------------------------------
(* What each step does to the mailboxes and to the rows *)

LEMMA DeliverEffect ==
  ASSUME Typed, NEW mail \in Mails, Deliver("INBOX", mail)
  PROVE  WellNumbered(server') /\ Continues(server, server')
<1> DEFINE message == [mail |-> mail, seen |-> FALSE, flagged |-> FALSE, deleted |-> FALSE]
<1>1. message \in Messages
  BY DEF Messages
<1>2. HasRoom(server, "INBOX") /\ server' = Deposit(server, "INBOX", message)
  BY DEF Deliver
<1>3. WellNumbered(server)
  BY SettingTyped
<1> HIDE DEF message
<1>4. QED
  BY <1>1, <1>2, <1>3, DepositEffect, WatchAssumption

LEMMA MailboxesContinue ==
  ASSUME Typed, Paired, [WatchNext]_systemVars
  PROVE  /\ WellNumbered(server) /\ WellNumbered(server') /\ Continues(server, server')
<1>1. WellNumbered(server)
  BY SettingTyped
<1>2. CASE [Next]_vars
  BY <1>1, <1>2, ServerContinues
<1>3. ASSUME NEW s \in Syncers, Reads(s) \/ Writes(s) PROVE UNCHANGED server
  BY <1>3 DEF Reads, Writes, RefreshFlags, StoreMessage, vars
<1>4. CASE UNCHANGED server
  BY <1>1, <1>4, Untouched
<1>5. QED
  BY <1>1, <1>2, <1>3, <1>4, StepKinds, DeliverEffect

-----------------------------------------------------------------------------
(* Each step of a sync, by what it makes of the sync's state *)

Uid(listing) == {listed.uid : listed \in listing}

Fresh(st) ==
  /\ st.listing = {} /\ st.todo = {} /\ st.sizes = {} /\ st.scan = <<>>
  /\ st.index = {} /\ st.missing = {} /\ st.fetched = {}

\* A sync that has ended, or is about to list a folder.
Starts(st) == st.pc \in {"idle", "list"} /\ Fresh(st)

\* A sync at work has a folder, and works on what it listed of it.
Ready(st) ==
  /\ st \in SyncStates
  /\ st.pc # "idle" => st.plan # <<>>
  /\ st.pc \in {"idle", "list"} => Fresh(st)
  /\ st.pc = "refresh" => st.todo # {}
  /\ st.pc = "index" => st.scan # <<>>
  /\ st.todo \subseteq Uid(st.listing) /\ st.missing \subseteq Uid(st.listing)
  /\ \A message \in st.fetched : message.uid \in Uid(st.listing)

\* The same folder, as it was listed.
SameFolder(old, new) ==
  /\ new.plan = old.plan /\ new.part = old.part /\ new.limit = old.limit
  /\ new.validity = old.validity /\ new.listing = old.listing

LEMMA AtRestReady == Ready(AtRest)
  BY DEF AtRest, Ready, SyncStates, Fresh, SyncPcs, Parts, Uid

LEMMA BeginsAt ==
  ASSUME syncs \in [Syncers -> SyncStates], NEW s \in Syncers, Ready(syncs[s]),
         SyncAt(s, "idle"), NEW plan \in Seq(Roles), plan # <<>>, NEW part \in Parts,
         NEW limit \in Nat \union {NoLimit},
         syncs' = [syncs EXCEPT ![s].pc = "list", ![s].plan = plan,
                                ![s].part = part, ![s].limit = limit]
  PROVE  \E new : Turns(s, new) /\ Ready(new) /\ Starts(new)
<1> DEFINE old == syncs[s]
<1>0. old \in SyncStates /\ Fresh(old)
  BY DEF Ready, SyncAt
<1>1. PICK new : new = [old EXCEPT !.pc = "list", !.plan = plan, !.part = part,
                                   !.limit = limit]
  OBVIOUS
<1>2. Turns(s, new)
  BY <1>1 DEF Turns
<1> HIDE DEF old
<1>3. new = [pc |-> "list", plan |-> plan, part |-> part, limit |-> limit,
             validity |-> old.validity, listing |-> {}, todo |-> {}, sizes |-> {},
             scan |-> <<>>, index |-> {}, missing |-> {}, fetched |-> {}]
  BY <1>0, <1>1 DEF SyncStates, Fresh
<1>4. Ready(new) /\ Starts(new)
  BY <1>0, <1>3 DEF Ready, Fresh, Starts, SyncStates, SyncPcs, Uid
<1>5. QED
  BY <1>2, <1>4

LEMMA NextFolderAt ==
  ASSUME syncs \in [Syncers -> SyncStates], NEW s \in Syncers, Ready(syncs[s]),
         ~SyncAt(s, "idle"), NextFolder(s)
  PROVE  \E new : Turns(s, new) /\ Ready(new) /\ Starts(new)
<1> DEFINE old == syncs[s]
           rest == Tail(old.plan)
<1>0. old \in SyncStates /\ rest \in Seq(Roles)
  BY TailTyped DEF Ready, SyncAt, SyncStates
<1>1. CASE rest = <<>>
  <2>1. Turns(s, AtRest)
    BY <1>1 DEF NextFolder, Turns
  <2>2. QED
    BY <2>1, AtRestReady DEF AtRest, Fresh, Starts
<1>2. CASE rest # <<>>
  <2>1. PICK new : new = [AtRest EXCEPT !.pc = "list", !.plan = rest, !.part = old.part,
                                        !.limit = old.limit]
    OBVIOUS
  <2>2. Turns(s, new)
    BY <1>2, <2>1 DEF NextFolder, Turns
  <2> HIDE DEF old, rest
  <2>3. new = [pc |-> "list", plan |-> rest, part |-> old.part, limit |-> old.limit,
               validity |-> 0, listing |-> {}, todo |-> {}, sizes |-> {},
               scan |-> <<>>, index |-> {}, missing |-> {}, fetched |-> {}]
    BY <2>1 DEF AtRest
  <2>4. Ready(new) /\ Starts(new)
    BY <1>0, <1>2, <2>3 DEF Ready, Fresh, Starts, SyncStates, SyncPcs, Uid
  <2>5. QED
    BY <2>2, <2>4
<1>3. QED
  BY <1>1, <1>2

\* What the sync got of the mailbox is what FETCH says of its messages.
LEMMA ListingTyped ==
  ASSUME WellNumbered(server), NEW box \in Mailboxes
  PROVE  /\ Listing(box) \subseteq Listed /\ Uid(Listing(box)) = UidsIn(server, box)
         /\ server[box].validity \in Nat
<1>1. ASSUME NEW uid \in UidsIn(server, box)
      PROVE  uid \in Uids /\ server[box].msgs[uid] \in Messages
  BY <1>1, MessageTyped DEF UidsIn, WellNumbered
<1>2. server[box].validity \in Nat
  BY MessageTyped DEF WellNumbered, MailboxStates
<1>3. Listing(box) \subseteq Listed
  BY <1>1 DEF Listing, Listed, Messages
<1>4. ASSUME NEW uid \in UidsIn(server, box) PROVE uid \in Uid(Listing(box))
  <2>1. PICK listed : listed = [uid |-> uid, mail |-> server[box].msgs[uid].mail,
                                seen |-> server[box].msgs[uid].seen,
                                flagged |-> server[box].msgs[uid].flagged]
    OBVIOUS
  <2>2. listed \in Listing(box) /\ listed.uid = uid
    BY <2>1 DEF Listing
  <2>3. QED
    BY <2>2 DEF Uid
<1>5. Uid(Listing(box)) \subseteq UidsIn(server, box)
  BY DEF Uid, Listing
<1>6. QED
  BY <1>2, <1>3, <1>4, <1>5

LEMMA ListsAt ==
  ASSUME syncs \in [Syncers -> SyncStates], NEW s \in Syncers, Ready(syncs[s]),
         WellNumbered(server), SyncAt(s, "list"), NEW box \in Mailboxes,
         UidsIn(server, box) # {},
         syncs' = [syncs EXCEPT ![s].pc = "refresh",
                                ![s].validity = server[box].validity,
                                ![s].listing = Listing(box),
                                ![s].todo = UidsIn(server, box)]
  PROVE  \E new : /\ Turns(s, new) /\ Ready(new)
                  /\ new.pc = "refresh" /\ new.plan = syncs[s].plan
                  /\ new.limit = syncs[s].limit /\ new.part = syncs[s].part
                  /\ new.validity = server[box].validity /\ new.listing = Listing(box)
                  /\ new.sizes = {} /\ new.index = {} /\ new.fetched = {}
<1> DEFINE old == syncs[s]
           validity == server[box].validity
           listing == Listing(box)
           todo == UidsIn(server, box)
<1>0. old \in SyncStates /\ Fresh(old) /\ old.plan # <<>>
  BY DEF Ready, SyncAt
<1>1. PICK new : new = [old EXCEPT !.pc = "refresh", !.validity = validity,
                                   !.listing = listing, !.todo = todo]
  OBVIOUS
<1>2. Turns(s, new)
  BY <1>1 DEF Turns
<1>3. validity \in Nat /\ listing \subseteq Listed /\ Uid(listing) = todo /\ todo # {}
      /\ todo \subseteq Uids
  BY ListingTyped DEF UidsIn
<1> HIDE DEF old, validity, listing, todo
<1>4. new = [pc |-> "refresh", plan |-> old.plan, part |-> old.part, limit |-> old.limit,
             validity |-> validity, listing |-> listing, todo |-> todo, sizes |-> {},
             scan |-> <<>>, index |-> {}, missing |-> {}, fetched |-> {}]
  BY <1>0, <1>1 DEF SyncStates, Fresh
<1>5. Ready(new)
  BY <1>0, <1>3, <1>4 DEF Ready, SyncStates, SyncPcs
<1>6. QED
  BY <1>2, <1>4, <1>5 DEF old, validity, listing

LEMMA RefreshAt ==
  ASSUME syncs \in [Syncers -> SyncStates], NEW s \in Syncers, Ready(syncs[s]),
         RefreshFlags(s)
  PROVE  \E new : /\ Turns(s, new) /\ Ready(new) /\ SameFolder(syncs[s], new)
                  /\ new.pc \in {"refresh", "sizes"}
                  /\ new.sizes = syncs[s].sizes /\ new.index = syncs[s].index
                  /\ new.fetched = syncs[s].fetched
<1> DEFINE old == syncs[s]
           rest == old.todo \ {Smallest(old.todo)}
           pc == IF rest = {} THEN "sizes" ELSE "refresh"
<1>0. old \in SyncStates /\ Ready(old) /\ old.pc = "refresh"
  BY DEF RefreshFlags, Ready, SyncAt
<1>1. PICK new : new = [old EXCEPT !.todo = rest, !.pc = pc]
  OBVIOUS
<1>2. Turns(s, new)
  BY <1>1 DEF Turns, RefreshFlags
<1>3. rest \subseteq old.todo /\ pc \in {"refresh", "sizes"} /\ (pc = "refresh" => rest # {})
  OBVIOUS
<1> HIDE DEF old, rest, pc
<1>4. new = [pc |-> pc, plan |-> old.plan, part |-> old.part, limit |-> old.limit,
             validity |-> old.validity, listing |-> old.listing, todo |-> rest,
             sizes |-> old.sizes, scan |-> old.scan, index |-> old.index,
             missing |-> old.missing, fetched |-> old.fetched]
  BY <1>0, <1>1 DEF SyncStates
<1>5. Ready(new)
  BY <1>0, <1>3, <1>4 DEF Ready, SyncStates, SyncPcs
<1>6. QED
  BY <1>2, <1>3, <1>4, <1>5 DEF old, SameFolder

LEMMA SizesTyped ==
  ASSUME rows \subseteq Rows, NEW role
  PROVE  SizesOf(rows, role) \subseteq [validity : Nat, uid : Nat, size : Nat]
<1>1. ASSUME NEW row \in rows, row.binding # NoBinding
      PROVE  SizeOf(row) \in [validity : Nat, uid : Nat, size : Nat]
  <2>1. row.binding \in Identities /\ row.content \in Contents
    BY <1>1 DEF Rows
  <2>2. BlobSize(row.content) \in Nat
    BY <2>1, SyncAssumption DEF BlobSize, Contents
  <2>3. QED
    BY <2>1, <2>2 DEF Identities, SizeOf
<1>2. QED
  BY <1>1 DEF SizesOf

LEMMA ScopeTyped ==
  ASSUME NEW role \in Roles
  PROVE  DedupeScope(role) \in Seq(ScannedRoles) /\ DedupeScope(role) # <<>>
<1>1. role \in ScannedRoles /\ {"archive", "inbox", "sent", "drafts"} \subseteq ScannedRoles
  BY DEF ScannedRoles
<1>2. QED
  BY <1>1 DEF DedupeScope

LEMMA ReadSizesAt ==
  ASSUME syncs \in [Syncers -> SyncStates], NEW s \in Syncers, Ready(syncs[s]),
         rows \subseteq Rows, ReadSizes(s)
  PROVE  \E new : /\ Turns(s, new) /\ Ready(new) /\ SameFolder(syncs[s], new)
                  /\ new.pc = "index"
                  /\ new.sizes \in LocalSizesByRole(rows, Role(s))
                  /\ new.index = syncs[s].index /\ new.fetched = syncs[s].fetched
<1> DEFINE old == syncs[s]
           scan == DedupeScope(Role(s))
<1>0. old \in SyncStates /\ Ready(old) /\ old.plan # <<>>
  BY DEF ReadSizes, Ready, SyncAt
<1>1. PICK sizes \in LocalSizesByRole(rows, Role(s)) :
        syncs' = [syncs EXCEPT ![s].pc = "index", ![s].sizes = sizes, ![s].scan = scan]
  BY DEF ReadSizes
<1>2. PICK new : new = [old EXCEPT !.pc = "index", !.sizes = sizes, !.scan = scan]
  OBVIOUS
<1>3. Turns(s, new)
  BY <1>1, <1>2 DEF Turns
<1>4. /\ sizes \subseteq [validity : Nat, uid : Nat, size : Nat]
      /\ scan \in Seq(ScannedRoles) /\ scan # <<>>
  <2>1. Role(s) \in Roles
    BY <1>0, TailTyped DEF SyncStates, Role
  <2>2. QED
    BY <2>1, SizesTyped, ScopeTyped DEF LocalSizesByRole
<1> HIDE DEF old, scan
<1>5. new = [pc |-> "index", plan |-> old.plan, part |-> old.part, limit |-> old.limit,
             validity |-> old.validity, listing |-> old.listing, todo |-> old.todo,
             sizes |-> sizes, scan |-> scan, index |-> old.index,
             missing |-> old.missing, fetched |-> old.fetched]
  BY <1>0, <1>2 DEF SyncStates
<1>6. Ready(new)
  BY <1>0, <1>4, <1>5 DEF Ready, SyncStates, SyncPcs
<1>7. QED
  BY <1>1, <1>3, <1>5, <1>6 DEF old, SameFolder

LEMMA ReadIndexAt ==
  ASSUME syncs \in [Syncers -> SyncStates], NEW s \in Syncers, Ready(syncs[s]),
         rows \subseteq Rows, ReadIndex(s)
  PROVE  \E new, role : /\ Turns(s, new) /\ Ready(new) /\ SameFolder(syncs[s], new)
                        /\ new.pc \in {"index", "find"}
                        /\ new.index = syncs[s].index \union RfcIndexByRole(rows, role)
                        /\ new.sizes = syncs[s].sizes /\ new.fetched = syncs[s].fetched
<1> DEFINE old == syncs[s]
           role == Head(old.scan)
           rest == Tail(old.scan)
           index == old.index \union RfcIndexByRole(rows, role)
           pc == IF rest = <<>> THEN "find" ELSE "index"
<1>0. old \in SyncStates /\ Ready(old) /\ old.plan # <<>> /\ old.scan # <<>>
  BY DEF ReadIndex, Ready, SyncAt
<1>1. PICK new : new = [old EXCEPT !.index = index, !.scan = rest, !.pc = pc]
  OBVIOUS
<1>2. Turns(s, new)
  BY <1>1 DEF Turns, ReadIndex
<1>3. /\ rest \in Seq(ScannedRoles) /\ pc \in {"index", "find"}
      /\ pc = "index" => rest # <<>>
  BY <1>0, TailTyped DEF SyncStates
<1>4. index \subseteq {Rfc[mail] : mail \in Mails}
  <2>1. ASSUME NEW row \in rows PROVE Rfc[row.content.mail] \in {Rfc[mail] : mail \in Mails}
    BY <2>1 DEF Rows, Contents
  <2>2. RfcIndexByRole(rows, role) \subseteq {Rfc[mail] : mail \in Mails}
    BY <2>1 DEF RfcIndexByRole
  <2>3. QED
    BY <1>0, <2>2 DEF SyncStates
<1> HIDE DEF old, rest, index, pc
<1>5. new = [pc |-> pc, plan |-> old.plan, part |-> old.part, limit |-> old.limit,
             validity |-> old.validity, listing |-> old.listing, todo |-> old.todo,
             sizes |-> old.sizes, scan |-> rest, index |-> index,
             missing |-> old.missing, fetched |-> old.fetched]
  BY <1>0, <1>1 DEF SyncStates
<1>6. Ready(new)
  BY <1>0, <1>3, <1>4, <1>5 DEF Ready, SyncStates, SyncPcs
<1>7. /\ SameFolder(old, new) /\ new.pc \in {"index", "find"}
      /\ new.index = old.index \union RfcIndexByRole(rows, role)
      /\ new.sizes = old.sizes /\ new.fetched = old.fetched
  BY <1>3, <1>5 DEF SameFolder, index
<1> HIDE DEF role
<1>8. QED
  BY <1>2, <1>6, <1>7 DEF old

\* The UIDs selected are UIDs that were listed.
LEMMA SelectedListed ==
  ASSUME NEW s \in Syncers
  PROVE  Selected(s) \subseteq Uid(syncs[s].listing)
  BY DEF Selected, Truncate, Uid

LEMMA UidTyped ==
  ASSUME NEW st \in SyncStates
  PROVE  Uid(st.listing) \subseteq Uids
  BY DEF Uid, SyncStates, Listed

LEMMA FindMissingAt ==
  ASSUME syncs \in [Syncers -> SyncStates], NEW s \in Syncers, Ready(syncs[s]),
         SyncAt(s, "find"),
         syncs' = [syncs EXCEPT ![s].pc = "download", ![s].missing = Selected(s)]
  PROVE  \E new : /\ Turns(s, new) /\ Ready(new) /\ SameFolder(syncs[s], new)
                  /\ new.pc = "download" /\ new.missing = Selected(s)
                  /\ new.sizes = syncs[s].sizes /\ new.index = syncs[s].index
                  /\ new.fetched = syncs[s].fetched
<1> DEFINE old == syncs[s]
           missing == Selected(s)
<1>0. old \in SyncStates /\ Ready(old) /\ old.plan # <<>>
  BY DEF Ready, SyncAt
<1>1. PICK new : new = [old EXCEPT !.pc = "download", !.missing = missing]
  OBVIOUS
<1>2. Turns(s, new)
  BY <1>1 DEF Turns
<1>3. missing \subseteq Uid(old.listing) /\ missing \subseteq Uids
  BY <1>0, SelectedListed, UidTyped
<1> HIDE DEF old, missing
<1>4. new = [pc |-> "download", plan |-> old.plan, part |-> old.part, limit |-> old.limit,
             validity |-> old.validity, listing |-> old.listing, todo |-> old.todo,
             sizes |-> old.sizes, scan |-> old.scan, index |-> old.index,
             missing |-> missing, fetched |-> old.fetched]
  BY <1>0, <1>1 DEF SyncStates
<1>5. Ready(new)
  BY <1>0, <1>3, <1>4 DEF Ready, SyncStates, SyncPcs
<1>6. QED
  BY <1>2, <1>4, <1>5 DEF old, SameFolder, missing

\* What a worker gets for a UID that is there.
Gotten(s, uid) ==
  [uid |-> uid, content |-> [mail |-> server[Folder[Role(s)]].msgs[uid].mail,
                             part |-> syncs[s].part]]

LEMMA FetchAt ==
  ASSUME syncs \in [Syncers -> SyncStates], NEW s \in Syncers, Ready(syncs[s]),
         WellNumbered(server), NEW uid \in syncs[s].missing, FetchMessage(s, uid)
  PROVE  \E new : /\ Turns(s, new) /\ Ready(new) /\ SameFolder(syncs[s], new)
                  /\ new.pc = "download" /\ new.missing = syncs[s].missing \ {uid}
                  /\ new.sizes = syncs[s].sizes /\ new.index = syncs[s].index
                  /\ new.fetched = IF Present(server, Folder[Role(s)], uid)
                                   THEN syncs[s].fetched \union {Gotten(s, uid)}
                                   ELSE syncs[s].fetched
<1> DEFINE old == syncs[s]
           box == Folder[Role(s)]
           missing == old.missing \ {uid}
           fetched == IF Present(server, box, uid) THEN old.fetched \union {Gotten(s, uid)}
                                                   ELSE old.fetched
<1>0. old \in SyncStates /\ Ready(old) /\ old.plan # <<>> /\ uid \in Uid(old.listing)
  BY DEF FetchMessage, Ready, SyncAt
<1>1. PICK new : new = [old EXCEPT !.missing = missing, !.fetched = fetched]
  OBVIOUS
<1>2. Turns(s, new)
  BY <1>1 DEF Turns, FetchMessage, Gotten
<1>3. box \in Mailboxes /\ uid \in Uids
  <2>1. Role(s) \in Roles
    BY <1>0, TailTyped DEF SyncStates, Role
  <2>2. QED
    BY <1>0, <2>1, UidTyped, MutationAssumption
<1>4. /\ fetched \subseteq [uid : Uids, content : Contents]
      /\ \A message \in fetched : message.uid \in Uid(old.listing)
  <2>1. CASE Present(server, box, uid)
    <3>1. server[box].msgs[uid] \in Messages
      BY <1>3, <2>1, MessageTyped DEF WellNumbered
    <3>2. Gotten(s, uid) \in [uid : Uids, content : Contents] /\ Gotten(s, uid).uid = uid
      BY <1>0, <1>3, <3>1 DEF Gotten, Contents, Messages, SyncStates
    <3>3. QED
      BY <1>0, <3>2 DEF Ready, SyncStates
  <2>2. CASE ~Present(server, box, uid)
    BY <1>0, <2>2 DEF Ready, SyncStates
  <2>3. QED
    BY <2>1, <2>2
<1>5. missing \subseteq old.missing /\ old.pc = "download"
  BY DEF FetchMessage, SyncAt
<1> HIDE DEF old, missing, fetched
<1>6. new = [pc |-> old.pc, plan |-> old.plan, part |-> old.part, limit |-> old.limit,
             validity |-> old.validity, listing |-> old.listing, todo |-> old.todo,
             sizes |-> old.sizes, scan |-> old.scan, index |-> old.index,
             missing |-> missing, fetched |-> fetched]
  BY <1>0, <1>1 DEF SyncStates
<1>7. Ready(new)
  BY <1>0, <1>4, <1>5, <1>6 DEF Ready, SyncStates, SyncPcs
<1>8. QED
  BY <1>2, <1>5, <1>6, <1>7 DEF old, SameFolder, missing, fetched

LEMMA StoreAt ==
  ASSUME syncs \in [Syncers -> SyncStates], NEW s \in Syncers, Ready(syncs[s]),
         NEW message \in syncs[s].fetched, StoreMessage(s, message),
         CanIngest(rows, StoredRow(s, message))
  PROVE  \E new : /\ Turns(s, new) /\ Ready(new) /\ SameFolder(syncs[s], new)
                  /\ new.pc = "download" /\ new.missing = syncs[s].missing
                  /\ new.sizes = syncs[s].sizes /\ new.index = syncs[s].index
                  /\ new.fetched = syncs[s].fetched \ {message}
<1> DEFINE old == syncs[s]
           fetched == old.fetched \ {message}
<1>0. old \in SyncStates /\ Ready(old) /\ old.pc = "download"
  BY DEF StoreMessage, Ready, SyncAt
<1>1. PICK new : new = [old EXCEPT !.fetched = fetched]
  OBVIOUS
<1>2. Turns(s, new)
  BY <1>1 DEF Turns, StoreMessage
<1>3. fetched \subseteq old.fetched
  OBVIOUS
<1> HIDE DEF old, fetched
<1>4. new = [pc |-> old.pc, plan |-> old.plan, part |-> old.part, limit |-> old.limit,
             validity |-> old.validity, listing |-> old.listing, todo |-> old.todo,
             sizes |-> old.sizes, scan |-> old.scan, index |-> old.index,
             missing |-> old.missing, fetched |-> fetched]
  BY <1>0, <1>1 DEF SyncStates
<1>5. Ready(new)
  BY <1>0, <1>3, <1>4 DEF Ready, SyncStates, SyncPcs
<1>6. QED
  BY <1>0, <1>2, <1>4, <1>5 DEF old, SameFolder, fetched

(* What a sync becomes by a step of its own: it starts on a folder or ends, *)
(* has listed the mailbox, or goes on with what it listed.                  *)
HasListed(s, new) ==
  LET box == Folder[Role(s)] IN
  /\ new.pc = "refresh" /\ new.plan = syncs[s].plan /\ new.limit = syncs[s].limit
  /\ new.part = syncs[s].part
  /\ new.validity = server[box].validity /\ new.listing = Listing(box)
  /\ new.sizes = {} /\ new.index = {} /\ new.fetched = {}

SameReads(s, new) == new.sizes = syncs[s].sizes /\ new.index = syncs[s].index

SameFetched(s, new) == new.fetched = syncs[s].fetched

HasRefreshed(s, new) ==
  /\ SyncAt(s, "refresh") /\ SameReads(s, new) /\ SameFetched(s, new)
  /\ new.pc \in {"refresh", "sizes"}

HasRead(s, new) ==
  /\ SameFetched(s, new)
  /\ \/ /\ SyncAt(s, "sizes") /\ new.pc = "index" /\ new.index = syncs[s].index
        /\ new.sizes \in LocalSizesByRole(rows, Role(s))
     \/ /\ SyncAt(s, "index")
        /\ new.pc \in {"index", "find"} /\ new.sizes = syncs[s].sizes
        /\ \E role : new.index = syncs[s].index \union RfcIndexByRole(rows, role)

HasFound(s, new) ==
  /\ SyncAt(s, "find") /\ SameReads(s, new) /\ SameFetched(s, new)
  /\ new.pc = "download" /\ new.missing = Selected(s)

HasFetched(s, new, uid) ==
  /\ SyncAt(s, "download") /\ SameReads(s, new)
  /\ new.pc = "download" /\ new.missing = syncs[s].missing \ {uid}
  /\ new.fetched = IF Present(server, Folder[Role(s)], uid)
                   THEN syncs[s].fetched \union {Gotten(s, uid)}
                   ELSE syncs[s].fetched

HasStored(s, new, message) ==
  /\ SyncAt(s, "download") /\ SameReads(s, new)
  /\ new.pc = "download" /\ new.missing = syncs[s].missing
  /\ new.fetched = syncs[s].fetched \ {message}
  /\ rows' = Ingest(rows, StoredRow(s, message))

GoesOnTo(s, new) ==
  /\ SameFolder(syncs[s], new)
  /\ \/ HasRefreshed(s, new) \/ HasRead(s, new) \/ HasFound(s, new)
     \/ \E uid \in syncs[s].missing : HasFetched(s, new, uid)
     \/ \E message \in syncs[s].fetched : HasStored(s, new, message)

Becoming(s, new) == Starts(new) \/ HasListed(s, new) \/ GoesOnTo(s, new)

SyncsReady == syncs \in [Syncers -> SyncStates] /\ \A s \in Syncers : Ready(syncs[s])

LEMMA ReadsTurn ==
  ASSUME Typed, SyncsReady, NEW s \in Syncers, Reads(s)
  PROVE  \E new : Turns(s, new) /\ Ready(new) /\ Becoming(s, new)
<1>0. /\ syncs \in [Syncers -> SyncStates] /\ Ready(syncs[s]) /\ WellNumbered(server)
      /\ rows \subseteq Rows /\ setting \in Settings
  BY SettingTyped DEF SyncsReady, Typed, TypeOK
<1>1. CASE StartSync(s)
  <2>1. PICK plan \in setting.sync.plans, part \in setting.sync.parts,
             limit \in setting.sync.limits :
          syncs' = [syncs EXCEPT ![s].pc = "list", ![s].plan = plan,
                                 ![s].part = part, ![s].limit = limit]
    BY <1>1 DEF StartSync
  <2>2. /\ plan \in Seq(Roles) /\ plan # <<>> /\ part \in Parts
        /\ limit \in Nat \union {NoLimit}
    BY <1>0, SyncAssumption
  <2>3. QED
    BY <1>0, <1>1, <2>1, <2>2, BeginsAt DEF StartSync, Becoming
<1>2. CASE Turns(s, AtRest)
  BY <1>2, AtRestReady DEF Becoming, AtRest, Fresh, Starts
<1>3. ASSUME NEW part \in setting.sync.parts, setting.watching, SyncAt(s, "idle"),
             syncs' = [syncs EXCEPT ![s].pc = "list", ![s].plan = <<"inbox">>,
                                    ![s].part = part, ![s].limit = NoLimit]
      PROVE  \E new : Turns(s, new) /\ Ready(new) /\ Becoming(s, new)
  <2>1. part \in Parts /\ "inbox" \in Roles
    BY <1>0, <1>3, SyncAssumption, WatchAssumption
  <2>2. <<"inbox">> \in Seq(Roles) /\ <<"inbox">> # <<>>
    BY <2>1
  <2>3. QED
    BY <1>0, <1>3, <2>1, <2>2, BeginsAt DEF Becoming
<1>4. CASE NextFolder(s) /\ ~SyncAt(s, "idle")
  BY <1>0, <1>4, NextFolderAt DEF Becoming
<1>5. CASE ListFolder(s)
  <2>1. Role(s) \in Roles
    BY <1>0, <1>5, TailTyped DEF ListFolder, SyncAt, Ready, SyncStates, Role
  <2>2. Folder[Role(s)] \in Mailboxes
    BY <2>1, MutationAssumption
  <2>3. CASE UidsIn(server, Folder[Role(s)]) = {}
    BY <1>4, <1>5, <2>3 DEF ListFolder, SyncAt
  <2>4. CASE UidsIn(server, Folder[Role(s)]) # {}
    BY <1>0, <1>5, <2>2, <2>4, ListsAt DEF ListFolder, Becoming, HasListed
  <2>5. QED
    BY <2>3, <2>4
<1>6. CASE ReadSizes(s)
  BY <1>0, <1>6, ReadSizesAt
  DEF Becoming, GoesOnTo, HasRead, SameReads, SameFetched, ReadSizes
<1>7. CASE ReadIndex(s)
  BY <1>0, <1>7, ReadIndexAt
  DEF Becoming, GoesOnTo, HasRead, SameReads, SameFetched, ReadIndex
<1>8. CASE FindMissing(s)
  <2>1. CASE Selected(s) = {}
    BY <1>4, <1>8, <2>1 DEF FindMissing, SyncAt
  <2>2. CASE Selected(s) # {}
    BY <1>0, <1>8, <2>2, FindMissingAt
    DEF FindMissing, Becoming, GoesOnTo, HasFound, SameReads, SameFetched
  <2>3. QED
    BY <2>1, <2>2
<1>9. ASSUME NEW uid \in syncs[s].missing, FetchMessage(s, uid)
      PROVE  \E new : Turns(s, new) /\ Ready(new) /\ Becoming(s, new)
  <2>1. PICK new : /\ Turns(s, new) /\ Ready(new) /\ SameFolder(syncs[s], new)
                   /\ new.pc = "download" /\ new.missing = syncs[s].missing \ {uid}
                   /\ new.sizes = syncs[s].sizes /\ new.index = syncs[s].index
                   /\ new.fetched = IF Present(server, Folder[Role(s)], uid)
                                    THEN syncs[s].fetched \union {Gotten(s, uid)}
                                    ELSE syncs[s].fetched
    BY <1>0, <1>9, FetchAt
  <2>2. SyncAt(s, "download")
    BY <1>9 DEF FetchMessage
  <2>3. HasFetched(s, new, uid)
    BY <2>1, <2>2 DEF HasFetched, SameReads
  <2>4. QED
    BY <2>1, <2>3 DEF Becoming, GoesOnTo
<1>10. CASE Downloaded(s)
  BY <1>4, <1>10 DEF Downloaded, SyncAt
<1>11. CASE SyncFails(s)
  BY <1>2, <1>11 DEF SyncFails, Turns
<1>12. QED
  BY <1>1, <1>2, <1>3, <1>5, <1>6, <1>7, <1>8, <1>9, <1>10, <1>11 DEF Reads

LEMMA WritesTurn ==
  ASSUME Typed, SyncsReady, NEW s \in Syncers, Writes(s)
  PROVE  \E new : Turns(s, new) /\ Ready(new) /\ Becoming(s, new)
<1>0. syncs \in [Syncers -> SyncStates] /\ Ready(syncs[s])
  BY DEF SyncsReady
<1>1. CASE RefreshFlags(s)
  BY <1>0, <1>1, RefreshAt
  DEF RefreshFlags, Becoming, GoesOnTo, HasRefreshed, SameReads, SameFetched
<1>2. ASSUME NEW message \in syncs[s].fetched, StoreMessage(s, message)
      PROVE  \E new : Turns(s, new) /\ Ready(new) /\ Becoming(s, new)
  <2>1. CASE CanIngest(rows, StoredRow(s, message))
    BY <1>0, <1>2, <2>1, StoreAt
    DEF StoreMessage, Becoming, GoesOnTo, HasStored, SameReads
  <2>2. CASE ~CanIngest(rows, StoredRow(s, message))
    <3>1. Turns(s, AtRest)
      BY <1>2, <2>2 DEF StoreMessage, Turns
    <3>2. Becoming(s, AtRest)
      BY DEF Becoming, AtRest, Fresh, Starts
    <3>3. QED
      BY <3>1, <3>2, AtRestReady
  <2>3. QED
    BY <2>1, <2>2
<1>3. QED
  BY <1>1, <1>2 DEF Writes

LEMMA ReadyStep ==
  ASSUME Typed, SyncsReady, Paired, [WatchNext]_systemVars
  PROVE  SyncsReady'
<1>1. ASSUME NEW s \in Syncers, NEW new, Turns(s, new), Ready(new)
      PROVE  SyncsReady'
  <2>1. /\ syncs' \in [Syncers -> SyncStates] /\ syncs'[s] = new
        /\ \A other \in Syncers \ {s} : syncs'[other] = syncs[other]
    BY <1>1 DEF Turns, SyncsReady, Ready
  <2>2. \A other \in Syncers : Ready(syncs'[other])
    BY <1>1, <2>1 DEF SyncsReady
  <2>3. QED
    BY <2>1, <2>2 DEF SyncsReady, Ready, Fresh
<1>2. CASE UNCHANGED syncs
  BY <1>2 DEF SyncsReady
<1>3. QED
  BY <1>1, <1>2, StepKinds, ReadsTurn, WritesTurn DEF Deliver

-----------------------------------------------------------------------------
(* Typing *)

LEMMA EntryIs ==
  ASSUME SyncsReady, NEW s \in Syncers, NEW uid \in Uid(syncs[s].listing)
  PROVE  Entry(s, uid) \in syncs[s].listing /\ Entry(s, uid) \in Listed
         /\ Entry(s, uid).uid = uid
<1>1. PICK listed \in syncs[s].listing : listed.uid = uid
  BY DEF Uid
<1>2. Entry(s, uid) \in syncs[s].listing /\ Entry(s, uid).uid = uid
  BY <1>1 DEF Entry
<1>3. QED
  BY <1>2 DEF SyncsReady, SyncStates

LEMMA FolderIs ==
  ASSUME SyncsReady, NEW s \in Syncers, ~SyncAt(s, "idle")
  PROVE  Role(s) \in Roles /\ Folder[Role(s)] \in Mailboxes
<1>1. Role(s) \in Roles
  BY TailTyped DEF SyncsReady, Ready, SyncAt, SyncStates, Role
<1>2. QED
  BY <1>1, MutationAssumption

LEMMA ListedIdentityIs ==
  ASSUME SyncsReady, NEW s \in Syncers, ~SyncAt(s, "idle"),
         NEW uid \in Uid(syncs[s].listing)
  PROVE  /\ ListedIdentity(s, uid) \in Identities
         /\ ListedIdentity(s, uid)
              \in [box : Mailboxes, validity : Nat, uid : Uids]
<1>1. syncs[s].validity \in Nat /\ uid \in Uids
  BY UidTyped DEF SyncsReady, SyncStates
<1>2. QED
  BY <1>1, FolderIs DEF ListedIdentity, Identities, Uids

LEMMA StoredRowTyped ==
  ASSUME SyncsReady, NEW s \in Syncers, SyncAt(s, "download"),
         NEW message \in syncs[s].fetched
  PROVE  /\ message.uid \in Uid(syncs[s].listing) /\ message.content \in Contents
         /\ StoredRow(s, message) \in Rows
<1>1. /\ message.uid \in Uid(syncs[s].listing) /\ message.content \in Contents
      /\ ~SyncAt(s, "idle")
  BY DEF SyncsReady, Ready, SyncStates, SyncAt
<1>2. Entry(s, message.uid).seen \in BOOLEAN /\ Entry(s, message.uid).flagged \in BOOLEAN
  BY <1>1, EntryIs DEF Listed
<1>3. /\ Role(s) \in Roles /\ ListedIdentity(s, message.uid) \in Identities
  BY <1>1, FolderIs, ListedIdentityIs
<1>4. IngestId(Role(s), message.content, ListedIdentity(s, message.uid)) \in Ids
  BY <1>1, <1>3 DEF IngestId, Ids
<1>5. StoredRow(s, message) \in Rows
  BY <1>1, <1>2, <1>3, <1>4 DEF StoredRow, Rows
<1>6. QED
  BY <1>1, <1>5

\* What a refresh writes.
LEMMA RefreshIs ==
  ASSUME SyncsReady, NEW s \in Syncers, RefreshFlags(s)
  PROVE  \E identity \in Identities, seen \in BOOLEAN, flagged \in BOOLEAN :
           rows' = UpdateRemoteFlags(rows, identity, seen, flagged)
<1> DEFINE uid == Smallest(syncs[s].todo)
<1>1. /\ syncs[s].todo \in SUBSET Uids /\ syncs[s].todo # {} /\ ~SyncAt(s, "idle")
      /\ syncs[s].todo \subseteq Uid(syncs[s].listing)
  BY DEF SyncsReady, Ready, SyncStates, RefreshFlags, SyncAt
<1>2. uid \in Uid(syncs[s].listing)
  BY <1>1, SmallestIs
<1>3. /\ ListedIdentity(s, uid) \in Identities
      /\ Entry(s, uid).seen \in BOOLEAN /\ Entry(s, uid).flagged \in BOOLEAN
  BY <1>1, <1>2, ListedIdentityIs, EntryIs DEF Listed
<1>4. QED
  BY <1>3 DEF RefreshFlags

LEMMA RefreshedRow ==
  ASSUME rows \subseteq Rows, NEW identity, NEW seen \in BOOLEAN, NEW flagged \in BOOLEAN,
         NEW new \in UpdateRemoteFlags(rows, identity, seen, flagged)
  PROVE  /\ new \in Rows
         /\ \E row \in rows : /\ new.id = row.id /\ new.content = row.content
                              /\ new.role = row.role /\ new.binding = row.binding
<1>1. PICK row \in rows :
        new = IF row.binding = identity
              THEN [row EXCEPT !.read = seen, !.starred = flagged] ELSE row
  BY DEF UpdateRemoteFlags
<1>2. row \in Rows
  OBVIOUS
<1>3. /\ new \in Rows /\ new.id = row.id /\ new.content = row.content
      /\ new.role = row.role /\ new.binding = row.binding
  BY <1>1, <1>2 DEF Rows
<1>4. QED
  BY <1>3

LEMMA WrittenRowsTyped ==
  ASSUME Typed, SyncsReady, NEW s \in Syncers, Writes(s)
  PROVE  rows' \subseteq Rows
<1>0. rows \subseteq Rows
  BY DEF Typed, TypeOK
<1>1. CASE RefreshFlags(s)
  BY <1>0, <1>1, RefreshIs, RefreshedRow
<1>2. ASSUME NEW message \in syncs[s].fetched, StoreMessage(s, message)
      PROVE  rows' \subseteq Rows
  BY <1>0, <1>2, StoredRowTyped DEF StoreMessage, Ingest
<1>3. QED
  BY <1>1, <1>2 DEF Writes

LEMMA SystemTypedStep ==
  ASSUME Typed, SyncsReady, Paired, [WatchNext]_systemVars
  PROVE  Typed'
<1>1. CASE [Next]_vars
  BY <1>1, TypedStep
<1>2. CASE /\ UNCHANGED <<setting, audit, synced, mutators, runs, commanded>>
           /\ rows' \subseteq Rows
  <2>1. WellNumbered(server')
    BY MailboxesContinue
  <2>2. TypeOK'
    BY <1>2, <2>1 DEF Typed, TypeOK, WellNumbered
  <2>3. \A m \in Mutators : Works(mutators[m])'
    BY <1>2 DEF Typed, Works, CommandPath, Supported
  <2>4. QED
    BY <2>1, <2>2, <2>3 DEF Typed, WellNumbered
<1>3. rows \subseteq Rows
  BY DEF Typed, TypeOK
<1>4. ASSUME NEW s \in Syncers, Reads(s) PROVE Typed'
  BY <1>4, <1>1 DEF Reads
<1>5. ASSUME NEW s \in Syncers, Writes(s) PROVE Typed'
  BY <1>2, <1>5, WrittenRowsTyped DEF Writes, RefreshFlags, StoreMessage
<1>6. ASSUME NEW mail \in Mails, Deliver("INBOX", mail) PROVE Typed'
  BY <1>2, <1>3, <1>6 DEF Deliver
<1>7. QED
  BY <1>1, <1>4, <1>5, <1>6, StepKinds

WatchStates == [pc : {"waiting", "syncing", "announce"}, stored : SUBSET Entries]

WatchesTyped ==
  /\ watches \in [Watchers -> WatchStates] /\ Paired
  /\ announced \in [Watchers -> SUBSET Entries]

\* A step of w, or of a sync that is no watcher's, leaves the other watchers alone.
LEMMA WatcherGoes ==
  ASSUME WatchesTyped, NEW w \in Watchers, NEW st \in WatchStates,
         watches' = [watches EXCEPT ![w] = st],
         announced' \in [Watchers -> SUBSET Entries],
         \A other \in Watchers \ {w} : syncs'[other] = syncs[other],
         st.pc = "syncing" \/ syncs'[w].pc = "idle"
  PROVE  WatchesTyped'
<1>1. /\ watches' \in [Watchers -> WatchStates] /\ watches'[w] = st
      /\ \A other \in Watchers \ {w} : watches'[other] = watches[other]
  BY DEF WatchesTyped
<1>2. ASSUME NEW other \in Watchers, watches'[other].pc # "syncing"
      PROVE  syncs'[other].pc = "idle"
  <2>1. CASE other = w
    BY <1>1, <1>2, <2>1
  <2>2. CASE other # w
    BY <1>1, <1>2, <2>2 DEF WatchesTyped, Paired, WatchAt, SyncAt
  <2>3. QED
    BY <2>1, <2>2
<1>3. QED
  BY <1>1, <1>2 DEF WatchesTyped, Paired, WatchAt, SyncAt, WatchStates, Entries

LEMMA OthersKeepTheirs ==
  ASSUME Typed, SyncsReady, NEW s \in Syncers, Reads(s) \/ Writes(s)
  PROVE  \A other \in Syncers \ {s} : syncs'[other] = syncs[other]
<1>1. PICK new : Turns(s, new)
  BY ReadsTurn, WritesTurn
<1>2. QED
  BY <1>1 DEF Turns, SyncsReady

LEMMA WatchStepTyped ==
  ASSUME Typed, SyncsReady, WatchesTyped, NEW w \in Watchers, WatchStep(w) \/ WatchFails(w)
  PROVE  WatchesTyped'
<1> DEFINE old == watches[w]
<1>0. /\ old \in WatchStates /\ w \in Syncers
      /\ announced \in [Watchers -> SUBSET Entries]
      /\ Waiting \in WatchStates /\ syncs \in [Syncers -> SyncStates]
      /\ \A other \in Watchers \ {w} : other \in Syncers
  BY WatchAssumption DEF WatchesTyped, SyncsReady, WatchStates, Waiting
<1>1. CASE Wake(w)
  <2>1. [old EXCEPT !.pc = "syncing"] \in WatchStates
        /\ [old EXCEPT !.pc = "syncing"].pc = "syncing"
    BY <1>0 DEF WatchStates
  <2>2. watches' = [watches EXCEPT ![w] = [old EXCEPT !.pc = "syncing"]]
    BY <1>1 DEF Wake
  <2>3. \A other \in Watchers \ {w} : syncs'[other] = syncs[other]
    BY <1>0, <1>1 DEF Wake
  <2>4. QED
    BY <1>0, <1>1, <2>1, <2>2, <2>3, WatcherGoes DEF Wake
<1>2. CASE WatchSyncs(w)
  <2>1. SyncStep(w) /\ old.pc = "syncing" /\ UNCHANGED watchVars
    BY <1>2 DEF WatchSyncs, SyncStep, WatchAt
  <2>2. \A other \in Watchers \ {w} : syncs'[other] = syncs[other]
    BY <1>0, <2>1, SyncStepKinds, OthersKeepTheirs
  <2>3. watches' = [watches EXCEPT ![w] = old]
    BY <2>1 DEF watchVars, WatchesTyped
  <2>4. QED
    BY <1>0, <2>1, <2>2, <2>3, WatcherGoes DEF watchVars
<1>3. CASE WatchStores(w)
  <2>1. PICK message \in syncs[w].fetched :
          /\ StoreMessage(w, message)
          /\ watches' = IF CanIngest(rows, StoredRow(w, message))
                        THEN [watches EXCEPT
                                ![w].stored = @ \union
                                  {[identity |-> ListedIdentity(w, message.uid),
                                    mail |-> message.content.mail]}]
                        ELSE [watches EXCEPT ![w] = Waiting]
    BY <1>3 DEF WatchStores
  <2>2. \A other \in Watchers \ {w} : syncs'[other] = syncs[other]
    BY <1>0, <2>1 DEF StoreMessage
  <2>3. CASE CanIngest(rows, StoredRow(w, message))
    <3> DEFINE entry == [identity |-> ListedIdentity(w, message.uid),
                         mail |-> message.content.mail]
    <3>1. SyncAt(w, "download") /\ ~SyncAt(w, "idle")
      BY <2>1 DEF StoreMessage, SyncAt
    <3>2. entry \in Entries
      BY <1>0, <3>1, StoredRowTyped, ListedIdentityIs DEF Entries, Contents
    <3>3. watches' = [watches EXCEPT ![w] = [old EXCEPT !.stored = old.stored \union {entry}]]
      BY <2>1, <2>3
    <3> HIDE DEF entry
    <3>4. /\ [old EXCEPT !.stored = old.stored \union {entry}] \in WatchStates
          /\ [old EXCEPT !.stored = old.stored \union {entry}].pc = "syncing"
      BY <1>0, <1>3, <3>2 DEF WatchStates, WatchStores, WatchAt
    <3>5. QED
      BY <1>0, <1>3, <2>2, <3>3, <3>4, WatcherGoes DEF WatchStores
  <2>4. CASE ~CanIngest(rows, StoredRow(w, message))
    <3>1. syncs'[w].pc = "idle"
      BY <1>0, <2>1, <2>4 DEF StoreMessage, AtRest
    <3>2. QED
      BY <1>0, <1>3, <2>1, <2>2, <2>4, <3>1, WatcherGoes DEF WatchStores
  <2>5. QED
    BY <2>3, <2>4
<1>4. CASE WatchSynced(w)
  <2>1. SyncStep(w)
    BY <1>4 DEF WatchSynced, SyncStep
  <2>2. \A other \in Watchers \ {w} : syncs'[other] = syncs[other]
    BY <1>0, <2>1, SyncStepKinds, OthersKeepTheirs
  <2>3. [old EXCEPT !.pc = "announce"] \in WatchStates
    BY <1>0 DEF WatchStates
  <2>4. \/ watches' = [watches EXCEPT ![w] = Waiting]
        \/ watches' = [watches EXCEPT ![w] = [old EXCEPT !.pc = "announce"]]
    BY <1>4 DEF WatchSynced
  <2>5. QED
    BY <1>0, <1>4, <2>2, <2>3, <2>4, WatcherGoes DEF WatchSynced
<1>5. CASE Announce(w)
  <2>1. syncs' = syncs /\ syncs[w].pc = "idle"
    BY <1>5 DEF Announce, allVars, WatchesTyped, Paired, WatchAt, SyncAt
  <2>2. announced' \in [Watchers -> SUBSET Entries]
    BY <1>0, <1>5 DEF Announce, EventEntries, WatchStates
  <2>3. QED
    BY <1>0, <1>5, <2>1, <2>2, WatcherGoes DEF Announce
<1>6. CASE WatchFails(w)
  <2>1. /\ syncs'[w].pc = "idle"
        /\ \A other \in Watchers \ {w} : syncs'[other] = syncs[other]
    BY <1>0, <1>6 DEF WatchFails, AtRest
  <2>2. QED
    BY <1>0, <1>6, <2>1, WatcherGoes DEF WatchFails
<1>7. QED
  BY <1>1, <1>2, <1>3, <1>4, <1>5, <1>6 DEF WatchStep

LEMMA WatchesTypedStep ==
  ASSUME Typed, SyncsReady, WatchesTyped, [WatchNext]_systemVars
  PROVE  WatchesTyped'
<1>1. CASE /\ UNCHANGED watchVars
           /\ \A w \in Watchers : syncs'[w] = syncs[w]
  BY <1>1
  DEF watchVars, WatchesTyped, Paired, WatchAt, SyncAt, WatchStates, Entries
<1>2. ASSUME NEW s \in Syncers \ Watchers, SyncStep(s) \/ SyncFails(s), UNCHANGED watchVars
      PROVE  WatchesTyped'
  BY <1>1, <1>2, SyncStepKinds, OthersKeepTheirs, WatchAssumption
<1>3. CASE UNCHANGED syncs /\ UNCHANGED watchVars
  BY <1>1, <1>3
<1>4. QED
  BY <1>2, <1>3, WatchStepTyped
  DEF WatchNext, Deliver, systemVars, allVars

SystemTyped == Typed /\ SyncsReady /\ WatchesTyped

LEMMA SystemTypedInit == WatchInit => SystemTyped
<1> SUFFICES ASSUME WatchInit PROVE SystemTyped
  OBVIOUS
<1>1. Typed
  BY TypedInit DEF WatchInit, SyncInit
<1>2. SyncsReady
  BY AtRestReady DEF WatchInit, SyncInit, SyncsReady, Ready
<1>3. Waiting \in WatchStates
  BY DEF Waiting, WatchStates
<1>4. WatchesTyped
  BY <1>3, WatchAssumption
  DEF WatchInit, SyncInit, WatchesTyped, Paired, SyncAt, AtRest
<1>5. QED
  BY <1>1, <1>2, <1>4 DEF SystemTyped

LEMMA SystemTypedNext == SystemTyped /\ [WatchNext]_systemVars => SystemTyped'
  BY SystemTypedStep, ReadyStep, WatchesTypedStep DEF SystemTyped, WatchesTyped

(* The variables always have their types, whatever syncs, watchers and      *)
(* mutations run side by side (imap/sync.rs, watch_inbox.rs).               *)
THEOREM SystemTypeCorrect == WatchSpec => []WatchTypeOK
<1>1. SystemTyped => WatchTypeOK
  BY DEF SystemTyped, Typed, SyncsReady, WatchesTyped, WatchStates, WatchTypeOK, SyncTypeOK
<1>2. QED
  BY <1>1, SystemTypedInit, SystemTypedNext, PTL DEF WatchSpec

-----------------------------------------------------------------------------
(* What a sync listed and fetched stays what its identities denote *)

Ident(st, uid) ==
  [box |-> Folder[Head(st.plan)], validity |-> st.validity, uid |-> uid]

Reliable(state, st) ==
  /\ \A listed \in st.listing : Denotes(state, Ident(st, listed.uid), listed.mail)
  /\ \A message \in st.fetched :
       Denotes(state, Ident(st, message.uid), message.content.mail)

SyncsReliable == \A s \in Syncers : Reliable(server, syncs[s])

LEMMA IdentTyped ==
  ASSUME NEW st, Ready(st), ~Fresh(st), NEW uid \in Uid(st.listing)
  PROVE  Ident(st, uid) \in Identities /\ Ident(st, uid).box \in Mailboxes
         /\ uid \in Uids /\ st.validity \in Nat
<1>1. st \in SyncStates /\ st.plan # <<>>
  BY DEF Ready
<1>2. Head(st.plan) \in Roles /\ uid \in Uids /\ st.validity \in Nat
  BY <1>1, TailTyped, UidTyped DEF SyncStates
<1>3. QED
  BY <1>2, MutationAssumption DEF Ident, Identities, Uids

\* Both of a sync's claims are about UIDs that it listed.
LEMMA ReliableStays ==
  ASSUME NEW before, WellNumbered(before), NEW after, WellNumbered(after),
         Continues(before, after), NEW st, Ready(st), Reliable(before, st)
  PROVE  Reliable(after, st)
<1>1. CASE Fresh(st)
  BY <1>1 DEF Fresh, Reliable
<1>2. CASE ~Fresh(st)
  <2>1. ASSUME NEW uid \in Uid(st.listing), NEW mail, Denotes(before, Ident(st, uid), mail)
        PROVE  Denotes(after, Ident(st, uid), mail)
    BY <1>2, <2>1, IdentTyped, DenotesStays
  <2>2. \A listed \in st.listing : listed.uid \in Uid(st.listing)
    BY DEF Uid
  <2>3. QED
    BY <2>1, <2>2 DEF Reliable, Ready
<1>3. QED
  BY <1>1, <1>2

LEMMA PlaceDenotes ==
  ASSUME WellNumbered(server), NEW box \in Mailboxes, NEW uid, Present(server, box, uid),
         NEW validity \in Nat, validity <= server[box].validity
  PROVE  Denotes(server, [box |-> box, validity |-> validity, uid |-> uid],
                 server[box].msgs[uid].mail)
<1>1. server[box].validity \in Nat /\ uid < server[box].next
  BY MessageTyped DEF WellNumbered, Numbered, UidsIn, Present, MailboxStates
<1>2. QED
  BY <1>1 DEF Denotes

LEMMA BecomingReliable ==
  ASSUME Typed, SyncsReady, NEW s \in Syncers, Reliable(server, syncs[s]),
         NEW new, Ready(new), Becoming(s, new)
  PROVE  Reliable(server, new)
<1>0. WellNumbered(server) /\ Ready(syncs[s])
  BY SettingTyped DEF SyncsReady
<1>1. CASE Fresh(new)
  BY <1>1 DEF Fresh, Reliable
<1>2. CASE HasListed(s, new)
  <2> DEFINE box == Folder[Role(s)]
  <2>1. /\ new.plan = syncs[s].plan /\ new.validity = server[box].validity
        /\ new.listing = Listing(box) /\ new.fetched = {} /\ new.plan # <<>>
        /\ new \in SyncStates
    BY <1>2 DEF HasListed, Ready
  <2>2. box \in Mailboxes /\ box = Folder[Head(new.plan)]
    BY <2>1, TailTyped, MutationAssumption DEF SyncStates, Role
  <2>3. ASSUME NEW listed \in Listing(box)
        PROVE  /\ Present(server, box, listed.uid)
               /\ listed.mail = server[box].msgs[listed.uid].mail
    BY <2>3 DEF Listing, UidsIn
  <2>4. server[box].validity \in Nat
    BY <1>0, <2>2, ListingTyped
  <2> HIDE DEF box
  <2>5. ASSUME NEW listed \in new.listing
        PROVE  Denotes(server, Ident(new, listed.uid), listed.mail)
    <3>1. /\ Present(server, box, listed.uid)
          /\ listed.mail = server[box].msgs[listed.uid].mail
      BY <2>1, <2>3, <2>5
    <3>2. Ident(new, listed.uid)
            = [box |-> box, validity |-> server[box].validity, uid |-> listed.uid]
      BY <2>1, <2>2 DEF Ident
    <3>3. server[box].validity <= server[box].validity
      BY <2>4
    <3>4. Denotes(server, [box |-> box, validity |-> server[box].validity,
                           uid |-> listed.uid], server[box].msgs[listed.uid].mail)
      BY <1>0, <2>2, <2>4, <3>1, <3>3, PlaceDenotes
    <3>5. QED
      BY <3>1, <3>2, <3>4
  <2>6. QED
    BY <2>1, <2>5 DEF Reliable
<1>3. CASE GoesOnTo(s, new)
  <2>1. /\ new.listing = syncs[s].listing
        /\ \A uid : Ident(new, uid) = Ident(syncs[s], uid)
    BY <1>3 DEF GoesOnTo, SameFolder, Ident
  <2>2. ASSUME NEW uid \in syncs[s].missing, HasFetched(s, new, uid),
               Present(server, Folder[Role(s)], uid)
        PROVE  Denotes(server, Ident(syncs[s], uid), Gotten(s, uid).content.mail)
    <3>1. uid \in Uid(syncs[s].listing) /\ ~Fresh(syncs[s])
      BY <1>0, <2>2 DEF Ready, Fresh
    <3>2. PICK listed \in syncs[s].listing : listed.uid = uid
      BY <3>1 DEF Uid
    <3>3. /\ Folder[Role(s)] \in Mailboxes /\ syncs[s].validity \in Nat
          /\ syncs[s].validity <= server[Folder[Role(s)]].validity
      BY <1>0, <3>1, <3>2, IdentTyped DEF Reliable, Denotes, Ident, Role
    <3>4. QED
      BY <1>0, <2>2, <3>3, PlaceDenotes DEF Ident, Role, Gotten
  <2>3. ASSUME NEW message \in new.fetched
        PROVE  Denotes(server, Ident(syncs[s], message.uid), message.content.mail)
    <3>1. CASE message \in syncs[s].fetched
      BY <3>1 DEF Reliable
    <3>2. ASSUME NEW uid \in syncs[s].missing, HasFetched(s, new, uid),
                 message \notin syncs[s].fetched
          PROVE  Present(server, Folder[Role(s)], uid) /\ message = Gotten(s, uid)
      BY <2>3, <3>2 DEF HasFetched
    <3>3. \/ message \in syncs[s].fetched
          \/ \E uid \in syncs[s].missing : HasFetched(s, new, uid)
      BY <1>3, <2>3
      DEF GoesOnTo, HasRefreshed, HasRead, HasFound, HasStored, SameFetched
    <3>4. \A uid : Gotten(s, uid).uid = uid
      BY DEF Gotten
    <3>5. QED
      BY <2>2, <3>1, <3>2, <3>3, <3>4
  <2>4. QED
    BY <2>1, <2>3 DEF Reliable
<1>4. QED
  BY <1>1, <1>2, <1>3 DEF Becoming, Starts

LEMMA ReliableStep ==
  ASSUME SystemTyped, SyncsReliable, [WatchNext]_systemVars
  PROVE  SyncsReliable'
<1>0. /\ Typed /\ SyncsReady /\ Paired
      /\ WellNumbered(server) /\ WellNumbered(server') /\ Continues(server, server')
  BY MailboxesContinue DEF SystemTyped, WatchesTyped
<1>1. CASE UNCHANGED syncs
  BY <1>0, <1>1, ReliableStays DEF SyncsReliable, SyncsReady
<1>2. ASSUME NEW s \in Syncers, Reads(s) \/ Writes(s)
      PROVE  \A other \in Syncers : Reliable(server', syncs'[other])
  <2>1. PICK new : Turns(s, new) /\ Ready(new) /\ Becoming(s, new)
    BY <1>0, <1>2, ReadsTurn, WritesTurn
  <2>2. syncs'[s] = new /\ \A other \in Syncers \ {s} : syncs'[other] = syncs[other]
    BY <1>0, <2>1 DEF Turns, SyncsReady
  <2>3. server' = server
    BY <1>2 DEF Reads, Writes, RefreshFlags, StoreMessage, vars
  <2>4. Reliable(server, new)
    BY <1>0, <2>1, BecomingReliable DEF SyncsReliable
  <2>5. QED
    BY <2>2, <2>3, <2>4 DEF SyncsReliable
<1>3. QED
  BY <1>0, <1>1, <1>2, StepKinds DEF SyncsReliable, Reliable, Deliver, Denotes, Ident

-----------------------------------------------------------------------------
(* A mutation beside the syncs acts on the message its handle denotes *)

LEMMA StoredRowIs ==
  ASSUME Typed, SyncsReady, NEW s \in Syncers, Reliable(server, syncs[s]),
         NEW message \in syncs[s].fetched, StoreMessage(s, message)
  PROVE  LET row == StoredRow(s, message) IN
         /\ row \in Rows /\ row.id.content = row.content
         /\ row.binding = row.id.identity /\ row.content = message.content
         /\ row.id.identity = Ident(syncs[s], message.uid)
         /\ Denotes(server, row.id.identity, row.content.mail)
<1>1. StoredRow(s, message) \in Rows
  BY StoredRowTyped DEF StoreMessage
<1>2. ListedIdentity(s, message.uid) = Ident(syncs[s], message.uid)
  BY DEF ListedIdentity, Ident, Role
<1>3. Denotes(server, Ident(syncs[s], message.uid), message.content.mail)
  BY DEF Reliable
<1>4. QED
  BY <1>1, <1>2, <1>3 DEF StoredRow, IngestId

\* A row written by a sync is the row it was, or the message just stored.
LEMMA WrittenRow ==
  ASSUME Typed, SyncsReady, NEW s \in Syncers, Writes(s), NEW new \in rows'
  PROVE  \/ \E row \in rows : /\ new.id = row.id /\ new.content = row.content
                              /\ new.role = row.role /\ new.binding = row.binding
         \/ \E message \in syncs[s].fetched :
              StoreMessage(s, message) /\ new = StoredRow(s, message)
<1>0. rows \subseteq Rows
  BY DEF Typed, TypeOK
<1>1. CASE RefreshFlags(s)
  BY <1>0, <1>1, RefreshIs, RefreshedRow
<1>2. ASSUME NEW message \in syncs[s].fetched, StoreMessage(s, message)
      PROVE  new \in rows \/ new = StoredRow(s, message)
  BY <1>2 DEF StoreMessage, Ingest
<1>3. QED
  BY <1>1, <1>2 DEF Writes

LEMMA SystemHandlesStep ==
  ASSUME SystemTyped, SystemTyped', SyncsReliable, HandlesInv, [WatchNext]_systemVars
  PROVE  HandlesInv'
<1>0. /\ Typed /\ Typed' /\ SyncsReady /\ Paired
      /\ WellNumbered(server) /\ WellNumbered(server') /\ Continues(server, server')
  BY MailboxesContinue DEF SystemTyped, WatchesTyped
<1>1. CASE [Next]_vars
  BY <1>0, <1>1, HandlesStep
<1>2. CASE UNCHANGED mutators /\ \A new \in rows' : RowTrue(server, new)
  <2>1. ASSUME NEW new \in rows' PROVE RowTrue(server', new)
    BY <1>0, <1>2, <2>1, RowStaysTrue DEF Typed, TypeOK
  <2>2. ASSUME NEW m \in Mutators, ~At(m, "idle") PROVE RowTrue(server', mutators[m].entry)
    BY <1>0, <2>2, AtWork, RowStaysTrue DEF HandlesInv, HoldsTrueRow
  <2>3. QED
    BY <1>2, <2>1, <2>2 DEF HandlesInv, HoldsTrueRow, At, Binding
<1>3. ASSUME NEW s \in Syncers, Writes(s) PROVE HandlesInv'
  <2>1. ASSUME NEW new \in rows' PROVE RowTrue(server, new)
    <3>1. CASE \E row \in rows : /\ new.id = row.id /\ new.content = row.content
                                 /\ new.role = row.role /\ new.binding = row.binding
      BY <3>1 DEF HandlesInv, RowTrue
    <3>2. ASSUME NEW message \in syncs[s].fetched, StoreMessage(s, message),
                 new = StoredRow(s, message)
          PROVE  RowTrue(server, new)
      BY <1>0, <3>2, StoredRowIs DEF RowTrue, SyncsReliable
    <3>3. QED
      BY <1>0, <1>3, <2>1, <3>1, <3>2, WrittenRow
  <2>2. UNCHANGED mutators
    BY <1>3 DEF Writes, RefreshFlags, StoreMessage
  <2>3. QED
    BY <1>2, <2>1, <2>2
<1>4. ASSUME NEW s \in Syncers, Reads(s) PROVE HandlesInv'
  BY <1>1, <1>4 DEF Reads
<1>5. ASSUME NEW mail \in Mails, Deliver("INBOX", mail) PROVE HandlesInv'
  BY <1>2, <1>5 DEF Deliver, HandlesInv
<1>6. QED
  BY <1>0, <1>1, <1>3, <1>4, <1>5, StepKinds

SystemHandles == SystemTyped /\ SyncsReliable /\ HandlesInv

LEMMA SystemHandlesInit == WatchInit => SystemHandles
<1> SUFFICES ASSUME WatchInit PROVE SystemHandles
  OBVIOUS
<1>1. SystemTyped /\ HandlesInv
  BY SystemTypedInit, HandlesInit DEF WatchInit, SyncInit
<1>2. SyncsReliable
  BY DEF WatchInit, SyncInit, SyncsReliable, Reliable, AtRest
<1>3. QED
  BY <1>1, <1>2 DEF SystemHandles

LEMMA SystemHandlesNext ==
  SystemHandles /\ [WatchNext]_systemVars => SystemHandles'
  BY SystemTypedNext, ReliableStep, SystemHandlesStep DEF SystemHandles

(* What a mutation changes on the server is the message its handle stands   *)
(* for, also when syncs store rows from listings that are out of date by    *)
(* then, or get a message that has the UID only since (store_message binds  *)
(* the row to the UIDVALIDITY listed, verify_uidvalidity compares it).      *)
THEOREM HandlesDenoteBesideSyncs == WatchSpec => ActsOnDenotedMessage
<1>1. SystemHandles =>
        [\A m \in Mutators :
           RemoteStep(m) =>
             OnlyTouches(mutators[m].entry.content.mail, server, server')]_vars
  BY TouchesDenoted DEF SystemHandles, SystemTyped
<1>2. QED
  BY <1>1, SystemHandlesInit, SystemHandlesNext, PTL DEF WatchSpec, ActsOnDenotedMessage

-----------------------------------------------------------------------------
(* A row keeps its id and its content.  Its binding is the identity it was  *)
(* stored under or none, and that identity denotes its message still.       *)

Linked(state, row) ==
  /\ row.content = row.id.content
  /\ row.binding \in {NoBinding, row.id.identity}
  /\ Denotes(state, row.id.identity, row.content.mail)

RowsLinked ==
  /\ \A row \in rows : Linked(server, row)
  /\ \A m \in Mutators :
       ~At(m, "idle") => mutators[m].entry.binding = mutators[m].entry.id.identity

SameMessage(row, new) == new.id = row.id /\ new.content = row.content

LEMMA LinkedStays ==
  ASSUME NEW before, WellNumbered(before), NEW after, WellNumbered(after),
         Continues(before, after), NEW row \in Rows, Linked(before, row)
  PROVE  Linked(after, row)
<1>1. row.id.identity \in Identities
  BY DEF Rows, Ids
<1>2. QED
  BY <1>1, DenotesStays DEF Linked

\* Where a row comes from that a mutation has written, and what becomes of a row.
MutatedFrom(row, new) ==
  /\ SameMessage(row, new)
  /\ \/ new.binding \in {NoBinding, row.binding}
     \/ \E m \in Mutators : /\ ~At(m, "idle") /\ mutators[m].entry.id = row.id
                            /\ new.binding = mutators[m].entry.binding

LEMMA LocalStateRow ==
  ASSUME NEW row \in Rows, NEW id, NEW role, NEW read, NEW starred,
         NEW new, new = IF row.id = id
                        THEN [row EXCEPT !.role = role, !.read = read, !.starred = starred]
                        ELSE row
  PROVE  SameMessage(row, new) /\ new.binding = row.binding
  BY DEF Rows, SameMessage

LEMMA BindingRow ==
  ASSUME NEW row \in Rows, NEW id, NEW binding,
         NEW new, new = IF row.id = id THEN [row EXCEPT !.binding = binding] ELSE row
  PROVE  /\ SameMessage(row, new)
         /\ new.binding = row.binding \/ (row.id = id /\ new.binding = binding)
  BY DEF Rows, SameMessage

\* The statements of a mutation, and no others, change the rows.
LEMMA WhoWritesRows ==
  ASSUME [Next]_vars
  PROVE  \/ UNCHANGED rows
         \/ \E m \in setting.mutators :
              \/ \E role, read, starred :
                   rows' = UpdateLocalState(rows, mutators[m].entry.id, role, read, starred)
              \/ /\ ~At(m, "idle")
                 /\ rows' = UpdateRemoteBinding(rows, mutators[m].entry.id,
                                                ReconciledBinding(m))
              \/ At(m, "remove_entry") /\ rows' = RemoveEntry(rows, mutators[m].entry.id)
<1>1. ASSUME NEW m \in setting.mutators, WriteLocalState(m)
      PROVE  \/ UNCHANGED rows
             \/ \E role, read, starred :
                  rows' = UpdateLocalState(rows, mutators[m].entry.id, role, read, starred)
  BY <1>1 DEF WriteLocalState, Statement
<1>2. ASSUME NEW m \in setting.mutators, WriteRemoteBinding(m) \/ RemoveRow(m)
      PROVE  \/ UNCHANGED rows
             \/ /\ ~At(m, "idle")
                /\ rows' = UpdateRemoteBinding(rows, mutators[m].entry.id,
                                               ReconciledBinding(m))
             \/ At(m, "remove_entry") /\ rows' = RemoveEntry(rows, mutators[m].entry.id)
  BY <1>2 DEF WriteRemoteBinding, RemoveRow, Statement, At
<1>3. QED
  BY <1>1, <1>2, WhoChanges

LEMMA MutatedRow ==
  ASSUME Typed, [Next]_vars, NEW new \in rows'
  PROVE  \E row \in rows : MutatedFrom(row, new)
<1>0. rows \subseteq Rows /\ setting.mutators \subseteq Mutators
  BY SettingTyped DEF Typed, TypeOK
<1>1. CASE new \in rows
  BY <1>1 DEF MutatedFrom, SameMessage
<1>2. ASSUME NEW id, NEW role, NEW read, NEW starred,
             rows' = UpdateLocalState(rows, id, role, read, starred)
      PROVE  \E row \in rows : MutatedFrom(row, new)
  <2>1. PICK row \in rows :
          new = IF row.id = id
                THEN [row EXCEPT !.role = role, !.read = read, !.starred = starred]
                ELSE row
    BY <1>2 DEF UpdateLocalState
  <2>2. row \in Rows
    BY <1>0
  <2>3. SameMessage(row, new) /\ new.binding = row.binding
    BY <2>1, <2>2 DEF Rows, SameMessage
  <2>4. QED
    BY <2>3 DEF MutatedFrom
<1>3. ASSUME NEW m \in Mutators, ~At(m, "idle"),
             rows' = UpdateRemoteBinding(rows, mutators[m].entry.id, ReconciledBinding(m))
      PROVE  \E row \in rows : MutatedFrom(row, new)
  <2>1. PICK row \in rows :
          new = IF row.id = mutators[m].entry.id
                THEN [row EXCEPT !.binding = ReconciledBinding(m)] ELSE row
    BY <1>3 DEF UpdateRemoteBinding
  <2>2. /\ SameMessage(row, new)
        /\ \/ new.binding = row.binding
           \/ row.id = mutators[m].entry.id /\ new.binding = ReconciledBinding(m)
    BY <1>0, <2>1, BindingRow
  <2>3. ReconciledBinding(m) \in {NoBinding, mutators[m].entry.binding}
    BY DEF ReconciledBinding
  <2>4. QED
    BY <1>3, <2>2, <2>3 DEF MutatedFrom
<1>4. ASSUME NEW id, rows' = RemoveEntry(rows, id) PROVE new \in rows
  BY <1>4 DEF RemoveEntry
<1>5. QED
  BY <1>0, <1>1, <1>2, <1>3, <1>4, WhoWritesRows

LEMMA LinkedStep ==
  ASSUME SystemTyped, SystemTyped', SyncsReliable, RowsLinked, [WatchNext]_systemVars
  PROVE  RowsLinked'
<1>0. /\ Typed /\ Typed' /\ SyncsReady /\ Paired
      /\ WellNumbered(server) /\ WellNumbered(server') /\ Continues(server, server')
  BY MailboxesContinue DEF SystemTyped, WatchesTyped
<1>1. ASSUME NEW new \in rows', Linked(server, new) PROVE Linked(server', new)
  BY <1>0, <1>1, LinkedStays DEF Typed, TypeOK
<1>2. CASE [Next]_vars
  <2>1. ASSUME NEW new \in rows' PROVE Linked(server, new)
    <3>1. PICK row \in rows : MutatedFrom(row, new)
      BY <1>0, <1>2, MutatedRow
    <3>2. Linked(server, row)
      BY DEF RowsLinked
    <3>3. new.binding \in {NoBinding, new.id.identity}
      BY <3>1, <3>2 DEF MutatedFrom, SameMessage, Linked, RowsLinked
    <3>4. QED
      BY <3>1, <3>2, <3>3 DEF MutatedFrom, SameMessage, Linked
  <2>2. ASSUME NEW m \in Mutators, mutators'[m].pc # "idle"
        PROVE  mutators'[m].entry.binding = mutators'[m].entry.id.identity
    <3>1. CASE mutators'[m] = mutators[m]
      BY <2>2, <3>1 DEF RowsLinked, At
    <3>2. CASE mutators'[m].entry \in rows /\ mutators'[m].entry.binding # NoBinding
      BY <3>2 DEF RowsLinked, Linked
    <3>3. CASE ~At(m, "idle") /\ mutators'[m].entry = mutators[m].entry
      BY <3>3 DEF RowsLinked
    <3>4. QED
      BY <1>0, <1>2, <2>2, <3>1, <3>2, <3>3, NextWalks, WalksTo DEF Idle
  <2>3. QED
    BY <1>1, <2>1, <2>2 DEF RowsLinked, At
<1>3. ASSUME NEW s \in Syncers, Writes(s) PROVE RowsLinked'
  <2>1. ASSUME NEW new \in rows' PROVE Linked(server, new)
    <3>1. CASE \E row \in rows : /\ new.id = row.id /\ new.content = row.content
                                 /\ new.role = row.role /\ new.binding = row.binding
      BY <3>1 DEF RowsLinked, Linked
    <3>2. ASSUME NEW message \in syncs[s].fetched, StoreMessage(s, message),
                 new = StoredRow(s, message)
          PROVE  Linked(server, new)
      BY <1>0, <3>2, StoredRowIs DEF Linked, SyncsReliable
    <3>3. QED
      BY <1>0, <1>3, <2>1, <3>1, <3>2, WrittenRow
  <2>2. UNCHANGED mutators
    BY <1>3 DEF Writes, RefreshFlags, StoreMessage
  <2>3. QED
    BY <1>1, <2>1, <2>2 DEF RowsLinked, At
<1>4. ASSUME NEW s \in Syncers, Reads(s) PROVE RowsLinked'
  BY <1>2, <1>4 DEF Reads
<1>5. ASSUME NEW mail \in Mails, Deliver("INBOX", mail) PROVE RowsLinked'
  BY <1>1, <1>5 DEF Deliver, RowsLinked, At
<1>6. QED
  BY <1>0, <1>2, <1>3, <1>4, <1>5, StepKinds

LEMMA LinkedInit == WatchInit => RowsLinked
<1> SUFFICES ASSUME WatchInit PROVE RowsLinked
  OBVIOUS
<1>1. Init /\ WellNumbered(server)
  BY MutationAssumption DEF WatchInit, SyncInit, Init, WellNumbered
<1>2. ASSUME NEW row \in rows PROVE Linked(server, row)
  <2>1. PICK role \in Roles, box \in Mailboxes, part \in Parts :
          \E uid \in UidsIn(server, box) : row = RowAt(role, box, uid, part)
    BY <1>1, InitialRow
  <2>2. PICK uid \in UidsIn(server, box) : row = RowAt(role, box, uid, part)
    BY <2>1
  <2>3. uid < server[box].next /\ server[box].validity \in Nat
    BY <1>1, MessageTyped DEF WellNumbered, Numbered, MailboxStates
  <2>4. Denotes(server, IdentityAt(box, uid), server[box].msgs[uid].mail)
    BY <2>3 DEF Denotes, IdentityAt
  <2>5. QED
    BY <2>2, <2>4 DEF Linked, RowAt, IngestId
<1>3. QED
  BY <1>1, <1>2 DEF Init, RowsLinked, At, Idle

-----------------------------------------------------------------------------
(* Without hard expunges no row is ever lost *)

Spared ==
  ~Expunges =>
    \A m \in Mutators :
      ~At(m, "idle") => /\ mutators[m].action.kind # "expunge"
                        /\ ~At(m, "remove_entry")

LEMMA SettingStays ==
  ASSUME Typed, Paired, [WatchNext]_systemVars
  PROVE  setting' = setting
<1>1. CASE [Next]_vars
  BY <1>1, WhoChanges
<1>2. QED
  BY <1>1, StepKinds DEF Reads, Writes, RefreshFlags, StoreMessage, Deliver, vars

LEMMA SparedStep ==
  ASSUME Typed, Paired, Spared, [WatchNext]_systemVars
  PROVE  Spared'
<1>0. setting' = setting
  BY SettingStays
<1>1. CASE UNCHANGED mutators
  BY <1>0, <1>1 DEF Spared, At, Expunges
<1>2. CASE [Next]_vars
  <2>1. ASSUME ~Expunges, NEW m \in Mutators, mutators'[m].pc # "idle"
        PROVE  /\ mutators'[m].action.kind # "expunge"
               /\ mutators'[m].pc # "remove_entry"
    <3>1. CASE mutators'[m] = mutators[m]
      BY <2>1, <3>1 DEF Spared, At
    <3>2. CASE mutators'[m].action \in setting.actions /\ mutators'[m].pc = "approve"
      BY <2>1, <3>2 DEF Expunges
    <3>3. CASE /\ ~At(m, "idle") /\ mutators'[m].action = mutators[m].action
               /\ mutators'[m].pc = "remove_entry" => mutators[m].action.kind = "expunge"
      BY <2>1, <3>3 DEF Spared
    <3>4. CommandPath(mutators[m].action) # "remove_entry"
      BY DEF CommandPath
    <3>5. QED
      BY <1>2, <2>1, <3>1, <3>2, <3>3, <3>4, NextWalks, WalksTo DEF Idle
  <2>2. QED
    BY <1>0, <2>1 DEF Spared, At, Expunges
<1>3. QED
  BY <1>1, <1>2, StepKinds
  DEF Reads, Writes, RefreshFlags, StoreMessage, Deliver, vars

LEMMA RowOutlives ==
  ASSUME SystemTyped, SyncsReliable, RowsLinked, [WatchNext]_systemVars, NEW row \in rows,
         \A m \in Mutators : RemoveRow(m) => mutators[m].entry.id # row.id
  PROVE  \E new \in rows' : SameMessage(row, new)
<1>0. /\ Typed /\ SyncsReady /\ Paired /\ rows \subseteq Rows
      /\ setting.mutators \subseteq Mutators
  BY SettingTyped DEF SystemTyped, WatchesTyped, Typed, TypeOK
<1>1. CASE row \in rows'
  BY <1>1 DEF SameMessage
<1>2. ASSUME NEW id, NEW role, NEW read, NEW starred,
             rows' = UpdateLocalState(rows, id, role, read, starred)
      PROVE  \E new \in rows' : SameMessage(row, new)
  <2>1. PICK new : new = IF row.id = id
                         THEN [row EXCEPT !.role = role, !.read = read, !.starred = starred]
                         ELSE row
    OBVIOUS
  <2>2. SameMessage(row, new)
    BY <1>0, <2>1, LocalStateRow
  <2>3. new \in rows'
    BY <1>2, <2>1 DEF UpdateLocalState
  <2>4. QED
    BY <2>2, <2>3
<1>3. ASSUME NEW id, NEW binding, rows' = UpdateRemoteBinding(rows, id, binding)
      PROVE  \E new \in rows' : SameMessage(row, new)
  <2>1. PICK new : new = IF row.id = id THEN [row EXCEPT !.binding = binding] ELSE row
    OBVIOUS
  <2>2. SameMessage(row, new)
    BY <1>0, <2>1, BindingRow
  <2>3. new \in rows'
    BY <1>3, <2>1 DEF UpdateRemoteBinding
  <2>4. QED
    BY <2>2, <2>3
<1>4. CASE [Next]_vars
  <2>1. ASSUME NEW m \in setting.mutators, RemoveRow(m) PROVE row \in rows'
    BY <1>0, <2>1 DEF RemoveRow, Statement, RemoveEntry
  <2>2. QED
    BY <1>1, <1>2, <1>3, <1>4, <2>1, WhoChanges
    DEF WriteLocalState, WriteRemoteBinding, Statement
<1>5. ASSUME NEW s \in Syncers, RefreshFlags(s)
      PROVE  \E new \in rows' : SameMessage(row, new)
  <2>1. PICK identity \in Identities, seen \in BOOLEAN, flagged \in BOOLEAN :
          rows' = UpdateRemoteFlags(rows, identity, seen, flagged)
    BY <1>0, <1>5, RefreshIs
  <2>2. PICK new : new = IF row.binding = identity
                         THEN [row EXCEPT !.read = seen, !.starred = flagged] ELSE row
    OBVIOUS
  <2>3. SameMessage(row, new)
    BY <1>0, <2>2 DEF Rows, SameMessage
  <2>4. new \in rows'
    BY <2>1, <2>2 DEF UpdateRemoteFlags
  <2>5. QED
    BY <2>3, <2>4
<1>6. ASSUME NEW s \in Syncers, NEW message \in syncs[s].fetched, StoreMessage(s, message)
      PROVE  \E new \in rows' : SameMessage(row, new)
  <2>1. row.content = row.id.content
    BY DEF RowsLinked, Linked
  <2>2. StoredRow(s, message).id.content = StoredRow(s, message).content
    BY <1>0, <1>6, StoredRowIs DEF SyncsReliable
  <2>3. CASE rows' = Ingest(rows, StoredRow(s, message))
    <3>1. CASE row.id = StoredRow(s, message).id
      BY <2>1, <2>2, <2>3, <3>1 DEF Ingest, SameMessage
    <3>2. CASE row.id # StoredRow(s, message).id
      BY <1>1, <2>3, <3>2 DEF Ingest
    <3>3. QED
      BY <3>1, <3>2
  <2>4. QED
    BY <1>1, <1>6, <2>3 DEF StoreMessage
<1>7. QED
  BY <1>0, <1>1, <1>4, <1>5, <1>6, StepKinds DEF Reads, Writes, Deliver, vars

LEMMA RowsOutlive ==
  ASSUME SystemTyped, SyncsReliable, RowsLinked, Spared, ~Expunges,
         [WatchNext]_systemVars, NEW row \in rows
  PROVE  \E new \in rows' : SameMessage(row, new)
BY RowOutlives DEF Spared, RemoveRow, Statement, At

-----------------------------------------------------------------------------
(* What a sync has read of the archive is there still, and a message that   *)
(* it listed is still to be fetched or stored, or has been settled: the     *)
(* mailbox has it no more, the archive has it, or a row has its size key.   *)

KeyOf(row) ==
  [validity |-> row.id.identity.validity, uid |-> row.id.identity.uid,
   size |-> BlobSize(row.content)]

Keys(archive) == {KeyOf(row) : row \in archive}

Rfcs(archive) == {Rfc[row.content.mail] : row \in archive} \ {NoId}

Backed(archive, st) == st.sizes \subseteq Keys(archive) /\ st.index \subseteq Rfcs(archive)

Gone(state, identity) ==
  identity.validity = state[identity.box].validity =>
    ~Present(state, identity.box, identity.uid)

Settled(state, archive, st, listed) ==
  \/ Gone(state, Ident(st, listed.uid))
  \/ Mirrored(archive, listed.mail)
  \/ [validity |-> st.validity, uid |-> listed.uid, size |-> Size[listed.mail]]
       \in Keys(archive)

Accounted(state, archive, st) ==
  st.pc = "download" /\ st.limit = NoLimit =>
    \A listed \in st.listing :
      \/ listed.uid \in st.missing
      \/ \E message \in st.fetched : message.uid = listed.uid
      \/ Settled(state, archive, st, listed)

Thorough ==
  ~Expunges =>
    \A s \in Syncers : Backed(rows, syncs[s]) /\ Accounted(server, rows, syncs[s])

\* The rows of one archive are among those of another.
Outlived(before, after) == \A row \in before : \E new \in after : SameMessage(row, new)

LEMMA ReadsOutlive ==
  ASSUME NEW before, NEW after, Outlived(before, after)
  PROVE  /\ Keys(before) \subseteq Keys(after) /\ Rfcs(before) \subseteq Rfcs(after)
         /\ \A mail : Mirrored(before, mail) => Mirrored(after, mail)
<1>1. ASSUME NEW row \in before
      PROVE  \E new \in after : KeyOf(new) = KeyOf(row) /\ new.content = row.content
  BY DEF Outlived, SameMessage, KeyOf
<1>2. Keys(before) \subseteq Keys(after)
  BY <1>1 DEF Keys
<1>3. Rfcs(before) \subseteq Rfcs(after)
  BY <1>1 DEF Rfcs
<1>4. ASSUME NEW mail, Mirrored(before, mail) PROVE Mirrored(after, mail)
  BY <1>1, <1>4 DEF Mirrored
<1>5. QED
  BY <1>2, <1>3, <1>4

LEMMA GoneStays ==
  ASSUME NEW before, WellNumbered(before), NEW after, WellNumbered(after),
         Continues(before, after), NEW identity \in Identities, NEW mail,
         Denotes(before, identity, mail), Gone(before, identity)
  PROVE  Gone(after, identity)
<1> DEFINE box == identity.box
<1>1. /\ box \in Mailboxes /\ identity.validity \in Nat /\ identity.uid \in Nat
      /\ before[box] \in MailboxStates /\ after[box] \in MailboxStates
      /\ BoxContinues(before[box], after[box])
  BY MessageTyped DEF Identities, WellNumbered, Continues
<1>2. /\ before[box].validity \in Nat /\ after[box].validity \in Nat
      /\ identity.validity <= before[box].validity
  BY <1>1 DEF MailboxStates, Denotes
<1>3. CASE before[box].validity < after[box].validity
  BY <1>1, <1>2, <1>3 DEF Gone
<1>4. CASE before[box].validity >= after[box].validity
  <2>1. /\ before[box].validity = after[box].validity
        /\ \A uid \in Uids :
             uid < before[box].next /\ after[box].msgs[uid] # NoMessage =>
               Reflagged(before[box].msgs[uid], after[box].msgs[uid])
    BY <1>1, <1>2, <1>4 DEF BoxContinues
  <2>2. ASSUME identity.validity = after[box].validity, Present(after, box, identity.uid)
        PROVE  FALSE
    <3>1. identity.uid < before[box].next
      BY <2>1, <2>2 DEF Denotes
    <3>2. Reflagged(before[box].msgs[identity.uid], after[box].msgs[identity.uid])
      BY <2>1, <2>2, <3>1 DEF Present
    <3>3. Present(before, box, identity.uid)
      BY <2>2, <3>2 DEF Present, Reflagged
    <3>4. QED
      BY <2>1, <2>2, <3>3 DEF Gone
  <2>3. QED
    BY <2>2 DEF Gone
<1>5. QED
  BY <1>2, <1>3, <1>4

LEMMA SettledStays ==
  ASSUME NEW before, WellNumbered(before), NEW after, WellNumbered(after),
         Continues(before, after), NEW old, NEW new, Outlived(old, new),
         NEW st, Ready(st), ~Fresh(st), Reliable(before, st), NEW listed \in st.listing,
         Settled(before, old, st, listed)
  PROVE  Settled(after, new, st, listed)
<1>1. /\ listed.uid \in Uid(st.listing)
      /\ Denotes(before, Ident(st, listed.uid), listed.mail)
  BY DEF Uid, Reliable
<1>2. Ident(st, listed.uid) \in Identities
  BY <1>1, IdentTyped
<1>3. Gone(before, Ident(st, listed.uid)) => Gone(after, Ident(st, listed.uid))
  BY <1>1, <1>2, GoneStays
<1>4. QED
  BY <1>3, ReadsOutlive DEF Settled

LEMMA ThoroughStays ==
  ASSUME NEW before, WellNumbered(before), NEW after, WellNumbered(after),
         Continues(before, after), NEW old, NEW new, Outlived(old, new),
         NEW st, Ready(st), Reliable(before, st),
         Backed(old, st), Accounted(before, old, st)
  PROVE  Backed(new, st) /\ Accounted(after, new, st)
<1>1. Backed(new, st)
  BY ReadsOutlive DEF Backed
<1>2. ASSUME st.pc = "download", st.limit = NoLimit, NEW listed \in st.listing
      PROVE  \/ listed.uid \in st.missing
             \/ \E message \in st.fetched : message.uid = listed.uid
             \/ Settled(after, new, st, listed)
  <2>1. ~Fresh(st)
    BY <1>2 DEF Fresh
  <2>2. \/ listed.uid \in st.missing
        \/ \E message \in st.fetched : message.uid = listed.uid
        \/ Settled(before, old, st, listed)
    BY <1>2 DEF Accounted
  <2>3. Settled(before, old, st, listed) => Settled(after, new, st, listed)
    BY <2>1, SettledStays
  <2>4. QED
    BY <2>2, <2>3
<1>3. Accounted(after, new, st)
  BY <1>2 DEF Accounted
<1>4. QED
  BY <1>1, <1>3

LEMMA ReadsBacked ==
  ASSUME RowsLinked, NEW role
  PROVE  /\ SizesOf(rows, role) \subseteq Keys(rows)
         /\ RfcIndexByRole(rows, role) \subseteq Rfcs(rows)
<1>1. ASSUME NEW row \in rows, row.binding # NoBinding
      PROVE  SizeOf(row) = KeyOf(row)
  BY <1>1 DEF RowsLinked, Linked, KeyOf, SizeOf
<1>2. SizesOf(rows, role) \subseteq Keys(rows)
  BY <1>1 DEF SizesOf, Keys
<1>3. RfcIndexByRole(rows, role) \subseteq Rfcs(rows)
  BY DEF RfcIndexByRole, Rfcs
<1>4. QED
  BY <1>2, <1>3

\* What a sync does not lack is in the archive, or has its size key there.
LEMMA NotLackedIsSettled ==
  ASSUME NEW s \in Syncers, Backed(rows, syncs[s]), NEW listed, ~Lacks(s, listed)
  PROVE  Settled(server, rows, syncs[s], listed)
<1>1. CASE Rfc[listed.mail] \in syncs[s].index
  <2>1. Rfc[listed.mail] \in Rfcs(rows)
    BY <1>1 DEF Backed
  <2>2. QED
    BY <2>1 DEF Rfcs, Mirrored, Settled
<1>2. CASE SizeMatches(s, listed)
  BY <1>2 DEF SizeMatches, Backed, Settled
<1>3. QED
  BY <1>1, <1>2 DEF Lacks

LEMMA BecomingBacked ==
  ASSUME RowsLinked, NEW s \in Syncers, Backed(rows, syncs[s]),
         NEW new, Becoming(s, new)
  PROVE  Backed(rows, new)
<1>1. CASE Fresh(new) \/ HasListed(s, new)
  BY <1>1 DEF Fresh, HasListed, Backed
<1>2. CASE SameReads(s, new)
  BY <1>2 DEF SameReads, Backed
<1>3. CASE HasRead(s, new)
  BY <1>3, ReadsBacked DEF HasRead, Backed, LocalSizesByRole
<1>4. QED
  BY <1>1, <1>2, <1>3
  DEF Becoming, GoesOnTo, HasRefreshed, HasFound, HasFetched, HasStored, Starts

\* The same folder as listed has the same messages settled.
LEMMA SameSettled ==
  ASSUME NEW old, NEW new, SameFolder(old, new), NEW state, NEW archive, NEW listed,
         Settled(state, archive, old, listed)
  PROVE  Settled(state, archive, new, listed)
  BY DEF SameFolder, Settled, Ident

LEMMA FoundAccounted ==
  ASSUME NEW s \in Syncers, Backed(rows, syncs[s]),
         NEW new, SameFolder(syncs[s], new), HasFound(s, new)
  PROVE  Accounted(server, rows, new)
<1>1. ASSUME new.limit = NoLimit, NEW listed \in new.listing
      PROVE  listed.uid \in new.missing \/ Settled(server, rows, new, listed)
  <2>1. listed \in syncs[s].listing /\ syncs[s].limit = NoLimit
    BY <1>1 DEF SameFolder
  <2>2. CASE Lacks(s, listed)
    BY <2>1, <2>2 DEF HasFound, Selected, Truncate
  <2>3. CASE ~Lacks(s, listed)
    BY <2>3, NotLackedIsSettled, SameSettled
  <2>4. QED
    BY <2>2, <2>3
<1>2. QED
  BY <1>1 DEF Accounted

LEMMA FetchedAccounted ==
  ASSUME NEW s \in Syncers, Accounted(server, rows, syncs[s]),
         NEW new, SameFolder(syncs[s], new),
         NEW uid \in syncs[s].missing, HasFetched(s, new, uid)
  PROVE  Accounted(server, rows, new)
<1>1. ASSUME new.limit = NoLimit, NEW listed \in new.listing
      PROVE  \/ listed.uid \in new.missing
             \/ \E message \in new.fetched : message.uid = listed.uid
             \/ Settled(server, rows, new, listed)
  <2>1. /\ \/ listed.uid \in syncs[s].missing
           \/ \E message \in syncs[s].fetched : message.uid = listed.uid
           \/ Settled(server, rows, syncs[s], listed)
        /\ syncs[s].fetched \subseteq new.fetched
        /\ new.missing = syncs[s].missing \ {uid}
    BY <1>1 DEF Accounted, SameFolder, HasFetched, SyncAt
  <2>2. CASE listed.uid = uid /\ Present(server, Folder[Role(s)], uid)
    <3>1. Gotten(s, uid) \in new.fetched /\ Gotten(s, uid).uid = listed.uid
      BY <2>2 DEF HasFetched, Gotten
    <3>2. QED
      BY <3>1
  <2>3. CASE listed.uid = uid /\ ~Present(server, Folder[Role(s)], uid)
    BY <2>3 DEF Settled, Gone, Ident, SameFolder, Role
  <2>4. CASE listed.uid # uid
    BY <2>1, <2>4, SameSettled
  <2>5. QED
    BY <2>2, <2>3, <2>4
<1>2. QED
  BY <1>1 DEF Accounted

\* What was stored is what was listed, unless that is no longer there.
LEMMA StoredAccounted ==
  ASSUME Typed, SyncsReady, NEW s \in Syncers, Reliable(server, syncs[s]),
         NEW archive, Accounted(server, archive, syncs[s]),
         NEW new, SameFolder(syncs[s], new),
         NEW message \in syncs[s].fetched, new.fetched = syncs[s].fetched \ {message},
         new.missing = syncs[s].missing, SyncAt(s, "download"),
         \E row \in archive : row.content = message.content
  PROVE  Accounted(server, archive, new)
<1>1. ASSUME new.limit = NoLimit, NEW listed \in new.listing
      PROVE  \/ listed.uid \in new.missing
             \/ \E other \in new.fetched : other.uid = listed.uid
             \/ Settled(server, archive, new, listed)
  <2>1. /\ \/ listed.uid \in syncs[s].missing
           \/ \E other \in syncs[s].fetched : other.uid = listed.uid
           \/ Settled(server, archive, syncs[s], listed)
        /\ listed \in syncs[s].listing
    BY <1>1 DEF Accounted, SameFolder, SyncAt
  <2>2. CASE message.uid = listed.uid
    <3> DEFINE identity == Ident(syncs[s], listed.uid)
    <3>1. /\ Denotes(server, identity, listed.mail)
          /\ Denotes(server, identity, message.content.mail)
      BY <2>1, <2>2 DEF Reliable
    <3>2. CASE Gone(server, identity)
      BY <3>2, SameSettled DEF Settled
    <3>3. CASE ~Gone(server, identity)
      <4>1. message.content.mail = listed.mail
        BY <3>1, <3>3 DEF Gone, Denotes
      <4>2. Mirrored(archive, listed.mail)
        BY <4>1 DEF Mirrored
      <4>3. QED
        BY <4>2 DEF Settled
    <3>4. QED
      BY <3>2, <3>3
  <2>3. CASE message.uid # listed.uid
    BY <2>1, <2>3, SameSettled
  <2>4. QED
    BY <2>2, <2>3
<1>2. QED
  BY <1>1 DEF Accounted

LEMMA ThoroughStep ==
  ASSUME SystemTyped, SyncsReliable, SyncsReliable', RowsLinked, Spared, Thorough,
         [WatchNext]_systemVars
  PROVE  Thorough'
<1>0. /\ Typed /\ SyncsReady /\ Paired
      /\ WellNumbered(server) /\ WellNumbered(server') /\ Continues(server, server')
      /\ Expunges' = Expunges
  <2>1. Typed /\ SyncsReady /\ Paired
    BY DEF SystemTyped, WatchesTyped
  <2>2. QED
    BY <2>1, MailboxesContinue, SettingStays DEF Expunges
<1> SUFFICES ASSUME ~Expunges
             PROVE  \A s \in Syncers : /\ Backed(rows', syncs'[s])
                                       /\ Accounted(server', rows', syncs'[s])
  BY <1>0 DEF Thorough, Backed, Accounted, Settled, Gone, Ident
<1>1. Outlived(rows, rows')
  BY RowsOutlive DEF Outlived
<1>2. ASSUME NEW s \in Syncers, syncs'[s] = syncs[s]
      PROVE  Backed(rows', syncs'[s]) /\ Accounted(server', rows', syncs'[s])
  BY <1>0, <1>1, <1>2, ThoroughStays DEF SyncsReady, SyncsReliable, Thorough
<1>3. ASSUME NEW s \in Syncers, Reads(s) \/ Writes(s), NEW new,
             Turns(s, new), Ready(new), Becoming(s, new)
      PROVE  Backed(rows', new) /\ Accounted(server', rows', new)
  <2>1. /\ Backed(rows, syncs[s]) /\ Accounted(server, rows, syncs[s])
        /\ Reliable(server, syncs[s]) /\ Ready(syncs[s])
        /\ Reliable(server, new)
        /\ Backed(rows, new)
    BY <1>0, <1>3, BecomingBacked, BecomingReliable DEF Thorough, SyncsReliable, SyncsReady
  <2>2. server' = server /\ Continues(server, server)
    BY <1>0, <1>3, Untouched DEF Reads, Writes, RefreshFlags, StoreMessage, vars
  <2>3. CASE Accounted(server, rows, new)
    BY <1>0, <1>1, <1>3, <2>1, <2>2, <2>3, ThoroughStays
  <2>4. CASE Fresh(new)
    BY <2>3, <2>4 DEF Fresh, Accounted
  <2>5. CASE HasListed(s, new) \/ HasRefreshed(s, new) \/ HasRead(s, new)
    BY <2>3, <2>5 DEF HasListed, HasRefreshed, HasRead, Accounted
  <2>6. CASE SameFolder(syncs[s], new) /\ HasFound(s, new)
    BY <2>1, <2>3, <2>6, FoundAccounted
  <2>7. ASSUME SameFolder(syncs[s], new),
               NEW uid \in syncs[s].missing, HasFetched(s, new, uid)
        PROVE  Accounted(server, rows, new)
    BY <2>1, <2>7, FetchedAccounted
  <2>8. ASSUME SameFolder(syncs[s], new),
               NEW message \in syncs[s].fetched, HasStored(s, new, message)
        PROVE  Backed(rows', new) /\ Accounted(server', rows', new)
    <3>1. Backed(rows', syncs[s]) /\ Accounted(server', rows', syncs[s])
      BY <1>0, <1>1, <2>1, ThoroughStays
    <3>2. /\ new.fetched = syncs[s].fetched \ {message} /\ new.missing = syncs[s].missing
          /\ SyncAt(s, "download") /\ rows' = Ingest(rows, StoredRow(s, message))
          /\ SameReads(s, new)
      BY <2>8 DEF HasStored
    <3>3. \E row \in rows' : row.content = message.content
      <4>1. StoredRow(s, message).content = message.content
        BY DEF StoredRow
      <4>2. StoredRow(s, message) \in rows'
        BY <3>2 DEF Ingest
      <4>3. QED
        BY <4>1, <4>2
    <3>4. Backed(rows', new)
      BY <3>1, <3>2 DEF SameReads, Backed
    <3>5. PICK archive : archive = rows'
      OBVIOUS
    <3>6. Accounted(server, archive, syncs[s]) /\ \E row \in archive : row.content = message.content
      BY <2>2, <3>1, <3>3, <3>5
    <3>7. Accounted(server, archive, new)
      BY <1>0, <2>1, <2>8, <3>2, <3>6, StoredAccounted
    <3>8. QED
      BY <2>2, <3>4, <3>5, <3>7
  <2>9. QED
    BY <1>3, <2>3, <2>4, <2>5, <2>6, <2>7, <2>8 DEF Becoming, GoesOnTo, Starts
<1>4. CASE UNCHANGED syncs
  BY <1>2, <1>4
<1>5. ASSUME NEW s \in Syncers, Reads(s) \/ Writes(s), NEW other \in Syncers
      PROVE  Backed(rows', syncs'[other]) /\ Accounted(server', rows', syncs'[other])
  <2>1. PICK new : Turns(s, new) /\ Ready(new) /\ Becoming(s, new)
    BY <1>0, <1>5, ReadsTurn, WritesTurn
  <2>2. syncs'[s] = new /\ (other # s => syncs'[other] = syncs[other])
    BY <1>0, <2>1 DEF Turns, SyncsReady
  <2>3. CASE other = s
    BY <1>3, <1>5, <2>1, <2>2, <2>3
  <2>4. CASE other # s
    BY <1>2, <2>2, <2>4
  <2>5. QED
    BY <2>3, <2>4
<1>6. QED
  BY <1>0, <1>4, <1>5, StepKinds DEF Deliver

LEMMA SettledIsMirrored ==
  ASSUME SyncsReady, SyncsReliable, RowsLinked, NEW s \in Syncers, ~SyncAt(s, "idle"),
         NEW listed \in syncs[s].listing, Settled(server, rows, syncs[s], listed),
         server[Folder[Role(s)]].validity = syncs[s].validity,
         Present(server, Folder[Role(s)], listed.uid)
  PROVE  Mirrored(rows, listed.mail) \/ Confusable(s, listed)
<1> DEFINE identity == Ident(syncs[s], listed.uid)
<1>1. identity = [box |-> Folder[Role(s)], validity |-> syncs[s].validity,
                  uid |-> listed.uid]
  BY DEF Ident, Role
<1>2. ~Gone(server, identity) /\ Denotes(server, identity, listed.mail)
  BY <1>1 DEF Gone, SyncsReliable, Reliable
<1>3. ASSUME NEW row \in rows,
             KeyOf(row) = [validity |-> syncs[s].validity, uid |-> listed.uid,
                           size |-> Size[listed.mail]]
      PROVE  Mirrored(rows, listed.mail) \/ Confusable(s, listed)
  <2>1. /\ row.id.identity.validity = syncs[s].validity
        /\ row.id.identity.uid = listed.uid /\ BlobSize(row.content) = Size[listed.mail]
    BY <1>3 DEF KeyOf
  <2>2. CASE row.id.identity.box # Folder[Role(s)]
    BY <2>1, <2>2 DEF Confusable
  <2>3. CASE row.id.identity.box = Folder[Role(s)]
    <3>1. Denotes(server, row.id.identity, row.content.mail)
      BY DEF RowsLinked, Linked
    <3>2. row.content.mail = listed.mail
      BY <1>1, <1>2, <2>1, <2>3, <3>1 DEF Denotes, Gone
    <3>3. QED
      BY <3>2 DEF Mirrored
  <2>4. QED
    BY <2>2, <2>3
<1>4. QED
  BY <1>2, <1>3 DEF Settled, Keys

LEMMA DoneIsSettled ==
  ASSUME Thorough, ~Expunges, NEW s \in Syncers, FolderDone(s), syncs[s].limit = NoLimit,
         NEW listed \in syncs[s].listing
  PROVE  Settled(server, rows, syncs[s], listed) /\ ~SyncAt(s, "idle")
<1>1. Backed(rows, syncs[s]) /\ Accounted(server, rows, syncs[s])
  BY DEF Thorough
<1>2. CASE Downloaded(s)
  BY <1>1, <1>2 DEF Downloaded, Accounted, SyncAt
<1>3. CASE FindMissing(s) /\ Selected(s) = {}
  <2>1. ~Lacks(s, listed)
    BY <1>3 DEF Selected, Truncate
  <2>2. QED
    BY <1>1, <1>3, <2>1, NotLackedIsSettled DEF FindMissing, SyncAt
<1>4. QED
  BY <1>2, <1>3 DEF FolderDone

SystemThorough == SystemHandles /\ RowsLinked /\ Spared /\ Thorough

LEMMA SystemThoroughInit == WatchInit => SystemThorough
<1> SUFFICES ASSUME WatchInit PROVE SystemThorough
  OBVIOUS
<1>1. Spared
  BY DEF WatchInit, SyncInit, Init, Spared, At, Idle
<1>2. Thorough
  BY DEF WatchInit, SyncInit, Thorough, Backed, Accounted, AtRest
<1>3. QED
  BY <1>1, <1>2, SystemHandlesInit, LinkedInit DEF SystemThorough

LEMMA SystemThoroughNext ==
  SystemThorough /\ [WatchNext]_systemVars => SystemThorough'
<1> SUFFICES ASSUME SystemThorough, [WatchNext]_systemVars PROVE SystemThorough'
  OBVIOUS
<1>1. /\ SystemHandles /\ SystemHandles'
      /\ SystemTyped /\ SystemTyped' /\ SyncsReliable /\ SyncsReliable'
  BY SystemHandlesNext DEF SystemThorough, SystemHandles
<1>2. Typed /\ Paired /\ RowsLinked /\ Spared /\ Thorough
  BY <1>1 DEF SystemThorough, SystemTyped, WatchesTyped
<1>3. QED
  BY <1>1, <1>2, LinkedStep, SparedStep, ThoroughStep DEF SystemThorough

(* A sync without a limit skips nothing: when it is done with a folder,     *)
(* every message it listed that is still there is in the archive, though    *)
(* other syncs, mutations and mail clients have worked on the mailboxes     *)
(* and the rows between its steps, or a row of another mailbox under the    *)
(* same UIDVALIDITY and UID has the message's size (find_missing,           *)
(* download_missing).  Hard expunges are left out.                          *)
THEOREM NothingIsSkipped == WatchSpec => NothingSkipped
<1>1. SystemThorough =>
        [\A s \in Syncers :
           FolderDone(s) /\ syncs[s].limit = NoLimit /\ ~Expunges =>
             \A listed \in syncs[s].listing :
               LET box == Folder[Role(s)] IN
               /\ server[box].validity = syncs[s].validity
               /\ Present(server, box, listed.uid)
               => Mirrored(rows, listed.mail) \/ Confusable(s, listed)]_allVars
  BY DoneIsSettled, SettledIsMirrored DEF SystemThorough, SystemHandles, SystemTyped
<1>2. QED
  BY <1>1, SystemThoroughInit, SystemThoroughNext, PTL DEF WatchSpec, NothingSkipped
-----------------------------------------------------------------------------
(* A row keeps the role and the binding that it was stored with as long as  *)
(* its UID names the message: a move writes them when the message has left. *)

AtOrigin(row) == row.role = row.id.role /\ row.binding = row.id.identity

InPlace(state, row) == (Moves /\ Gone(state, row.id.identity)) \/ AtOrigin(row)

\* What the commands of a move have done to the message, where st stands.
Leaves(state, st) ==
  LET place == st.entry.binding
      mailbox == state[place.box]
  IN  /\ st.pc = "expunge_copied" /\ ~Gone(state, place) => mailbox.msgs[place.uid].deleted
      /\ st.pc \in {"executed", "local_state", "remote_binding"} /\ st.action.kind = "move" =>
           Gone(state, place)

PlacesKept ==
  /\ \A row \in rows : InPlace(server, row)
  /\ \A m \in Mutators :
       ~At(m, "idle") => /\ InPlace(server, mutators[m].entry)
                         /\ mutators[m].action \in setting.actions
                         /\ Leaves(server, mutators[m])

LEMMA InPlaceStays ==
  ASSUME NEW before, WellNumbered(before), NEW after, WellNumbered(after),
         Continues(before, after), NEW row, row.id.identity \in Identities,
         NEW mail, Denotes(before, row.id.identity, mail), InPlace(before, row)
  PROVE  InPlace(after, row)
<1>1. Gone(before, row.id.identity) => Gone(after, row.id.identity)
  BY GoneStays
<1>2. QED
  BY <1>1 DEF InPlace

\* A message that is there was there before, and \Deleted if it was so.
LEMMA PlaceContinues ==
  ASSUME NEW before, WellNumbered(before), NEW after, WellNumbered(after),
         Continues(before, after), NEW place \in Identities, NEW mail,
         Denotes(before, place, mail), ~Gone(after, place)
  PROVE  /\ ~Gone(before, place)
         /\ before[place.box].msgs[place.uid].deleted =>
              after[place.box].msgs[place.uid].deleted
<1> DEFINE box == place.box
<1>1. /\ box \in Mailboxes /\ place.validity \in Nat
      /\ before[box] \in MailboxStates /\ after[box] \in MailboxStates
      /\ BoxContinues(before[box], after[box])
  BY MessageTyped DEF Identities, WellNumbered, Continues
<1>2. ~Gone(before, place)
  BY GoneStays
<1>3. /\ place.validity = before[box].validity /\ place.validity = after[box].validity
      /\ place.uid < before[box].next /\ Present(after, box, place.uid)
  BY <1>2 DEF Gone, Denotes
<1>4. Reflagged(before[box].msgs[place.uid], after[box].msgs[place.uid])
  BY <1>1, <1>3 DEF BoxContinues, Present
<1>5. QED
  BY <1>2, <1>4 DEF Reflagged

LEMMA LeavesStays ==
  ASSUME NEW before, WellNumbered(before), NEW after, WellNumbered(after),
         Continues(before, after), NEW st, st.entry.binding \in Identities,
         NEW mail, Denotes(before, st.entry.binding, mail), Leaves(before, st)
  PROVE  Leaves(after, st)
<1> DEFINE place == st.entry.binding
<1>1. Gone(before, place) => Gone(after, place)
  BY GoneStays
<1>2. ASSUME ~Gone(after, place)
      PROVE  /\ ~Gone(before, place)
             /\ before[place.box].msgs[place.uid].deleted =>
                  after[place.box].msgs[place.uid].deleted
  BY <1>2, PlaceContinues
<1>3. QED
  BY <1>1, <1>2 DEF Leaves

\* The commands that take the message away.
LEMMA RemovesIt ==
  ASSUME NEW before, WellNumbered(before), NEW box \in Mailboxes, NEW uid,
         Present(before, box, uid)
  PROVE  ~Present(Remove(before, box, uid), box, uid)
<1>1. before[box] \in MailboxStates /\ uid \in Uids
  BY MessageTyped DEF WellNumbered, Present
<1>2. PICK after : after = [before EXCEPT ![box].msgs[uid] = NoMessage]
  OBVIOUS
<1>3. Changes(before, after, box,
        [validity |-> before[box].validity, next |-> before[box].next,
         msgs |-> [before[box].msgs EXCEPT ![uid] = NoMessage]])
  BY <1>2, ReplaceEffect
<1>4. after[box].msgs = [before[box].msgs EXCEPT ![uid] = NoMessage]
  BY <1>3 DEF Changes
<1>5. after[box].msgs[uid] = NoMessage
  BY <1>1, <1>4 DEF MailboxStates
<1>6. QED
  BY <1>2, <1>5 DEF Remove, Present

LEMMA ExpungesIt ==
  ASSUME NEW before, WellNumbered(before), NEW box \in Mailboxes, NEW uid,
         Present(before, box, uid) => before[box].msgs[uid].deleted
  PROVE  ~Present(Expunge(before, box, uid), box, uid)
  BY RemovesIt DEF Expunge

LEMMA MovesIt ==
  ASSUME NEW before, WellNumbered(before), NEW box \in Mailboxes, NEW uid,
         NEW target \in Mailboxes, HasRoom(before, target)
  PROVE  ~Present(UidMove(before, box, uid, target), box, uid)
<1>1. PICK copied : copied = Copy(before, box, uid, target)
  OBVIOUS
<1>2. CASE Present(before, box, uid)
  <2>1. WellNumbered(copied) /\ Present(copied, box, uid)
    BY <1>1, <1>2, CopyContinues, CopyKeepsSource
  <2>2. ~Present(Remove(copied, box, uid), box, uid)
    BY <2>1, RemovesIt
  <2>3. QED
    BY <1>1, <1>2, <2>2 DEF UidMove
<1>3. QED
  BY <1>2 DEF UidMove

LEMMA MarksIt ==
  ASSUME NEW before, WellNumbered(before), NEW box \in Mailboxes, NEW uid,
         NEW after, after = SetFlag(before, box, uid, "deleted", TRUE),
         Present(after, box, uid)
  PROVE  after[box].msgs[uid].deleted
<1>1. Present(before, box, uid)
  BY DEF SetFlag
<1>2. PICK message : message = [before[box].msgs[uid] EXCEPT !["deleted"] = TRUE]
  OBVIOUS
<1>3. before[box].msgs[uid] \in Messages /\ uid \in Uids /\ before[box] \in MailboxStates
      /\ before \in Servers
  BY <1>1, MessageTyped DEF WellNumbered, Present
<1>4. message.deleted
  <2>1. message.deleted = TRUE
    BY <1>2, <1>3 DEF Messages
  <2>2. QED
    BY <2>1, Zenon
<1>5. after = [before EXCEPT ![box].msgs[uid] = message]
  BY <1>1, <1>2 DEF SetFlag
<1>6. message \in Messages /\ Reflagged(before[box].msgs[uid], message)
  BY <1>1, <1>2, <1>3, <1>4 DEF Messages, Reflagged, Present
<1>7. Changes(before, after, box,
        [validity |-> before[box].validity, next |-> before[box].next,
         msgs |-> [before[box].msgs EXCEPT ![uid] = message]])
  BY <1>1, <1>5, <1>6, ReplaceEffect
<1> DEFINE mailbox == [validity |-> before[box].validity, next |-> before[box].next,
                       msgs |-> [before[box].msgs EXCEPT ![uid] = message]]
<1>8. after[box] = mailbox /\ mailbox.msgs = [before[box].msgs EXCEPT ![uid] = message]
  BY <1>7, Zenon DEF Changes
<1> HIDE DEF mailbox
<1>9. after[box].msgs[uid] = message
  BY <1>3, <1>8 DEF MailboxStates
<1>10. QED
  BY <1>4, <1>9

\* How a process comes to each place that Leaves speaks of.
CameFrom(m) ==
  LET box == Binding(m).box
      uid == Binding(m).uid
      pc == mutators'[m].pc
  IN  /\ pc = "expunge_copied" =>
           SessionHolds(m) /\ server' = SetFlag(server, box, uid, "deleted", TRUE)
      /\ pc = "executed" /\ mutators[m].action.kind = "move" =>
           /\ SessionHolds(m)
           /\ \/ HasRoom(server, Target(m)) /\ server' = UidMove(server, box, uid, Target(m))
              \/ At(m, "expunge_copied") /\ server' = Expunge(server, box, uid)
      /\ pc = "local_state" => At(m, "executed") /\ UNCHANGED server
      /\ pc = "remote_binding" => At(m, "local_state") /\ UNCHANGED server

LEMMA ComesFrom ==
  ASSUME Typed, NEW m \in Mutators, mutators'[m] # mutators[m],
         Request(m) \/ Step(m) \/ AuditFails(m) \/ Crash(m)
  PROVE  CameFrom(m)
<1>0. /\ mutators \in [Mutators -> MutatorStates] /\ mutators[m] \in MutatorStates
      /\ Works(mutators[m])
  BY DEF Typed, TypeOK
<1>1. ASSUME NEW pc, Goto(m, pc) PROVE mutators'[m].pc = pc
  BY <1>0, <1>1 DEF Goto, MutatorStates
<1>2. ASSUME Rest(m) PROVE mutators'[m].pc = "idle"
  BY <1>0, <1>2 DEF Rest, Idle
<1>3. CASE Request(m)
  <2>1. PICK row, action :
          mutators' = [mutators EXCEPT ![m] = [pc |-> "approve", action |-> action,
                                               entry |-> row, run |-> runs + 1,
                                               session |-> 0]]
    BY <1>3 DEF Request, Prepare, DryRun
  <2>2. mutators'[m].pc = "approve"
    BY <1>0, <2>1
  <2>3. QED
    BY <2>2 DEF CameFrom
<1>4. CASE AuditFails(m) \/ Crash(m)
  BY <1>2, <1>4 DEF AuditFails, Crash, CameFrom
<1>5. CASE Approve(m) \/ Reconciled(m) \/ Failed(m)
  BY <1>1, <1>2, <1>5 DEF Approve, Reconciled, Failed, Audited, CameFrom
<1>6. CASE Select(m)
  <2>1. mutators'[m].pc = CommandPath(mutators[m].action) \/ mutators'[m].pc = "failed"
    BY <1>0, <1>1, <1>6 DEF Select, MutatorStates
  <2>2. CommandPath(mutators[m].action)
          \notin {"expunge_copied", "executed", "local_state", "remote_binding"}
    BY DEF CommandPath
  <2>3. QED
    BY <2>1, <2>2 DEF CameFrom
<1>7. CASE Executed(m)
  BY <1>1, <1>7 DEF Executed, Audited, CameFrom
<1>8. CASE WriteLocalState(m) \/ WriteRemoteBinding(m) \/ RemoveRow(m)
  BY <1>1, <1>8 DEF WriteLocalState, WriteRemoteBinding, RemoveRow, Statement, CameFrom
<1>9. CASE UidMoveStep(m)
  BY <1>1, <1>9 DEF UidMoveStep, Command, TargetHasRoom, CameFrom
<1>10. CASE UidCopyStep(m) \/ StoreDeletedStep(m) \/ ExpungeCopiedStep(m)
  BY <1>1, <1>10
  DEF UidCopyStep, StoreDeletedStep, ExpungeCopiedStep, Command, CameFrom
<1>11. CASE UidStoreStep(m) \/ UidExpungeStep(m)
  <2>1. mutators[m].action.kind # "move"
    BY <1>0, <1>11 DEF UidStoreStep, UidExpungeStep, Command, At, Works
  <2>2. mutators'[m].pc \in {"executed", "failed"}
    BY <1>1, <1>11 DEF UidStoreStep, UidExpungeStep, Command
  <2>3. QED
    BY <2>1, <2>2 DEF CameFrom
<1>12. QED
  BY <1>3, <1>4, <1>5, <1>6, <1>7, <1>8, <1>9, <1>10, <1>11 DEF Step, RemoteStep

\* What a process has done to the message, where it comes to.
LEMMA LeavesThere ==
  ASSUME Typed, NEW m \in Mutators, ~At(m, "idle"), CameFrom(m), Leaves(server, mutators[m]),
         NEW st, st = mutators'[m], st.entry = mutators[m].entry,
         st.action = mutators[m].action
  PROVE  Leaves(server', st)
<1> DEFINE place == mutators[m].entry.binding
           box == Binding(m).box
           uid == Binding(m).uid
<1>0. /\ WellNumbered(server) /\ box \in Mailboxes /\ place.box = box /\ place.uid = uid
      /\ mutators[m].action.kind = "move" => Target(m) \in Mailboxes
  BY AtWork, SettingTyped DEF Binding
<1>1. CASE st.pc = "expunge_copied"
  <2>1. server' = SetFlag(server, box, uid, "deleted", TRUE)
    BY <1>1 DEF CameFrom
  <2>2. Present(server', box, uid) => server'[box].msgs[uid].deleted
    BY <1>0, <2>1, MarksIt
  <2>3. ~Gone(server', place) => server'[box].msgs[uid].deleted
    BY <1>0, <2>2 DEF Gone
  <2>4. QED
    BY <1>0, <1>1, <2>3 DEF Leaves
<1>2. CASE st.pc = "executed" /\ st.action.kind = "move"
  <2>1. CASE HasRoom(server, Target(m)) /\ server' = UidMove(server, box, uid, Target(m))
    BY <1>0, <1>2, <2>1, MovesIt DEF Leaves, Gone
  <2>2. CASE At(m, "expunge_copied") /\ server' = Expunge(server, box, uid)
    <3>1. server[box].validity = place.validity =>
            (Present(server, box, uid) => server[box].msgs[uid].deleted)
      BY <1>0, <2>2 DEF Leaves, At, Gone
    <3>2. server[box].validity = place.validity => ~Present(server', box, uid)
      BY <1>0, <2>2, <3>1, ExpungesIt
    <3>3. server'[box].validity = server[box].validity
      BY <1>0, <2>2, ExpungeLeaves DEF LeavesOthers
    <3>4. QED
      BY <1>0, <1>2, <3>2, <3>3 DEF Leaves, Gone
  <2>3. QED
    BY <1>2, <2>1, <2>2 DEF CameFrom
<1>3. CASE st.pc \in {"local_state", "remote_binding"} /\ st.action.kind = "move"
  <2>1. Gone(server, place) /\ server' = server
    BY <1>3 DEF CameFrom, Leaves, At
  <2>2. Gone(server', place)
    BY <2>1
  <2>3. QED
    BY <1>3, <2>2 DEF Leaves
<1>4. CASE /\ st.pc # "expunge_copied"
           /\ st.pc \in {"executed", "local_state", "remote_binding"} =>
                st.action.kind # "move"
  BY <1>4 DEF Leaves
<1>5. QED
  BY <1>1, <1>2, <1>3, <1>4

\* What the statements of a mutation make of a row.
LEMMA MutatedInPlace ==
  ASSUME Typed, HandlesInv, RowsLinked, PlacesKept, [Next]_vars, NEW new \in rows'
  PROVE  InPlace(server, new)
<1>0. /\ rows \subseteq Rows /\ setting.mutators \subseteq Mutators
      /\ \A row \in rows : InPlace(server, row)
  BY SettingTyped DEF Typed, TypeOK, PlacesKept
<1>1. CASE new \in rows
  BY <1>0, <1>1
<1>2. ASSUME NEW m \in setting.mutators, At(m, "local_state") \/ At(m, "remote_binding"),
             NEW row \in rows, row.id = mutators[m].entry.id, new.id = row.id,
             \/ new.role = ReconciledRole(m) /\ new.binding = row.binding
             \/ new.role = row.role /\ new.binding = ReconciledBinding(m)
      PROVE  InPlace(server, new)
  <2> DEFINE entry == mutators[m].entry
             action == mutators[m].action
  <2>1. /\ InPlace(server, entry) /\ action \in setting.actions /\ Leaves(server, mutators[m])
        /\ entry.binding = entry.id.identity /\ InPlace(server, row)
    BY <1>0, <1>2 DEF PlacesKept, RowsLinked, At
  <2>2. CASE action.kind = "move"
    BY <1>2, <2>1, <2>2 DEF InPlace, Moves, Leaves, At
  <2>3. CASE action.kind # "move"
    <3>1. ReconciledRole(m) = entry.role /\ ReconciledBinding(m) = entry.binding
      BY <2>3 DEF ReconciledRole, ReconciledBinding
    <3>2. QED
      BY <1>2, <2>1, <3>1 DEF InPlace, AtOrigin
  <2>4. QED
    BY <2>2, <2>3
<1>3. ASSUME NEW m \in setting.mutators, WriteLocalState(m), new \notin rows
      PROVE  InPlace(server, new)
  <2>0. PICK role, read, starred :
          /\ role = ReconciledRole(m)
          /\ rows' = UpdateLocalState(rows, mutators[m].entry.id, role, read, starred)
    BY <1>3 DEF WriteLocalState, Statement
  <2>1. PICK row \in rows :
          new = IF row.id = mutators[m].entry.id
                THEN [row EXCEPT !.role = role, !.read = read, !.starred = starred]
                ELSE row
    BY <2>0 DEF UpdateLocalState
  <2>2. row \in Rows /\ row.id = mutators[m].entry.id
    BY <1>0, <1>3, <2>1
  <2>3. new = [row EXCEPT !.role = role, !.read = read, !.starred = starred]
    BY <2>1, <2>2
  <2>4. new.id = row.id /\ new.role = role /\ new.binding = row.binding
    BY <2>2, <2>3 DEF Rows
  <2>5. QED
    BY <1>2, <1>3, <2>0, <2>2, <2>4 DEF WriteLocalState, Statement
<1>4. ASSUME NEW m \in setting.mutators, WriteRemoteBinding(m), new \notin rows
      PROVE  InPlace(server, new)
  <2>0. PICK binding :
          /\ binding = ReconciledBinding(m)
          /\ rows' = UpdateRemoteBinding(rows, mutators[m].entry.id, binding)
    BY <1>4 DEF WriteRemoteBinding, Statement
  <2>1. PICK row \in rows :
          new = IF row.id = mutators[m].entry.id
                THEN [row EXCEPT !.binding = binding] ELSE row
    BY <2>0 DEF UpdateRemoteBinding
  <2>2. row \in Rows /\ row.id = mutators[m].entry.id
    BY <1>0, <1>4, <2>1
  <2>3. new = [row EXCEPT !.binding = binding]
    BY <2>1, <2>2
  <2>4. new.id = row.id /\ new.role = row.role /\ new.binding = binding
    BY <2>2, <2>3 DEF Rows
  <2>5. QED
    BY <1>2, <1>4, <2>0, <2>2, <2>4 DEF WriteRemoteBinding, Statement
<1>5. ASSUME NEW m \in setting.mutators, RemoveRow(m) PROVE new \in rows
  BY <1>5 DEF RemoveRow, Statement, RemoveEntry
<1>6. QED
  BY <1>1, <1>3, <1>4, <1>5, WhoChanges

\* What a sync makes of a row.
LEMMA WrittenInPlace ==
  ASSUME Typed, SyncsReady, PlacesKept, NEW s \in Syncers, Writes(s), NEW new \in rows'
  PROVE  InPlace(server, new)
<1>1. CASE \E row \in rows : /\ new.id = row.id /\ new.content = row.content
                             /\ new.role = row.role /\ new.binding = row.binding
  BY <1>1 DEF PlacesKept, InPlace, AtOrigin
<1>2. ASSUME NEW message, new = StoredRow(s, message) PROVE InPlace(server, new)
  BY <1>2 DEF StoredRow, IngestId, InPlace, AtOrigin
<1>3. QED
  BY <1>1, <1>2, WrittenRow

LEMMA PlacesStep ==
  ASSUME SystemTyped, SystemTyped', HandlesInv, RowsLinked, RowsLinked', PlacesKept,
         [WatchNext]_systemVars
  PROVE  PlacesKept'
<1>0. /\ Typed /\ Typed' /\ SyncsReady /\ Paired
      /\ WellNumbered(server) /\ WellNumbered(server') /\ Continues(server, server')
      /\ setting' = setting
  <2>1. Typed /\ Typed' /\ SyncsReady /\ Paired
    BY DEF SystemTyped, WatchesTyped
  <2>2. QED
    BY <2>1, MailboxesContinue, SettingStays
<1>1. CASE server' = server /\ UNCHANGED mutators /\ \A new \in rows' : InPlace(server, new)
  BY <1>0, <1>1 DEF PlacesKept, InPlace, Leaves, Gone, Moves, At
<1>2. ASSUME NEW m \in Mutators, ~At(m, "idle")
      PROVE  /\ mutators[m].entry.id.identity \in Identities
             /\ mutators[m].entry.binding = mutators[m].entry.id.identity
             /\ Denotes(server, mutators[m].entry.binding, mutators[m].entry.content.mail)
  <2>1. Binding(m) \in Identities /\ Binding(m) = mutators[m].entry.id.identity
    BY <1>0, <1>2, AtWork DEF RowsLinked, Binding
  <2>2. QED
    BY <1>2, <2>1, MutationAssumption DEF HandlesInv, HoldsTrueRow, RowTrue, Binding
<1>3. ASSUME NEW m \in Mutators, ~At(m, "idle")
      PROVE  /\ InPlace(server', mutators[m].entry)
             /\ mutators[m].action \in setting.actions /\ Leaves(server, mutators[m])
             /\ Leaves(server', mutators[m])
  <2>1. InPlace(server, mutators[m].entry) /\ Leaves(server, mutators[m])
        /\ mutators[m].action \in setting.actions
    BY <1>3 DEF PlacesKept
  <2>2. QED
    BY <1>0, <1>2, <1>3, <2>1, InPlaceStays, LeavesStays
<1>4. UNCHANGED server \/ UNCHANGED rows
  <2>1. CASE [Next]_vars
    BY <2>1, WhoChanges DEF WriteLocalState, WriteRemoteBinding, RemoveRow, Statement
  <2>2. QED
    BY <1>0, <2>1, StepKinds DEF Reads, Writes, RefreshFlags, StoreMessage, Deliver, vars
<1>5. ASSUME NEW row \in rows PROVE InPlace(server', row)
  <2>1. /\ row.id.identity \in Identities /\ InPlace(server, row)
        /\ Denotes(server, row.id.identity, row.content.mail)
    BY <1>0 DEF Typed, TypeOK, Rows, Ids, PlacesKept, RowsLinked, Linked
  <2>2. QED
    BY <1>0, <2>1, InPlaceStays
<1>6. ASSUME NEW new \in rows' PROVE InPlace(server', new)
  <2>1. CASE UNCHANGED rows
    BY <1>5, <1>6, <2>1
  <2>2. CASE UNCHANGED server
    <3>1. CASE [Next]_vars
      BY <1>0, <1>6, <2>2, <3>1, MutatedInPlace
    <3>2. ASSUME NEW s \in Syncers, Writes(s) PROVE InPlace(server', new)
      BY <1>0, <1>6, <2>2, <3>2, WrittenInPlace
    <3>3. QED
      BY <1>0, <2>1, <3>1, <3>2, StepKinds DEF Reads, Deliver, vars
  <2>3. QED
    BY <1>4, <2>1, <2>2
<1>7. ASSUME NEW m \in Mutators, mutators'[m].pc # "idle"
      PROVE  /\ InPlace(server', mutators'[m].entry)
             /\ mutators'[m].action \in setting.actions
             /\ Leaves(server', mutators'[m])
  <2>1. CASE mutators'[m] = mutators[m]
    BY <1>3, <1>7, <2>1 DEF At
  <2>2. CASE [Next]_vars /\ mutators'[m] # mutators[m]
    <3>1. mutators'[m] # Idle
      BY <1>7 DEF Idle
    <3>2. /\ m \in setting.mutators /\ Walks(m)
          /\ Request(m) \/ Step(m) \/ AuditFails(m) \/ Crash(m)
      BY <1>0, <2>2, <3>1, NextWalks, WhoWalks
    <3>3. CASE /\ mutators'[m].pc = "approve" /\ mutators'[m].entry \in rows
               /\ mutators'[m].action \in setting.actions
      BY <1>5, <3>3 DEF Leaves
    <3>4. CASE /\ ~At(m, "idle") /\ mutators'[m].action = mutators[m].action
               /\ mutators'[m].entry = mutators[m].entry
      <4>1. CameFrom(m)
        BY <1>0, <2>2, <3>2, ComesFrom
      <4>2. PICK st : st = mutators'[m]
        OBVIOUS
      <4>3. Leaves(server', st)
        BY <1>0, <1>3, <3>4, <4>1, <4>2, LeavesThere
      <4>4. QED
        BY <1>3, <3>4, <4>2, <4>3
    <3>5. QED
      BY <1>0, <2>2, <3>1, <3>2, <3>3, <3>4, WalksTo
  <2>3. QED
    BY <1>0, <2>1, <2>2, StepKinds DEF Reads, Writes, RefreshFlags, StoreMessage, Deliver, vars
<1>8. QED
  BY <1>0, <1>6, <1>7 DEF PlacesKept, InPlace, Leaves, Gone, Moves, At

LEMMA PlacesInit == WatchInit => PlacesKept
<1> SUFFICES ASSUME WatchInit PROVE PlacesKept
  OBVIOUS
<1>1. Init
  BY DEF WatchInit, SyncInit
<1>2. ASSUME NEW row \in rows PROVE AtOrigin(row)
  <2>1. PICK role \in Roles, box \in Mailboxes, part \in Parts :
          \E uid \in UidsIn(server, box) : row = RowAt(role, box, uid, part)
    BY <1>1, InitialRow
  <2>2. QED
    BY <2>1 DEF AtOrigin, RowAt, IngestId
<1>3. QED
  BY <1>1, <1>2 DEF Init, PlacesKept, InPlace, At, Idle

-----------------------------------------------------------------------------
(* The size keys of a role tell its rows apart: a remote identity is bound  *)
(* to one row, a row was stored from its role's folder, and the UIDVALIDITY *)
(* of a mailbox stays what it was unless somebody renumbers it              *)

\* The UIDVALIDITY that a sync listed is its mailbox's still.
Current(state, st) ==
  st.listing # {} => st.validity = state[Folder[Head(st.plan)]].validity

LEMMA ValiditiesStay ==
  ASSUME Typed, Paired, [WatchNext]_systemVars, ~Enabled("renumber"), NEW box \in Mailboxes
  PROVE  server'[box].validity = server[box].validity
<1>0. WellNumbered(server) /\ setting.mutators \subseteq Mutators
  BY SettingTyped
<1>1. CASE UNCHANGED server
  BY <1>1
<1>2. ASSUME NEW other, NEW uid, LeavesOthers(server, server', other, uid)
      PROVE  server'[box].validity = server[box].validity
  BY <1>2 DEF LeavesOthers
<1>3. CASE ServerEvent
  <2>1. PICK at \in Mailboxes :
          \E uid \in UidsIn(server, at) :
            \/ \E target \in Mailboxes : OtherMove(at, uid, target)
            \/ OtherExpunge(at, uid)
            \/ \E flag \in FlagNames : OtherFlag(at, uid, flag)
    BY <1>3 DEF ServerEvent, NewUidvalidity
  <2>2. PICK uid \in UidsIn(server, at) :
          \/ \E target \in Mailboxes : OtherMove(at, uid, target)
          \/ OtherExpunge(at, uid)
          \/ \E flag \in FlagNames : OtherFlag(at, uid, flag)
    BY <2>1
  <2>3. ASSUME NEW target \in Mailboxes, OtherMove(at, uid, target)
        PROVE  LeavesOthers(server, server', at, uid)
    BY <1>0, <2>3, UidMoveLeaves DEF OtherMove
  <2>4. CASE OtherExpunge(at, uid)
    BY <1>0, <1>2, <2>4, RemoveLeaves DEF OtherExpunge, UidsIn
  <2>5. ASSUME NEW flag \in FlagNames, OtherFlag(at, uid, flag)
        PROVE  LeavesOthers(server, server', at, uid)
    <3>1. (~server[at].msgs[uid][flag]) \in BOOLEAN /\ flag \in {"seen", "flagged"}
      BY DEF FlagNames
    <3>2. QED
      BY <1>0, <2>5, <3>1, SetFlagLeaves DEF OtherFlag
  <2>6. QED
    BY <1>2, <2>2, <2>3, <2>4, <2>5
<1>4. ASSUME NEW m \in setting.mutators, RemoteStep(m)
      PROVE  server'[box].validity = server[box].validity
  BY <1>0, <1>2, <1>4, RemoteStepLeaves
<1>5. ASSUME NEW mail \in Mails, Deliver("INBOX", mail)
      PROVE  server'[box].validity = server[box].validity
  <2> DEFINE message == [mail |-> mail, seen |-> FALSE, flagged |-> FALSE,
                         deleted |-> FALSE]
  <2>1. message \in Messages
    BY DEF Messages
  <2>2. HasRoom(server, "INBOX") /\ server' = Deposit(server, "INBOX", message)
    BY <1>5 DEF Deliver
  <2> HIDE DEF message
  <2>3. LeavesOthers(server, Deposit(server, "INBOX", message), "INBOX", 0)
    BY <1>0, <2>1, <2>2, DepositLeaves, WatchAssumption
  <2>4. QED
    BY <1>2, <2>2, <2>3
<1>6. CASE [Next]_vars
  BY <1>1, <1>3, <1>4, <1>6, WhoChanges
<1>7. QED
  BY <1>1, <1>5, <1>6, StepKinds DEF Reads, Writes, RefreshFlags, StoreMessage, vars

LEMMA BecomingCurrent ==
  ASSUME NEW s \in Syncers, Current(server, syncs[s]), NEW new, Becoming(s, new)
  PROVE  Current(server, new)
<1>1. CASE Starts(new)
  BY <1>1 DEF Starts, Fresh, Current
<1>2. CASE HasListed(s, new)
  BY <1>2 DEF HasListed, Current, Role
<1>3. CASE GoesOnTo(s, new)
  BY <1>3 DEF GoesOnTo, SameFolder, Current
<1>4. QED
  BY <1>1, <1>2, <1>3 DEF Becoming

\* A listing is of a mailbox of the account.
LEMMA CurrentStays ==
  ASSUME Typed, Paired, [WatchNext]_systemVars, ~Enabled("renumber"),
         NEW st, Ready(st), Current(server, st)
  PROVE  Current(server', st)
<1>1. CASE st.listing = {}
  BY <1>1 DEF Current
<1>2. CASE st.listing # {}
  <2>1. ~Fresh(st) /\ \E uid : uid \in Uid(st.listing)
    BY <1>2 DEF Fresh, Uid
  <2>2. Folder[Head(st.plan)] \in Mailboxes
    BY <2>1, IdentTyped DEF Ident
  <2>3. QED
    BY <2>2, ValiditiesStay DEF Current
<1>3. QED
  BY <1>1, <1>2

BoundOnce(archive) ==
  \A row, other \in archive :
    row.binding # NoBinding /\ row.binding = other.binding => row.id = other.id

\* Only the rows of an aggregate view are of another mailbox than their role's.
IdsPlaced ==
  \A row \in rows :
    \/ row.id.identity.box = Folder[row.id.role]
    \/ row.id.role = "archive" /\ setting.stored.views # {}

ValiditiesKept ==
  ~Enabled("renumber") =>
    /\ \A box \in Mailboxes : server[box].validity = setting.server[box].validity
    /\ \A row \in rows :
         row.id.identity.validity = setting.server[row.id.identity.box].validity
    /\ \A s \in Syncers : Current(server, syncs[s])

KeysTold == BoundOnce(rows) /\ IdsPlaced /\ ValiditiesKept

LEMMA BoundFrom ==
  ASSUME NEW before, BoundOnce(before), NEW after,
         \A new \in after :
           \E row \in before : new.id = row.id /\ new.binding = row.binding
  PROVE  BoundOnce(after)
<1> SUFFICES ASSUME NEW new \in after, NEW other \in after,
                    new.binding # NoBinding, new.binding = other.binding
             PROVE  new.id = other.id
  BY DEF BoundOnce
<1>1. PICK row \in before : new.id = row.id /\ new.binding = row.binding
  OBVIOUS
<1>2. PICK old \in before : other.id = old.id /\ other.binding = old.binding
  OBVIOUS
<1>3. QED
  BY <1>1, <1>2 DEF BoundOnce

LEMMA RebindsOnce ==
  ASSUME NEW archive \in SUBSET Rows, BoundOnce(archive), NEW id, NEW binding,
         CanBind(archive, id, binding)
  PROVE  BoundOnce(UpdateRemoteBinding(archive, id, binding))
<1> DEFINE after == UpdateRemoteBinding(archive, id, binding)
<1>1. ASSUME NEW new \in after
      PROVE  \E row \in archive :
               /\ new.id = row.id
               /\ \/ new.binding = row.binding /\ row.id # id
                  \/ new.binding = binding /\ row.id = id
  <2>1. PICK row \in archive :
          new = IF row.id = id THEN [row EXCEPT !.binding = binding] ELSE row
    BY <1>1 DEF UpdateRemoteBinding
  <2>2. row \in Rows
    OBVIOUS
  <2>3. QED
    BY <2>1, <2>2 DEF Rows
<1> HIDE DEF after
<1>2. SUFFICES ASSUME NEW new \in after, NEW other \in after,
                      new.binding # NoBinding, new.binding = other.binding
               PROVE  new.id = other.id
  BY DEF BoundOnce, after
<1>3. PICK row \in archive : /\ new.id = row.id
                             /\ \/ new.binding = row.binding /\ row.id # id
                                \/ new.binding = binding /\ row.id = id
  BY <1>1
<1>4. PICK old \in archive : /\ other.id = old.id
                             /\ \/ other.binding = old.binding /\ old.id # id
                                \/ other.binding = binding /\ old.id = id
  BY <1>1
<1>5. \A some \in archive : some.binding = binding /\ binding # NoBinding => some.id = id
  BY DEF CanBind, BoundElsewhere
<1>6. QED
  BY <1>2, <1>3, <1>4, <1>5 DEF BoundOnce

LEMMA IngestsOnce ==
  ASSUME NEW archive, BoundOnce(archive), NEW row, CanIngest(archive, row)
  PROVE  BoundOnce(Ingest(archive, row))
  BY DEF BoundOnce, CanIngest, BoundElsewhere, Ingest

LEMMA MutatedBoundOnce ==
  ASSUME Typed, BoundOnce(rows), [Next]_vars
  PROVE  BoundOnce(rows')
<1>0. rows \subseteq Rows
  BY DEF Typed, TypeOK
<1>1. ASSUME NEW m \in setting.mutators, WriteLocalState(m), rows' # rows
      PROVE  BoundOnce(rows')
  <2>1. PICK role, read, starred :
          rows' = UpdateLocalState(rows, mutators[m].entry.id, role, read, starred)
    BY <1>1 DEF WriteLocalState, Statement
  <2>2. ASSUME NEW new \in rows'
        PROVE  \E row \in rows : new.id = row.id /\ new.binding = row.binding
    <3>1. PICK row \in rows :
            new = IF row.id = mutators[m].entry.id
                  THEN [row EXCEPT !.role = role, !.read = read, !.starred = starred]
                  ELSE row
      BY <2>1, <2>2 DEF UpdateLocalState
    <3>2. row \in Rows
      BY <1>0
    <3>3. QED
      BY <3>1, <3>2 DEF Rows
  <2>3. QED
    BY <2>2, BoundFrom
<1>2. ASSUME NEW m \in setting.mutators, WriteRemoteBinding(m), rows' # rows
      PROVE  BoundOnce(rows')
  BY <1>0, <1>2, RebindsOnce DEF WriteRemoteBinding, Statement
<1>3. ASSUME NEW m \in setting.mutators, RemoveRow(m) PROVE rows' \subseteq rows
  BY <1>3 DEF RemoveRow, Statement, RemoveEntry
<1>4. rows' \subseteq rows => BoundOnce(rows')
  BY DEF BoundOnce
<1>5. QED
  BY <1>1, <1>2, <1>3, <1>4, WhoChanges

LEMMA WrittenBoundOnce ==
  ASSUME Typed, SyncsReady, BoundOnce(rows), NEW s \in Syncers, Writes(s)
  PROVE  BoundOnce(rows')
<1>1. CASE RefreshFlags(s)
  <2>1. PICK identity \in Identities, seen \in BOOLEAN, flagged \in BOOLEAN :
          rows' = UpdateRemoteFlags(rows, identity, seen, flagged)
    BY <1>1, RefreshIs
  <2>2. \A new \in rows' :
          \E row \in rows : new.id = row.id /\ new.binding = row.binding
    BY <2>1, RefreshedRow DEF Typed, TypeOK
  <2>3. QED
    BY <2>2, BoundFrom
<1>2. ASSUME NEW message \in syncs[s].fetched, StoreMessage(s, message)
      PROVE  BoundOnce(rows')
  BY <1>2, IngestsOnce DEF StoreMessage
<1>3. QED
  BY <1>1, <1>2 DEF Writes

\* A row keeps its id; a row by a new id is one that a sync has stored.
LEMMA WhoseRow ==
  ASSUME Typed, SyncsReady, Paired, [WatchNext]_systemVars, NEW new \in rows'
  PROVE  \/ \E row \in rows : new.id = row.id
         \/ \E s \in Syncers : \E message \in syncs[s].fetched :
              StoreMessage(s, message) /\ new = StoredRow(s, message)
<1>1. CASE [Next]_vars
  BY <1>1, MutatedRow DEF MutatedFrom, SameMessage
<1>2. ASSUME NEW s \in Syncers, Writes(s)
      PROVE  \/ \E row \in rows : new.id = row.id
             \/ \E message \in syncs[s].fetched :
                  StoreMessage(s, message) /\ new = StoredRow(s, message)
  BY <1>2, WrittenRow
<1>3. CASE UNCHANGED rows
  BY <1>3
<1>4. QED
  BY <1>1, <1>2, <1>3, StepKinds DEF Reads, Deliver, vars

LEMMA AllCurrentStep ==
  ASSUME SystemTyped, [WatchNext]_systemVars, ~Enabled("renumber"),
         \A s \in Syncers : Current(server, syncs[s]), NEW s \in Syncers
  PROVE  Current(server', syncs'[s])
<1>0. /\ Typed /\ SyncsReady /\ Paired /\ Ready(syncs[s])
      /\ syncs \in [Syncers -> SyncStates]
  BY DEF SystemTyped, WatchesTyped, SyncsReady
<1>1. CASE syncs'[s] = syncs[s]
  BY <1>0, <1>1, CurrentStays
<1>2. ASSUME NEW t \in Syncers, Reads(t) \/ Writes(t) PROVE Current(server', syncs'[s])
  <2>1. CASE t # s
    BY <1>0, <1>1, <1>2, <2>1, OthersKeepTheirs
  <2>2. CASE t = s
    <3>1. PICK new : Turns(s, new) /\ Ready(new) /\ Becoming(s, new)
      BY <1>0, <1>2, <2>2, ReadsTurn, WritesTurn
    <3>2. syncs'[s] = new
      BY <1>0, <3>1 DEF Turns
    <3>3. Current(server, new)
      BY <3>1, BecomingCurrent
    <3>4. QED
      BY <1>0, <3>1, <3>2, <3>3, CurrentStays
  <2>3. QED
    BY <2>1, <2>2
<1>3. QED
  BY <1>0, <1>1, <1>2, StepKinds DEF Deliver

LEMMA KeysStep ==
  ASSUME SystemTyped, SyncsReliable, KeysTold, [WatchNext]_systemVars
  PROVE  KeysTold'
<1>0. /\ Typed /\ SyncsReady /\ Paired /\ setting' = setting
  BY SettingStays DEF SystemTyped, WatchesTyped
<1>1. ASSUME NEW s \in Syncers, NEW message \in syncs[s].fetched, StoreMessage(s, message)
      PROVE  LET row == StoredRow(s, message) IN
             /\ row.id.role = Role(s) /\ row.id.identity = Ident(syncs[s], message.uid)
             /\ Folder[Role(s)] \in Mailboxes /\ syncs[s].listing # {}
  <2>1. ~SyncAt(s, "idle") /\ SyncAt(s, "download")
    BY <1>1 DEF StoreMessage, SyncAt
  <2>2. message.uid \in Uid(syncs[s].listing)
    BY <1>0, <1>1, <2>1, StoredRowTyped
  <2>3. QED
    BY <1>0, <1>1, <2>1, <2>2, FolderIs
    DEF StoredRow, IngestId, ListedIdentity, Ident, Role, Uid
<1>2. BoundOnce(rows')
  <2>1. CASE UNCHANGED rows
    BY <2>1 DEF KeysTold
  <2>2. QED
    BY <1>0, <2>1, MutatedBoundOnce, WrittenBoundOnce, StepKinds
    DEF KeysTold, Reads, Deliver, vars
<1>3. IdsPlaced'
  <2> SUFFICES ASSUME NEW new \in rows'
               PROVE  \/ new.id.identity.box = Folder[new.id.role]
                      \/ new.id.role = "archive" /\ setting.stored.views # {}
    BY <1>0 DEF IdsPlaced
  <2>1. ASSUME NEW s \in Syncers, NEW message \in syncs[s].fetched,
               StoreMessage(s, message), new = StoredRow(s, message)
        PROVE  new.id.identity.box = Folder[new.id.role]
    <3>1. new.id.role = Role(s) /\ new.id.identity = Ident(syncs[s], message.uid)
      BY <1>1, <2>1
    <3>2. Ident(syncs[s], message.uid).box = Folder[Role(s)]
      BY DEF Ident, Role
    <3>3. QED
      BY <3>1, <3>2
  <2>2. QED
    BY <1>0, <2>1, WhoseRow DEF KeysTold, IdsPlaced
<1>4. ASSUME ~Enabled("renumber"), NEW new \in rows'
      PROVE  new.id.identity.validity = setting.server[new.id.identity.box].validity
  <2>1. ASSUME NEW s \in Syncers, NEW message \in syncs[s].fetched,
               StoreMessage(s, message), new = StoredRow(s, message)
        PROVE  new.id.identity.validity = setting.server[new.id.identity.box].validity
    <3>1. Current(server, syncs[s])
      BY <1>4 DEF KeysTold, ValiditiesKept
    <3>2. syncs[s].validity = setting.server[Folder[Role(s)]].validity
      BY <1>1, <1>4, <2>1, <3>1 DEF Current, Role, KeysTold, ValiditiesKept
    <3>3. new.id.identity = Ident(syncs[s], message.uid)
      BY <1>1, <2>1
    <3>4. /\ Ident(syncs[s], message.uid).box = Folder[Role(s)]
          /\ Ident(syncs[s], message.uid).validity = syncs[s].validity
      BY DEF Ident, Role
    <3>5. QED
      BY <3>2, <3>3, <3>4
  <2>2. QED
    BY <1>0, <1>4, <2>1, WhoseRow DEF KeysTold, ValiditiesKept
<1>5. ASSUME ~Enabled("renumber")
      PROVE  /\ \A box \in Mailboxes : server'[box].validity = setting.server[box].validity
             /\ \A s \in Syncers : Current(server', syncs'[s])
  BY <1>0, <1>5, ValiditiesStay, AllCurrentStep DEF KeysTold, ValiditiesKept
<1>6. ValiditiesKept'
  BY <1>0, <1>4, <1>5 DEF ValiditiesKept, Enabled, Current
<1>7. QED
  BY <1>2, <1>3, <1>6 DEF KeysTold, BoundOnce

LEMMA KeysInit == WatchInit => KeysTold
<1> SUFFICES ASSUME WatchInit PROVE KeysTold
  OBVIOUS
<1> DEFINE stored == setting.stored
<1>0. /\ server = setting.server /\ setting \in Settings
      /\ rows = UNION {RowsOf(place[1], place[2], stored.part) : place \in PlacesOf(stored)}
      /\ \A s \in Syncers : syncs[s].listing = {}
  BY DEF WatchInit, SyncInit, Init, AtRest
<1>1. ASSUME NEW row \in rows
      PROVE  \E place \in PlacesOf(stored) : \E uid \in UidsIn(server, place[2]) :
               row = RowAt(place[1], place[2], uid, stored.part)
  BY <1>0 DEF RowsOf
<1>2. ASSUME NEW place \in PlacesOf(stored)
      PROVE  \/ place[1] \in stored.roles /\ place[2] = Folder[place[1]]
             \/ place[1] = "archive" /\ place[2] \in stored.views
  BY DEF PlacesOf
<1>3. /\ stored.roles \subseteq Roles /\ stored.views \subseteq VirtualMailboxes
      /\ \A role \in Roles : Folder[role] \notin VirtualMailboxes
      /\ \A one, other \in stored.roles : Folder[one] = Folder[other] => one = other
  BY <1>0, MutationAssumption
<1>4. ASSUME NEW place \in PlacesOf(stored), NEW other \in PlacesOf(stored),
             place[2] = other[2]
      PROVE  place[1] = other[1]
  BY <1>2, <1>3, <1>4
<1>5. BoundOnce(rows)
  <2> SUFFICES ASSUME NEW row \in rows, NEW other \in rows, row.binding = other.binding
               PROVE  row.id = other.id
    BY DEF BoundOnce
  <2>1. PICK place \in PlacesOf(stored) : \E uid \in UidsIn(server, place[2]) :
          row = RowAt(place[1], place[2], uid, stored.part)
    BY <1>1
  <2>2. PICK uid \in UidsIn(server, place[2]) :
          row = RowAt(place[1], place[2], uid, stored.part)
    BY <2>1
  <2>3. PICK place2 \in PlacesOf(stored) : \E uid2 \in UidsIn(server, place2[2]) :
          other = RowAt(place2[1], place2[2], uid2, stored.part)
    BY <1>1
  <2>4. PICK uid2 \in UidsIn(server, place2[2]) :
          other = RowAt(place2[1], place2[2], uid2, stored.part)
    BY <2>3
  <2>5. row.binding = IdentityAt(place[2], uid) /\ other.binding = IdentityAt(place2[2], uid2)
    BY <2>2, <2>4 DEF RowAt
  <2>6. ASSUME NEW box, NEW at, IdentityAt(box, uid) = IdentityAt(at, uid2)
        PROVE  box = at /\ uid = uid2
    BY <2>6 DEF IdentityAt
  <2>7. QED
    BY <1>4, <2>2, <2>4, <2>5, <2>6
<1>6. ASSUME NEW row \in rows
      PROVE  /\ \/ row.id.identity.box = Folder[row.id.role]
                \/ row.id.role = "archive" /\ stored.views # {}
             /\ row.id.identity.validity = setting.server[row.id.identity.box].validity
  <2>1. PICK place \in PlacesOf(stored) : \E uid \in UidsIn(server, place[2]) :
          row = RowAt(place[1], place[2], uid, stored.part)
    BY <1>1
  <2>2. PICK uid \in UidsIn(server, place[2]) :
          row = RowAt(place[1], place[2], uid, stored.part)
    BY <2>1
  <2>3. row.id.role = place[1] /\ row.id.identity = IdentityAt(place[2], uid)
    BY <2>2 DEF RowAt, IngestId
  <2>4. QED
    BY <1>0, <1>2, <2>3 DEF IdentityAt
<1>7. QED
  BY <1>0, <1>5, <1>6 DEF KeysTold, IdsPlaced, ValiditiesKept, Current

\* Rows of one role whose keys are the same are one message.
LEMMA OneKey ==
  ASSUME RowsLinked, PlacesKept, KeysTold, KeysTellApart, Typed, NEW role,
         role # "archive" \/ setting.stored.views = {},
         NEW row \in rows, row.role = role, row.binding # NoBinding, AtOrigin(row),
         NEW other \in rows, other.role = role, other.binding # NoBinding,
         SameKey(SizeOf(other), SizeOf(row))
  PROVE  SizeOf(other) = SizeOf(row)
<1>1. /\ row.binding = row.id.identity /\ other.binding = other.id.identity
      /\ row.content = row.id.content /\ other.content = other.id.content
      /\ row.binding.validity = other.binding.validity
      /\ row.binding.uid = other.binding.uid
  BY DEF RowsLinked, Linked, SameKey, SizeOf
<1>2. /\ row.binding \in Identities /\ other.binding \in Identities
      /\ row.binding.box \in Mailboxes /\ other.binding.box \in Mailboxes
  BY DEF Typed, TypeOK, Rows, Identities
<1>3. row.binding.box = other.binding.box
  <2>1. CASE Moves
    BY <1>1, <1>2, <2>1 DEF KeysTellApart, KeysTold, ValiditiesKept
  <2>2. CASE ~Moves
    <3>1. AtOrigin(other)
      BY <2>2 DEF PlacesKept, InPlace
    <3>2. row.id.role = role /\ other.id.role = role
      BY <3>1 DEF AtOrigin
    <3>3. QED
      BY <1>1, <3>2 DEF KeysTold, IdsPlaced
  <2>3. QED
    BY <2>1, <2>2
<1>4. row.binding = other.binding
  BY <1>1, <1>2, <1>3 DEF Identities
<1>5. row.id = other.id
  BY <1>4 DEF KeysTold, BoundOnce
<1>6. QED
  BY <1>1, <1>4, <1>5 DEF SizeOf

\* Whatever map the role is read as, it has the size of a row that is where it was stored.
LEMMA SizeIsKept ==
  ASSUME RowsLinked, PlacesKept, KeysTold, KeysTellApart, Typed, NEW role,
         role # "archive" \/ setting.stored.views = {},
         NEW row \in rows, row.role = role, row.binding # NoBinding, AtOrigin(row),
         NEW sizes \in LocalSizesByRole(rows, role)
  PROVE  SizeOf(row) \in sizes
<1>1. SizeOf(row) \in SizesOf(rows, role)
  BY DEF SizesOf
<1>2. PICK kept \in sizes : {other \in sizes : SameKey(other, SizeOf(row))} = {kept}
  BY <1>1 DEF LocalSizesByRole
<1>3. SameKey(kept, SizeOf(row)) /\ kept \in SizesOf(rows, role)
  BY <1>2 DEF LocalSizesByRole
<1>4. PICK other \in rows :
        other.role = role /\ other.binding # NoBinding /\ kept = SizeOf(other)
  BY <1>3 DEF SizesOf
<1>5. QED
  BY <1>2, <1>3, <1>4, OneKey

-----------------------------------------------------------------------------
(* A watcher's sync is of the inbox, in the account's storage mode *)

OfInbox(st) == st.pc # "idle" => st.plan = <<"inbox">> /\ st.part \in setting.sync.parts

InboxesSynced == \A w \in Watchers : OfInbox(syncs[w])

LEMMA InboxStays ==
  ASSUME SyncsReady, NEW w \in Watchers, OfInbox(syncs[w]), setting' = setting,
         WatchStep(w) \/ WatchFails(w)
  PROVE  OfInbox(syncs'[w])
<1>0. /\ syncs \in [Syncers -> SyncStates] /\ w \in Syncers /\ syncs[w] \in SyncStates
  BY WatchAssumption DEF SyncsReady
<1>1. CASE Wake(w)
  <2>1. PICK part \in setting.sync.parts :
          syncs' = [syncs EXCEPT ![w].pc = "list", ![w].plan = <<"inbox">>,
                                 ![w].part = part, ![w].limit = NoLimit]
    BY <1>1 DEF Wake
  <2>2. syncs'[w].plan = <<"inbox">> /\ syncs'[w].part = part
    BY <1>0, <2>1 DEF SyncStates
  <2>3. QED
    BY <2>2 DEF OfInbox
<1>2. ASSUME NextFolder(w), ~SyncAt(w, "idle") PROVE syncs'[w].pc = "idle"
  <2>0. syncs[w].plan = <<"inbox">>
    BY <1>2 DEF OfInbox, SyncAt
  <2>1. Tail(syncs[w].plan) = <<>>
    BY <2>0
  <2>2. syncs' = [syncs EXCEPT ![w] = AtRest]
    BY <1>2, <2>1 DEF NextFolder
  <2>3. QED
    BY <1>0, <2>2 DEF AtRest
<1>3. CASE syncs'[w] = AtRest
  BY <1>3 DEF OfInbox, AtRest
<1>4. ASSUME ~SyncAt(w, "idle"), syncs'[w].plan = syncs[w].plan, syncs'[w].part = syncs[w].part
      PROVE  OfInbox(syncs'[w])
  BY <1>4 DEF OfInbox, SyncAt
<1>5. CASE ListFolder(w)
  <2>1. CASE UidsIn(server, Folder[Role(w)]) = {}
    BY <1>2, <1>5, <2>1 DEF ListFolder, OfInbox, SyncAt
  <2>2. CASE UidsIn(server, Folder[Role(w)]) # {}
    BY <1>0, <1>4, <1>5, <2>2 DEF ListFolder, SyncAt, SyncStates
  <2>3. QED
    BY <2>1, <2>2
<1>6. CASE FindMissing(w)
  <2>1. CASE Selected(w) = {}
    BY <1>2, <1>6, <2>1 DEF FindMissing, OfInbox, SyncAt
  <2>2. CASE Selected(w) # {}
    BY <1>0, <1>4, <1>6, <2>2 DEF FindMissing, SyncAt, SyncStates
  <2>3. QED
    BY <2>1, <2>2
<1>7. CASE Downloaded(w)
  BY <1>2, <1>7 DEF Downloaded, OfInbox, SyncAt
<1>8. CASE RefreshFlags(w) \/ ReadSizes(w) \/ ReadIndex(w)
  <2>1. CASE ReadSizes(w)
    <3>1. PICK sizes, scan : syncs' = [syncs EXCEPT ![w].pc = "index", ![w].sizes = sizes,
                                                    ![w].scan = scan]
      BY <2>1 DEF ReadSizes
    <3>2. syncs'[w].plan = syncs[w].plan /\ syncs'[w].part = syncs[w].part
      BY <1>0, <3>1 DEF SyncStates
    <3>3. QED
      BY <1>4, <2>1, <3>2 DEF ReadSizes, SyncAt
  <2>2. CASE RefreshFlags(w) \/ ReadIndex(w)
    BY <1>0, <1>4, <2>2 DEF RefreshFlags, ReadIndex, SyncAt, SyncStates
  <2>3. QED
    BY <1>8, <2>1, <2>2
<1>9. CASE \E uid \in syncs[w].missing : FetchMessage(w, uid)
  BY <1>0, <1>4, <1>9 DEF FetchMessage, SyncAt, SyncStates
<1>10. ASSUME NEW message \in syncs[w].fetched, StoreMessage(w, message)
       PROVE  OfInbox(syncs'[w])
  <2>1. CASE CanIngest(rows, StoredRow(w, message))
    BY <1>0, <1>4, <1>10, <2>1 DEF StoreMessage, SyncAt, SyncStates
  <2>2. CASE ~CanIngest(rows, StoredRow(w, message))
    BY <1>0, <1>3, <1>10, <2>2 DEF StoreMessage
  <2>3. QED
    BY <2>1, <2>2
<1>11. CASE Announce(w)
  BY <1>11 DEF Announce, allVars, OfInbox
<1>12. CASE WatchFails(w)
  BY <1>0, <1>3, <1>12 DEF WatchFails
<1>13. QED
  BY <1>1, <1>5, <1>6, <1>7, <1>8, <1>9, <1>10, <1>11, <1>12
  DEF WatchStep, WatchSyncs, WatchStores, WatchSynced

\* Who takes a step that changes what a watcher's sync is at.
LEMMA OwnSteps ==
  ASSUME SystemTyped, [WatchNext]_systemVars, NEW w \in Watchers
  PROVE  \/ syncs'[w] = syncs[w] /\ watches'[w] = watches[w] /\ announced'[w] = announced[w]
         \/ WatchStep(w) \/ WatchFails(w)
<1>0. /\ Typed /\ SyncsReady /\ Paired /\ w \in Syncers
      /\ watches \in [Watchers -> WatchStates] /\ syncs \in [Syncers -> SyncStates]
      /\ announced \in [Watchers -> SUBSET Entries]
  BY WatchAssumption DEF SystemTyped, WatchesTyped, SyncsReady
<1>1. ASSUME NEW s \in Syncers \ Watchers, SyncStep(s) \/ SyncFails(s) PROVE syncs'[w] = syncs[w]
  BY <1>0, <1>1, SyncStepKinds, OthersKeepTheirs
<1>2. ASSUME NEW other \in Watchers \ {w}, WatchStep(other) \/ WatchFails(other)
      PROVE  watches'[w] = watches[w] /\ announced'[w] = announced[w]
  BY <1>0, <1>2
  DEF WatchStep, Wake, WatchSyncs, WatchStores, WatchSynced, Announce, WatchFails, watchVars
<1>3. ASSUME NEW other \in Watchers \ {w}, WatchStep(other) \/ WatchFails(other)
      PROVE  syncs'[w] = syncs[w]
  <2>1. other \in Syncers /\ other # w
    BY <1>3, WatchAssumption
  <2>2. CASE Wake(other) \/ WatchFails(other)
    BY <1>0, <2>1, <2>2 DEF Wake, WatchFails
  <2>3. CASE Announce(other)
    BY <2>3 DEF Announce, allVars
  <2>4. CASE WatchSyncs(other) \/ WatchStores(other) \/ WatchSynced(other)
    <3>1. SyncStep(other)
      BY <2>4 DEF WatchSyncs, WatchStores, WatchSynced, SyncStep
    <3>2. QED
      BY <1>0, <2>1, <3>1, SyncStepKinds, OthersKeepTheirs
  <2>5. QED
    BY <1>3, <2>2, <2>3, <2>4 DEF WatchStep
<1>4. QED
  BY <1>1, <1>2, <1>3 DEF WatchNext, watchVars, Deliver, systemVars, allVars

LEMMA InboxesStep ==
  ASSUME SystemTyped, InboxesSynced, [WatchNext]_systemVars
  PROVE  InboxesSynced'
<1>0. SyncsReady /\ setting' = setting
  BY SettingStays DEF SystemTyped, WatchesTyped
<1>1. ASSUME NEW w \in Watchers PROVE OfInbox(syncs'[w])
  <2>1. OfInbox(syncs[w])
    BY DEF InboxesSynced
  <2>2. QED
    BY <1>0, <2>1, OwnSteps, InboxStays
<1>2. QED
  BY <1>0, <1>1 DEF InboxesSynced, OfInbox

-----------------------------------------------------------------------------
(* What a watcher has stored stays in the archive, and none of its later    *)
(* syncs fetches it                                                         *)

RowId(entry) ==
  [role |-> "inbox", content |-> [mail |-> entry.mail, part |-> "full"],
   identity |-> entry.identity]

\* The watcher's entries are rows, whose identity denotes their message still.
Recorded(archive, entries) == \A entry \in entries : HasRow(archive, RowId(entry))

\* A row that a move has relabelled: its message has left, and no UID is new.
Left(state, entry) ==
  Moves /\ ~Enabled("renumber") /\ Gone(state, entry.identity)

EntryKey(entry) ==
  [validity |-> entry.identity.validity, uid |-> entry.identity.uid,
   size |-> Size[entry.mail]]

(* A sync that lists the entry's place lists the entry's message, finds its *)
(* size key unless the message has left, and does not get it again.         *)
Informed(state, st, entry) ==
  /\ \A listed \in st.listing :
       entry.identity = Ident(st, listed.uid) => listed.mail = entry.mail
  /\ st.pc \in {"index", "find"} => Left(state, entry) \/ EntryKey(entry) \in st.sizes
  /\ st.pc = "download" =>
       \A uid \in st.missing : entry.identity = Ident(st, uid) => Left(state, entry)
  /\ \A message \in st.fetched : entry.identity # Ident(st, message.uid)

\* What was fetched is what the account's storage mode says.
InPart(st) == \A message \in st.fetched : message.content.part = st.part

Knows(archive, state, st, stored, told) ==
  /\ Recorded(archive, told \union stored)
  /\ InPart(st)
  /\ ~Enabled("renumber") => Current(state, st)
  /\ \A old \in told :
       /\ Informed(state, st, old)
       /\ \A entry \in stored : entry.identity # old.identity

NothingTwice ==
  Recognised =>
    \A w \in Watchers :
      Knows(rows, server, syncs[w], watches[w].stored, announced[w])

LEMMA EntryDenotes ==
  ASSUME RowsLinked, NEW entry, HasRow(rows, RowId(entry))
  PROVE  Denotes(server, entry.identity, entry.mail)
<1>1. PICK row \in rows : row.id = RowId(entry)
  BY DEF HasRow
<1>2. row.content.mail = entry.mail /\ row.id.identity = entry.identity
  BY <1>1 DEF RowsLinked, Linked, RowId
<1>3. QED
  BY <1>2 DEF RowsLinked, Linked

LEMMA EntryTyped ==
  ASSUME NEW entry \in Entries
  PROVE  entry.identity \in Identities
  BY DEF Entries, Identities, Uids

LEMMA RecordedStays ==
  ASSUME SystemTyped, SyncsReliable, RowsLinked, Spared, ~Expunges,
         [WatchNext]_systemVars, NEW entries, Recorded(rows, entries)
  PROVE  Recorded(rows', entries)
<1>1. ASSUME NEW entry \in entries PROVE HasRow(rows', RowId(entry))
  <2>1. PICK row \in rows : row.id = RowId(entry)
    BY DEF Recorded, HasRow
  <2>2. PICK new \in rows' : SameMessage(row, new)
    BY RowsOutlive
  <2>3. QED
    BY <2>1, <2>2 DEF SameMessage, HasRow
<1>2. QED
  BY <1>1 DEF Recorded

LEMMA InformedStays ==
  ASSUME NEW before, WellNumbered(before), NEW after, WellNumbered(after),
         Continues(before, after), NEW entry \in Entries,
         Denotes(before, entry.identity, entry.mail),
         NEW st, Informed(before, st, entry)
  PROVE  Informed(after, st, entry)
<1>1. Left(before, entry) => Left(after, entry)
  BY EntryTyped, GoneStays DEF Left
<1>2. QED
  BY <1>1 DEF Informed

LEMMA FreshInformed ==
  ASSUME NEW st, Starts(st), NEW state, NEW entry
  PROVE  Informed(state, st, entry)
  BY DEF Starts, Fresh, Informed

\* The size key of a row that is where it was stored is read.
LEMMA KeyIsRead ==
  ASSUME RowsLinked, PlacesKept, KeysTold, KeysTellApart, Typed,
         NEW entry, entry.identity \in Identities, NEW row \in rows, row.id = RowId(entry),
         row.content = row.id.content, AtOrigin(row),
         NEW sizes \in LocalSizesByRole(rows, "inbox")
  PROVE  EntryKey(entry) \in sizes
<1>1. /\ row.role = "inbox" /\ row.binding = entry.identity
      /\ row.content = [mail |-> entry.mail, part |-> "full"]
  BY DEF AtOrigin, RowId
<1>2. row.binding # NoBinding
  BY <1>1, MutationAssumption
<1>3. SizeOf(row) = EntryKey(entry)
  BY <1>1 DEF BlobSize, SizeOf, EntryKey
<1>4. QED
  BY <1>1, <1>2, <1>3, SizeIsKept

\* A message that was read is where it was stored, or it has left.
LEMMA ReadsKey ==
  ASSUME RowsLinked, PlacesKept, KeysTold, Recognised, Typed, NEW entry \in Entries,
         HasRow(rows, RowId(entry)), NEW sizes \in LocalSizesByRole(rows, "inbox")
  PROVE  Left(server, entry) \/ EntryKey(entry) \in sizes
<1>1. PICK row \in rows : row.id = RowId(entry)
  BY DEF HasRow
<1>2. row.content = row.id.content /\ row.id.identity = entry.identity
  BY <1>1 DEF RowsLinked, Linked, RowId
<1>3. CASE AtOrigin(row)
  BY <1>1, <1>2, <1>3, EntryTyped, KeyIsRead DEF Recognised
<1>4. CASE Moves /\ Gone(server, row.id.identity)
  BY <1>2, <1>4 DEF Left, Recognised, KeysTellApart
<1>5. QED
  BY <1>3, <1>4 DEF PlacesKept, InPlace

\* A message that was not lacked is not to be fetched.
LEMMA FoundIsLeft ==
  ASSUME NEW s \in Syncers, SyncAt(s, "find"), NEW entry, Informed(server, syncs[s], entry),
         NEW uid \in Selected(s), entry.identity = Ident(syncs[s], uid)
  PROVE  Left(server, entry)
<1>1. PICK listed \in syncs[s].listing : listed.uid = uid /\ Lacks(s, listed)
  BY DEF Selected, Truncate
<1>2. listed.mail = entry.mail
  BY <1>1 DEF Informed
<1>3. EntryKey(entry) = [validity |-> syncs[s].validity, uid |-> listed.uid,
                         size |-> Size[listed.mail]]
  BY <1>1, <1>2 DEF EntryKey, Ident
<1>4. EntryKey(entry) \notin syncs[s].sizes
  BY <1>1, <1>3 DEF Lacks, SizeMatches
<1>5. QED
  BY <1>4 DEF Informed, SyncAt

\* A message that has left is not there when its UID is fetched.
LEMMA LeftIsNotFetched ==
  ASSUME SyncsReady, NEW s \in Syncers, SyncAt(s, "download"), NEW entry,
         Informed(server, syncs[s], entry),
         ~Enabled("renumber") => Current(server, syncs[s]),
         NEW uid \in syncs[s].missing, entry.identity = Ident(syncs[s], uid)
  PROVE  ~Present(server, Folder[Role(s)], uid)
<1>1. Left(server, entry)
  BY DEF Informed, SyncAt
<1>2. syncs[s].listing # {}
  BY DEF SyncsReady, Ready, Uid
<1>3. QED
  BY <1>1, <1>2 DEF Left, Gone, Current, Ident, Role

LEMMA BecomingInformed ==
  ASSUME SyncsReady, RowsLinked, PlacesKept, KeysTold, Recognised, Typed,
         NEW w \in Watchers, w \in Syncers,
         OfInbox(syncs[w]), ~Enabled("renumber") => Current(server, syncs[w]),
         NEW entry \in Entries, HasRow(rows, RowId(entry)),
         Informed(server, syncs[w], entry),
         NEW new, Ready(new), Becoming(w, new)
  PROVE  Informed(server, new, entry)
<1>1. CASE Starts(new)
  BY <1>1, FreshInformed
<1>2. CASE HasListed(w, new)
  <2>1. ASSUME NEW listed \in new.listing, entry.identity = Ident(new, listed.uid)
        PROVE  listed.mail = entry.mail
    <3> DEFINE box == Folder[Role(w)]
    <3>1. /\ Present(server, box, listed.uid)
          /\ listed.mail = server[box].msgs[listed.uid].mail
      BY <1>2, <2>1 DEF HasListed, Listing, UidsIn
    <3>2. entry.identity = [box |-> box, validity |-> server[box].validity,
                            uid |-> listed.uid]
      BY <1>2, <2>1 DEF HasListed, Ident, Role
    <3>3. QED
      BY <3>1, <3>2, EntryDenotes DEF Denotes
  <2>2. QED
    BY <1>2, <2>1 DEF HasListed, Informed
<1>3. CASE GoesOnTo(w, new)
  <2>1. /\ new.listing = syncs[w].listing
        /\ \A uid : Ident(new, uid) = Ident(syncs[w], uid)
    BY <1>3 DEF GoesOnTo, SameFolder, Ident
  <2>2. CASE HasRefreshed(w, new)
    BY <2>1, <2>2 DEF HasRefreshed, SameFetched, Informed
  <2>3. CASE HasRead(w, new)
    <3>1. Left(server, entry) \/ EntryKey(entry) \in new.sizes
      <4>1. CASE SyncAt(w, "index") /\ new.sizes = syncs[w].sizes
        BY <4>1 DEF Informed, SyncAt
      <4>2. CASE SyncAt(w, "sizes") /\ new.sizes \in LocalSizesByRole(rows, Role(w))
        <5>1. Role(w) = "inbox"
          <6>1. syncs[w].plan = <<"inbox">>
            BY <4>2 DEF OfInbox, SyncAt
          <6>2. QED
            BY <6>1 DEF Role
        <5>2. QED
          BY <4>2, <5>1, ReadsKey
      <4>3. QED
        BY <2>3, <4>1, <4>2 DEF HasRead
    <3>2. new.pc # "download"
      BY <2>3 DEF HasRead
    <3>3. QED
      BY <2>1, <2>3, <3>1, <3>2 DEF HasRead, SameFetched, Informed
  <2>4. CASE HasFound(w, new)
    BY <2>1, <2>4, FoundIsLeft DEF HasFound, SameFetched, Informed
  <2>5. ASSUME NEW uid \in syncs[w].missing, HasFetched(w, new, uid)
        PROVE  Informed(server, new, entry)
    <3>1. /\ SyncAt(w, "download") /\ new.missing \subseteq syncs[w].missing
          /\ new.pc = "download"
      BY <2>5 DEF HasFetched
    <3>2. ASSUME NEW message \in new.fetched
          PROVE  entry.identity # Ident(syncs[w], message.uid)
      <4>1. CASE message \in syncs[w].fetched
        BY <4>1 DEF Informed
      <4>2. CASE message \notin syncs[w].fetched
        <5>1. Present(server, Folder[Role(w)], uid) /\ message.uid = uid
          BY <2>5, <3>2, <4>2 DEF HasFetched, Gotten
        <5>2. QED
          BY <2>5, <3>1, <5>1, LeftIsNotFetched
      <4>3. QED
        BY <4>1, <4>2
    <3>3. QED
      BY <2>1, <3>1, <3>2 DEF Informed, SyncAt
  <2>6. ASSUME NEW message \in syncs[w].fetched, HasStored(w, new, message)
        PROVE  Informed(server, new, entry)
    BY <2>1, <2>6 DEF HasStored, Informed, SyncAt
  <2>7. QED
    BY <1>3, <2>2, <2>3, <2>4, <2>5, <2>6 DEF GoesOnTo
<1>4. QED
  BY <1>1, <1>2, <1>3 DEF Becoming

\* What a worker gets is stored in the part that the sync began with.
LEMMA BecomingInPart ==
  ASSUME NEW s \in Syncers, InPart(syncs[s]), NEW new, Becoming(s, new)
  PROVE  InPart(new)
<1>1. CASE Starts(new) \/ HasListed(s, new)
  BY <1>1 DEF Starts, Fresh, HasListed, InPart
<1>2. CASE GoesOnTo(s, new)
  <2>1. \A uid : Gotten(s, uid).content.part = syncs[s].part
    BY DEF Gotten
  <2>2. new.part = syncs[s].part
    BY <1>2 DEF GoesOnTo, SameFolder
  <2>3. ASSUME NEW message \in new.fetched
        PROVE  message \in syncs[s].fetched \/ \E uid : message = Gotten(s, uid)
    BY <1>2, <2>3
    DEF GoesOnTo, HasRefreshed, HasRead, HasFound, HasFetched, HasStored, SameFetched
  <2>4. QED
    BY <2>1, <2>2, <2>3 DEF InPart
<1>3. QED
  BY <1>1, <1>2 DEF Becoming

\* What a watcher stores is a row, and none of the messages it has announced.
LEMMA StoresEntry ==
  ASSUME SystemTyped, SyncsReliable, Recognised, NEW w \in Watchers, OfInbox(syncs[w]),
         InPart(syncs[w]), NEW message \in syncs[w].fetched, StoreMessage(w, message),
         CanIngest(rows, StoredRow(w, message))
  PROVE  LET entry == [identity |-> ListedIdentity(w, message.uid),
                       mail |-> message.content.mail] IN
         /\ HasRow(rows', RowId(entry))
         /\ \A old : Informed(server, syncs[w], old) => entry.identity # old.identity
<1> DEFINE entry == [identity |-> ListedIdentity(w, message.uid),
                     mail |-> message.content.mail]
<1>0. /\ w \in Syncers /\ SyncsReady /\ ~SyncAt(w, "idle") /\ SyncAt(w, "download")
  BY WatchAssumption DEF SystemTyped, StoreMessage, SyncAt
<1>1. syncs[w].plan = <<"inbox">> /\ syncs[w].part = "full"
  BY <1>0 DEF OfInbox, SyncAt, Recognised
<1>2. Role(w) = "inbox"
  BY <1>1 DEF Role
<1>3. message.content = [mail |-> message.content.mail, part |-> "full"]
  BY <1>0, <1>1, StoredRowTyped DEF InPart, Contents
<1>4. StoredRow(w, message).id = RowId(entry)
  BY <1>2, <1>3 DEF StoredRow, IngestId, RowId
<1>5. StoredRow(w, message) \in rows'
  BY DEF StoreMessage, Ingest
<1>6. ASSUME NEW old, Informed(server, syncs[w], old) PROVE entry.identity # old.identity
  <2>1. entry.identity = Ident(syncs[w], message.uid)
    BY DEF ListedIdentity, Ident, Role
  <2>2. QED
    BY <1>6, <2>1 DEF Informed
<1>7. QED
  BY <1>4, <1>5, <1>6 DEF HasRow

LEMMA KnowsStep ==
  ASSUME SystemTyped, SystemTyped', SyncsReliable, RowsLinked, Spared, PlacesKept,
         KeysTold, InboxesSynced, Recognised, [WatchNext]_systemVars, NEW w \in Watchers,
         Knows(rows, server, syncs[w], watches[w].stored, announced[w])
  PROVE  Knows(rows', server', syncs'[w], watches'[w].stored, announced'[w])
<1> DEFINE old == syncs[w]
           stored == watches[w].stored
           told == announced[w]
<1>0. /\ Typed /\ SyncsReady /\ Paired /\ w \in Syncers /\ Ready(old) /\ OfInbox(old)
      /\ WellNumbered(server) /\ WellNumbered(server') /\ Continues(server, server')
      /\ syncs \in [Syncers -> SyncStates] /\ watches \in [Watchers -> WatchStates]
      /\ announced \in [Watchers -> SUBSET Entries] /\ told \subseteq Entries
      /\ ~Expunges
  <2>1. Typed /\ SyncsReady /\ Paired /\ w \in Syncers
    BY WatchAssumption DEF SystemTyped, WatchesTyped
  <2>2. QED
    BY <2>1, MailboxesContinue
    DEF SystemTyped, WatchesTyped, SyncsReady, InboxesSynced, Recognised
<1>1. /\ Recorded(rows, told \union stored) /\ Recorded(rows', told \union stored)
      /\ \A entry \in told : /\ HasRow(rows, RowId(entry))
                             /\ Denotes(server, entry.identity, entry.mail)
  <2>1. Recorded(rows, told \union stored)
    BY DEF Knows
  <2>2. QED
    BY <1>0, <2>1, RecordedStays, EntryDenotes DEF Recorded
<1>2. ASSUME NEW st, Ready(st), InPart(st), ~Enabled("renumber") => Current(server, st),
             \A entry \in told : Informed(server, st, entry)
      PROVE  /\ InPart(st)
             /\ ~Enabled("renumber") => Current(server', st)
             /\ \A entry \in told : Informed(server', st, entry)
  BY <1>0, <1>1, <1>2, CurrentStays, InformedStays
<1>3. CASE /\ syncs'[w] = syncs[w] /\ watches'[w] = watches[w]
           /\ announced'[w] = announced[w]
  BY <1>0, <1>1, <1>2, <1>3 DEF Knows
<1>4. CASE Announce(w)
  <2>1. /\ syncs'[w] = old /\ announced'[w] = told \union stored
        /\ watches'[w].stored = {} /\ SyncAt(w, "idle")
    BY <1>0, <1>4
    DEF Announce, allVars, EventEntries, Waiting, Paired, WatchAt, WatchStates
  <2>2. \A entry : Informed(server', old, entry)
    BY <1>0, <2>1, FreshInformed DEF Ready, Starts, SyncAt
  <2>3. InPart(old) /\ (~Enabled("renumber") => Current(server', old))
    BY <1>0, <1>2 DEF Knows
  <2>4. QED
    BY <1>1, <2>1, <2>2, <2>3 DEF Knows
<1>5. CASE /\ WatchStep(w) \/ WatchFails(w)
           /\ ~Announce(w)
           /\ Reads(w) \/ Writes(w)
  <2>1. PICK new : Turns(w, new) /\ Ready(new) /\ Becoming(w, new)
    BY <1>0, <1>5, ReadsTurn, WritesTurn
  <2>2. syncs'[w] = new /\ server' = server
    BY <1>0, <1>5, <2>1 DEF Turns, Reads, Writes, RefreshFlags, StoreMessage, vars
  <2>3. /\ InPart(new)
        /\ ~Enabled("renumber") => Current(server', new)
        /\ \A entry \in told : Informed(server', new, entry)
    <3>1. InPart(new)
      BY <1>0, <2>1, BecomingInPart DEF Knows
    <3>2. ~Enabled("renumber") => Current(server', new)
      BY <1>0, <2>1, <2>2, BecomingCurrent DEF Knows
    <3>3. ASSUME NEW entry \in told PROVE Informed(server', new, entry)
      BY <1>0, <1>1, <2>1, <2>2, BecomingInformed DEF Knows
    <3>4. QED
      BY <3>1, <3>2, <3>3
  <2>4. CASE announced'[w] = told /\ watches'[w].stored \subseteq stored
    BY <1>1, <2>2, <2>3, <2>4 DEF Knows, Recorded
  <2>5. ASSUME NEW message \in syncs[w].fetched, StoreMessage(w, message),
               CanIngest(rows, StoredRow(w, message)), announced'[w] = told,
               watches'[w].stored = stored \union
                 {[identity |-> ListedIdentity(w, message.uid),
                   mail |-> message.content.mail]}
        PROVE  Knows(rows', server', syncs'[w], watches'[w].stored, announced'[w])
    <3>1. PICK entry : entry = [identity |-> ListedIdentity(w, message.uid),
                                mail |-> message.content.mail]
      OBVIOUS
    <3>2. /\ HasRow(rows', RowId(entry))
          /\ \A other \in told : entry.identity # other.identity
      BY <1>0, <2>5, <3>1, StoresEntry DEF Knows
    <3>3. Recorded(rows', told \union (stored \union {entry}))
      BY <1>1, <3>2 DEF Recorded
    <3>4. QED
      BY <2>2, <2>3, <2>5, <3>1, <3>2, <3>3 DEF Knows
  <2>6. CASE WatchStores(w)
    <3>1. PICK message \in syncs[w].fetched :
            /\ StoreMessage(w, message)
            /\ watches' = IF CanIngest(rows, StoredRow(w, message))
                          THEN [watches EXCEPT
                                  ![w].stored = @ \union
                                    {[identity |-> ListedIdentity(w, message.uid),
                                      mail |-> message.content.mail]}]
                          ELSE [watches EXCEPT ![w] = Waiting]
      BY <2>6 DEF WatchStores
    <3>2. announced'[w] = told
      BY <2>6 DEF WatchStores
    <3>3. CASE CanIngest(rows, StoredRow(w, message))
      <4>1. watches'[w].stored = stored \union
              {[identity |-> ListedIdentity(w, message.uid), mail |-> message.content.mail]}
        BY <1>0, <3>1, <3>3 DEF WatchStates
      <4>2. QED
        BY <2>5, <3>1, <3>2, <3>3, <4>1
    <3>4. CASE ~CanIngest(rows, StoredRow(w, message))
      BY <1>0, <2>4, <3>1, <3>2, <3>4 DEF Waiting
    <3>5. QED
      BY <3>3, <3>4
  <2>7. CASE Wake(w) \/ WatchSyncs(w) \/ WatchSynced(w) \/ WatchFails(w)
    <3>1. announced' = announced
      BY <2>7 DEF Wake, WatchSyncs, WatchSynced, WatchFails, watchVars
    <3>2. watches'[w].stored \subseteq stored
      <4>1. CASE Wake(w)
        BY <1>0, <4>1 DEF Wake, WatchStates
      <4>2. CASE WatchSyncs(w)
        BY <4>2 DEF WatchSyncs, watchVars
      <4>3. CASE WatchFails(w)
        BY <1>0, <4>3 DEF WatchFails, Waiting
      <4>4. CASE WatchSynced(w)
        <5>1. watches'[w] = IF stored = {} THEN Waiting
                            ELSE [watches[w] EXCEPT !.pc = "announce"]
          BY <1>0, <4>4 DEF WatchSynced
        <5>2. QED
          BY <1>0, <5>1 DEF WatchStates, Waiting
      <4>5. QED
        BY <2>7, <4>1, <4>2, <4>3, <4>4
    <3>3. QED
      BY <2>4, <3>1, <3>2
  <2>8. QED
    BY <1>5, <2>6, <2>7 DEF WatchStep
<1>6. QED
  BY <1>0, <1>3, <1>4, <1>5, OwnSteps, WatchStepKinds

LEMMA TwiceStep ==
  ASSUME SystemTyped, SystemTyped', SyncsReliable, RowsLinked, Spared, PlacesKept,
         KeysTold, InboxesSynced, NothingTwice, [WatchNext]_systemVars
  PROVE  NothingTwice'
<1>1. setting' = setting
  BY SettingStays DEF SystemTyped, WatchesTyped
<1>2. ASSUME Recognised, NEW w \in Watchers
      PROVE  Knows(rows', server', syncs'[w], watches'[w].stored, announced'[w])
  BY <1>2, KnowsStep DEF NothingTwice
<1>3. Recognised' = Recognised
  BY <1>1 DEF Recognised, KeysTellApart, Expunges, Moves, Enabled
<1>4. QED
  BY <1>1, <1>2, <1>3
  DEF NothingTwice, Knows, Recorded, HasRow, RowId, InPart, Current, Informed, Left, Moves,
      Enabled, Gone, Ident, EntryKey

SystemOnce ==
  SystemThorough /\ PlacesKept /\ KeysTold /\ InboxesSynced /\ NothingTwice

LEMMA SystemOnceInit == WatchInit => SystemOnce
<1> SUFFICES ASSUME WatchInit PROVE SystemOnce
  OBVIOUS
<1>1. InboxesSynced
  BY WatchAssumption DEF WatchInit, SyncInit, InboxesSynced, OfInbox, AtRest
<1>2. NothingTwice
  BY WatchAssumption
  DEF WatchInit, SyncInit, NothingTwice, Knows, Recorded, InPart, Current, AtRest, Waiting
<1>3. QED
  BY <1>1, <1>2, SystemThoroughInit, PlacesInit, KeysInit DEF SystemOnce

LEMMA SystemOnceNext == SystemOnce /\ [WatchNext]_systemVars => SystemOnce'
<1> SUFFICES ASSUME SystemOnce, [WatchNext]_systemVars PROVE SystemOnce'
  OBVIOUS
<1>1. /\ SystemThorough /\ SystemThorough'
      /\ SystemTyped /\ SystemTyped' /\ SyncsReliable /\ HandlesInv
      /\ RowsLinked /\ RowsLinked' /\ Spared
  BY SystemThoroughNext DEF SystemOnce, SystemThorough, SystemHandles
<1>2. QED
  BY <1>1, PlacesStep, KeysStep, InboxesStep, TwiceStep DEF SystemOnce

(* A watcher announces no message twice under the same event id, though     *)
(* other watchers, syncs, mutations and mail clients work on the inbox and  *)
(* the rows between the listing, the reads of the archive, the fetches and  *)
(* the event: what it has announced is a row, and a later sync reads its    *)
(* size key, or finds its UID empty (find_missing, download_missing,        *)
(* event_from_result).  Recognised says what is left out.                   *)
THEOREM NothingIsAnnouncedTwice == WatchSpec => AnnouncedOnce
<1>1. SystemOnce =>
        [\A w \in Watchers :
           Announce(w) /\ Recognised =>
             \A entry \in watches[w].stored, old \in announced[w] :
               entry.identity # old.identity]_systemVars
  BY DEF SystemOnce, NothingTwice, Knows
<1>2. QED
  BY <1>1, SystemOnceInit, SystemOnceNext, PTL DEF WatchSpec, AnnouncedOnce

-----------------------------------------------------------------------------
(* Beside one sync that stores full messages, and with one mutator and no   *)
(* other client: who takes a step, and which messages it may reach          *)

\* The premise of PlaceIsTrueOrUnsettled.
Quietly == Undisturbed /\ OneSync /\ KeysTellApart

\* A step that is no mutation's.
Apart == UNCHANGED <<setting, audit, synced, mutators, runs>>

LEMMA WhoSteps ==
  ASSUME SystemTyped, [WatchNext]_systemVars
  PROVE  \/ [Next]_vars /\ UNCHANGED syncs
         \/ Apart /\ UNCHANGED server /\ \E s \in Syncers : Reads(s) \/ Writes(s)
         \/ /\ Apart /\ UNCHANGED <<rows, syncs>>
            /\ \E mail \in Mails : Deliver("INBOX", mail)
<1>1. ASSUME NEW s \in Syncers, Reads(s) \/ Writes(s) PROVE Apart /\ UNCHANGED server
  BY <1>1 DEF Reads, Writes, RefreshFlags, StoreMessage, Apart, vars
<1>2. ASSUME NEW mail, Deliver("INBOX", mail) PROVE Apart /\ UNCHANGED <<rows, syncs>>
  BY <1>2 DEF Deliver, Apart
<1>3. QED
  BY <1>1, <1>2, StepKinds DEF SystemTyped, WatchesTyped

\* A run was approved for good on another row of the message.
OtherApproved(id) ==
  \E i \in 1..synced : /\ audit[i].status = "approved" /\ audit[i].handle # id
                       /\ audit[i].handle.content.mail = id.content.mail

LEMMA RecordsStay ==
  ASSUME Typed, [Next]_vars, NEW i \in 1..synced
  PROVE  i \in 1..synced' /\ audit'[i] = audit[i]
<1>0. audit \in Seq(AuditRecords) /\ synced \in 0..Len(audit)
  BY DEF Typed, TypeOK
<1>1. ASSUME NEW record \in AuditRecords, Appends(record)
      PROVE  i \in 1..synced' /\ audit'[i] = audit[i]
  <2>1. Len(audit') = Len(audit) + 1 /\ audit'[i] = audit[i]
    BY <1>0, <1>1 DEF Appends
  <2>2. QED
    BY <1>0, <1>1, <2>1 DEF Appends
<1>2. CASE PowerLoss
  <2>1. PICK n \in synced..Len(audit) : audit' = SubSeq(audit, 1, n)
    BY <1>2 DEF PowerLoss
  <2>2. audit'[i] = audit[i]
    BY <1>0, <2>1
  <2>3. QED
    BY <1>2, <2>2 DEF PowerLoss
<1>3. QED
  BY <1>1, <1>2, AuditStep

LEMMA OtherApprovedStays ==
  ASSUME SystemTyped, [WatchNext]_systemVars, NEW id, OtherApproved(id)
  PROVE  OtherApproved(id)'
<1>1. CASE [Next]_vars
  BY <1>1, RecordsStay DEF SystemTyped, OtherApproved
<1>2. CASE Apart
  BY <1>2 DEF Apart, OtherApproved
<1>3. QED
  BY <1>1, <1>2, WhoSteps

\* What is at work has its approval in the audit file, for its own row.
OwnRuns ==
  /\ RunsNumbered
  /\ \A m \in Mutators : ~At(m, "idle") => RunIsOpen(mutators[m])

LEMMA OwnRunsStep ==
  ASSUME SystemTyped, Undisturbed, OwnRuns, [WatchNext]_systemVars
  PROVE  OwnRuns'
<1>1. CASE [Next]_vars
  BY <1>1, RunsStep, RunIsOpenStep DEF SystemTyped, OwnRuns, At
<1>2. CASE Apart
  BY <1>2 DEF Apart, OwnRuns, RunsNumbered, RunIsOpen, OpenRun, At
<1>3. QED
  BY <1>1, <1>2, WhoSteps

\* The premises of every step of the invariant.
AtPlace ==
  /\ SystemHandles /\ RowsLinked /\ Quietly /\ OwnRuns /\ [WatchNext]_systemVars

\* The copies of the message stay where they are, as they are.
StaysThere(mail) ==
  \A box \in Mailboxes, uid \in Uids :
    Present(server, box, uid) /\ server[box].msgs[uid].mail = mail =>
      server'[box].msgs[uid] = server[box].msgs[uid]

\* Only a mutation of a row reaches its message, if no other row's run was approved.
LEMMA WhoReaches ==
  ASSUME AtPlace, NEW id, ~OtherApproved(id)
  PROVE  \/ StaysThere(id.content.mail)
         \/ \E m \in Mutators : /\ RemoteStep(m) /\ mutators[m].pc \in CommandPcs
                                /\ mutators[m].entry.id = id
<1>0. /\ SystemTyped /\ Typed /\ HandlesInv /\ Undisturbed /\ WellNumbered(server)
      /\ setting.mutators \subseteq Mutators
  BY SettingTyped DEF AtPlace, SystemHandles, SystemTyped, Quietly
<1>1. CASE UNCHANGED server
  BY <1>1 DEF StaysThere
<1>2. ASSUME NEW m \in setting.mutators, RemoteStep(m), server' # server
      PROVE  \/ StaysThere(id.content.mail)
             \/ mutators[m].entry.id = id /\ mutators[m].pc \in CommandPcs
  <2>0. PICK entry : entry = mutators[m].entry
    OBVIOUS
  <2>1. /\ m \in Mutators /\ ~At(m, "idle") /\ mutators[m].pc \in CommandPcs
        /\ OnlyTouches(entry.content.mail, server, server')
    BY <1>0, <1>2, <2>0, RemoteStepIs, TouchesDenoted
  <2>2. entry.content = entry.id.content
    BY <1>0, <2>0, <2>1 DEF HandlesInv, HoldsTrueRow, RowTrue
  <2>3. RunIsOpen(mutators[m]) /\ mutators[m].pc # "approve"
    BY <2>1 DEF AtPlace, OwnRuns, CommandPcs, MovePcs
  <2>4. PICK i \in 1..synced : audit[i].handle = entry.id /\ audit[i].status = "approved"
    BY <2>0, <2>3 DEF RunIsOpen, OpenRun
  <2>5. CASE entry.content.mail = id.content.mail
    BY <2>0, <2>1, <2>2, <2>4, <2>5 DEF OtherApproved
  <2>6. CASE entry.content.mail # id.content.mail
    BY <2>1, <2>6 DEF OnlyTouches, StaysThere
  <2>7. QED
    BY <2>5, <2>6
<1>3. ASSUME NEW mail \in Mails, Deliver("INBOX", mail) PROVE StaysThere(id.content.mail)
  <2> DEFINE message == [mail |-> mail, seen |-> FALSE, flagged |-> FALSE,
                         deleted |-> FALSE]
  <2>1. message \in Messages
    BY DEF Messages
  <2>2. HasRoom(server, "INBOX") /\ server' = Deposit(server, "INBOX", message)
    BY <1>3 DEF Deliver
  <2> HIDE DEF message
  <2>3. LeavesOthers(server, server', "INBOX", 0)
    BY <1>0, <2>1, <2>2, DepositLeaves, WatchAssumption
  <2>4. QED
    BY <2>3 DEF LeavesOthers, StaysThere, Uids
<1>4. QED
  BY <1>0, <1>1, <1>2, <1>3, WhoSteps, WhoChanges, Quiet DEF AtPlace

LEMMA BoxesStay ==
  ASSUME AtPlace, NEW box \in Mailboxes
  PROVE  server'[box].validity = server[box].validity
<1>1. Typed /\ Paired /\ ~Enabled("renumber")
  BY DEF AtPlace, SystemHandles, SystemTyped, WatchesTyped, Quietly, Undisturbed, Alone,
         Enabled, OtherClients
<1>2. QED
  BY <1>1, ValiditiesStay DEF AtPlace

\* The row's folder has its message, and so does the place it is bound to.
Held(row) ==
  InItsFolder(row) /\ (row.binding # NoBinding => ~Gone(server, row.binding))

\* The place holds the message, if it holds any.
LEMMA PlaceHolds ==
  ASSUME NEW state, NEW identity, NEW mail, Denotes(state, identity, mail),
         ~Gone(state, identity)
  PROVE  /\ identity.validity = state[identity.box].validity
         /\ Present(state, identity.box, identity.uid)
         /\ state[identity.box].msgs[identity.uid].mail = mail
BY DEF Denotes, Gone

LEMMA PlaceStays ==
  ASSUME AtPlace, NEW identity \in Identities, NEW mail, Denotes(server, identity, mail),
         StaysThere(mail), ~Gone(server, identity)
  PROVE  ~Gone(server', identity)
<1>1. /\ identity.box \in Mailboxes /\ identity.uid \in Uids
      /\ identity.validity = server[identity.box].validity
      /\ Present(server, identity.box, identity.uid)
      /\ server[identity.box].msgs[identity.uid].mail = mail
  BY PlaceHolds DEF Identities, Present
<1>2. /\ server'[identity.box].msgs[identity.uid] = server[identity.box].msgs[identity.uid]
      /\ server'[identity.box].validity = server[identity.box].validity
  BY <1>1, BoxesStay DEF StaysThere
<1>3. QED
  BY <1>1, <1>2 DEF Gone, Present

LEMMA HeldStays ==
  ASSUME AtPlace, NEW row \in Rows, RowTrue(server, row), StaysThere(row.content.mail),
         Held(row)
  PROVE  Held(row)'
<1>1. Folder[row.role] \in Mailboxes /\ row.binding \in Identities \union {NoBinding}
  BY MutationAssumption DEF Rows
<1>2. InItsFolder(row)'
  <2>1. PICK uid \in UidsIn(server, Folder[row.role]) :
          SamePlace(row, server[Folder[row.role]].msgs[uid])
    BY DEF Held, InItsFolder
  <2>2. uid \in UidsIn(server', Folder[row.role])
        /\ server'[Folder[row.role]].msgs[uid] = server[Folder[row.role]].msgs[uid]
    BY <1>1, <2>1 DEF StaysThere, SamePlace, UidsIn, Present
  <2>3. QED
    BY <2>1, <2>2 DEF InItsFolder
<1>3. row.binding # NoBinding => ~Gone(server', row.binding)
  BY <1>1, PlaceStays DEF Held, RowTrue
<1>4. QED
  BY <1>2, <1>3 DEF Held

-----------------------------------------------------------------------------
(* What a process at work knows of its row and its message: with one        *)
(* mutator its entry stays in the archive, and its message goes where the   *)
(* row will say it is, unless another run accounts for the row              *)

RoleAfter(st) == IF st.action.kind = "move" THEN st.action.role ELSE st.entry.role

\* The message is in the folder it is moved to, and not at its old place.
Landed(st) ==
  LET box == Folder[st.action.role] IN
  \E uid \in UidsIn(server, box) :
    SamePlace(st.entry, server[box].msgs[uid]) /\ IdentityAt(box, uid) # st.entry.binding

Underway == {"store_deleted", "expunge_copied", "executed", "local_state", "remote_binding"}

EntryInHand(st) ==
  /\ st.pc \in {"local_state", "remote_binding"} => st.action.kind # "expunge"
  /\ st.pc = "remove_entry" => st.action.kind = "expunge"
  /\ \/ st.pc = "failed"
     \/ st.pc = "reconciled" /\ st.action.kind = "expunge"
     \/ HasRow(rows, st.entry.id)
  /\ st.pc = "remote_binding" =>
       \A row \in rows : row.id = st.entry.id => row.role = RoleAfter(st)

Foreseen(st) ==
  \/ OpenBefore(st.entry.id, st.run)
  \/ OtherApproved(st.entry.id)
  \/ /\ st.pc \in Untried => Held(st.entry)
     /\ st.pc \in Underway => /\ st.action.kind = "move" => Landed(st)
                              /\ st.action.kind = "flag" => Held(st.entry)
     /\ st.pc = "reconciled" => \A row \in rows : row.id = st.entry.id => Held(row)

\* The audit file accounts for the row, or the row is right.
Known(row) == Open(row.id) \/ OtherApproved(row.id) \/ Held(row)

\* What a statement has made of a row, in the words of the proof.
LEMMA WhoRewrites ==
  ASSUME Typed, [Next]_vars, NEW new \in rows'
  PROVE  \/ new \in rows
         \/ \E m \in Mutators, row \in rows :
              /\ row.id = mutators[m].entry.id /\ SameMessage(row, new)
              /\ \/ At(m, "local_state") /\ new.role = ReconciledRole(m)
                 \/ /\ At(m, "remote_binding") /\ new.role = row.role
                    /\ new.binding = ReconciledBinding(m)
<1>0. rows \subseteq Rows /\ setting.mutators \subseteq Mutators
  BY SettingTyped DEF Typed, TypeOK
<1>1. ASSUME NEW m \in setting.mutators, WriteLocalState(m), new \notin rows
      PROVE  \E row \in rows : /\ row.id = mutators[m].entry.id /\ SameMessage(row, new)
                               /\ At(m, "local_state") /\ new.role = ReconciledRole(m)
  <2>0. PICK role, read, starred :
          /\ role = ReconciledRole(m)
          /\ rows' = UpdateLocalState(rows, mutators[m].entry.id, role, read, starred)
    BY <1>1 DEF WriteLocalState, Statement
  <2>1. PICK row \in rows :
          new = IF row.id = mutators[m].entry.id
                THEN [row EXCEPT !.role = role, !.read = read, !.starred = starred]
                ELSE row
    BY <2>0 DEF UpdateLocalState
  <2>2. row \in Rows /\ row.id = mutators[m].entry.id
    BY <1>0, <1>1, <2>1
  <2>3. new = [row EXCEPT !.role = role, !.read = read, !.starred = starred]
    BY <2>1, <2>2
  <2>4. new.id = row.id /\ new.role = role /\ new.content = row.content
    BY <2>2, <2>3 DEF Rows
  <2>5. QED
    BY <1>1, <2>0, <2>2, <2>4 DEF WriteLocalState, Statement, SameMessage
<1>2. ASSUME NEW m \in setting.mutators, WriteRemoteBinding(m), new \notin rows
      PROVE  \E row \in rows : /\ row.id = mutators[m].entry.id /\ SameMessage(row, new)
                               /\ At(m, "remote_binding") /\ new.role = row.role
                               /\ new.binding = ReconciledBinding(m)
  <2>0. PICK binding :
          /\ binding = ReconciledBinding(m)
          /\ rows' = UpdateRemoteBinding(rows, mutators[m].entry.id, binding)
    BY <1>2 DEF WriteRemoteBinding, Statement
  <2>1. PICK row \in rows :
          new = IF row.id = mutators[m].entry.id
                THEN [row EXCEPT !.binding = binding] ELSE row
    BY <2>0 DEF UpdateRemoteBinding
  <2>2. row \in Rows /\ row.id = mutators[m].entry.id
    BY <1>0, <1>2, <2>1
  <2>3. new = [row EXCEPT !.binding = binding]
    BY <2>1, <2>2
  <2>4. new.id = row.id /\ new.role = row.role /\ new.binding = binding
        /\ new.content = row.content
    BY <2>2, <2>3 DEF Rows
  <2>5. QED
    BY <1>2, <2>0, <2>2, <2>4 DEF WriteRemoteBinding, Statement, SameMessage
<1>3. ASSUME NEW m \in setting.mutators, RemoveRow(m) PROVE new \in rows
  BY <1>3 DEF RemoveRow, Statement, RemoveEntry
<1>4. QED
  BY <1>0, <1>1, <1>2, <1>3, WhoChanges

\* A run that is open stays so, unless a process is at its last record.
LEMMA OpenRunStays ==
  ASSUME AtPlace, NEW run \in Runs, NEW handle, OpenRun(run, handle),
         \A m \in Mutators : At(m, "reconciled") => mutators[m].run # run
  PROVE  OpenRun(run, handle)'
<1>1. CASE [Next]_vars
  <2>1. Typed /\ run <= runs
    BY DEF AtPlace, SystemHandles, SystemTyped, OwnRuns, RunsNumbered, OpenRun, Typed, TypeOK
  <2>2. QED
    BY <1>1, <2>1, OpenStays
<1>2. CASE Apart
  BY <1>2 DEF Apart, OpenRun
<1>3. QED
  BY <1>1, <1>2, WhoSteps DEF AtPlace, SystemHandles

LEMMA OpenBeforeStays ==
  ASSUME AtPlace, NEW run, NEW handle, OpenBefore(handle, run),
         \A m \in Mutators : At(m, "reconciled") => mutators[m].run = run
  PROVE  OpenBefore(handle, run)'
BY OpenRunStays DEF OpenBefore

LEMMA OwnRunIsOpen ==
  ASSUME AtPlace, NEW m \in Mutators,
         mutators[m].pc \notin {"idle", "approve", "reconciled"},
         NEW handle, handle = mutators[m].entry.id
  PROVE  Open(handle) /\ Open(handle)'
<1>0. Typed /\ Undisturbed /\ RunsNumbered /\ ~At(m, "idle") /\ RunIsOpen(mutators[m])
  BY DEF AtPlace, SystemHandles, SystemTyped, Quietly, OwnRuns, At
<1>1. Open(handle)
  BY <1>0, AtWork DEF RunIsOpen, Open
<1>2. CASE [Next]_vars
  BY <1>0, <1>1, <1>2, OwnRunStays
<1>3. CASE Apart
  BY <1>1, <1>3 DEF Apart, Open, OpenRun
<1>4. QED
  BY <1>1, <1>2, <1>3, WhoSteps DEF AtPlace, SystemHandles

\* A row that is right stays so, or its message was reached by an open run.
LEMMA HeldRowStays ==
  ASSUME AtPlace, NEW row \in Rows, RowTrue(server, row), Held(row)
  PROVE  Known(row)'
<1>1. row.id.content = row.content
  BY DEF RowTrue
<1>2. CASE OtherApproved(row.id)
  BY <1>2, OtherApprovedStays DEF AtPlace, SystemHandles, Known
<1>3. CASE StaysThere(row.content.mail)
  BY <1>3, HeldStays DEF Known
<1>4. ASSUME NEW m \in Mutators, mutators[m].pc \in CommandPcs, mutators[m].entry.id = row.id
      PROVE  Known(row)'
  BY <1>4, OwnRunIsOpen DEF Known, CommandPcs, MovePcs
<1>5. QED
  BY <1>1, <1>2, <1>3, <1>4, WhoReaches

\* When a run ends its row is right, or another run accounts for it.
LEMMA KnownStays ==
  ASSUME AtPlace, \A m \in Mutators : ~At(m, "idle") => Foreseen(mutators[m]),
         NEW row \in rows, Known(row)
  PROVE  Known(row)'
<1>0. /\ SystemTyped /\ Typed /\ Undisturbed /\ OwnRuns /\ RunsNumbered /\ row \in Rows
      /\ RowTrue(server, row) /\ audit \in Seq(AuditRecords) /\ synced \in 0..Len(audit)
  BY DEF AtPlace, SystemHandles, SystemTyped, Quietly, OwnRuns, HandlesInv, Typed, TypeOK
<1>1. CASE OtherApproved(row.id)
  BY <1>0, <1>1, OtherApprovedStays DEF AtPlace, Known
<1>2. CASE Held(row)
  BY <1>0, <1>2, HeldRowStays
<1>3. ASSUME NEW run \in Runs, OpenRun(run, row.id)
      PROVE  Known(row)'
  <2>1. CASE \A m \in Mutators : At(m, "reconciled") => mutators[m].run # run
    BY <1>3, <2>1, OpenRunStays DEF Known, Open
  <2>2. ASSUME NEW m \in Mutators, At(m, "reconciled"), mutators[m].run = run
        PROVE  Known(row)'
    <3>1. RunIsOpen(mutators[m]) /\ Foreseen(mutators[m]) /\ mutators[m].pc = "reconciled"
      BY <1>0, <2>2 DEF OwnRuns, At
    <3>2. mutators[m].entry.id = row.id
      BY <1>0, <1>3, <2>2, <3>1 DEF OpenRun, RunIsOpen
    <3>3. CASE OpenBefore(row.id, run)
      <4>1. \A n \in Mutators : At(n, "reconciled") => n = m
        BY <1>0, <2>2, OneAtWork DEF At
      <4>2. OpenBefore(row.id, run)'
        BY <2>2, <3>3, <4>1, OpenBeforeStays
      <4>3. QED
        BY <4>2 DEF OpenBefore, Open, Known
    <3>4. QED
      BY <1>1, <1>2, <2>2, <3>1, <3>2, <3>3 DEF Foreseen, Untried, Underway
  <2>3. QED
    BY <2>1, <2>2
<1>4. QED
  BY <1>1, <1>2, <1>3 DEF Known, Open

\* What a mutation makes of a row is known, as its run is open.
LEMMA MutatedKnown ==
  ASSUME AtPlace, [Next]_vars, \A m \in Mutators : ~At(m, "idle") => Foreseen(mutators[m]),
         \A row \in rows : Known(row), NEW new \in rows'
  PROVE  Known(new)'
<1>1. CASE new \in rows
  BY <1>1, KnownStays
<1>2. ASSUME NEW m \in Mutators, At(m, "local_state") \/ At(m, "remote_binding"),
             new.id = mutators[m].entry.id
      PROVE  Known(new)'
  BY <1>2, OwnRunIsOpen DEF Known, At
<1>3. QED
  BY <1>1, <1>2, WhoRewrites DEF AtPlace, SystemHandles, SystemTyped, SameMessage

\* The row of the entry stays, and gets its role; no statement of others is on the way.
LEMMA EntryInHandStep ==
  ASSUME AtPlace, [Next]_vars, NEW m \in Mutators, mutators'[m].pc # "idle",
         ~At(m, "idle") => EntryInHand(mutators[m])
  PROVE  EntryInHand(mutators[m])'
<1>0. /\ SystemTyped /\ Typed /\ Undisturbed /\ RunsNumbered /\ SyncsReliable /\ RowsLinked
      /\ mutators \in [Mutators -> MutatorStates] /\ rows \subseteq Rows
      /\ [WatchNext]_systemVars
  BY DEF AtPlace, SystemHandles, SystemTyped, Quietly, OwnRuns, Typed, TypeOK
<1>1. CASE UNCHANGED vars
  BY <1>1 DEF EntryInHand, RoleAfter, vars, At
<1>2. ASSUME NEW row \in rows, NEW action \in setting.actions, Prepare(m, row, action)
      PROVE  EntryInHand(mutators[m])'
  <2>1. mutators'[m].pc = "approve" /\ mutators'[m].entry = row /\ rows' = rows
    BY <1>0, <1>2 DEF Prepare
  <2>2. QED
    BY <2>1 DEF EntryInHand, HasRow
<1>3. ASSUME ~At(m, "idle"), Step(m)
      PROVE  EntryInHand(mutators[m])'
  <2>1. PICK action, entry, pc : /\ action = mutators[m].action /\ entry = mutators[m].entry
                                 /\ pc = mutators'[m].pc
    OBVIOUS
  <2>2. /\ mutators'[m].action = action /\ mutators'[m].entry = entry /\ mutators'[m].pc = pc
        /\ ~At(m, "reconciled") /\ ~At(m, "failed")
    BY <1>0, <1>3, <2>1, StepKeeps
  <2>3. EntryInHand(mutators[m]) /\ HasRow(rows, entry.id)
    BY <1>3, <2>1, <2>2 DEF EntryInHand, At
  <2>4. \A next : Goto(m, next) => pc = next
    BY <1>0, <2>1 DEF Goto, MutatorStates
  <2>5. ASSUME ~RemoveRow(m) PROVE HasRow(rows', entry.id)
    <3>1. PICK row \in rows : row.id = entry.id
      BY <2>3 DEF HasRow
    <3>2. ASSUME NEW n \in Mutators, RemoveRow(n) PROVE mutators[n].entry.id # row.id
      <4>1. n = m
        BY <1>0, <1>3, <3>2, OneAtWork DEF RemoveRow, Statement, At
      <4>2. QED
        BY <2>5, <3>2, <4>1
    <3>3. QED
      BY <1>0, <3>1, <3>2, RowOutlives DEF SameMessage, HasRow
  <2>6. CASE Approve(m) \/ Select(m) \/ RemoteStep(m)
    <3>1. pc \notin {"local_state", "remote_binding", "remove_entry"}
      <4>1. CASE Approve(m) \/ RemoteStep(m)
        BY <2>4, <4>1
        DEF Approve, Audited, RemoteStep, UidMoveStep, UidCopyStep, StoreDeletedStep,
            ExpungeCopiedStep, UidStoreStep, UidExpungeStep, Command
      <4>2. CASE Select(m)
        BY <1>0, <1>3, <2>1, <2>4, <4>2, AtWork DEF Select, MutatorStates, CommandPath
      <4>3. QED
        BY <2>6, <4>1, <4>2
    <3>2. ~RemoveRow(m)
      BY <2>6
      DEF RemoveRow, Statement, Approve, Select, RemoteStep, UidMoveStep, UidCopyStep,
          StoreDeletedStep, ExpungeCopiedStep, UidStoreStep, UidExpungeStep, Command, At
    <3>3. QED
      BY <2>2, <2>5, <3>1, <3>2 DEF EntryInHand
  <2>7. CASE Executed(m)
    <3>1. pc = IF action.kind = "expunge" THEN "remove_entry" ELSE "local_state"
      BY <2>1, <2>4, <2>7 DEF Executed, Audited
    <3>2. ~RemoveRow(m)
      BY <2>7 DEF RemoveRow, Statement, Executed, At
    <3>3. QED
      BY <2>2, <2>5, <3>1, <3>2 DEF EntryInHand
  <2>8. CASE WriteLocalState(m)
    <3>1. action.kind # "expunge" /\ ~RemoveRow(m)
      BY <2>1, <2>3, <2>8 DEF WriteLocalState, RemoveRow, Statement, At, EntryInHand
    <3>2. \/ pc = "failed"
          \/ /\ pc = "remote_binding"
             /\ \E read, starred :
                  rows' = UpdateLocalState(rows, entry.id, ReconciledRole(m), read, starred)
      BY <2>1, <2>4, <2>8 DEF WriteLocalState, Statement
    <3>3. ASSUME pc = "remote_binding", NEW new \in rows', new.id = entry.id
          PROVE  new.role = ReconciledRole(m)
      <4>1. PICK role, read, starred :
              role = ReconciledRole(m) /\ rows' = UpdateLocalState(rows, entry.id, role, read, starred)
        BY <3>2, <3>3
      <4>2. PICK row \in rows :
              new = IF row.id = entry.id
                    THEN [row EXCEPT !.role = role, !.read = read, !.starred = starred]
                    ELSE row
        BY <3>3, <4>1 DEF UpdateLocalState
      <4>3. row.id = entry.id /\ row \in Rows
        BY <1>0, <3>3, <4>2
      <4>4. new = [row EXCEPT !.role = role, !.read = read, !.starred = starred]
        BY <4>2, <4>3
      <4>5. QED
        BY <4>1, <4>3, <4>4 DEF Rows
    <3>4. ReconciledRole(m) = RoleAfter(mutators'[m])
      BY <2>1, <2>2 DEF ReconciledRole, RoleAfter
    <3>5. QED
      BY <2>2, <2>5, <3>1, <3>2, <3>3, <3>4 DEF EntryInHand
  <2>9. CASE WriteRemoteBinding(m)
    <3>1. pc \in {"reconciled", "failed"} /\ ~RemoveRow(m)
      BY <2>4, <2>9 DEF WriteRemoteBinding, RemoveRow, Statement, At
    <3>2. QED
      BY <2>2, <2>5, <3>1 DEF EntryInHand
  <2>10. CASE RemoveRow(m)
    <3>1. action.kind = "expunge" /\ pc \in {"reconciled", "failed"}
      BY <2>1, <2>3, <2>4, <2>10 DEF RemoveRow, Statement, At, EntryInHand
    <3>2. QED
      BY <2>2, <3>1 DEF EntryInHand
  <2>11. ~Reconciled(m) /\ ~Failed(m)
    BY <1>0, <1>3, StepKeeps DEF Reconciled, Failed
  <2>12. QED
    BY <1>3, <2>6, <2>7, <2>8, <2>9, <2>10, <2>11 DEF Step
<1>4. QED
  BY <1>0, <1>1, <1>2, <1>3, SoleStep

\* A move brings the message to a UID that its folder has not handed out before.
LEMMA MoveLands ==
  ASSUME AtPlace, [Next]_vars, NEW m \in Mutators, UidMoveStep(m) \/ UidCopyStep(m),
         mutators'[m].pc \in Underway,
         NEW st, st.action = mutators[m].action, st.entry = mutators[m].entry,
         Held(st.entry)
  PROVE  Landed(st)'
<1> DEFINE box == st.entry.binding.box
           uid == st.entry.binding.uid
           target == Folder[st.action.role]
<1>1. /\ Typed /\ HandlesInv /\ mutators \in [Mutators -> MutatorStates]
      /\ ~At(m, "idle") /\ WellNumbered(server)
  BY SettingTyped
  DEF AtPlace, SystemHandles, SystemTyped, Typed, TypeOK, UidMoveStep, UidCopyStep, Command,
      At
<1>2. /\ st.entry \in Rows /\ st.entry.binding \in Identities
      /\ st.entry.binding # NoBinding /\ Binding(m) = st.entry.binding /\ box \in Mailboxes
      /\ RowTrue(server, st.entry)
  BY <1>1, AtWork, MutationAssumption DEF Binding, HandlesInv, HoldsTrueRow
<1>3. st.action.kind = "move" /\ target = Target(m) /\ target \in Mailboxes
  BY <1>1, AtWork DEF Typed, Works, UidMoveStep, UidCopyStep, Command, At, MovePcs, Target
<1>4. /\ Present(server, box, uid) /\ st.entry.binding.validity = server[box].validity
      /\ server[box].msgs[uid].mail = st.entry.content.mail
  BY <1>2, PlaceHolds DEF Held, RowTrue
<1> HIDE DEF box, uid, target
<1>5. ~Goto(m, "failed")
  BY <1>1 DEF Goto, MutatorStates, Underway
<1>6. /\ HasRoom(server, target)
      /\ \/ server' = UidMove(server, box, uid, target)
         \/ server' = Copy(server, box, uid, target)
  BY <1>2, <1>3, <1>5 DEF UidMoveStep, UidCopyStep, Command, TargetHasRoom, box, uid
<1>7. PICK next : next = server[target].next
  OBVIOUS
<1>8. /\ LeavesOthers(server, server', box, uid)
      /\ server'[target].msgs[next] = server[box].msgs[uid]
  BY <1>1, <1>2, <1>3, <1>4, <1>6, <1>7, UidMoveLeaves, CopyLeaves
<1>9. next \in Uids /\ server'[target].validity = server[target].validity
  BY <1>3, <1>6, <1>7, <1>8 DEF HasRoom, LeavesOthers
<1>10. next \in UidsIn(server', target) /\ SamePlace(st.entry, server'[target].msgs[next])
  BY <1>4, <1>8, <1>9 DEF UidsIn, Present, SamePlace
<1>11. [box |-> target, validity |-> server'[target].validity, uid |-> next] # st.entry.binding
  <2>1. ASSUME target = box, next = uid PROVE FALSE
    <3>1. next < server[target].next
      BY <1>1, <1>2, <1>4, <2>1 DEF WellNumbered, Numbered, UidsIn, Present
    <3>2. next \in Nat
      BY <1>9, ServerAssumption DEF Uids
    <3>3. QED
      BY <1>7, <3>1, <3>2
  <2>2. QED
    BY <2>1 DEF box, uid
<1>12. QED
  BY <1>10, <1>11 DEF Landed, IdentityAt, target

\* A flag command leaves every message where it is.
LEMMA FlagHolds ==
  ASSUME AtPlace, [Next]_vars, NEW m \in Mutators, UidStoreStep(m),
         NEW row \in Rows, Held(row)
  PROVE  Held(row)'
<1>1. /\ Typed /\ ~At(m, "idle") /\ WellNumbered(server) /\ server \in Servers
      /\ Folder[row.role] \in Mailboxes
      /\ row.binding # NoBinding => row.binding \in Identities /\ row.binding.box \in Mailboxes
  BY SettingTyped, MutationAssumption
  DEF AtPlace, SystemHandles, SystemTyped, WellNumbered, UidStoreStep, Command, At, Rows,
      Identities
<1>2. PICK action, place : /\ action = mutators[m].action /\ place = Binding(m)
                           /\ place.box \in Mailboxes
                           /\ action.flag \in FlagNames /\ action.value \in BOOLEAN
  BY <1>1, AtWork, ActionKinds DEF Typed, Works, UidStoreStep, Command, At
<1>3. \/ UNCHANGED server
      \/ server' = SetFlag(server, place.box, place.uid, action.flag, action.value)
  BY <1>2 DEF UidStoreStep, Command
<1>4. ASSUME NEW box \in Mailboxes, NEW uid, Present(server, box, uid)
      PROVE  /\ server'[box].validity = server[box].validity
             /\ Present(server', box, uid)
             /\ server'[box].msgs[uid].mail = server[box].msgs[uid].mail
  <2>1. CASE UNCHANGED server
    BY <1>4, <2>1
  <2>2. CASE /\ server' = SetFlag(server, place.box, place.uid, action.flag, action.value)
             /\ Present(server, place.box, place.uid)
    <3>1. PICK old, new : /\ old = server[place.box].msgs[place.uid]
                          /\ new = [old EXCEPT ![action.flag] = action.value]
      OBVIOUS
    <3>2. old \in Messages /\ server[place.box] \in MailboxStates /\ place.uid \in Uids
      BY <1>1, <1>2, <2>2, <3>1, MessageTyped
    <3>3. new.mail = old.mail /\ new \in Messages
      BY <1>2, <3>1, <3>2 DEF Messages, FlagNames
    <3>4. server' = [server EXCEPT ![place.box].msgs[place.uid] = new]
      BY <2>2, <3>1 DEF SetFlag
    <3>5. server[box] \in MailboxStates /\ uid \in Uids
      BY <1>1, <1>4, MessageTyped DEF Present
    <3>6. /\ server'[box].validity = server[box].validity
          /\ server'[box].msgs[uid] = IF box = place.box /\ uid = place.uid THEN new
                                      ELSE server[box].msgs[uid]
      BY <1>1, <1>2, <1>4, <3>2, <3>4, <3>5 DEF Servers, MailboxStates
    <3>7. QED
      BY <1>4, <3>1, <3>3, <3>6, MutationAssumption DEF Present
  <2>3. QED
    BY <1>3, <1>4, <2>1, <2>2 DEF SetFlag
<1>5. InItsFolder(row)'
  <2>1. PICK uid \in UidsIn(server, Folder[row.role]) :
          SamePlace(row, server[Folder[row.role]].msgs[uid])
    BY DEF Held, InItsFolder
  <2>2. uid \in UidsIn(server', Folder[row.role])
        /\ SamePlace(row, server'[Folder[row.role]].msgs[uid])
    BY <1>1, <1>4, <2>1 DEF SamePlace, UidsIn
  <2>3. QED
    BY <2>2 DEF InItsFolder
<1>6. row.binding # NoBinding => ~Gone(server', row.binding)
  <2>1. ASSUME row.binding # NoBinding
        PROVE  ~Gone(server', row.binding)
    <3>1. /\ Present(server, row.binding.box, row.binding.uid)
          /\ row.binding.validity = server[row.binding.box].validity
      BY <2>1 DEF Held, Gone
    <3>2. QED
      BY <1>1, <1>4, <2>1, <3>1 DEF Gone
  <2>2. QED
    BY <2>1
<1>7. QED
  BY <1>5, <1>6 DEF Held

\* No command of the move reaches the message where it was brought.
LEMMA LandedStays ==
  ASSUME AtPlace, NEW m \in Mutators, RemoteStep(m),
         NEW st, st.action = mutators[m].action, st.entry = mutators[m].entry,
         st.action.kind = "move", ~At(m, "idle"), Landed(st)
  PROVE  Landed(st)'
<1>1. Typed /\ HandlesInv
  BY DEF AtPlace, SystemHandles, SystemTyped
<1>2. PICK target : target = Folder[st.action.role] /\ target \in Mailboxes
  BY <1>1, AtWork DEF Target
<1>3. PICK uid \in UidsIn(server, target) :
        /\ SamePlace(st.entry, server[target].msgs[uid])
        /\ IdentityAt(target, uid) # st.entry.binding
  BY <1>2 DEF Landed
<1>4. CASE UNCHANGED server
  BY <1>2, <1>3, <1>4 DEF Landed, IdentityAt
<1>5. CASE server' # server
  <2>1. /\ LeavesOthers(server, server', Binding(m).box, Binding(m).uid)
        /\ Binding(m) = IdentityAt(Binding(m).box, Binding(m).uid)
        /\ Binding(m) = st.entry.binding
    BY <1>1, <1>5, RemoteStepIs, RemoteStepLeaves DEF Binding
  <2>2. ~(target = Binding(m).box /\ uid = Binding(m).uid)
    BY <1>3, <2>1
  <2>3. /\ server'[target].validity = server[target].validity
        /\ server'[target].msgs[uid] = server[target].msgs[uid]
    BY <1>2, <1>3, <2>1, <2>2 DEF LeavesOthers, UidsIn
  <2>4. uid \in UidsIn(server', target)
    BY <1>3, <2>3 DEF UidsIn, Present
  <2>5. QED
    BY <1>2, <1>3, <2>3, <2>4 DEF Landed, IdentityAt
<1>6. QED
  BY <1>4, <1>5

\* The row that a run has reconciled is right, as the message is where it was brought.
LEMMA ReconciledHolds ==
  ASSUME AtPlace, NEW m \in Mutators, WriteRemoteBinding(m), EntryInHand(mutators[m]),
         mutators'[m].pc = "reconciled",
         NEW st, st.action = mutators[m].action, st.entry = mutators[m].entry,
         st.action.kind = "move" => Landed(st), st.action.kind = "flag" => Held(st.entry),
         NEW new \in rows', new.id = st.entry.id
  PROVE  Held(new)'
<1>1. /\ Typed /\ HandlesInv /\ mutators \in [Mutators -> MutatorStates] /\ rows \subseteq Rows
      /\ At(m, "remote_binding") /\ ~At(m, "idle") /\ server' = server
  BY DEF AtPlace, SystemHandles, SystemTyped, Typed, TypeOK, WriteRemoteBinding, Statement, At
<1>2. PICK binding :
        /\ binding = ReconciledBinding(m)
        /\ rows' = UpdateRemoteBinding(rows, st.entry.id, binding)
  <2>1. ~Goto(m, "failed")
    BY <1>1 DEF Goto, MutatorStates
  <2>2. QED
    BY <2>1 DEF WriteRemoteBinding, Statement
<1>3. PICK row \in rows : new = IF row.id = st.entry.id
                                THEN [row EXCEPT !.binding = binding] ELSE row
  BY <1>2 DEF UpdateRemoteBinding
<1>4. row \in Rows /\ row.id = st.entry.id
  BY <1>1, <1>3
<1>5. new = [row EXCEPT !.binding = binding]
  BY <1>3, <1>4
<1>6. new.role = row.role /\ new.content = row.content /\ new.binding = binding
  BY <1>4, <1>5 DEF Rows
<1>7. row.content = st.entry.content
  BY <1>1, <1>3, <1>4 DEF HandlesInv, HoldsTrueRow, RowTrue
<1>8. row.role = RoleAfter(mutators[m]) /\ st.action.kind # "expunge"
  BY <1>1, <1>3, <1>4 DEF EntryInHand, At
<1>9. CASE st.action.kind = "move"
  <2>1. new.role = st.action.role /\ new.binding = NoBinding
    BY <1>2, <1>6, <1>8, <1>9 DEF RoleAfter, ReconciledBinding
  <2>2. QED
    BY <1>1, <1>6, <1>7, <1>9, <2>1 DEF Landed, Held, InItsFolder, SamePlace
<1>10. CASE st.action.kind = "flag"
  <2>1. new.role = st.entry.role /\ new.binding = st.entry.binding
    BY <1>2, <1>6, <1>8, <1>10 DEF RoleAfter, ReconciledBinding
  <2>2. QED
    BY <1>1, <1>6, <1>7, <1>10, <2>1 DEF Held, InItsFolder, SamePlace
<1>11. st.action.kind \in {"move", "expunge", "flag"}
  BY <1>1, AtWork, ActionKinds
<1>12. QED
  BY <1>8, <1>9, <1>10, <1>11

LEMMA ForeseenStep ==
  ASSUME AtPlace, [Next]_vars, NEW m \in Mutators, mutators'[m].pc # "idle",
         ~At(m, "idle") => EntryInHand(mutators[m]) /\ Foreseen(mutators[m]),
         \A row \in rows : Known(row)
  PROVE  Foreseen(mutators[m])'
<1>0. /\ SystemTyped /\ Typed /\ HandlesInv /\ Undisturbed /\ RunsNumbered /\ OwnRuns
      /\ mutators \in [Mutators -> MutatorStates] /\ rows \subseteq Rows
      /\ [WatchNext]_systemVars
      /\ audit \in Seq(AuditRecords) /\ synced \in 0..Len(audit) /\ runs \in Nat
  BY MutationAssumption
  DEF AtPlace, SystemHandles, SystemTyped, Quietly, OwnRuns, Typed, TypeOK
<1>1. CASE UNCHANGED vars
  <2>1. PICK st : st = mutators[m] /\ st = mutators'[m] /\ Foreseen(st)
    BY <1>1 DEF vars, At
  <2>2. ASSUME NEW row PROVE Held(row)' = Held(row)
    BY <1>1 DEF Held, InItsFolder, vars
  <2>3. /\ Landed(st)' = Landed(st)
        /\ OpenBefore(st.entry.id, st.run)' = OpenBefore(st.entry.id, st.run)
        /\ OtherApproved(st.entry.id)' = OtherApproved(st.entry.id)
    BY <1>1 DEF Landed, IdentityAt, OpenBefore, OpenRun, OtherApproved, vars
  <2>4. QED
    BY <1>1, <2>1, <2>2, <2>3 DEF Foreseen, vars
<1>2. ASSUME NEW row \in rows, NEW action \in setting.actions, Prepare(m, row, action),
             m \in setting.mutators
      PROVE  Foreseen(mutators[m])'
  <2>1. /\ mutators'[m].pc = "approve" /\ mutators'[m].run = runs + 1
        /\ mutators'[m].entry = row /\ server' = server /\ At(m, "idle")
    BY <1>0, <1>2 DEF Prepare
  <2>2. \A n \in Mutators : ~At(n, "reconciled")
    BY <1>0, <1>2, <2>1 DEF RunsNumbered, Undisturbed, Alone, At
  <2>3. CASE Open(row.id)
    <3>1. PICK run : run = runs + 1
      OBVIOUS
    <3>2. PICK other \in Runs : OpenRun(other, row.id)
      BY <2>3 DEF Open
    <3>3. other # run
      BY <1>0, <3>1, <3>2 DEF OpenRun, RunsNumbered, Runs
    <3>4. OpenRun(other, row.id)'
      BY <2>2, <3>2, OpenRunStays
    <3>5. OpenBefore(row.id, run)'
      BY <3>3, <3>4 DEF OpenBefore
    <3>6. QED
      BY <2>1, <3>1, <3>5 DEF Foreseen
  <2>4. CASE OtherApproved(row.id)
    <3>1. OtherApproved(row.id)'
      BY <1>0, <2>4, OtherApprovedStays
    <3>2. QED
      BY <2>1, <3>1 DEF Foreseen
  <2>5. CASE Held(row)
    <3>1. Held(row)'
      BY <2>1, <2>5 DEF Held, InItsFolder
    <3>2. QED
      BY <2>1, <3>1 DEF Foreseen, Untried, Underway
  <2>6. QED
    BY <2>3, <2>4, <2>5 DEF Known
<1>3. ASSUME ~At(m, "idle"), Step(m)
      PROVE  Foreseen(mutators[m])'
  <2>1. PICK st : /\ st.action = mutators[m].action /\ st.entry = mutators[m].entry
                  /\ st.run = mutators[m].run /\ st.pc = mutators'[m].pc
    <3>1. \E st : st = [action |-> mutators[m].action, entry |-> mutators[m].entry,
                        run |-> mutators[m].run, pc |-> mutators'[m].pc]
      OBVIOUS
    <3>2. QED
      BY <3>1
  <2>2. /\ mutators'[m].action = st.action /\ mutators'[m].entry = st.entry
        /\ mutators'[m].run = st.run /\ mutators'[m].pc = st.pc
        /\ ~At(m, "reconciled") /\ ~At(m, "failed")
    BY <1>0, <1>3, <2>1, StepKeeps
  <2>3. /\ st.entry \in Rows /\ st.action \in AllActions
        /\ CommandPath(st.action) # "refused"
    BY <1>0, <1>3, <2>1, AtWork
  <2>4. Foreseen(mutators[m]) /\ EntryInHand(mutators[m])
    BY <1>3
  <2>5. SUFFICES Foreseen(st)'
    BY <2>2 DEF Foreseen, Landed
  <2>6. CASE OpenBefore(st.entry.id, st.run)
    <3>1. \A n \in Mutators : ~At(n, "reconciled")
      BY <1>0, <1>3, <2>2, OneAtWork DEF At
    <3>2. OpenBefore(st.entry.id, st.run)'
      BY <2>6, <3>1, OpenBeforeStays
    <3>3. QED
      BY <3>2 DEF Foreseen
  <2>7. CASE OtherApproved(st.entry.id)
    <3>1. OtherApproved(st.entry.id)'
      BY <1>0, <2>7, OtherApprovedStays
    <3>2. QED
      BY <3>1 DEF Foreseen
  <2>8. CASE /\ mutators[m].pc \in Untried => Held(st.entry)
             /\ mutators[m].pc \in Underway =>
                  /\ st.action.kind = "move" => Landed(st)
                  /\ st.action.kind = "flag" => Held(st.entry)
    <3>1. \A next : Goto(m, next) => st.pc = next
      BY <1>0, <2>1 DEF Goto, MutatorStates
    <3>2. UNCHANGED server => Held(st.entry)' = Held(st.entry)
      BY DEF Held, InItsFolder
    <3>3. CASE Approve(m) \/ Select(m)
      <4>1. Held(st.entry)'
        BY <2>8, <3>2, <3>3 DEF Approve, Audited, Select, At, Untried
      <4>2. st.pc \notin Underway /\ st.pc # "reconciled"
        <5>1. CommandPath(st.action) \notin Underway /\ CommandPath(st.action) # "reconciled"
          BY <2>3, ActionKinds DEF CommandPath, Underway
        <5>2. CASE Select(m)
          BY <1>0, <2>1, <3>1, <5>1, <5>2 DEF Select, Underway, MutatorStates
        <5>3. QED
          BY <3>1, <3>3, <5>2 DEF Approve, Audited, Underway
      <4>3. QED
        BY <4>1, <4>2 DEF Foreseen
    <3>4. CASE UidMoveStep(m) \/ UidCopyStep(m)
      <4>1. /\ Held(st.entry) /\ st.pc \notin Untried /\ st.pc # "reconciled"
            /\ st.action.kind = "move"
        BY <1>0, <1>3, <2>1, <2>8, <3>1, <3>4
        DEF UidMoveStep, UidCopyStep, Command, At, Untried, Typed, Works, MovePcs
      <4>2. st.pc \in Underway => Landed(st)'
        BY <2>1, <3>4, <4>1, MoveLands
      <4>3. QED
        BY <4>1, <4>2 DEF Foreseen
    <3>5. CASE UidStoreStep(m)
      <4>1. /\ Held(st.entry) /\ st.pc \notin Untried /\ st.pc # "reconciled"
            /\ st.action.kind = "flag"
        BY <1>0, <1>3, <2>1, <2>8, <3>1, <3>5
        DEF UidStoreStep, Command, At, Untried, Typed, Works
      <4>2. Held(st.entry)'
        BY <2>3, <3>5, <4>1, FlagHolds
      <4>3. QED
        BY <4>1, <4>2 DEF Foreseen
    <3>6. CASE UidExpungeStep(m)
      <4>1. st.pc \notin Untried /\ st.pc # "reconciled" /\ st.action.kind = "expunge"
        BY <1>0, <1>3, <2>1, <3>1, <3>6 DEF UidExpungeStep, Command, At, Untried, Typed, Works
      <4>2. QED
        BY <4>1 DEF Foreseen
    <3>7. CASE StoreDeletedStep(m) \/ ExpungeCopiedStep(m)
      <4>1. /\ st.pc \notin Untried /\ st.pc # "reconciled" /\ st.action.kind = "move"
            /\ mutators[m].pc \in Underway
        BY <1>0, <1>3, <2>1, <3>1, <3>7
        DEF StoreDeletedStep, ExpungeCopiedStep, Command, At, Untried, Underway, Typed, Works,
            MovePcs
      <4>2. Landed(st)'
        BY <1>3, <2>1, <2>8, <3>7, <4>1, LandedStays DEF RemoteStep
      <4>3. QED
        BY <4>1, <4>2 DEF Foreseen
    <3>8. CASE Executed(m) \/ WriteLocalState(m)
      <4>1. /\ server' = server /\ mutators[m].pc \in Underway /\ st.pc \notin Untried
            /\ st.pc # "reconciled"
        BY <3>1, <3>8
        DEF Executed, Audited, WriteLocalState, Statement, At, Underway, Untried
      <4>2. Landed(st)' = Landed(st)
        BY <4>1 DEF Landed, IdentityAt
      <4>3. QED
        BY <2>8, <3>2, <4>1, <4>2 DEF Foreseen
    <3>9. CASE WriteRemoteBinding(m)
      <4>1. mutators[m].pc \in Underway /\ st.pc \notin Untried /\ st.pc \notin Underway
        BY <3>1, <3>9
        DEF WriteRemoteBinding, Statement, At, Underway, Untried
      <4>2. ASSUME st.pc = "reconciled", NEW new \in rows', new.id = st.entry.id
            PROVE  Held(new)'
        BY <2>1, <2>4, <2>8, <3>9, <4>1, <4>2, ReconciledHolds
      <4>3. QED
        BY <4>1, <4>2 DEF Foreseen
    <3>10. CASE RemoveRow(m)
      <4>1. /\ st.pc \notin Untried /\ st.pc \notin Underway
            /\ st.pc = "reconciled" => rows' = RemoveEntry(rows, st.entry.id)
        BY <2>1, <3>1, <3>10 DEF RemoveRow, Statement, Untried, Underway
      <4>2. QED
        BY <4>1 DEF Foreseen, RemoveEntry
    <3>11. ~Reconciled(m) /\ ~Failed(m)
      BY <1>0, <1>3, StepKeeps DEF Reconciled, Failed
    <3>12. QED
      BY <1>3, <3>3, <3>4, <3>5, <3>6, <3>7, <3>8, <3>9, <3>10, <3>11 DEF Step, RemoteStep
  <2>9. QED
    BY <2>1, <2>4, <2>6, <2>7, <2>8 DEF Foreseen, Landed
<1>4. QED
  BY <1>0, <1>1, <1>2, <1>3, SoleStep

-----------------------------------------------------------------------------
(* What the sync is about to store is no row yet, and where it was listed,  *)
(* unless the audit file accounts for the message                           *)

\* The id of the row that the message will be.
FetchedId(st, message) == IngestId(Head(st.plan), message.content, Ident(st, message.uid))

\* If the listed message is a row by that id, it has left.
Unkept(st, uid) ==
  \A row \in rows :
    /\ row.id.role = Head(st.plan) /\ row.id.identity = Ident(st, uid)
    /\ row.id.content.part = "full"
    => Gone(server, Ident(st, uid))

SizeRead(st, listed) ==
  [validity |-> st.validity, uid |-> listed.uid, size |-> Size[listed.mail]] \in st.sizes

Newly(st, message) ==
  /\ ~HasRow(rows, FetchedId(st, message))
  /\ OtherApproved(FetchedId(st, message)) \/ ~Gone(server, Ident(st, message.uid))

Careful(st) ==
  /\ InPart(st) /\ Current(server, st)
  /\ st.pc \in {"index", "find"} =>
       \A listed \in st.listing : SizeRead(st, listed) \/ Unkept(st, listed.uid)
  /\ st.pc = "download" => \A uid \in st.missing : Unkept(st, uid)
  /\ st.pc # "download" => st.fetched = {}
  /\ \A message \in st.fetched :
       /\ message.uid \notin st.missing
       /\ \A other \in st.fetched : other.uid = message.uid => other = message
       /\ Newly(st, message)

Engaged(s) == ~SyncAt(s, "idle") => MaySync(s) /\ syncs[s].part \in setting.sync.parts

AllCareful == \A s \in Syncers : Engaged(s) /\ Careful(syncs[s])

\* The step of a sync, or a message that comes in.
Beside ==
  /\ Apart
  /\ UNCHANGED rows \/ (UNCHANGED server /\ \E s \in Syncers : Writes(s))

LEMMA WhoIsBeside ==
  ASSUME SystemTyped, [WatchNext]_systemVars
  PROVE  ([Next]_vars /\ UNCHANGED syncs) \/ Beside
<1>1. \A s : Reads(s) => UNCHANGED rows
  BY DEF Reads, vars
<1>2. QED
  BY <1>1, WhoSteps DEF Beside

LEMMA BesideStays ==
  ASSUME AtPlace, Beside, NEW id, ~OtherApproved(id)
  PROVE  StaysThere(id.content.mail)
<1>1. mutators \in [Mutators -> MutatorStates] /\ UNCHANGED mutators
  BY DEF AtPlace, SystemHandles, SystemTyped, Typed, TypeOK, Beside, Apart
<1>2. ASSUME NEW m \in Mutators, RemoteStep(m) PROVE FALSE
  <2>1. \A pc : Goto(m, pc) => mutators[m].pc = pc
    BY <1>1 DEF Goto, MutatorStates
  <2>2. QED
    BY <1>2, <2>1
    DEF RemoteStep, UidMoveStep, UidCopyStep, StoreDeletedStep, ExpungeCopiedStep,
        UidStoreStep, UidExpungeStep, Command, At
<1>3. QED
  BY <1>2, WhoReaches

\* A row that a sync has written is one there was, or it is new and right.
LEMMA BesideRow ==
  ASSUME AtPlace, AllCareful, Beside, NEW new \in rows'
  PROVE  \/ \E row \in rows : /\ new.id = row.id /\ new.content = row.content
                              /\ new.role = row.role /\ new.binding = row.binding
         \/ /\ ~HasRow(rows, new.id)
            /\ OtherApproved(new.id) \/ Held(new)
            /\ new \in Rows /\ RowTrue(server, new)
<1>0. Typed /\ SyncsReady /\ SyncsReliable
  BY DEF AtPlace, SystemHandles, SystemTyped
<1>1. CASE UNCHANGED rows
  BY <1>1
<1>2. ASSUME NEW s \in Syncers, NEW message \in syncs[s].fetched, StoreMessage(s, message),
             new = StoredRow(s, message)
      PROVE  /\ ~HasRow(rows, new.id)
             /\ OtherApproved(new.id) \/ Held(new)
             /\ new \in Rows /\ RowTrue(server, new)
  <2>1. PICK st : st = syncs[s]
    OBVIOUS
  <2>2. /\ new \in Rows /\ new.id.content = new.content /\ new.binding = new.id.identity
        /\ new.id.identity = Ident(st, message.uid)
        /\ Denotes(server, new.id.identity, new.content.mail)
    BY <1>0, <1>2, <2>1, StoredRowIs DEF SyncsReliable
  <2>3. new.id = FetchedId(st, message) /\ new.role = Head(st.plan)
    BY <1>2, <2>1 DEF StoredRow, FetchedId, ListedIdentity, Ident, Role
  <2>4. Newly(st, message)
    BY <1>2, <2>1 DEF AllCareful, Careful
  <2>5. ASSUME ~Gone(server, Ident(st, message.uid)) PROVE Held(new)
    <3>1. /\ Present(server, Folder[new.role], message.uid)
          /\ server[Folder[new.role]].msgs[message.uid].mail = new.content.mail
      BY <2>2, <2>3, <2>5, PlaceHolds DEF Ident
    <3>2. QED
      BY <2>2, <2>5, <3>1 DEF Held, InItsFolder, SamePlace, UidsIn, Present
  <2>6. QED
    BY <2>2, <2>3, <2>4, <2>5 DEF Newly, RowTrue
<1>3. QED
  BY <1>0, <1>1, <1>2, WrittenRow DEF Beside

LEMMA BesideInHand ==
  ASSUME AtPlace, AllCareful, Beside, NEW m \in Mutators, EntryInHand(mutators[m])
  PROVE  EntryInHand(mutators[m])'
<1>0. /\ SystemTyped /\ SyncsReliable /\ RowsLinked /\ [WatchNext]_systemVars
      /\ mutators \in [Mutators -> MutatorStates] /\ UNCHANGED mutators
  BY DEF AtPlace, SystemHandles, SystemTyped, Typed, TypeOK, Beside, Apart
<1>1. ASSUME NEW n \in Mutators, RemoveRow(n) PROVE FALSE
  BY <1>0, <1>1 DEF RemoveRow, Statement, Goto, At, MutatorStates
<1>2. ASSUME NEW id, HasRow(rows, id) PROVE HasRow(rows', id)
  BY <1>0, <1>1, <1>2, RowOutlives DEF HasRow, SameMessage
<1>3. ASSUME mutators[m].pc = "remote_binding", NEW new \in rows',
             new.id = mutators[m].entry.id
      PROVE  new.role = RoleAfter(mutators[m])
  <2>1. HasRow(rows, new.id)
    BY <1>3 DEF EntryInHand
  <2>2. PICK row \in rows : new.id = row.id /\ new.role = row.role
    BY <2>1, BesideRow
  <2>3. QED
    BY <1>3, <2>2 DEF EntryInHand
<1>4. QED
  BY <1>0, <1>2, <1>3 DEF EntryInHand

LEMMA BesideForeseen ==
  ASSUME AtPlace, AllCareful, Beside, NEW m \in Mutators, ~At(m, "idle"),
         Foreseen(mutators[m])
  PROVE  Foreseen(mutators[m])'
<1>0. /\ SystemTyped /\ Typed /\ HandlesInv /\ [WatchNext]_systemVars /\ rows \subseteq Rows
      /\ UNCHANGED <<mutators, audit, synced>>
  BY DEF AtPlace, SystemHandles, SystemTyped, Typed, TypeOK, Beside, Apart
<1>1. PICK st : st = mutators[m] /\ st = mutators'[m]
  BY <1>0
<1>2. /\ st.entry \in Rows /\ RowTrue(server, st.entry)
      /\ st.action.kind = "move" => Folder[st.action.role] \in Mailboxes
  BY <1>0, <1>1, AtWork DEF HandlesInv, HoldsTrueRow, Target
<1>3. CASE OpenBefore(st.entry.id, st.run)
  BY <1>0, <1>1, <1>3 DEF Foreseen, OpenBefore, OpenRun
<1>4. CASE OtherApproved(st.entry.id)
  BY <1>0, <1>1, <1>4, OtherApprovedStays DEF Foreseen
<1>5. CASE ~OtherApproved(st.entry.id) /\ ~OpenBefore(st.entry.id, st.run)
  <2>1. StaysThere(st.entry.content.mail) /\ st.entry.content = st.entry.id.content
    BY <1>2, <1>5, BesideStays DEF RowTrue
  <2>2. Held(st.entry) => Held(st.entry)'
    BY <1>2, <2>1, HeldStays
  <2>3. ASSUME st.action.kind = "move", Landed(st) PROVE Landed(st)'
    <3>1. PICK target : target = Folder[st.action.role] /\ target \in Mailboxes
      BY <1>2, <2>3
    <3>2. PICK uid \in UidsIn(server, target) :
            /\ SamePlace(st.entry, server[target].msgs[uid])
            /\ IdentityAt(target, uid) # st.entry.binding
      BY <2>3, <3>1 DEF Landed
    <3>3. /\ server'[target].msgs[uid] = server[target].msgs[uid]
          /\ server'[target].validity = server[target].validity
          /\ uid \in UidsIn(server', target)
      BY <2>1, <3>1, <3>2, BoxesStay DEF StaysThere, SamePlace, UidsIn, Present
    <3>4. QED
      BY <3>1, <3>2, <3>3 DEF Landed, IdentityAt
  <2>4. ASSUME \A row \in rows : row.id = st.entry.id => Held(row),
               NEW new \in rows', new.id = st.entry.id
        PROVE  Held(new)'
    <3>1. ASSUME NEW row \in rows, new.id = row.id, new.content = row.content,
                 new.role = row.role, new.binding = row.binding
          PROVE  Held(new)'
      <4>1. row \in Rows /\ RowTrue(server, row) /\ row.content = st.entry.content
        BY <1>0, <2>1, <2>4, <3>1 DEF HandlesInv, RowTrue
      <4>2. Held(row)'
        BY <2>1, <2>4, <3>1, <4>1, HeldStays
      <4>3. QED
        BY <3>1, <4>2 DEF Held, InItsFolder, SamePlace
    <3>2. ASSUME Held(new), new \in Rows, RowTrue(server, new) PROVE Held(new)'
      BY <2>1, <2>4, <3>2, HeldStays DEF RowTrue
    <3>3. QED
      BY <1>5, <2>4, <3>1, <3>2, BesideRow
  <2>5. QED
    BY <1>1, <1>5, <2>2, <2>3, <2>4 DEF Foreseen
<1>6. QED
  BY <1>3, <1>4, <1>5

LEMMA BesideKnown ==
  ASSUME AtPlace, AllCareful, Beside, \A m \in Mutators : ~At(m, "idle") => Foreseen(mutators[m]),
         \A row \in rows : Known(row), NEW new \in rows'
  PROVE  Known(new)'
<1>1. ASSUME NEW row \in rows, new.id = row.id, new.content = row.content,
             new.role = row.role, new.binding = row.binding
      PROVE  Known(new)'
  <2>1. Known(row)'
    BY KnownStays
  <2>2. QED
    BY <1>1, <2>1 DEF Known, Held, InItsFolder, SamePlace
<1>2. CASE OtherApproved(new.id)
  BY <1>2, OtherApprovedStays DEF AtPlace, SystemHandles, Known
<1>3. CASE Held(new) /\ new \in Rows /\ RowTrue(server, new)
  BY <1>3, HeldRowStays
<1>4. QED
  BY <1>1, <1>2, <1>3, BesideRow

LEMMA PartStays ==
  ASSUME SyncsReady, NEW s \in Syncers,
         \/ ListFolder(s) \/ RefreshFlags(s) \/ ReadSizes(s) \/ ReadIndex(s)
         \/ FindMissing(s) \/ Downloaded(s)
         \/ \E uid \in syncs[s].missing : FetchMessage(s, uid)
         \/ \E message \in syncs[s].fetched : StoreMessage(s, message)
  PROVE  ~SyncAt(s, "idle") /\ (SyncAt(s, "idle")' \/ syncs'[s].part = syncs[s].part)
<1>0. syncs \in [Syncers -> SyncStates] /\ syncs[s] \in SyncStates
  BY DEF SyncsReady
<1>1. NextFolder(s) => SyncAt(s, "idle")' \/ syncs'[s].part = syncs[s].part
  BY <1>0 DEF NextFolder, AtRest, SyncAt
<1>2. CASE ListFolder(s)
  BY <1>0, <1>1, <1>2 DEF ListFolder, SyncAt, SyncStates
<1>3. CASE FindMissing(s)
  BY <1>0, <1>1, <1>3 DEF FindMissing, SyncAt, SyncStates
<1>4. CASE Downloaded(s)
  BY <1>1, <1>4 DEF Downloaded, SyncAt
<1>5. CASE RefreshFlags(s) \/ ReadSizes(s) \/ ReadIndex(s)
  <2>1. CASE ReadSizes(s)
    <3>1. PICK sizes, scan : syncs' = [syncs EXCEPT ![s].pc = "index", ![s].sizes = sizes,
                                                    ![s].scan = scan]
      BY <2>1 DEF ReadSizes
    <3>2. syncs'[s].part = syncs[s].part
      BY <1>0, <3>1 DEF SyncStates
    <3>3. QED
      BY <2>1, <3>2 DEF ReadSizes, SyncAt
  <2>2. CASE RefreshFlags(s) \/ ReadIndex(s)
    BY <1>0, <2>2 DEF RefreshFlags, ReadIndex, SyncAt, SyncStates
  <2>3. QED
    BY <1>5, <2>1, <2>2
<1>6. ASSUME NEW uid \in syncs[s].missing, FetchMessage(s, uid)
      PROVE  ~SyncAt(s, "idle") /\ syncs'[s].part = syncs[s].part
  <2>1. PICK fetched : syncs' = [syncs EXCEPT ![s].missing = @ \ {uid},
                                              ![s].fetched = fetched]
    BY <1>6 DEF FetchMessage
  <2>2. syncs'[s].part = syncs[s].part
    BY <1>0, <2>1 DEF SyncStates
  <2>3. QED
    BY <1>6, <2>2 DEF FetchMessage, SyncAt
<1>7. ASSUME NEW message \in syncs[s].fetched, StoreMessage(s, message)
      PROVE  ~SyncAt(s, "idle") /\ (SyncAt(s, "idle")' \/ syncs'[s].part = syncs[s].part)
  <2>1. CASE CanIngest(rows, StoredRow(s, message))
    BY <1>0, <1>7, <2>1 DEF StoreMessage, SyncAt, SyncStates
  <2>2. CASE ~CanIngest(rows, StoredRow(s, message))
    BY <1>0, <1>7, <2>2 DEF StoreMessage, SyncAt, AtRest
  <2>3. QED
    BY <2>1, <2>2
<1>8. QED
  BY <1>2, <1>3, <1>4, <1>5, <1>6, <1>7

\* Who syncs may sync, and stores what the account's storage mode says.
LEMMA EngagedStep ==
  ASSUME SystemTyped, [WatchNext]_systemVars, NEW s \in Syncers, Engaged(s)
  PROVE  Engaged(s)'
<1>0. /\ Typed /\ SyncsReady /\ syncs \in [Syncers -> SyncStates] /\ setting' = setting
      /\ Watchers \subseteq Syncers
  BY SettingStays, WatchAssumption DEF SystemTyped, SyncsReady, WatchesTyped
<1>1. CASE syncs'[s] = syncs[s]
  BY <1>0, <1>1 DEF Engaged, SyncAt, MaySync
<1>2. CASE SyncAt(s, "idle")'
  BY <1>2 DEF Engaged
<1>3. CASE ~SyncAt(s, "idle") /\ syncs'[s].part = syncs[s].part
  BY <1>0, <1>3 DEF Engaged, MaySync
<1>4. ASSUME NEW part \in setting.sync.parts, MaySync(s), syncs'[s].part = part
      PROVE  Engaged(s)'
  BY <1>0, <1>4 DEF Engaged, MaySync
<1>5. CASE StartSync(s) /\ s \notin Watchers
  <2>1. PICK plan \in setting.sync.plans, part \in setting.sync.parts,
             limit \in setting.sync.limits :
          syncs' = [syncs EXCEPT ![s].pc = "list", ![s].plan = plan,
                                 ![s].part = part, ![s].limit = limit]
    BY <1>5 DEF StartSync
  <2>2. syncs'[s].part = part /\ MaySync(s)
    BY <1>0, <1>5, <2>1 DEF SyncStates, MaySync
  <2>3. QED
    BY <1>4, <2>2
<1>6. CASE Wake(s) /\ s \in Watchers
  <2>1. PICK part \in setting.sync.parts :
          syncs' = [syncs EXCEPT ![s].pc = "list", ![s].plan = <<"inbox">>,
                                 ![s].part = part, ![s].limit = NoLimit]
    BY <1>6 DEF Wake
  <2>2. syncs'[s].part = part /\ MaySync(s)
    BY <1>0, <1>6, <2>1 DEF SyncStates, MaySync, Wake
  <2>3. QED
    BY <1>4, <2>2
<1>7. CASE SyncFails(s) \/ WatchFails(s)
  BY <1>0, <1>2, <1>7 DEF SyncFails, WatchFails, AtRest, SyncAt
<1>8. CASE Announce(s)
  BY <1>1, <1>8 DEF Announce, allVars
<1>9. CASE s \in Watchers
  <2>1. syncs'[s] = syncs[s] \/ WatchStep(s) \/ WatchFails(s)
    BY <1>9, OwnSteps
  <2>2. QED
    BY <1>0, <1>1, <1>2, <1>3, <1>6, <1>7, <1>8, <1>9, <2>1, PartStays
    DEF WatchStep, WatchSyncs, WatchStores, WatchSynced
<1>10. CASE s \notin Watchers
  <2>1. \/ syncs'[s] = syncs[s]
        \/ SyncStep(s) \/ SyncFails(s)
    <3>1. ASSUME NEW t \in Syncers, t # s, SyncStep(t) \/ SyncFails(t)
          PROVE  syncs'[s] = syncs[s]
      BY <1>0, <3>1, SyncStepKinds, OthersKeepTheirs
    <3>2. ASSUME NEW w \in Watchers, WatchStep(w) \/ WatchFails(w)
          PROVE  syncs'[s] = syncs[s]
      <4>1. Announce(w) \/ Reads(w) \/ Writes(w)
        BY <3>2, WatchStepKinds DEF SystemTyped, WatchesTyped
      <4>2. QED
        BY <1>0, <1>10, <4>1, OthersKeepTheirs DEF Announce, allVars
    <3>3. QED
      BY <3>1, <3>2 DEF WatchNext, Deliver, systemVars, allVars
  <2>2. QED
    BY <1>0, <1>1, <1>2, <1>3, <1>5, <1>7, <1>10, <2>1, PartStays DEF SyncStep
<1>11. QED
  BY <1>9, <1>10

LEMMA FreshCareful ==
  ASSUME NEW st, Starts(st)
  PROVE  Careful(st) /\ Careful(st)'
BY DEF Starts, Fresh, Careful, InPart, Current

\* The rows of an id come from the rows of that id.
LEMMA IdsStay ==
  ASSUME SystemTyped, [Next]_vars \/ UNCHANGED rows, NEW new \in rows'
  PROVE  \E row \in rows : row.id = new.id
BY MutatedRow DEF SystemTyped, MutatedFrom, SameMessage

LEMMA UnkeptStays ==
  ASSUME SystemTyped, SyncsReliable, [WatchNext]_systemVars, [Next]_vars \/ UNCHANGED rows,
         NEW s \in Syncers, NEW st, st = syncs[s], NEW uid \in Uid(st.listing),
         Unkept(st, uid)
  PROVE  Unkept(st, uid)'
<1>0. /\ Typed /\ Paired /\ Ready(st) /\ Reliable(server, st)
      /\ WellNumbered(server) /\ WellNumbered(server') /\ Continues(server, server')
  BY MailboxesContinue DEF SystemTyped, WatchesTyped, SyncsReady, SyncsReliable
<1>1. PICK mail : Denotes(server, Ident(st, uid), mail)
  BY <1>0 DEF Reliable, Uid
<1>2. Ident(st, uid) \in Identities
  <2>1. ~Fresh(st)
    BY DEF Fresh, Uid
  <2>2. QED
    BY <1>0, <2>1, IdentTyped
<1>3. Gone(server, Ident(st, uid)) => Gone(server', Ident(st, uid))
  BY <1>0, <1>1, <1>2, GoneStays
<1>4. QED
  BY <1>3, IdsStay DEF Unkept

\* What was fetched is no row that a mutation works on, and stays where it was listed.
LEMMA NewlyStays ==
  ASSUME AtPlace, [Next]_vars \/ Beside, [Next]_vars \/ UNCHANGED rows,
         \A m \in Mutators : ~At(m, "idle") => EntryInHand(mutators[m]),
         NEW s \in Syncers, NEW st, st = syncs[s], NEW message \in st.fetched,
         Newly(st, message)
  PROVE  Newly(st, message)'
<1> DEFINE id == FetchedId(st, message)
           place == Ident(st, message.uid)
<1>0. SystemTyped /\ Ready(st) /\ Reliable(server, st) /\ [WatchNext]_systemVars
  BY DEF AtPlace, SystemHandles, SystemTyped, SyncsReady, SyncsReliable
<1>1. ~HasRow(rows, id) /\ ~HasRow(rows', id)
  BY <1>0, IdsStay DEF Newly, HasRow
<1>2. CASE OtherApproved(id)
  BY <1>0, <1>1, <1>2, OtherApprovedStays DEF Newly
<1>3. CASE ~OtherApproved(id)
  <2>1. Denotes(server, place, message.content.mail) /\ ~Gone(server, place)
    BY <1>0, <1>3 DEF Reliable, Newly
  <2>2. place \in Identities
    <3>1. ~Fresh(st) /\ message.uid \in Uid(st.listing)
      BY <1>0 DEF Fresh, Ready
    <3>2. QED
      BY <1>0, <3>1, IdentTyped
  <2>3. ASSUME NEW m \in Mutators, mutators[m].pc \in CommandPcs, mutators[m].entry.id = id
        PROVE  FALSE
    <3>1. EntryInHand(mutators[m])
      BY <2>3 DEF At, CommandPcs, MovePcs
    <3>2. QED
      BY <1>1, <2>3, <3>1 DEF EntryInHand, CommandPcs, MovePcs
  <2>4. StaysThere(id.content.mail)
    BY <1>3, <2>3, WhoReaches
  <2>5. id.content = message.content
    BY DEF FetchedId, IngestId
  <2> HIDE DEF id, place
  <2>6. ~Gone(server', place)
    BY <2>1, <2>2, <2>4, <2>5, PlaceStays
  <2>7. QED
    BY <1>1, <2>6 DEF Newly, id, place
<1>4. QED
  BY <1>2, <1>3

LEMMA CarefulStays ==
  ASSUME AtPlace, [Next]_vars \/ Beside, [Next]_vars \/ UNCHANGED rows,
         \A m \in Mutators : ~At(m, "idle") => EntryInHand(mutators[m]),
         NEW s \in Syncers, NEW st, st = syncs[s], Careful(st)
  PROVE  Careful(st)'
<1>0. /\ SystemTyped /\ Typed /\ Paired /\ SyncsReliable /\ Ready(st) /\ [WatchNext]_systemVars
      /\ ~Enabled("renumber")
  BY DEF AtPlace, SystemHandles, SystemTyped, WatchesTyped, SyncsReady, Quietly, Undisturbed,
         Alone, Enabled, OtherClients
<1>1. Current(server', st)
  BY <1>0, CurrentStays DEF Careful
<1>2. ASSUME NEW uid \in Uid(st.listing), Unkept(st, uid) PROVE Unkept(st, uid)'
  BY <1>0, <1>2, UnkeptStays
<1>3. \A listed \in st.listing : listed.uid \in Uid(st.listing)
  BY DEF Uid
<1>4. st.missing \subseteq Uid(st.listing)
  BY <1>0 DEF Ready
<1>5. \A message \in st.fetched : Newly(st, message)'
  BY NewlyStays DEF Careful
<1>6. QED
  BY <1>1, <1>2, <1>3, <1>4, <1>5 DEF Careful, InPart, SizeRead

\* Where a row was stored its size key is read, unless the message has left.
LEMMA SizesTell ==
  ASSUME RowsLinked, PlacesKept, KeysTold, Quietly, Typed, SyncsReady, NEW s \in Syncers,
         Reliable(server, syncs[s]), NEW listed \in syncs[s].listing,
         NEW sizes \in LocalSizesByRole(rows, Role(s)),
         [validity |-> syncs[s].validity, uid |-> listed.uid, size |-> Size[listed.mail]]
           \notin sizes
  PROVE  Unkept(syncs[s], listed.uid)
<1> DEFINE place == Ident(syncs[s], listed.uid)
<1>0. place \in Identities
  <2>1. ~Fresh(syncs[s]) /\ listed.uid \in Uid(syncs[s].listing) /\ Ready(syncs[s])
    BY DEF Fresh, Uid, SyncsReady
  <2>2. QED
    BY <2>1, IdentTyped
<1>1. ASSUME NEW row \in rows, row.id.role = Role(s), row.id.identity = place,
             row.id.content.part = "full", ~Gone(server, place)
      PROVE  FALSE
  <2>1. /\ row.content = row.id.content /\ Denotes(server, place, row.content.mail)
        /\ Denotes(server, place, listed.mail)
    BY <1>1 DEF RowsLinked, Linked, Reliable
  <2>2. row.content.mail = listed.mail
    BY <1>1, <2>1, PlaceHolds
  <2>3. AtOrigin(row) /\ row.role = Role(s) /\ row.binding = place
    BY <1>1 DEF PlacesKept, InPlace, AtOrigin
  <2>4. BlobSize(row.content) = Size[listed.mail] /\ row.binding # NoBinding
    BY <1>0, <1>1, <2>1, <2>2, <2>3, MutationAssumption DEF BlobSize
  <2>5. /\ row.binding.validity = syncs[s].validity /\ row.binding.uid = listed.uid
    BY <2>3 DEF Ident
  <2>6. SizeOf(row) \in sizes
    BY <2>3, <2>4, SizeIsKept DEF Quietly, Undisturbed
  <2>7. QED
    BY <2>4, <2>5, <2>6 DEF SizeOf
<1>2. QED
  BY <1>1 DEF Unkept, Role

\* What a worker gets for a listed UID is no row yet.
LEMMA GottenIsNew ==
  ASSUME SyncsReady, OneSync, NEW s \in Syncers, SyncAt(s, "download"), Engaged(s),
         Careful(syncs[s]), NEW uid \in syncs[s].missing,
         Present(server, Folder[Role(s)], uid)
  PROVE  Newly(syncs[s], Gotten(s, uid))
<1>1. Unkept(syncs[s], uid) /\ syncs[s].part = "full"
  BY DEF Careful, SyncAt, Engaged, OneSync
<1>2. ~Gone(server, Ident(syncs[s], uid))
  <2>1. syncs[s].listing # {}
    BY DEF SyncsReady, Ready, Uid
  <2>2. QED
    BY <2>1 DEF Careful, Current, Gone, Ident, Role
<1>3. FetchedId(syncs[s], Gotten(s, uid)) =
        [role |-> Head(syncs[s].plan), identity |-> Ident(syncs[s], uid),
         content |-> [mail |-> server[Folder[Role(s)]].msgs[uid].mail, part |-> "full"]]
  BY <1>1 DEF FetchedId, IngestId, Gotten
<1>4. ~HasRow(rows, FetchedId(syncs[s], Gotten(s, uid)))
  BY <1>1, <1>2, <1>3 DEF HasRow, Unkept
<1>5. Gotten(s, uid).uid = uid
  BY DEF Gotten
<1>6. QED
  BY <1>2, <1>4, <1>5 DEF Newly

LEMMA BecomingCareful ==
  ASSUME Typed, SyncsReady, Quietly, RowsLinked, PlacesKept, KeysTold, NEW s \in Syncers,
         Reliable(server, syncs[s]), Engaged(s), Careful(syncs[s]),
         NEW new, Becoming(s, new)
  PROVE  Careful(new)
<1> DEFINE st == syncs[s]
<1>0. InPart(new) /\ Current(server, new)
  BY BecomingInPart, BecomingCurrent DEF Careful
<1>1. CASE Starts(new)
  BY <1>1, FreshCareful
<1>2. CASE HasListed(s, new)
  BY <1>0, <1>2 DEF HasListed, Careful
<1>3. CASE GoesOnTo(s, new)
  <2>1. /\ new.listing = st.listing
        /\ \A uid : Ident(new, uid) = Ident(st, uid) /\ Unkept(new, uid) = Unkept(st, uid)
        /\ \A message : Newly(new, message) = Newly(st, message)
    BY <1>3 DEF GoesOnTo, SameFolder, Ident, Unkept, Newly, FetchedId
  <2>2. CASE HasRefreshed(s, new)
    <3>1. new.fetched = {} /\ new.pc \in {"refresh", "sizes"}
      BY <2>2 DEF HasRefreshed, SameFetched, Careful, SyncAt
    <3>2. QED
      BY <1>0, <3>1 DEF Careful
  <2>3. CASE HasRead(s, new)
    <3>1. new.fetched = {} /\ new.pc \in {"index", "find"}
      BY <2>3 DEF HasRead, SameFetched, Careful, SyncAt
    <3>2. ASSUME NEW listed \in st.listing
          PROVE  SizeRead(new, listed) \/ Unkept(st, listed.uid)
      <4>1. new.validity = st.validity
        BY <1>3 DEF GoesOnTo, SameFolder
      <4>2. CASE SyncAt(s, "index") /\ new.sizes = st.sizes
        BY <3>2, <4>1, <4>2 DEF Careful, SyncAt, SizeRead
      <4>3. CASE new.sizes \in LocalSizesByRole(rows, Role(s))
        BY <3>2, <4>1, <4>3, SizesTell DEF SizeRead
      <4>4. QED
        BY <2>3, <4>2, <4>3 DEF HasRead
    <3>3. QED
      BY <1>0, <2>1, <3>1, <3>2 DEF Careful
  <2>4. CASE HasFound(s, new)
    <3>1. new.fetched = {} /\ new.pc = "download" /\ new.missing = Selected(s)
      BY <2>4 DEF HasFound, SameFetched, Careful, SyncAt
    <3>2. ASSUME NEW uid \in Selected(s) PROVE Unkept(st, uid)
      <4>1. PICK listed \in st.listing : listed.uid = uid /\ Lacks(s, listed)
        BY <3>2 DEF Selected, Truncate
      <4>2. ~SizeRead(st, listed)
        BY <4>1 DEF Lacks, SizeMatches, SizeRead
      <4>3. QED
        BY <2>4, <4>1, <4>2 DEF HasFound, Careful, SyncAt
    <3>3. QED
      BY <1>0, <2>1, <3>1, <3>2 DEF Careful
  <2>5. ASSUME NEW uid \in st.missing, HasFetched(s, new, uid)
        PROVE  Careful(new)
    <3>1. /\ SyncAt(s, "download") /\ new.pc = "download" /\ new.missing = st.missing \ {uid}
          /\ new.fetched = IF Present(server, Folder[Role(s)], uid)
                           THEN st.fetched \union {Gotten(s, uid)} ELSE st.fetched
      BY <2>5 DEF HasFetched
    <3>2. \A other \in new.missing : Unkept(st, other)
      BY <3>1 DEF Careful, SyncAt
    <3>3. ASSUME NEW message \in new.fetched
          PROVE  message \in st.fetched \/ (message = Gotten(s, uid) /\ Newly(st, message))
      BY <2>5, <3>1, <3>3, GottenIsNew DEF Quietly
    <3>4. Gotten(s, uid).uid = uid /\ \A message \in st.fetched : message.uid # uid
      BY <2>5 DEF Gotten, Careful
    <3>5. ASSUME NEW message \in new.fetched
          PROVE  /\ message.uid \notin new.missing /\ Newly(st, message)
                 /\ \A other \in new.fetched : other.uid = message.uid => other = message
      BY <3>1, <3>3, <3>4, <3>5 DEF Careful
    <3>6. QED
      BY <1>0, <2>1, <3>1, <3>2, <3>5 DEF Careful
  <2>6. ASSUME NEW message \in st.fetched, HasStored(s, new, message)
        PROVE  Careful(new)
    <3>1. /\ SyncAt(s, "download") /\ new.pc = "download" /\ new.missing = st.missing
          /\ new.fetched \subseteq st.fetched
      BY <2>6 DEF HasStored
    <3>2. QED
      BY <1>0, <2>1, <3>1 DEF Careful, SyncAt
  <2>7. QED
    BY <1>3, <2>2, <2>3, <2>4, <2>5, <2>6 DEF GoesOnTo
<1>4. QED
  BY <1>1, <1>2, <1>3 DEF Becoming

\* The row just stored has another UID than the messages still to fetch or to store.
LEMMA StoredCareful ==
  ASSUME Typed, SyncsReady, NEW s \in Syncers, Careful(syncs[s]), Reliable(server, syncs[s]),
         UNCHANGED <<server, audit, synced>>,
         NEW message \in syncs[s].fetched, StoreMessage(s, message),
         rows' = Ingest(rows, StoredRow(s, message)),
         NEW new, SameFolder(syncs[s], new), HasStored(s, new, message)
  PROVE  Careful(new)'
<1> DEFINE st == syncs[s]
           stored == StoredRow(s, message)
<1>0. InPart(new) /\ Current(server, new)
  BY BecomingInPart, BecomingCurrent DEF Careful, Becoming, GoesOnTo
<1>1. /\ new.listing = st.listing /\ new.pc = "download" /\ new.missing = st.missing
      /\ new.fetched = st.fetched \ {message}
      /\ new.plan = st.plan /\ new.validity = st.validity
  BY DEF SameFolder, HasStored
<1>2. /\ stored.id.identity = Ident(st, message.uid)
      /\ \A row \in rows' : row \in rows \/ row = stored
  BY StoredRowIs DEF Ingest
<1>3. ASSUME NEW uid, uid # message.uid PROVE Ident(st, uid) # stored.id.identity
  BY <1>2, <1>3 DEF Ident
<1> HIDE DEF stored
<1>4. ASSUME NEW uid \in st.missing PROVE Unkept(new, uid)'
  <2>1. Unkept(st, uid) /\ uid # message.uid
    BY <1>4 DEF Careful, StoreMessage, SyncAt
  <2>2. QED
    BY <1>1, <1>2, <1>3, <2>1 DEF Unkept, Ident
<1>5. ASSUME NEW other \in new.fetched PROVE Newly(new, other)'
  <2>1. /\ Newly(st, other) /\ other.uid # message.uid
    BY <1>1, <1>5 DEF Careful
  <2>2. FetchedId(st, other).identity = Ident(st, other.uid)
    BY DEF FetchedId, IngestId
  <2>3. ~HasRow(rows', FetchedId(st, other))
    BY <1>2, <1>3, <2>1, <2>2 DEF Newly, HasRow
  <2>4. FetchedId(new, other) = FetchedId(st, other) /\ Ident(new, other.uid) = Ident(st, other.uid)
    BY <1>1 DEF FetchedId, Ident
  <2>5. QED
    BY <2>1, <2>3, <2>4 DEF Newly, OtherApproved
<1>6. QED
  BY <1>0, <1>1, <1>4, <1>5 DEF Careful, InPart, Current

LEMMA WritesCareful ==
  ASSUME Typed, SyncsReady, UNCHANGED <<server, audit, synced>>, NEW s \in Syncers, Writes(s),
         Reliable(server, syncs[s]), Careful(syncs[s])
  PROVE  Careful(syncs[s])'
<1>0. syncs \in [Syncers -> SyncStates] /\ Ready(syncs[s])
  BY DEF SyncsReady
<1>1. CASE RefreshFlags(s)
  <2>1. PICK new : /\ Turns(s, new) /\ Ready(new) /\ SameFolder(syncs[s], new)
                   /\ new.pc \in {"refresh", "sizes"}
                   /\ new.sizes = syncs[s].sizes /\ new.index = syncs[s].index
                   /\ new.fetched = syncs[s].fetched
    BY <1>0, <1>1, RefreshAt
  <2>2. SyncAt(s, "refresh")
    BY <1>1 DEF RefreshFlags
  <2>3. InPart(new) /\ Current(server, new)
    BY <2>1, <2>2, BecomingInPart, BecomingCurrent
    DEF Careful, Becoming, GoesOnTo, HasRefreshed, SameReads, SameFetched
  <2>4. new.fetched = {}
    BY <2>1, <2>2 DEF Careful, SyncAt
  <2>5. syncs'[s] = new
    BY <1>0, <2>1 DEF Turns
  <2>6. QED
    BY <2>1, <2>3, <2>4, <2>5 DEF Careful, InPart, Current
<1>2. ASSUME NEW message \in syncs[s].fetched, StoreMessage(s, message)
      PROVE  Careful(syncs[s])'
  <2>1. CASE CanIngest(rows, StoredRow(s, message))
    <3>1. PICK new : /\ Turns(s, new) /\ Ready(new) /\ SameFolder(syncs[s], new)
                     /\ new.pc = "download" /\ new.missing = syncs[s].missing
                     /\ new.sizes = syncs[s].sizes /\ new.index = syncs[s].index
                     /\ new.fetched = syncs[s].fetched \ {message}
      BY <1>0, <1>2, <2>1, StoreAt
    <3>2. rows' = Ingest(rows, StoredRow(s, message)) /\ SyncAt(s, "download")
      BY <1>2, <2>1 DEF StoreMessage
    <3>3. HasStored(s, new, message)
      BY <3>1, <3>2 DEF HasStored, SameReads
    <3>4. Careful(new)'
      BY <1>2, <3>1, <3>2, <3>3, StoredCareful
    <3>5. syncs'[s] = new
      BY <1>0, <3>1 DEF Turns
    <3>6. QED
      BY <3>4, <3>5 DEF Careful, InPart, Current, SizeRead, Unkept, Newly, FetchedId, Ident
  <2>2. CASE ~CanIngest(rows, StoredRow(s, message))
    <3>1. syncs'[s] = AtRest
      BY <1>0, <1>2, <2>2 DEF StoreMessage
    <3>2. QED
      BY <3>1 DEF Careful, AtRest, InPart, Current
  <2>3. QED
    BY <2>1, <2>2
<1>3. QED
  BY <1>1, <1>2 DEF Writes

LEMMA CarefulStep ==
  ASSUME AtPlace, PlacesKept, KeysTold, AllCareful,
         \A m \in Mutators : ~At(m, "idle") => EntryInHand(mutators[m])
  PROVE  AllCareful'
<1>0. /\ SystemTyped /\ SystemTyped' /\ Typed /\ SyncsReady /\ SyncsReliable /\ RowsLinked
      /\ [WatchNext]_systemVars /\ Quietly /\ OneSync /\ syncs \in [Syncers -> SyncStates]
  BY SystemTypedNext DEF AtPlace, SystemHandles, SystemTyped, Quietly, SyncsReady
<1> SUFFICES ASSUME NEW s \in Syncers PROVE Careful(syncs[s])'
  BY <1>0, EngagedStep DEF AllCareful
<1> DEFINE st == syncs[s]
<1>1. Engaged(s) /\ Careful(st) /\ Reliable(server, st) /\ Ready(st)
  BY <1>0 DEF AllCareful, SyncsReliable, SyncsReady
<1>2. ASSUME syncs'[s] = st, [Next]_vars \/ Beside, [Next]_vars \/ UNCHANGED rows
      PROVE  Careful(syncs[s])'
  <2>1. Careful(st)'
    <3>1. PICK old : old = st
      OBVIOUS
    <3>2. Careful(old)'
      BY <1>1, <1>2, <3>1, CarefulStays
    <3>3. QED
      BY <1>2, <3>1, <3>2
      DEF Careful, InPart, Current, SizeRead, Unkept, Newly, FetchedId, Ident
  <2>2. QED
    BY <2>1
<1>3. CASE SyncAt(s, "idle")'
  BY <1>0, <1>3 DEF SystemTyped, SyncsReady, Ready, Fresh, SyncAt, Careful, InPart, Current
<1>4. CASE [Next]_vars /\ UNCHANGED syncs
  BY <1>2, <1>4
<1>5. ASSUME NEW t \in Syncers, Reads(t), Apart
      PROVE  Careful(syncs[s])'
  <2>1. PICK new : Turns(t, new) /\ Ready(new) /\ Becoming(t, new)
    BY <1>0, <1>5, ReadsTurn
  <2>2. UNCHANGED vars
    BY <1>5 DEF Reads
  <2>3. CASE s = t
    <3>1. Careful(new)
      BY <1>0, <1>1, <2>1, <2>3, BecomingCareful
    <3>2. syncs'[s] = new
      BY <1>0, <2>1, <2>3 DEF Turns
    <3>3. QED
      BY <2>2, <3>1, <3>2
      DEF Careful, InPart, Current, SizeRead, Unkept, Newly, FetchedId, Ident, OtherApproved,
          vars
  <2>4. CASE s # t
    BY <1>0, <1>2, <1>5, <2>2, <2>4, OthersKeepTheirs
  <2>5. QED
    BY <2>3, <2>4
<1>6. ASSUME NEW t \in Syncers, Writes(t), Apart, UNCHANGED server
      PROVE  Careful(syncs[s])'
  <2>1. CASE s = t
    BY <1>0, <1>1, <1>6, <2>1, WritesCareful DEF Apart
  <2>2. CASE s # t
    <3>1. syncs'[s] = st
      BY <1>0, <1>6, <2>2, OthersKeepTheirs
    <3>2. ~SyncAt(t, "idle") /\ Engaged(t)
      BY <1>6 DEF Writes, RefreshFlags, StoreMessage, SyncAt, AllCareful
    <3>3. SyncAt(s, "idle")
      BY <1>0, <1>1, <2>2, <3>2 DEF Engaged, OneSync
    <3>4. QED
      BY <1>3, <3>1, <3>3 DEF SyncAt
  <2>3. QED
    BY <2>1, <2>2
<1>7. ASSUME Apart, UNCHANGED <<rows, syncs>> PROVE Careful(syncs[s])'
  BY <1>2, <1>7 DEF Beside
<1>8. QED
  BY <1>0, <1>4, <1>5, <1>6, <1>7, WhoSteps

-----------------------------------------------------------------------------
(* The invariant, and the theorem                                           *)

PlaceInv ==
  Quietly =>
    /\ OwnRuns
    /\ \A m \in Mutators : ~At(m, "idle") => EntryInHand(mutators[m]) /\ Foreseen(mutators[m])
    /\ \A row \in rows : Known(row)
    /\ AllCareful

SystemPlaced == SystemOnce /\ PlaceInv

\* A row stored at the start is where it was stored.
LEMMA FirstRowsHeld ==
  ASSUME Init, setting.stored.views = {}, NEW row \in rows
  PROVE  Held(row)
<1>1. PICK place \in PlacesOf(setting.stored) :
        row \in RowsOf(place[1], place[2], setting.stored.part)
  BY DEF Init
<1>2. PICK role \in setting.stored.roles : place = <<role, Folder[role]>>
  BY <1>1 DEF PlacesOf
<1>3. PICK uid \in UidsIn(server, Folder[role]) :
        row = RowAt(role, Folder[role], uid, setting.stored.part)
  BY <1>1, <1>2 DEF RowsOf
<1>4. /\ row.role = role /\ row.binding = IdentityAt(Folder[role], uid)
      /\ row.content.mail = server[Folder[role]].msgs[uid].mail
  BY <1>3 DEF RowAt
<1>5. InItsFolder(row)
  BY <1>4 DEF InItsFolder, SamePlace
<1>6. ~Gone(server, row.binding)
  BY <1>4 DEF Gone, IdentityAt, UidsIn, Present
<1>7. QED
  BY <1>5, <1>6 DEF Held

LEMMA SystemPlacedInit == WatchInit => SystemPlaced
<1> SUFFICES ASSUME WatchInit, Quietly PROVE SystemPlaced
  BY SystemOnceInit DEF SystemPlaced, PlaceInv
<1>1. Init /\ setting.stored.views = {}
  BY DEF WatchInit, SyncInit, Quietly, Undisturbed
<1>2. \A m \in Mutators : At(m, "idle")
  BY <1>1 DEF Init, At, Idle
<1>3. OwnRuns
  BY <1>1, <1>2 DEF Init, OwnRuns, RunsNumbered
<1>4. \A row \in rows : Known(row)
  BY <1>1, FirstRowsHeld DEF Known
<1>5. AllCareful
  <2> SUFFICES ASSUME NEW s \in Syncers PROVE Engaged(s) /\ Careful(syncs[s])
    BY DEF AllCareful
  <2>1. SyncAt(s, "idle") /\ Starts(syncs[s])
    BY DEF WatchInit, SyncInit, AtRest, SyncAt, Starts, Fresh
  <2>2. QED
    BY <2>1, FreshCareful DEF Engaged
<1>6. QED
  BY <1>2, <1>3, <1>4, <1>5, SystemOnceInit DEF SystemPlaced, PlaceInv

LEMMA PlaceStep ==
  ASSUME AtPlace, PlacesKept, KeysTold, PlaceInv
  PROVE  PlaceInv'
<1>0. /\ SystemTyped /\ Quietly /\ OwnRuns /\ AllCareful
      /\ \A m \in Mutators :
           ~At(m, "idle") => EntryInHand(mutators[m]) /\ Foreseen(mutators[m])
      /\ \A row \in rows : Known(row)
      /\ [WatchNext]_systemVars
  BY DEF AtPlace, SystemHandles, PlaceInv
<1>1. OwnRuns'
  BY <1>0, OwnRunsStep DEF Quietly
<1>2. \A m \in Mutators :
        ~At(m, "idle")' => EntryInHand(mutators[m])' /\ Foreseen(mutators[m])'
  <2> SUFFICES ASSUME NEW m \in Mutators, ~At(m, "idle")'
               PROVE  EntryInHand(mutators[m])' /\ Foreseen(mutators[m])'
    OBVIOUS
  <2>1. CASE [Next]_vars
    BY <1>0, <2>1, EntryInHandStep, ForeseenStep DEF At
  <2>2. CASE Beside
    <3>1. ~At(m, "idle")
      BY <2>2 DEF Beside, Apart, At
    <3>2. QED
      BY <1>0, <2>2, <3>1, BesideInHand, BesideForeseen
  <2>3. QED
    BY <1>0, <2>1, <2>2, WhoIsBeside
<1>3. ASSUME NEW new \in rows' PROVE Known(new)'
  BY <1>0, <1>3, MutatedKnown, BesideKnown, WhoIsBeside
<1>4. AllCareful'
  BY <1>0, CarefulStep
<1>5. QED
  BY <1>1, <1>2, <1>3, <1>4 DEF PlaceInv

LEMMA SystemPlacedNext == SystemPlaced /\ [WatchNext]_systemVars => SystemPlaced'
<1> SUFFICES ASSUME SystemPlaced, [WatchNext]_systemVars PROVE SystemPlaced'
  OBVIOUS
<1>1. SystemOnce'
  BY SystemOnceNext DEF SystemPlaced
<1>2. SystemHandles /\ RowsLinked /\ PlacesKept /\ KeysTold
  BY DEF SystemPlaced, SystemOnce, SystemThorough
<1>3. setting' = setting
  BY <1>2, SettingStays DEF SystemHandles, SystemTyped, WatchesTyped
<1>4. ASSUME Quietly' PROVE PlaceInv'
  <2>1. Quietly
    BY <1>3, <1>4
    DEF Quietly, Undisturbed, Alone, OtherClients, OneSync, MaySync, KeysTellApart, Moves,
        Enabled
  <2>2. AtPlace
    BY <1>2, <2>1 DEF AtPlace, SystemPlaced, PlaceInv
  <2>3. QED
    BY <1>2, <2>2, PlaceStep DEF SystemPlaced
<1>5. QED
  BY <1>1, <1>4 DEF SystemPlaced, PlaceInv

LEMMA PlacedMeans == SystemPlaced => PlaceIsTrueOrUnsettled
<1> SUFFICES ASSUME SystemPlaced, Quietly, NEW row \in rows
             PROVE  InItsFolder(row) \/ Unsettled(row.id) \/ ApprovedForOther(row)
  BY DEF PlaceIsTrueOrUnsettled, Quietly, Undisturbed
<1>1. Known(row) /\ row.content = row.id.content
  BY DEF SystemPlaced, PlaceInv, SystemOnce, SystemThorough, SystemHandles, HandlesInv,
         RowTrue
<1>2. 1..synced \subseteq DOMAIN audit
  BY DEF SystemPlaced, SystemOnce, SystemThorough, SystemHandles, SystemTyped, Typed, TypeOK
<1>3. CASE Open(row.id)
  <2>1. PICK run \in Runs : OpenRun(run, row.id)
    BY <1>3 DEF Open
  <2>2. QED
    BY <1>2, <2>1 DEF OpenRun, Unsettled
<1>4. CASE OtherApproved(row.id)
  BY <1>1, <1>2, <1>4 DEF OtherApproved, ApprovedForOther
<1>5. CASE Held(row)
  BY <1>5 DEF Held
<1>6. QED
  BY <1>1, <1>3, <1>4, <1>5 DEF Known

(* A sync beside the mutations puts no row back where its message no longer *)
(* is: with one process that syncs in full, one that mutates and no other   *)
(* mail client, the audit file accounts for every row whose folder does not *)
(* hold the message, by a run on the row that was approved and not          *)
(* reconciled, or by one that was approved on another row of the message,   *)
(* though mail comes in, and processes crash, between a listing and the     *)
(* rows it leads to (store_message, run_prepared_mutation).  KeysTellApart  *)
(* says what it asks of the mailboxes where rows are moved.                 *)
THEOREM PlacesAreAccountedFor == WatchSpec => []PlaceIsTrueOrUnsettled
<1>1. QED
  BY SystemPlacedInit, SystemPlacedNext, PlacedMeans, PTL DEF WatchSpec
=============================================================================
