------------------------------ MODULE SyncCommand ------------------------------
(***************************************************************************)
(* `vivi-mail sync` from its options to its last account (src/src/         *)
(* sync_command.rs, sync.rs): the checks, the reset, the choice of the     *)
(* folders, their sync and the index afterwards, account by account.  What *)
(* the sync of a folder does in itself is in MailSync.                     *)
(***************************************************************************)
EXTENDS SyncPlan, AccountReset, FiniteSets

CONSTANTS
  NoLimit,
  Settings

(* A setting says                                                           *)
(*   env        the process's environment                                   *)
(*   tree       the directories there are                                   *)
(*   stored     what they hold before                                       *)
(*   accounts   the accounts that are synced, in order                      *)
(*   options    of the command                                              *)
(*   fails      whether a folder, the reset or the index may fail           *)
Providers == {"imap", "proton-api"}
Modes == {"proxy", "headers", "bodies", "semantic"}

Accounts == [path : Paths, custom : BOOLEAN, provider : Providers, mode : Modes,
             folders : [Roles -> Words], defaults : Seq(Names) \union {NoDefaults}]

\* --since and --before, which may not be dates.
Windows == {"none", "dates", "nonsense"}

Options == [reset : BOOLEAN, confirmed : BOOLEAN, all : BOOLEAN, named : Seq(Names),
            limit : {NoLimit, 0, 1}, window : Windows, index : BOOLEAN, embed : BOOLEAN]

(* What a directory holds: mail of a role, the index, vectors, the session  *)
(* of a Proton account; and since when.                                     *)
Kinds == Roles \union {"index", "vectors", "session"}

Held == [dir : Paths, kind : Kinds, new : BOOLEAN]

ASSUME SyncCommandAssumption ==
  \A s \in Settings :
    /\ s.env \in Environments /\ s.tree \subseteq Paths /\ s.stored \subseteq Held
    /\ \A held \in s.stored : held.dir \in s.tree
    /\ s.accounts \in Seq(Accounts) /\ s.accounts # <<>>
    /\ s.options \in Options /\ s.fails \in BOOLEAN

CommandPcs == {"validate", "reset", "select", "prepare", "folders", "index", "embed",
               "next", "done", "failed"}

VARIABLES
  setting,
  tree,        \* the directories there are
  stored,      \* what they hold
  pc,
  current,     \* the account
  selection,
  plans,       \* the folders chosen
  synced       \* how many of them are done

vars == <<setting, tree, stored, pc, current, selection, plans, synced>>

NoSelection == [kind |-> "default", names |-> <<>>]

Init ==
  /\ setting \in Settings
  /\ tree = setting.tree
  /\ stored = setting.stored
  /\ pc = "validate" /\ current = 1
  /\ selection = NoSelection /\ plans = <<>> /\ synced = 0

Account == setting.accounts[current]

Given == setting.options

Directory(account) == Canonical(setting.env, account.path)

\* Mutant: the directory the accounts share.
UnderParent(dir) == {path \in tree : StartsWith(path, SubSeq(dir, 1, Len(dir) - 1))}

Under(dir) == {path \in tree : StartsWith(path, dir)}

Goto(next) == pc' = next

\* An error ends the command, whatever accounts are left.
Fail == Goto("failed") /\ UNCHANGED <<setting, tree, stored, current, selection, plans, synced>>

ValidateOptions ==
  LET restricts == \/ Given.limit # NoLimit \/ Given.window # "none"
                   \/ Given.named # <<>>
  IN  /\ pc = "validate"
      /\ IF (Given.reset /\ restricts) \/ Given.window = "nonsense" THEN Fail
         ELSE Goto("reset") /\ UNCHANGED <<setting, tree, stored, current, selection,
                                           plans, synced>>

Allowed ==
  MayReset(setting.env, tree, Directory(Account), Account.custom, Given.confirmed)

NoReset ==
  /\ pc = "reset"
  /\ IF Given.reset THEN ~Allowed /\ Fail
     ELSE Goto("select") /\ UNCHANGED <<setting, tree, stored, current, selection,
                                        plans, synced>>

\* The directory and all it holds.
ResetAccount ==
  LET gone == Under(Directory(Account)) IN
  /\ pc = "reset" /\ Given.reset
  /\ Allowed
  /\ tree' = tree \ gone
  /\ stored' = {held \in stored : held.dir \notin gone}
  /\ Goto("select")
  /\ UNCHANGED <<setting, current, selection, plans, synced>>

\* The removal stops half way.
ResetFails ==
  /\ pc = "reset" /\ Given.reset /\ setting.fails
  /\ Allowed
  /\ \E kept \in SUBSET {held \in stored : held.dir \in Under(Directory(Account))} :
       stored' = {held \in stored : held.dir \notin Under(Directory(Account))} \union kept
  /\ Goto("failed")
  /\ UNCHANGED <<setting, tree, current, selection, plans, synced>>

\* The selection is computed, and refused, after the reset.
SelectFolders ==
  LET chosen == FromInputs(Given.all, Given.named, Account.defaults) IN
  /\ pc = "select"
  /\ IF chosen = Error THEN Fail
     ELSE /\ selection' = chosen
          /\ Goto("prepare")
          /\ UNCHANGED <<setting, tree, stored, current, plans, synced>>

Ancestors(dir) == {SubSeq(dir, 1, n) : n \in 0..Len(dir)}

HasSession == \E held \in stored : held.dir = Directory(Account) /\ held.kind = "session"

(* The directory is made; --limit 0 goes no further.  A Proton account has  *)
(* no folders to choose: it is synced as a whole, with the session that its *)
(* directory holds.                                                         *)
PrepareSync ==
  LET imap == Account.provider = "imap"
      refused == \/ Account.mode = "proxy"
                 \/ imap /\ SelectionRefused(Account.folders, selection)
                 \/ ~imap /\ ~HasSession
  IN  /\ pc = "prepare"
      /\ IF ~imap /\ selection.kind = "named" THEN Fail
         ELSE /\ tree' = tree \union Ancestors(Directory(Account))
              /\ CASE Given.limit = 0 ->
                        plans' = <<>> /\ Goto("index")
                   [] Given.limit # 0 /\ refused ->
                        plans' = <<>> /\ Goto("failed")
                   [] Given.limit # 0 /\ ~refused /\ ~imap ->
                        plans' = <<PlanOf(Account.folders, "inbox")>> /\ Goto("folders")
                   [] OTHER ->
                        plans' = PlansFor(Account.folders, selection) /\ Goto("folders")
              /\ synced' = 0
              /\ UNCHANGED <<setting, stored, current, selection>>

Hold(kind) ==
  stored' = stored \union {[dir |-> Directory(Account), kind |-> kind, new |-> TRUE]}

SyncFolder ==
  /\ pc = "folders" /\ synced < Len(plans)
  /\ Hold(plans[synced + 1].role)
  /\ synced' = synced + 1
  /\ UNCHANGED <<setting, tree, pc, current, selection, plans>>

FoldersSynced ==
  /\ pc = "folders" /\ synced = Len(plans)
  /\ Goto("index")
  /\ UNCHANGED <<setting, tree, stored, current, selection, plans, synced>>

\* --embed rebuilds the index too.
RebuildIndex ==
  /\ pc = "index"
  /\ IF Given.index \/ Given.embed THEN Hold("index") /\ Goto("embed")
     ELSE UNCHANGED stored /\ Goto("next")
  /\ UNCHANGED <<setting, tree, current, selection, plans, synced>>

Embed ==
  /\ pc = "embed"
  /\ CASE ~Given.embed -> UNCHANGED stored /\ Goto("next")
       [] Given.embed /\ Account.mode # "semantic" -> UNCHANGED stored /\ Goto("failed")
       [] OTHER -> Hold("vectors") /\ Goto("next")
  /\ UNCHANGED <<setting, tree, current, selection, plans, synced>>

\* A connection, the database or the provider of the vectors fails.
StepFails == pc \in {"folders", "index", "embed"} /\ setting.fails /\ Fail

\* Mutant: one account too many.
NextAccountBeyond ==
  /\ pc = "next"
  /\ IF current <= Len(setting.accounts)
     THEN current' = current + 1 /\ Goto("reset")
     ELSE UNCHANGED current /\ Goto("done")
  /\ UNCHANGED <<setting, tree, stored, selection, plans, synced>>

NextAccount ==
  /\ pc = "next"
  /\ IF current < Len(setting.accounts)
     THEN current' = current + 1 /\ Goto("reset")
     ELSE UNCHANGED current /\ Goto("done")
  /\ UNCHANGED <<setting, tree, stored, selection, plans, synced>>

Next ==
  \/ ValidateOptions \/ NoReset \/ ResetAccount \/ ResetFails \/ SelectFolders
  \/ PrepareSync \/ SyncFolder \/ FoldersSynced \/ RebuildIndex \/ Embed
  \/ StepFails \/ NextAccount

Spec == Init /\ [][Next]_vars

-----------------------------------------------------------------------------
TypeOK ==
  /\ tree \subseteq Paths
  /\ stored \subseteq Held
  /\ pc \in CommandPcs
  /\ current \in 1..Len(setting.accounts)
  /\ selection \in Selections
  /\ plans \in Seq(Plans)
  /\ synced \in 0..Len(plans)

(* What a step takes away, of the directories or of what they hold.         *)
Lost == (tree \ tree') \union {held.dir : held \in stored \ stored'}

FarBelow(dir, top) == StartsWith(dir, top) /\ Len(dir) > Len(top) + 1

(* What `sync` takes away, also by a reset that stops half way, is the      *)
(* account's own directory or below it, wherever links lead, and neither is *)
(* the mail root nor holds it.  Of a managed account it is in the mail      *)
(* root, holds none of the home directory, the working directory and its    *)
(* repository, and is not in the last two.  Of a custom directory it is in  *)
(* one of the three, or holds one, only where that one is two levels or     *)
(* more below the directory: it is then lost with it, for validate_reset    *)
(* compares direct parents only, although reset_account_cache says that     *)
(* home, cwd and repositories are always rejected.  The home directory is   *)
(* compared as the environment names it, never by where a link leads        *)
(* (validate_reset, reject_dangerous_target).                               *)
ResetIsContained ==
  [][\A path \in Lost :
       LET env == setting.env
           own == Directory(Account)
       IN  /\ StartsWith(path, own) /\ ~StartsWith(ManagedRoot(env, tree), path)
           /\ ~Account.custom =>
                /\ StartsWith(path, ManagedRoot(env, tree))
                /\ \A dir \in Dangerous(env) : ~StartsWith(dir, path)
                /\ \A dir \in {env.cwd} \union RepoRoots(env) : ~StartsWith(path, dir)
           /\ Account.custom =>
                \A dir \in Dangerous(env) :
                  StartsWith(path, dir) \/ StartsWith(dir, path) => FarBelow(dir, own)]_vars

(* "That clears the local cache for the account and re-downloads and         *)
(* re-indexes from the account's remote source of truth: the Proton API for  *)
(* provider = proton-api, IMAP otherwise" (README.md 340-342): when nothing  *)
(* fails, a command that ends in an error has removed nothing.               *)
ResetIsResynced ==
  Given.reset /\ ~setting.fails /\ pc = "failed" => stored = setting.stored

(* A sync of named folders covers every one of them, takes no role and no   *)
(* mailbox twice, and never reads a virtual mailbox, whatever the account   *)
(* calls its folders (named_plans).                                         *)
PlansAreSound ==
  pc = "folders" /\ selection.kind = "named" =>
    /\ \A i, j \in DOMAIN plans :
         i # j => plans[i].role # plans[j].role /\ plans[i].folder # plans[j].folder
    /\ \A i \in DOMAIN plans : plans[i].folder \notin VirtualWords
    /\ \A k \in DOMAIN selection.names :
         \E i \in DOMAIN plans :
           \/ plans[i].folder = Account.folders[RoleNamed(Account.folders, selection.names[k])]
           \/ plans[i].role = RoleNamed(Account.folders, selection.names[k])

(* At every moment, also after an error: the accounts that are done hold    *)
(* the mail they asked for, and after a reset nothing older, whatever is    *)
(* reset, synced or failing after them; those whose turn has not come hold  *)
(* exactly what they held.  Accounts whose directories are one in the other *)
(* do not keep this (sync, sync_one_account).                               *)
Apart ==
  \A i, j \in DOMAIN setting.accounts :
    i # j => ~StartsWith(Directory(setting.accounts[i]), Directory(setting.accounts[j]))

Asked(account) ==
  LET chosen == FromInputs(Given.all, Given.named, account.defaults)
      covered == IF account.provider = "imap" THEN PlansFor(account.folders, chosen)
                 ELSE <<PlanOf(account.folders, "inbox")>>
  IN  IF Given.limit = 0 THEN {} ELSE {covered[i].role : i \in DOMAIN covered}

SyncedIsThere ==
  Apart =>
    \A i \in DOMAIN setting.accounts :
      LET account == setting.accounts[i]
          There(held) == {h \in held : h.dir = Directory(account)}
      IN  /\ i < current \/ pc = "done" =>
               /\ Asked(account) \subseteq {h.kind : h \in {h \in There(stored) : h.new}}
               /\ Given.reset => \A h \in There(stored) : h.new
          /\ i > current => There(stored) = There(setting.stored)
=============================================================================
