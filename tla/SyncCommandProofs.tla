--------------------------- MODULE SyncCommandProofs ---------------------------
(***************************************************************************)
(* What holds of `sync` for every environment, accounts and options: what  *)
(* a reset may take, which folders are chosen, and what the accounts hold  *)
(* when the command is done.                                               *)
(***************************************************************************)
EXTENDS SyncCommand, SequenceTheorems, NaturalsInduction, WellFoundedInduction, TLAPS

-----------------------------------------------------------------------------
(* Paths *)

LEMMA StartsWithTransitive ==
  ASSUME NEW a \in Paths, NEW b \in Paths, NEW c \in Paths,
         StartsWith(a, b), StartsWith(b, c)
  PROVE  StartsWith(a, c)
BY DEF StartsWith, Paths

\* Of two directories above a path one is above the other.
LEMMA AboveOneAnother ==
  ASSUME NEW a \in Paths, NEW b \in Paths, NEW c \in Paths,
         StartsWith(a, b), StartsWith(a, c)
  PROVE  StartsWith(b, c) \/ StartsWith(c, b)
BY DEF StartsWith, Paths

\* A directory above another is the same, its parent, or far above it.
LEMMA HowFarAbove ==
  ASSUME NEW a \in Paths, NEW b \in Paths, StartsWith(a, b)
  PROVE  StartsWith(b, a) \/ IsParent(b, a) \/ Len(a) > Len(b) + 1
BY DEF StartsWith, IsParent, Paths

LEMMA CanonicalType ==
  ASSUME NEW env \in Environments, NEW path \in Paths
  PROVE  Canonical(env, path) \in Paths
<1>1. CASE \E link \in env.links : StartsWith(path, link.from)
  <2> DEFINE link == CHOOSE l \in env.links : StartsWith(path, l.from)
  <2>1. link \in env.links /\ StartsWith(path, link.from)
    BY <1>1
  <2>2. link.from \in Paths /\ link.to \in Paths
    BY <2>1 DEF Environments
  <2>3. Len(link.from) \in Nat /\ Len(path) \in Nat /\ Len(link.from) <= Len(path)
    BY <2>1, <2>2 DEF StartsWith, Paths
  <2>4. SubSeq(path, Len(link.from) + 1, Len(path)) \in Seq(PathNames)
    BY <2>3, SubSeqProperties DEF Paths
  <2>5. Canonical(env, path) = link.to \o SubSeq(path, Len(link.from) + 1, Len(path))
    BY <1>1 DEF Canonical
  <2>6. QED
    BY <2>2, <2>4, <2>5, ConcatProperties DEF Paths
<1>2. CASE ~\E link \in env.links : StartsWith(path, link.from)
  BY <1>2 DEF Canonical
<1>3. QED
  BY <1>1, <1>2

LEMMA ManagedRootType ==
  ASSUME NEW env \in Environments, NEW dirs \in SUBSET Paths
  PROVE  ManagedRoot(env, dirs) \in Paths
BY CanonicalType DEF ManagedRoot, Environments

LEMMA DangerousType ==
  ASSUME NEW env \in Environments
  PROVE  Dangerous(env) \subseteq Paths
BY DEF Dangerous, RepoRoots, Environments

-----------------------------------------------------------------------------
(* Where validate_reset accepts a managed account, whatever is in its       *)
(* directory is in the mail root, neither is the mail root nor holds it,    *)
(* holds nothing dangerous, and is in neither the working directory nor its *)
(* repository.                                                              *)
THEOREM ManagedResetIsSafe ==
  ASSUME NEW env \in Environments, NEW dirs \in SUBSET Paths, NEW target \in Paths,
         NEW confirmed \in BOOLEAN, MayReset(env, dirs, target, FALSE, confirmed),
         NEW path \in Paths, StartsWith(path, target)
  PROVE  /\ StartsWith(path, ManagedRoot(env, dirs))
         /\ ~StartsWith(ManagedRoot(env, dirs), path)
         /\ \A dir \in Dangerous(env) : ~StartsWith(dir, path)
         /\ \A dir \in {env.cwd} \union RepoRoots(env) : ~StartsWith(path, dir)
<1> DEFINE root == ManagedRoot(env, dirs)
<1>1. root \in Paths
  BY ManagedRootType
<1>2. StartsWith(target, root) /\ RootIsSafe(env, root) /\ ~StartsWith(root, target)
  BY DEF MayReset
<1> HIDE DEF root
<1>3. StartsWith(path, root)
  BY <1>1, <1>2, StartsWithTransitive
<1>4. ~StartsWith(root, path)
  BY <1>1, <1>2, StartsWithTransitive
<1>5. ASSUME NEW dir \in Dangerous(env) PROVE ~StartsWith(dir, path)
  <2>1. dir \in Paths /\ ~StartsWith(dir, root)
    BY <1>2, DangerousType DEF RootIsSafe
  <2>2. QED
    BY <1>1, <1>3, <2>1, StartsWithTransitive
<1>6. ASSUME NEW dir \in {env.cwd} \union RepoRoots(env) PROVE ~StartsWith(path, dir)
  <2>1. dir \in Dangerous(env)
    BY DEF Dangerous
  <2>2. dir \in Paths /\ ~StartsWith(dir, root) /\ ~StartsWith(root, dir)
    BY <1>2, <2>1, DangerousType DEF RootIsSafe
  <2>3. QED
    BY <1>1, <1>3, <2>2, AboveOneAnother
<1>7. QED
  BY <1>3, <1>4, <1>5, <1>6 DEF root

(* Exactly which custom directories validate_reset accepts: it takes one    *)
(* that holds the home directory, the working directory or its repository   *)
(* as soon as that is two levels or more below it.                          *)
THEOREM CustomResetRule ==
  ASSUME NEW env \in Environments, NEW dirs \in SUBSET Paths, NEW target \in Paths,
         NEW confirmed \in BOOLEAN
  PROVE  MayReset(env, dirs, target, TRUE, confirmed) <=>
           /\ confirmed
           /\ target # <<>> /\ ~StartsWith(ManagedRoot(env, dirs), target)
           /\ \A dir \in Dangerous(env) :
                /\ ~StartsWith(target, dir)
                /\ StartsWith(dir, target) => FarBelow(dir, target)
<1>1. ASSUME NEW dir \in Dangerous(env)
      PROVE  (StartsWith(target, dir) \/ IsParent(target, dir)) <=>
               ~(/\ ~StartsWith(target, dir)
                 /\ StartsWith(dir, target) => FarBelow(dir, target))
  <2>1. dir \in Paths
    BY DangerousType
  <2>2. Len(dir) \in Nat /\ Len(target) \in Nat
    BY <2>1 DEF Paths
  <2>3. IsParent(target, dir) => StartsWith(dir, target) /\ ~FarBelow(dir, target)
    BY <2>2 DEF IsParent, FarBelow
  <2>4. StartsWith(dir, target) =>
          StartsWith(target, dir) \/ IsParent(target, dir) \/ FarBelow(dir, target)
    BY <2>1, HowFarAbove DEF FarBelow
  <2>5. QED
    BY <2>3, <2>4
<1>2. RejectsTarget(env, target) <=>
        ~ \A dir \in Dangerous(env) :
            /\ ~StartsWith(target, dir)
            /\ StartsWith(dir, target) => FarBelow(dir, target)
  BY <1>1 DEF RejectsTarget
<1>3. QED
  BY <1>2 DEF MayReset

(* So whatever is in a custom directory that may be reset neither is the    *)
(* mail root nor holds it, and is in something dangerous, or holds it, only *)
(* where that is far below the directory.                                   *)
LEMMA CustomLoss ==
  ASSUME NEW env \in Environments, NEW dirs \in SUBSET Paths, NEW target \in Paths,
         NEW confirmed \in BOOLEAN, MayReset(env, dirs, target, TRUE, confirmed),
         NEW path \in Paths, StartsWith(path, target)
  PROVE  /\ ~StartsWith(ManagedRoot(env, dirs), path)
         /\ \A dir \in Dangerous(env) :
              StartsWith(path, dir) \/ StartsWith(dir, path) => FarBelow(dir, target)
<1>1. /\ ~StartsWith(ManagedRoot(env, dirs), target)
      /\ \A dir \in Dangerous(env) :
           /\ ~StartsWith(target, dir)
           /\ StartsWith(dir, target) => FarBelow(dir, target)
  BY CustomResetRule
<1>2. ~StartsWith(ManagedRoot(env, dirs), path)
  BY <1>1, ManagedRootType, StartsWithTransitive
<1>3. ASSUME NEW dir \in Dangerous(env), StartsWith(path, dir) \/ StartsWith(dir, path)
      PROVE  FarBelow(dir, target)
  <2>1. dir \in Paths
    BY DangerousType
  <2>2. StartsWith(dir, target)
    <3>1. CASE StartsWith(path, dir)
      BY <1>1, <2>1, <3>1, AboveOneAnother
    <3>2. CASE StartsWith(dir, path)
      BY <2>1, <3>2, StartsWithTransitive
    <3>3. QED
      BY <1>3, <3>1, <3>2
  <2>3. QED
    BY <1>1, <2>2
<1>4. QED
  BY <1>2, <1>3

-----------------------------------------------------------------------------
(* The command *)

\* What the reset relies on at every step.
Grounds ==
  /\ setting \in Settings
  /\ tree \subseteq Paths
  /\ current \in DOMAIN setting.accounts

LEMMA AccountType ==
  ASSUME Grounds
  PROVE  /\ setting.env \in Environments
         /\ Account.path \in Paths /\ Account.custom \in BOOLEAN
         /\ Directory(Account) \in Paths
         /\ Given.confirmed \in BOOLEAN
<1>1. /\ setting.env \in Environments /\ setting.accounts \in Seq(Accounts)
      /\ setting.options \in Options
  BY SyncCommandAssumption DEF Grounds
<1>2. Account \in Accounts
  BY <1>1, ElementOfSeq DEF Grounds, Account
<1>3. Account.path \in Paths /\ Account.custom \in BOOLEAN
  BY <1>2 DEF Accounts
<1>4. Given.confirmed \in BOOLEAN
  BY <1>1 DEF Given, Options
<1>5. QED
  BY <1>1, <1>3, <1>4, CanonicalType DEF Directory

LEMMA GroundsInit == Init => Grounds
<1> SUFFICES ASSUME Init PROVE Grounds
  OBVIOUS
<1>1. setting \in Settings /\ tree = setting.tree /\ current = 1
  BY DEF Init
<1>2. setting.tree \subseteq Paths /\ setting.accounts \in Seq(Accounts) /\ setting.accounts # <<>>
  BY <1>1, SyncCommandAssumption
<1>3. 1 \in DOMAIN setting.accounts
  BY <1>2
<1>4. QED
  BY <1>1, <1>2, <1>3 DEF Grounds

LEMMA AncestorsType ==
  ASSUME NEW dir \in Paths
  PROVE  Ancestors(dir) \subseteq Paths
BY SubSeqProperties DEF Ancestors, Paths

LEMMA GroundsStep == Grounds /\ [Next]_vars => Grounds'
<1> SUFFICES ASSUME Grounds, [Next]_vars PROVE Grounds'
  OBVIOUS
<1>1. setting' = setting
  BY DEF Next, vars, ValidateOptions, NoReset, ResetAccount, ResetFails, SelectFolders,
     PrepareSync, SyncFolder, FoldersSynced, RebuildIndex, Embed, StepFails, NextAccount, Fail
<1>2. tree' \subseteq Paths
  <2>1. CASE ResetAccount
    BY <2>1 DEF ResetAccount, Grounds
  <2>2. CASE PrepareSync
    <3>1. tree' \in {tree, tree \union Ancestors(Directory(Account))}
      BY <2>2 DEF PrepareSync, Fail
    <3>2. Ancestors(Directory(Account)) \subseteq Paths
      BY AccountType, AncestorsType
    <3>3. QED
      BY <3>1, <3>2 DEF Grounds
  <2>3. CASE ~ResetAccount /\ ~PrepareSync
    <3>1. tree' = tree
      BY <2>3 DEF Next, vars, ValidateOptions, NoReset, ResetFails, SelectFolders,
         SyncFolder, FoldersSynced, RebuildIndex, Embed, StepFails, NextAccount, Fail
    <3>2. QED
      BY <3>1 DEF Grounds
  <2>4. QED
    BY <2>1, <2>2, <2>3
<1>3. current' \in DOMAIN setting.accounts
  <2>1. CASE NextAccount
    <3>1. setting.accounts \in Seq(Accounts)
      BY SyncCommandAssumption DEF Grounds
    <3>2. DOMAIN setting.accounts = 1..Len(setting.accounts) /\ Len(setting.accounts) \in Nat
      BY <3>1
    <3>3. current' = current \/ (current < Len(setting.accounts) /\ current' = current + 1)
      BY <2>1 DEF NextAccount
    <3>4. QED
      BY <3>2, <3>3 DEF Grounds
  <2>2. CASE ~NextAccount
    <3>1. current' = current
      BY <2>2 DEF Next, vars, ValidateOptions, NoReset, ResetAccount, ResetFails,
         SelectFolders, PrepareSync, SyncFolder, FoldersSynced, RebuildIndex, Embed,
         StepFails, Fail
    <3>2. QED
      BY <3>1 DEF Grounds
  <2>3. QED
    BY <2>1, <2>2
<1>4. QED
  BY <1>1, <1>2, <1>3 DEF Grounds

\* Only a reset takes anything away.
LEMMA OnlyResetsRemove ==
  ASSUME [Next]_vars, ~ResetAccount, ~ResetFails
  PROVE  Lost = {}
<1>1. tree \subseteq tree'
  BY DEF Next, vars, ValidateOptions, NoReset, SelectFolders,
     PrepareSync, SyncFolder, FoldersSynced, RebuildIndex, Embed, StepFails, NextAccount, Fail
<1>2. stored \subseteq stored'
  BY DEF Next, vars, ValidateOptions, NoReset, SelectFolders, Hold,
     PrepareSync, SyncFolder, FoldersSynced, RebuildIndex, Embed, StepFails, NextAccount, Fail
<1>3. QED
  BY <1>1, <1>2 DEF Lost

Contained(path) ==
  LET env == setting.env
      own == Directory(Account)
  IN  /\ StartsWith(path, own) /\ ~StartsWith(ManagedRoot(env, tree), path)
      /\ ~Account.custom =>
           /\ StartsWith(path, ManagedRoot(env, tree))
           /\ \A dir \in Dangerous(env) : ~StartsWith(dir, path)
           /\ \A dir \in {env.cwd} \union RepoRoots(env) : ~StartsWith(path, dir)
      /\ Account.custom =>
           \A dir \in Dangerous(env) :
             StartsWith(path, dir) \/ StartsWith(dir, path) => FarBelow(dir, own)

LEMMA ResetContains ==
  ASSUME Grounds, ResetAccount \/ ResetFails, NEW path \in Lost
  PROVE  Contained(path)
<1> DEFINE env == setting.env
           target == Directory(Account)
<1>1. /\ env \in Environments /\ target \in Paths
      /\ Account.custom \in BOOLEAN /\ Given.confirmed \in BOOLEAN
  BY AccountType
<1>2. tree \in SUBSET Paths
  BY DEF Grounds
<1>3. path \in Under(target)
  BY DEF ResetAccount, ResetFails, Lost, Under
<1>4. path \in Paths /\ StartsWith(path, target)
  BY <1>2, <1>3 DEF Under
<1>5. MayReset(env, tree, target, Account.custom, Given.confirmed)
  BY DEF ResetAccount, ResetFails, Allowed
<1> HIDE DEF env, target
<1>6. CASE Account.custom = FALSE
  <2>1. /\ StartsWith(path, ManagedRoot(env, tree))
        /\ ~StartsWith(ManagedRoot(env, tree), path)
        /\ \A dir \in Dangerous(env) : ~StartsWith(dir, path)
        /\ \A dir \in {env.cwd} \union RepoRoots(env) : ~StartsWith(path, dir)
    BY ZenonT(60), <1>1, <1>2, <1>4, <1>5, <1>6, ManagedResetIsSafe
  <2>2. QED
    BY <1>4, <1>6, <2>1 DEF Contained, env, target
<1>7. CASE Account.custom = TRUE
  <2>1. /\ ~StartsWith(ManagedRoot(env, tree), path)
        /\ \A dir \in Dangerous(env) :
             StartsWith(path, dir) \/ StartsWith(dir, path) => FarBelow(dir, target)
    BY <1>1, <1>2, <1>4, <1>5, <1>7, CustomLoss
  <2>2. QED
    BY <1>4, <1>7, <2>1 DEF Contained, env, target
<1>8. QED
  BY <1>1, <1>6, <1>7

(* For every environment, every set of accounts and every command, with no  *)
(* premise on any of them: whatever a step takes away is the account's own, *)
(* is in the mail root and apart from home, working directory and           *)
(* repository if the account is managed, and touches one of these from a    *)
(* custom directory only where it is two levels or more below that          *)
(* (ResetIsContained).                                                      *)
THEOREM ResetStaysContained == Spec => ResetIsContained
<1> DEFINE Keeps == \A path \in Lost : Contained(path)
<1>1. Init => Grounds
  BY GroundsInit
<1>2. Grounds /\ [Next]_vars => Grounds'
  BY GroundsStep
<1>3. Grounds /\ [Next]_vars => [Keeps]_vars
  BY OnlyResetsRemove, ResetContains
<1>4. QED
  BY <1>1, <1>2, <1>3, PTL DEF Spec, ResetIsContained, Contained

-----------------------------------------------------------------------------
(* Selections and plans.  Where a list is made name by name, the list after *)
(* so many names is what the definition's recursive function gives; least   *)
(* counterexamples stand for inductions.                                    *)

LEMMA NatLeast ==
  ASSUME NEW S \in SUBSET Nat, S # {}
  PROVE  \E n \in S : \A k \in S : n <= k
<1>1. PICK n \in S : \A k \in S : <<k, n>> \notin OpToRel(<, Nat)
  BY WFMin, NatLessThanWellFounded, Zenon
<1>2. n \in Nat /\ \A k \in S : k \in Nat /\ ~(k < n)
  BY <1>1, Zenon DEF OpToRel
<1>3. QED
  BY <1>2

\* The names kept of a list with one more name.
Keep(kept, name) ==
  IF \E i \in DOMAIN kept : NamesEq(kept[i], name) THEN kept ELSE Append(kept, name)

IsKept(names, kept, n) ==
  kept = [k \in 0..n |-> IF k = 0 THEN <<>> ELSE Keep(kept[k - 1], names[k])]

LEMMA KeptGoesOn ==
  ASSUME NEW names, NEW n \in Nat, n # 0, NEW kept, IsKept(names, kept, n - 1)
  PROVE  \E longer : IsKept(names, longer, n)
<1> DEFINE longer == [k \in 0..n |-> IF k = n THEN Keep(kept[n - 1], names[n]) ELSE kept[k]]
<1>1. \A k \in 0..(n - 1) : kept[k] = IF k = 0 THEN <<>> ELSE Keep(kept[k - 1], names[k])
  BY DEF IsKept
<1>2. \A k \in 0..(n - 1) : k \in 0..n /\ k # n /\ longer[k] = kept[k]
  OBVIOUS
<1>3. ASSUME NEW k \in 0..n
      PROVE  longer[k] = IF k = 0 THEN <<>> ELSE Keep(longer[k - 1], names[k])
  <2>1. CASE k = n
    <3>1. n - 1 \in 0..(n - 1)
      OBVIOUS
    <3>2. longer[n - 1] = kept[n - 1]
      BY <1>2, <3>1
    <3>3. longer[k] = Keep(kept[n - 1], names[n])
      BY <2>1
    <3>4. QED
      BY <2>1, <3>2, <3>3
  <2>2. CASE k # n
    <3>1. k \in 0..(n - 1) /\ (k # 0 => k - 1 \in 0..(n - 1))
      BY <2>2
    <3>2. longer[k] = kept[k] /\ (k # 0 => longer[k - 1] = kept[k - 1])
      BY <1>2, <3>1
    <3>3. QED
      BY <1>1, <3>1, <3>2
  <2>3. QED
    BY <2>1, <2>2
<1>4. longer = [k \in 0..n |-> longer[k]]
  OBVIOUS
<1> HIDE DEF longer
<1>5. IsKept(names, longer, n)
  BY <1>3, <1>4 DEF IsKept
<1>6. QED
  BY <1>5

LEMMA KeptExists ==
  ASSUME NEW names, NEW n \in Nat
  PROVE  \E kept : IsKept(names, kept, n)
<1> DEFINE None == {k \in Nat : ~(\E kept : IsKept(names, kept, k))}
<1>1. SUFFICES ASSUME None # {} PROVE FALSE
  OBVIOUS
<1>2. PICK k \in None : \A other \in None : k <= other
  BY <1>1, NatLeast
<1>3. CASE k = 0
  <2>1. PICK kept : kept = [j \in 0..0 |-> <<>>]
    OBVIOUS
  <2>2. \A j \in 0..0 : j = 0
    OBVIOUS
  <2>3. IsKept(names, kept, 0)
    BY <2>1, <2>2 DEF IsKept
  <2>4. QED
    BY <1>2, <1>3, <2>3
<1>4. CASE k # 0
  <2>1. k - 1 \in Nat /\ k - 1 \notin None
    BY <1>2, <1>4
  <2>2. QED
    BY <1>2, <1>4, <2>1, KeptGoesOn
<1>5. QED
  BY <1>3, <1>4

LEMMA NormalizedTyped ==
  ASSUME NEW names \in Seq(Names)
  PROVE  Normalized(names) \in Seq(Names)
<1> DEFINE kept == CHOOSE f : IsKept(names, f, Len(names))
<1>1. IsKept(names, kept, Len(names))
  BY KeptExists
<1>2. Normalized(names) = kept[Len(names)]
  BY DEF Normalized, IsKept, Keep
<1> HIDE DEF kept
<1>3. \A n \in 0..Len(names) : kept[n] \in Seq(Names)
  <2> DEFINE Odd == {n \in 0..Len(names) : kept[n] \notin Seq(Names)}
  <2>1. SUFFICES ASSUME Odd # {} PROVE FALSE
    OBVIOUS
  <2>2. Odd \in SUBSET Nat
    OBVIOUS
  <2>3. PICK n \in Odd : \A other \in Odd : n <= other
    BY <2>1, <2>2, NatLeast
  <2>4. n # 0
    BY <1>1, <2>3 DEF IsKept
  <2>5. n - 1 \in 0..Len(names) /\ n - 1 \notin Odd /\ n \in DOMAIN names
    BY <2>3, <2>4
  <2>6. kept[n] = Keep(kept[n - 1], names[n])
    BY <1>1, <2>3, <2>4 DEF IsKept
  <2>7. kept[n - 1] \in Seq(Names) /\ names[n] \in Names
    BY <2>5, ElementOfSeq
  <2>8. Keep(kept[n - 1], names[n]) \in Seq(Names)
    BY <2>7 DEF Keep
  <2>9. QED
    BY <2>3, <2>6, <2>8
<1>4. QED
  BY <1>2, <1>3

LEMMA RoleNamedIs ==
  ASSUME NEW folders \in [Roles -> Words], NEW name, RolesNamed(folders, name) # {}
  PROVE  RoleNamed(folders, name) \in Roles
<1> DEFINE fits == {i \in DOMAIN ResolutionOrder :
                      ResolutionOrder[i] \in RolesNamed(folders, name)}
<1>1. RolesNamed(folders, name) \subseteq Roles
  BY PlanAssumption DEF RolesNamed
<1>2. DOMAIN ResolutionOrder = 1..5 /\ \A i \in 1..5 : ResolutionOrder[i] \in Roles
  BY DEF ResolutionOrder, Roles
<1>3. \A role \in Roles : \E i \in 1..5 : ResolutionOrder[i] = role
  <2>1. /\ ResolutionOrder[1] = "inbox" /\ ResolutionOrder[2] = "sent"
        /\ ResolutionOrder[3] = "archive" /\ ResolutionOrder[4] = "drafts"
        /\ ResolutionOrder[5] = "trash"
    BY DEF ResolutionOrder
  <2>2. QED
    BY <2>1 DEF Roles
<1>4. fits \in SUBSET Nat /\ fits # {}
  BY <1>1, <1>2, <1>3
<1>5. \E i \in fits : \A j \in fits : i <= j
  BY <1>4, NatLeast
<1>6. (CHOOSE i \in fits : \A j \in fits : i <= j) \in fits
  BY <1>5
<1>7. QED
  BY <1>2, <1>6 DEF RoleNamed

\* The plans chosen, with that of one more name.
Choose(folders, before, name) ==
  LET plan == PlanOf(folders, RoleNamed(folders, name))
  IN  IF AlreadySelected(before, plan) THEN before ELSE Append(before, plan)

IsChosen(folders, names, chosen, n) ==
  chosen = [k \in 0..n |-> IF k = 0 THEN <<>> ELSE Choose(folders, chosen[k - 1], names[k])]

LEMMA ChosenGoesOn ==
  ASSUME NEW folders, NEW names, NEW n \in Nat, n # 0,
         NEW chosen, IsChosen(folders, names, chosen, n - 1)
  PROVE  \E longer : IsChosen(folders, names, longer, n)
<1> DEFINE longer == [k \in 0..n |-> IF k = n THEN Choose(folders, chosen[n - 1], names[n])
                                     ELSE chosen[k]]
<1>1. \A k \in 0..(n - 1) :
        chosen[k] = IF k = 0 THEN <<>> ELSE Choose(folders, chosen[k - 1], names[k])
  BY DEF IsChosen
<1>2. \A k \in 0..(n - 1) : k \in 0..n /\ k # n /\ longer[k] = chosen[k]
  OBVIOUS
<1>3. ASSUME NEW k \in 0..n
      PROVE  longer[k] = IF k = 0 THEN <<>> ELSE Choose(folders, longer[k - 1], names[k])
  <2>1. CASE k = n
    <3>1. n - 1 \in 0..(n - 1)
      OBVIOUS
    <3>2. longer[n - 1] = chosen[n - 1]
      BY <1>2, <3>1
    <3>3. longer[k] = Choose(folders, chosen[n - 1], names[n])
      BY <2>1
    <3>4. QED
      BY <2>1, <3>2, <3>3
  <2>2. CASE k # n
    <3>1. k \in 0..(n - 1) /\ (k # 0 => k - 1 \in 0..(n - 1))
      BY <2>2
    <3>2. longer[k] = chosen[k] /\ (k # 0 => longer[k - 1] = chosen[k - 1])
      BY <1>2, <3>1
    <3>3. QED
      BY <1>1, <3>1, <3>2
  <2>3. QED
    BY <2>1, <2>2
<1>4. longer = [k \in 0..n |-> longer[k]]
  OBVIOUS
<1> HIDE DEF longer
<1>5. IsChosen(folders, names, longer, n)
  BY <1>3, <1>4 DEF IsChosen
<1>6. QED
  BY <1>5

LEMMA ChosenExists ==
  ASSUME NEW folders, NEW names, NEW n \in Nat
  PROVE  \E chosen : IsChosen(folders, names, chosen, n)
<1> DEFINE None == {k \in Nat : ~(\E chosen : IsChosen(folders, names, chosen, k))}
<1>1. SUFFICES ASSUME None # {} PROVE FALSE
  OBVIOUS
<1>2. PICK k \in None : \A other \in None : k <= other
  BY <1>1, NatLeast
<1>3. CASE k = 0
  <2>1. PICK chosen : chosen = [j \in 0..0 |-> <<>>]
    OBVIOUS
  <2>2. \A j \in 0..0 : j = 0
    OBVIOUS
  <2>3. IsChosen(folders, names, chosen, 0)
    BY <2>1, <2>2 DEF IsChosen
  <2>4. QED
    BY <1>2, <1>3, <2>3
<1>4. CASE k # 0
  <2>1. k - 1 \in Nat /\ k - 1 \notin None
    BY <1>2, <1>4
  <2>2. QED
    BY <1>2, <1>4, <2>1, ChosenGoesOn
<1>5. QED
  BY <1>3, <1>4

Distinct(list) ==
  \A i, j \in DOMAIN list : i # j => list[i].role # list[j].role /\ list[i].folder # list[j].folder

NoneVirtual(list) == \A i \in DOMAIN list : list[i].folder \notin VirtualWords

Covers(folders, list, name) ==
  \E i \in DOMAIN list :
    \/ list[i].folder = folders[RoleNamed(folders, name)]
    \/ list[i].role = RoleNamed(folders, name)

LEMMA ChooseIsSound ==
  ASSUME NEW folders \in [Roles -> Words], NEW name, ~Refuses(folders, name),
         NEW list \in Seq(Plans), Distinct(list), NoneVirtual(list),
         NEW names, \A other \in names : Covers(folders, list, other)
  PROVE  LET more == Choose(folders, list, name)
         IN  /\ more \in Seq(Plans) /\ Distinct(more) /\ NoneVirtual(more)
             /\ \A other \in names \union {name} : Covers(folders, more, other)
<1> DEFINE role == RoleNamed(folders, name)
<1>1. role \in Roles
  BY RoleNamedIs DEF Refuses
<1>2. PICK plan : plan = PlanOf(folders, role)
  OBVIOUS
<1>3. /\ plan \in Plans /\ plan.role = role /\ plan.folder = folders[role]
      /\ plan.folder \notin VirtualWords
  BY <1>1, <1>2 DEF PlanOf, Plans, Refuses
<1>4. CASE AlreadySelected(list, plan)
  <2>1. Choose(folders, list, name) = list
    BY <1>2, <1>4 DEF Choose
  <2>2. Covers(folders, list, name)
    BY <1>3, <1>4 DEF Covers, AlreadySelected
  <2>3. QED
    BY <2>1, <2>2
<1>5. CASE ~AlreadySelected(list, plan)
  <2>1. PICK more : more = Append(list, plan)
    OBVIOUS
  <2>2. Choose(folders, list, name) = more
    BY <1>2, <1>5, <2>1 DEF Choose
  <2>3. /\ more \in Seq(Plans) /\ Len(list) \in Nat /\ DOMAIN list = 1..Len(list)
        /\ DOMAIN more = 1..(Len(list) + 1)
        /\ more[Len(list) + 1] = plan /\ \A i \in DOMAIN list : more[i] = list[i]
    BY <1>3, <2>1
  <2>4. \A i \in DOMAIN more : i = Len(list) + 1 \/ i \in DOMAIN list
    BY <2>3
  <2>5. Distinct(more)
    BY <1>5, <2>3, <2>4 DEF Distinct, AlreadySelected
  <2>6. NoneVirtual(more)
    BY <1>3, <2>3, <2>4 DEF NoneVirtual
  <2>7. \A other \in names : Covers(folders, more, other)
    BY <2>3 DEF Covers
  <2>8. Covers(folders, more, name)
    BY <1>3, <2>3 DEF Covers
  <2>9. QED
    BY <2>2, <2>3, <2>5, <2>6, <2>7, <2>8
<1>6. QED
  BY <1>4, <1>5

LEMMA NamedPlansSound ==
  ASSUME NEW folders \in [Roles -> Words], NEW names \in Seq(Names),
         \A i \in DOMAIN names : ~Refuses(folders, names[i])
  PROVE  LET list == NamedPlans(folders, names)
         IN  /\ list \in Seq(Plans) /\ Distinct(list) /\ NoneVirtual(list)
             /\ \A k \in DOMAIN names : Covers(folders, list, names[k])
<1> DEFINE chosen == CHOOSE f : IsChosen(folders, names, f, Len(names))
           Good(n) == /\ chosen[n] \in Seq(Plans) /\ Distinct(chosen[n]) /\ NoneVirtual(chosen[n])
                      /\ \A other \in {names[k] : k \in 1..n} : Covers(folders, chosen[n], other)
<1>1. IsChosen(folders, names, chosen, Len(names))
  BY ChosenExists
<1>2. NamedPlans(folders, names) = chosen[Len(names)]
  BY DEF NamedPlans, IsChosen, Choose
<1> HIDE DEF chosen, Good
<1>3. \A n \in 0..Len(names) : Good(n)
  <2> DEFINE Odd == {n \in 0..Len(names) : ~Good(n)}
  <2>1. SUFFICES ASSUME Odd # {} PROVE FALSE
    OBVIOUS
  <2>2. Odd \in SUBSET Nat
    OBVIOUS
  <2>3. PICK n \in Odd : \A other \in Odd : n <= other
    BY <2>1, <2>2, NatLeast
  <2>4. CASE n = 0
    <3>1. chosen[n] = <<>>
      BY <1>1, <2>3, <2>4 DEF IsChosen
    <3>2. Good(n)
      BY <2>4, <3>1 DEF Distinct, NoneVirtual, Good
    <3>3. QED
      BY <2>3, <3>2
  <2>5. CASE n # 0
    <3>1. n - 1 \in 0..Len(names) /\ n - 1 \notin Odd /\ n \in DOMAIN names
      BY <2>3, <2>5
    <3>2. chosen[n] = Choose(folders, chosen[n - 1], names[n])
      BY <1>1, <2>3, <2>5 DEF IsChosen
    <3>3. Good(n - 1)
      BY <3>1
    <3>4. {names[k] : k \in 1..n} = {names[k] : k \in 1..(n - 1)} \union {names[n]}
      BY <3>1
    <3>5. PICK before : before = {names[k] : k \in 1..(n - 1)}
      OBVIOUS
    <3>6. /\ chosen[n - 1] \in Seq(Plans) /\ Distinct(chosen[n - 1]) /\ NoneVirtual(chosen[n - 1])
          /\ \A other \in before : Covers(folders, chosen[n - 1], other)
      BY <3>3, <3>5 DEF Good
    <3>7. /\ chosen[n] \in Seq(Plans) /\ Distinct(chosen[n]) /\ NoneVirtual(chosen[n])
          /\ \A other \in before \union {names[n]} : Covers(folders, chosen[n], other)
      BY <3>1, <3>2, <3>6, ChooseIsSound
    <3>8. Good(n)
      BY <3>4, <3>5, <3>7 DEF Good
    <3>9. QED
      BY <2>3, <3>8
  <2>6. QED
    BY <2>4, <2>5
<1>4. Good(Len(names))
  <2>1. Len(names) \in 0..Len(names)
    OBVIOUS
  <2>2. QED
    BY <1>3, <2>1
<1>5. \A k \in DOMAIN names : names[k] \in {names[j] : j \in 1..Len(names)}
  OBVIOUS
<1>6. QED
  BY <1>2, <1>4, <1>5 DEF Good

LEMMA FromInputsIs ==
  ASSUME NEW all \in BOOLEAN, NEW named \in Seq(Names),
         NEW defaults \in Seq(Names) \union {NoDefaults}
  PROVE  /\ FromInputs(all, named, defaults) \in Selections
         /\ FromInputs(all, named, defaults) # Error =>
              FromInputs(all, named, defaults).kind \in {"default", "all", "named"}
<1> DEFINE Fits(made) ==
             made \in Selections
               /\ (made = Error \/ made.kind \in {"default", "all", "named"})
<1>1. Fits(Error) /\ Fits([kind |-> "default", names |-> <<>>])
      /\ Fits([kind |-> "all", names |-> <<>>])
  BY DEF Error, Selections
<1>2. ASSUME NEW names \in Seq(Names)
      PROVE  Fits([kind |-> "named", names |-> Normalized(names)])
  BY NormalizedTyped DEF Selections
<1> HIDE DEF Fits
<1>3. Fits(FromDefaults(defaults))
  <2>1. CASE defaults = NoDefaults
    <3>1. FromDefaults(defaults) = [kind |-> "default", names |-> <<>>]
      BY <2>1 DEF FromDefaults
    <3>2. QED
      BY <1>1, <3>1
  <2>2. CASE defaults # NoDefaults
    <3>1. defaults \in Seq(Names)
      BY <2>2
    <3>2. FromDefaults(defaults) \in {Error, [kind |-> "named", names |-> Normalized(defaults)]}
      BY <2>2 DEF FromDefaults
    <3>3. QED
      BY <1>1, <1>2, <3>1, <3>2
  <2>3. QED
    BY <2>1, <2>2
<1>4. FromInputs(all, named, defaults) \in
        {Error, [kind |-> "named", names |-> Normalized(named)],
         [kind |-> "all", names |-> <<>>], FromDefaults(defaults)}
  BY DEF FromInputs
<1>5. Fits(FromInputs(all, named, defaults))
  BY <1>1, <1>2, <1>3, <1>4
<1>6. QED
  BY <1>5 DEF Fits

LEMMA PlansForTyped ==
  ASSUME NEW folders \in [Roles -> Words], NEW picked \in Selections,
         picked.kind \in {"default", "all", "named"},
         ~SelectionRefused(folders, picked)
  PROVE  PlansFor(folders, picked) \in Seq(Plans)
<1>1. \A role \in Roles : PlanOf(folders, role) \in Plans
  BY DEF PlanOf, Plans
<1>2. DefaultPlans(folders) \in Seq(Plans)
  BY <1>1 DEF DefaultPlans, Roles
<1>3. <<PlanOf(folders, "archive")>> \in Seq(Plans)
  BY <1>1 DEF Roles
<1>4. AllPlans(folders) \in Seq(Plans)
  BY <1>2, <1>3, ConcatProperties DEF AllPlans
<1>5. CASE picked.kind = "named"
  <2>1. picked.names \in Seq(Names)
    BY DEF Selections
  <2>2. \A i \in DOMAIN picked.names : ~Refuses(folders, picked.names[i])
    BY DEF SelectionRefused
  <2>3. NamedPlans(folders, picked.names) \in Seq(Plans)
    BY <2>1, <2>2, NamedPlansSound
  <2>4. QED
    BY <1>5, <2>3 DEF PlansFor
<1>6. QED
  BY <1>2, <1>4, <1>5 DEF PlansFor

-----------------------------------------------------------------------------
(* The command, whole *)

Covered(account) ==
  IF account.provider = "imap"
  THEN PlansFor(account.folders, FromInputs(Given.all, Given.named, account.defaults))
  ELSE <<PlanOf(account.folders, "inbox")>>

Shape ==
  /\ stored \subseteq Held
  /\ pc \in CommandPcs
  /\ selection \in Selections
  /\ plans \in Seq(Plans)
  /\ synced \in 0..Len(plans)

(* What the program goes by while it is at an account: the selection and    *)
(* the plans are those of the options and of this account.                  *)
Context ==
  /\ pc \in {"prepare", "folders"} =>
       /\ selection = FromInputs(Given.all, Given.named, Account.defaults)
       /\ selection.kind \in {"default", "all", "named"}
  /\ pc = "folders" =>
       /\ Given.limit # 0
       /\ plans = Covered(Account)
       /\ selection.kind = "named" => /\ Account.provider = "imap"
                                      /\ ~SelectionRefused(Account.folders, selection)

LEMMA AccountIs ==
  ASSUME Grounds
  PROVE  /\ Account \in Accounts
         /\ Given.all \in BOOLEAN /\ Given.named \in Seq(Names)
         /\ Account.defaults \in Seq(Names) \union {NoDefaults}
         /\ Account.folders \in [Roles -> Words] /\ Account.provider \in Providers
<1>1. setting.accounts \in Seq(Accounts) /\ setting.options \in Options
  BY SyncCommandAssumption DEF Grounds
<1>2. Account \in Accounts
  BY <1>1, ElementOfSeq DEF Grounds, Account
<1>3. QED
  BY <1>1, <1>2 DEF Accounts, Given, Options

LEMMA HoldIs ==
  ASSUME NEW kind \in Kinds, Directory(Account) \in Paths, Hold(kind)
  PROVE  \E h \in Held : /\ stored' = stored \union {h}
                         /\ h.dir = Directory(Account) /\ h.kind = kind /\ h.new
<1>1. PICK flag \in BOOLEAN : flag = TRUE
  OBVIOUS
<1>2. PICK h : h = [dir |-> Directory(Account), kind |-> kind, new |-> flag]
  OBVIOUS
<1>3. h \in Held /\ h.dir = Directory(Account) /\ h.kind = kind /\ h.new = flag
  BY <1>2 DEF Held
<1>4. stored' = stored \union {h}
  BY <1>1, <1>2, Zenon DEF Hold
<1>5. h.new
  BY <1>1, <1>3, Zenon
<1>6. QED
  BY <1>3, <1>4, <1>5

LEMMA ShapeAtFirst == Init => Shape /\ Context
<1> SUFFICES ASSUME Init PROVE Shape /\ Context
  OBVIOUS
<1>1. /\ setting \in Settings /\ stored = setting.stored /\ pc = "validate"
      /\ selection = NoSelection /\ plans = <<>> /\ synced = 0
  BY DEF Init
<1>2. stored \subseteq Held
  BY <1>1, SyncCommandAssumption
<1>3. NoSelection \in Selections
  BY DEF NoSelection, Selections
<1>4. plans \in Seq(Plans) /\ Len(plans) = 0
  BY <1>1
<1>5. QED
  BY <1>1, <1>2, <1>3, <1>4 DEF Shape, Context, CommandPcs

LEMMA SettingStays ==
  ASSUME [Next]_vars
  PROVE  setting' = setting
BY DEF Next, vars, ValidateOptions, NoReset, ResetAccount, ResetFails, SelectFolders,
   PrepareSync, SyncFolder, FoldersSynced, RebuildIndex, Embed, StepFails, NextAccount, Fail

LEMMA GivenStays ==
  ASSUME setting' = setting
  PROVE  Given' = Given /\ (current' = current => Account' = Account)
BY DEF Given, Account

(* A step that only moves on, one that ends in an error too.                *)
LEMMA ShapeMovesOn ==
  ASSUME Grounds, Shape, Context, setting' = setting, stored' \subseteq stored,
         pc' \in CommandPcs, pc' \notin {"prepare", "folders"},
         UNCHANGED <<selection, plans, synced>>
  PROVE  Shape' /\ Context'
BY DEF Shape, Context

LEMMA PrepareSyncKeeps ==
  ASSUME Grounds, Shape, Context, setting' = setting, PrepareSync
  PROVE  Shape' /\ Context'
<1>1. /\ selection \in Selections /\ plans \in Seq(Plans) /\ stored \subseteq Held
      /\ synced \in 0..Len(plans)
      /\ selection = FromInputs(Given.all, Given.named, Account.defaults)
      /\ selection.kind \in {"default", "all", "named"}
  BY DEF Shape, Context, PrepareSync
<1>2. Given' = Given /\ (current' = current => Account' = Account)
  BY GivenStays
<1>3. CASE Fail
  BY <1>3, ShapeMovesOn DEF Fail, Goto, CommandPcs
<1>4. CASE ~Fail
  <2>1. /\ Account.provider # "imap" => selection.kind # "named"
        /\ UNCHANGED <<stored, current, selection>> /\ synced' = 0
        /\ \/ plans' = <<>> /\ pc' \in {"index", "failed"}
           \/ /\ Given.limit # 0 /\ Account.provider # "imap" /\ pc' = "folders"
              /\ plans' = <<PlanOf(Account.folders, "inbox")>>
           \/ /\ Given.limit # 0 /\ Account.provider = "imap" /\ pc' = "folders"
              /\ ~SelectionRefused(Account.folders, selection)
              /\ plans' = PlansFor(Account.folders, selection)
    BY <1>4 DEF PrepareSync, Goto
  <2>2. plans' \in Seq(Plans)
    <3>1. PlanOf(Account.folders, "inbox") \in Plans
      BY AccountIs DEF PlanOf, Plans, Roles
    <3>2. CASE plans' = PlansFor(Account.folders, selection)
               /\ ~SelectionRefused(Account.folders, selection)
      BY <1>1, <3>2, AccountIs, PlansForTyped
    <3>3. CASE plans' = <<PlanOf(Account.folders, "inbox")>>
      BY <3>1, <3>3
    <3>4. CASE plans' = <<>>
      BY <3>4
    <3>5. QED
      BY <2>1, <3>2, <3>3, <3>4, Zenon
  <2>3. Len(plans') \in Nat
    BY <2>2
  <2>4. pc' = "folders" => plans' = Covered(Account)
    BY <1>1, <2>1 DEF Covered
  <2>5. Shape'
    BY <1>1, <2>1, <2>2, <2>3 DEF Shape, CommandPcs
  <2>6. Covered(Account)' = Covered(Account)
    BY <1>2, <2>1 DEF Covered
  <2>7. Context'
    BY <1>1, <1>2, <2>1, <2>4, <2>6 DEF Context
  <2>8. QED
    BY <2>5, <2>7
<1>5. QED
  BY <1>3, <1>4

LEMMA HoldKeepsShape ==
  ASSUME Grounds, Shape, NEW kind \in Kinds, Hold(kind)
  PROVE  stored' \subseteq Held
<1>1. PICK h \in Held : stored' = stored \union {h}
  BY AccountType, HoldIs
<1>2. QED
  BY <1>1 DEF Shape

LEMMA SyncFolderKeeps ==
  ASSUME Grounds, Shape, Context, setting' = setting, SyncFolder
  PROVE  Shape' /\ Context'
<1>1. /\ synced < Len(plans) /\ synced' = synced + 1 /\ Hold(plans[synced + 1].role)
      /\ UNCHANGED <<tree, pc, current, selection, plans>>
  BY DEF SyncFolder
<1>2. plans \in Seq(Plans) /\ synced \in 0..Len(plans) /\ Len(plans) \in Nat
  BY DEF Shape
<1>3. plans[synced + 1] \in Plans
  BY <1>1, <1>2, ElementOfSeq
<1>4. plans[synced + 1].role \in Kinds
  BY <1>3 DEF Plans, Kinds
<1>5. stored' \subseteq Held
  BY <1>1, <1>4, HoldKeepsShape
<1>6. Shape'
  BY <1>1, <1>2, <1>5 DEF Shape
<1>7. Given' = Given /\ Account' = Account
  BY <1>1, GivenStays
<1>8. Covered(Account)' = Covered(Account)
  BY <1>7 DEF Covered
<1>9. QED
  BY <1>1, <1>6, <1>7, <1>8 DEF Context

LEMMA ShapeStays ==
  ASSUME Grounds, Shape, Context, [Next]_vars
  PROVE  Shape' /\ Context'
<1>1. setting' = setting
  BY SettingStays
<1>2. CASE PrepareSync
  BY <1>1, <1>2, PrepareSyncKeeps
<1>3. CASE SyncFolder
  BY <1>1, <1>3, SyncFolderKeeps
<1>4. CASE SelectFolders
  <2>1. CASE Fail
    BY <1>1, <2>1, ShapeMovesOn DEF Fail, Goto, CommandPcs
  <2>2. CASE ~Fail
    <3>1. PICK chosen : chosen = FromInputs(Given.all, Given.named, Account.defaults)
      OBVIOUS
    <3>2. /\ chosen # Error /\ selection' = chosen /\ pc' = "prepare"
          /\ UNCHANGED <<setting, tree, stored, current, plans, synced>>
      BY <1>4, <2>2, <3>1 DEF SelectFolders, Goto
    <3>3. chosen \in Selections /\ chosen.kind \in {"default", "all", "named"}
      BY <3>1, <3>2, AccountIs, FromInputsIs
    <3>4. Given' = Given /\ Account' = Account
      BY <3>2, GivenStays
    <3>5. Shape'
      BY <3>2, <3>3 DEF Shape, CommandPcs
    <3>6. QED
      BY <3>1, <3>2, <3>3, <3>4, <3>5 DEF Context
  <2>3. QED
    BY <2>1, <2>2
<1>5. CASE RebuildIndex \/ Embed
  <2>1. /\ UNCHANGED <<tree, current, selection, plans, synced>>
        /\ pc' \in {"embed", "next", "failed"}
        /\ stored' = stored \/ \E kind \in {"index", "vectors"} : Hold(kind)
    BY <1>5 DEF RebuildIndex, Embed, Goto
  <2>2. stored' \subseteq Held
    <3>1. \A kind \in {"index", "vectors"} : Hold(kind) => stored' \subseteq Held
      BY HoldKeepsShape DEF Kinds
    <3>2. stored \subseteq Held
      BY DEF Shape
    <3>3. QED
      BY <2>1, <3>1, <3>2
  <2>3. QED
    BY <2>1, <2>2 DEF Shape, Context, CommandPcs
<1>6. CASE \/ ValidateOptions \/ NoReset \/ ResetAccount \/ ResetFails \/ FoldersSynced
           \/ StepFails \/ NextAccount
  <2>1. /\ UNCHANGED <<selection, plans, synced>>
        /\ pc' \in {"reset", "select", "index", "done", "failed"}
    BY <1>6 DEF ValidateOptions, NoReset, ResetAccount, ResetFails, FoldersSynced, StepFails,
       NextAccount, Fail, Goto
  <2>2. stored' \subseteq stored
    BY <1>6 DEF ValidateOptions, NoReset, ResetAccount, ResetFails, FoldersSynced, StepFails,
       NextAccount, Fail
  <2>3. QED
    BY <1>1, <2>1, <2>2, ShapeMovesOn DEF CommandPcs
<1>7. CASE UNCHANGED vars
  <2>1. Given' = Given /\ Account' = Account
    BY <1>1, <1>7, GivenStays DEF vars
  <2>2. Covered(Account)' = Covered(Account)
    BY <2>1 DEF Covered
  <2>3. QED
    BY <1>7, <2>1, <2>2 DEF vars, Shape, Context
<1>8. QED
  BY <1>2, <1>3, <1>4, <1>5, <1>6, <1>7 DEF Next

Commanded == Grounds /\ Shape /\ Context

LEMMA CommandedAtFirst == Init => Commanded
BY GroundsInit, ShapeAtFirst DEF Commanded

LEMMA CommandedStays == Commanded /\ [Next]_vars => Commanded'
BY GroundsStep, ShapeStays DEF Commanded

(* For every account, options and names: the command never leaves its       *)
(* accounts, chooses folders the account has, and syncs no more of them     *)
(* than it chose.                                                           *)
THEOREM TypeCorrect == Spec => []TypeOK
<1>1. Commanded => TypeOK
  <2> SUFFICES ASSUME Commanded PROVE TypeOK
    OBVIOUS
  <2>1. setting.accounts \in Seq(Accounts)
    BY SyncCommandAssumption DEF Commanded, Grounds
  <2>2. DOMAIN setting.accounts = 1..Len(setting.accounts)
    BY <2>1
  <2>3. QED
    BY <2>2 DEF Commanded, Grounds, Shape, TypeOK
<1>2. QED
  BY <1>1, CommandedAtFirst, CommandedStays, PTL DEF Spec

(* For every way an account calls its folders and every list of names: the  *)
(* plans of a sync of named folders cover each name, repeat neither role    *)
(* nor mailbox, and read no virtual mailbox (named_plans).                  *)
THEOREM NamedPlansAreSound == Spec => []PlansAreSound
<1>1. Commanded => PlansAreSound
  <2> SUFFICES ASSUME Commanded, pc = "folders", selection.kind = "named"
               PROVE  /\ Distinct(plans) /\ NoneVirtual(plans)
                      /\ \A k \in DOMAIN selection.names :
                           Covers(Account.folders, plans, selection.names[k])
    BY DEF PlansAreSound, Distinct, NoneVirtual, Covers
  <2>1. /\ selection.names \in Seq(Names) /\ Account.folders \in [Roles -> Words]
        /\ \A i \in DOMAIN selection.names : ~Refuses(Account.folders, selection.names[i])
    BY AccountIs DEF Commanded, Shape, Context, Selections, SelectionRefused
  <2>2. plans = NamedPlans(Account.folders, selection.names)
    BY DEF Commanded, Context, Covered, PlansFor
  <2>3. QED
    BY <2>1, <2>2, NamedPlansSound
<1>2. QED
  BY <1>1, CommandedAtFirst, CommandedStays, PTL DEF Spec

-----------------------------------------------------------------------------
(* What the accounts hold *)

Dir(i) == Directory(setting.accounts[i])

AskedOf(i) == Asked(setting.accounts[i])

Has(i, kind) == \E h \in stored : h.dir = Dir(i) /\ h.kind = kind /\ h.new

\* The accounts that are done, and those whose reset is.
Done(i) == i < current \/ (i = current /\ pc \in {"index", "embed", "next", "done"})

Cleared(i) ==
  \/ i < current
  \/ /\ i = current
     /\ pc \in {"select", "prepare", "folders", "index", "embed", "next", "done"}

\* What is held is in a directory there is, and the account's own is made first.
Rooted ==
  /\ \A h \in stored : h.dir \in tree
  /\ pc \in {"folders", "index", "embed"} => Dir(current) \in tree

Served ==
  \A i \in DOMAIN setting.accounts :
    /\ Apart /\ Done(i) => \A role \in AskedOf(i) : Has(i, role)
    /\ Apart /\ Given.reset /\ Cleared(i) => \A h \in stored : h.dir = Dir(i) => h.new

Underway ==
  /\ pc = "folders" => \A n \in 1..synced : Has(current, plans[n].role)
  /\ pc = "done" => current = Len(setting.accounts)

\* The accounts whose turn has not come.
Untouched ==
  \A i \in DOMAIN setting.accounts :
    Apart /\ i > current =>
      \A h : h.dir = Dir(i) => (h \in stored <=> h \in setting.stored)

Kept == Rooted /\ Served /\ Untouched /\ (pc # "failed" => Underway)

LEMMA AccountsStay ==
  ASSUME setting' = setting
  PROVE  /\ \A i : Dir(i)' = Dir(i) /\ AskedOf(i)' = AskedOf(i)
         /\ Apart' <=> Apart
         /\ Given' = Given
         /\ (DOMAIN setting.accounts)' = DOMAIN setting.accounts
BY DEF Dir, AskedOf, Asked, Directory, Apart, Given

LEMMA DirIs ==
  ASSUME Grounds
  PROVE  /\ Dir(current) = Directory(Account) /\ Dir(current) \in Paths
         /\ \A i \in DOMAIN setting.accounts : i \in Nat
         /\ current \in Nat
<1>1. Dir(current) = Directory(Account)
  BY DEF Dir, Account
<1>2. setting.accounts \in Seq(Accounts)
  BY SyncCommandAssumption DEF Grounds
<1>3. QED
  BY <1>1, <1>2, AccountType DEF Grounds

LEMMA ApartIs ==
  ASSUME Grounds, Apart, NEW i \in DOMAIN setting.accounts, i # current
  PROVE  ~StartsWith(Dir(i), Dir(current)) /\ Dir(i) # Dir(current)
<1>1. current \in DOMAIN setting.accounts /\ Dir(current) \in Paths
  BY DirIs DEF Grounds
<1>2. ~StartsWith(Dir(i), Dir(current))
  BY <1>1 DEF Apart, Dir
<1>3. StartsWith(Dir(current), Dir(current))
  BY <1>1 DEF StartsWith, Paths
<1>4. QED
  BY <1>2, <1>3

LEMMA KeptAtFirst == Init => Kept
<1> SUFFICES ASSUME Init PROVE Kept
  OBVIOUS
<1>1. /\ setting \in Settings /\ stored = setting.stored /\ tree = setting.tree
      /\ pc = "validate" /\ current = 1
  BY DEF Init
<1>2. \A h \in stored : h.dir \in tree
  BY <1>1, SyncCommandAssumption
<1>3. \A i \in DOMAIN setting.accounts : i \in Nat /\ i >= 1
  BY <1>1, SyncCommandAssumption
<1>4. \A i \in DOMAIN setting.accounts : ~Done(i) /\ ~Cleared(i)
  BY <1>1, <1>3 DEF Done, Cleared
<1>5. QED
  BY <1>1, <1>2, <1>4 DEF Kept, Rooted, Served, Untouched, Underway

(* A step after which what was held is still held, and the account that was *)
(* done last, if one was, has all that was asked for.                       *)
LEMMA KeptByAdding ==
  ASSUME Grounds, Kept, pc # "failed", setting' = setting, current' = current,
         NEW more, stored' = stored \union more,
         \A h \in more : h.dir = Dir(current) /\ h.new /\ h.dir \in tree',
         tree \subseteq tree',
         pc' \in {"folders", "index", "embed"} => Dir(current) \in tree',
         Done(current)' => Done(current) \/ \A role \in AskedOf(current) : Has(current, role)',
         Cleared(current)' => Cleared(current) \/ ~Given.reset,
         Underway'
  PROVE  Kept'
<1>1. /\ \A i : Dir(i)' = Dir(i) /\ AskedOf(i)' = AskedOf(i)
      /\ Apart' <=> Apart
      /\ Given' = Given
      /\ (DOMAIN setting.accounts)' = DOMAIN setting.accounts
  BY AccountsStay
<1>2. \A i, kind : Has(i, kind) => Has(i, kind)'
  BY <1>1 DEF Has
<1>3. \A i : i # current => (Done(i)' => Done(i)) /\ (Cleared(i)' => Cleared(i))
  BY DEF Done, Cleared
<1>4. Rooted'
  <2>1. Dir(current)' = Dir(current)
    BY <1>1
  <2>2. QED
    BY <2>1 DEF Rooted, Kept
<1>5. Served
  BY DEF Kept
<1>6. ASSUME NEW i \in DOMAIN setting.accounts, Apart, Done(i)'
      PROVE  \A role \in AskedOf(i) : Has(i, role)'
  <2>1. CASE Done(i)
    BY <1>2, <1>5, <1>6, <2>1 DEF Served
  <2>2. CASE ~Done(i)
    BY <1>3, <1>6, <2>2
  <2>3. QED
    BY <2>1, <2>2
<1>7. ASSUME NEW i \in DOMAIN setting.accounts, Apart, Given.reset, Cleared(i)'
      PROVE  \A h \in stored' : h.dir = Dir(i) => h.new
  <2>1. Cleared(i)
    BY <1>3, <1>7
  <2>2. QED
    BY <1>5, <1>7, <2>1 DEF Served
<1>8. Served'
  BY <1>1, <1>6, <1>7 DEF Served
<1>9. Untouched'
  <2>1. ASSUME NEW i \in DOMAIN setting.accounts, Apart, i > current, NEW h, h.dir = Dir(i)
        PROVE  h \in stored' <=> h \in setting.stored
    <3>1. Dir(i) # Dir(current)
      BY <2>1, ApartIs, DirIs
    <3>2. h \in stored' <=> h \in stored
      BY <2>1, <3>1
    <3>3. QED
      BY <2>1, <3>2 DEF Kept, Untouched
  <2>2. QED
    BY <1>1, <2>1 DEF Untouched
<1>10. QED
  BY <1>4, <1>8, <1>9 DEF Kept

\* A step that adds nothing and is no end of an account or of a reset.
LEMMA KeptByMoving ==
  ASSUME Grounds, Kept, pc # "failed", setting' = setting, current' = current,
         stored' = stored, tree \subseteq tree', pc' \notin {"folders", "done"},
         pc' \in {"index", "embed"} => Dir(current) \in tree',
         Done(current)' => Done(current) \/ \A role \in AskedOf(current) : Has(current, role)',
         Cleared(current)' => Cleared(current) \/ ~Given.reset
  PROVE  Kept'
<1>1. Underway'
  BY DEF Underway
<1>2. PICK none : none = {}
  OBVIOUS
<1>3. /\ stored' = stored \union none
      /\ \A h \in none : h.dir = Dir(current) /\ h.new /\ h.dir \in tree'
  BY <1>2
<1>4. pc' \in {"folders", "index", "embed"} => Dir(current) \in tree'
  OBVIOUS
<1>5. QED
  BY <1>1, <1>3, <1>4, KeptByAdding

(* An error, after which the accounts that are done and those to come have  *)
(* what they had, though the account at work may have lost some.            *)
LEMMA KeptByFailing ==
  ASSUME Grounds, Kept, setting' = setting, current' = current, pc' = "failed",
         tree \subseteq tree', stored' \subseteq stored,
         \A h \in stored : StartsWith(h.dir, Dir(current)) \/ h \in stored'
  PROVE  Kept'
<1>1. /\ \A i : Dir(i)' = Dir(i) /\ AskedOf(i)' = AskedOf(i)
      /\ Apart' <=> Apart
      /\ Given' = Given
      /\ (DOMAIN setting.accounts)' = DOMAIN setting.accounts
  BY AccountsStay
<1>2. current \in Nat /\ \A i \in DOMAIN setting.accounts : i \in Nat
  BY DirIs
<1>3. \A i \in DOMAIN setting.accounts :
        (Done(i)' => i < current /\ Done(i)) /\ (Cleared(i)' => i < current /\ Cleared(i))
  BY <1>2 DEF Done, Cleared
<1>4. ASSUME NEW i \in DOMAIN setting.accounts, Apart, i # current, NEW h, h.dir = Dir(i)
      PROVE  h \in stored' <=> h \in stored
  BY <1>4, ApartIs
<1>5. ASSUME NEW i \in DOMAIN setting.accounts, Apart, Done(i)', NEW role \in AskedOf(i)
      PROVE  Has(i, role)'
  <2>1. Has(i, role) /\ i # current
    BY <1>2, <1>3, <1>5 DEF Kept, Served
  <2>2. QED
    BY <1>1, <1>4, <1>5, <2>1 DEF Has
<1>6. ASSUME NEW i \in DOMAIN setting.accounts, Apart, Given.reset, Cleared(i)'
      PROVE  \A h \in stored' : h.dir = Dir(i) => h.new
  BY <1>3, <1>6 DEF Kept, Served
<1>7. Served'
  BY <1>1, <1>5, <1>6 DEF Served
<1>8. Untouched'
  <2>1. ASSUME NEW i \in DOMAIN setting.accounts, Apart, i > current, NEW h, h.dir = Dir(i)
        PROVE  h \in stored' <=> h \in setting.stored
    BY <1>2, <1>4, <2>1 DEF Kept, Untouched
  <2>2. QED
    BY <1>1, <2>1 DEF Untouched
<1>9. Rooted'
  BY DEF Kept, Rooted
<1>10. QED
  BY <1>7, <1>8, <1>9 DEF Kept

\* An error that takes nothing away.
LEMMA KeptByStopping ==
  ASSUME Grounds, Kept, setting' = setting, current' = current, pc' = "failed",
         tree \subseteq tree', stored' = stored
  PROVE  Kept'
BY KeptByFailing

LEMMA ResetKeeps ==
  ASSUME Grounds, Kept, setting' = setting, ResetAccount
  PROVE  Kept'
<1>1. /\ \A i : Dir(i)' = Dir(i) /\ AskedOf(i)' = AskedOf(i)
      /\ Apart' <=> Apart
      /\ Given' = Given
      /\ (DOMAIN setting.accounts)' = DOMAIN setting.accounts
  BY AccountsStay
<1>2. /\ Dir(current) = Directory(Account) /\ Dir(current) \in Paths
      /\ \A i \in DOMAIN setting.accounts : i \in Nat
      /\ current \in Nat /\ current \in DOMAIN setting.accounts
  BY DirIs DEF Grounds
<1>3. PICK gone : gone = Under(Dir(current))
  OBVIOUS
<1>4. /\ tree' = tree \ gone
      /\ stored' = {held \in stored : held.dir \notin gone}
      /\ pc = "reset" /\ pc' = "select" /\ current' = current
  BY <1>2, <1>3 DEF ResetAccount, Goto
<1>5. \A path : path \in gone <=> path \in tree /\ StartsWith(path, Dir(current))
  BY <1>3 DEF Under
<1>6. Rooted'
  BY <1>4, <1>5 DEF Kept, Rooted
<1>7. Served
  BY <1>4 DEF Kept
<1>8. ASSUME NEW i \in DOMAIN setting.accounts, Apart, Done(i)'
      PROVE  \A role \in AskedOf(i) : Has(i, role)'
  <2>1. i < current /\ i # current
    BY <1>2, <1>4, <1>8 DEF Done
  <2>2. ~StartsWith(Dir(i), Dir(current))
    BY <1>2, <1>8, <2>1 DEF Apart, Dir
  <2>3. \A role \in AskedOf(i) : Has(i, role)
    BY <1>7, <1>8, <2>1 DEF Served, Done
  <2>4. \A kind : Has(i, kind) => Has(i, kind)'
    BY <1>1, <1>4, <1>5, <2>2 DEF Has
  <2>5. QED
    BY <2>3, <2>4
<1>9. ASSUME NEW i \in DOMAIN setting.accounts, Apart, Given.reset, Cleared(i)',
             NEW h \in stored', h.dir = Dir(i)
      PROVE  h.new
  <2>1. h \in stored /\ h.dir \notin gone /\ h.dir \in tree
    BY <1>4, <1>9 DEF Kept, Rooted
  <2>2. CASE i = current
    <3>1. StartsWith(Dir(current), Dir(current))
      BY <1>2 DEF StartsWith, Paths
    <3>2. QED
      BY <1>5, <1>9, <2>1, <2>2, <3>1
  <2>3. CASE i # current
    <3>1. Cleared(i)
      BY <1>4, <1>9, <2>3 DEF Cleared
    <3>2. QED
      BY <1>7, <1>9, <2>1, <3>1 DEF Served
  <2>4. QED
    BY <2>2, <2>3
<1>10. Served'
  BY <1>1, <1>8, <1>9 DEF Served
<1>11. Underway'
  BY <1>4 DEF Underway
<1>12. Untouched'
  <2>1. ASSUME NEW i \in DOMAIN setting.accounts, Apart, i > current, NEW h, h.dir = Dir(i)
        PROVE  h \in stored' <=> h \in setting.stored
    <3>1. Dir(i) \notin gone
      BY <1>2, <1>5, <2>1, ApartIs
    <3>2. h \in stored' <=> h \in stored
      BY <1>4, <2>1, <3>1
    <3>3. QED
      BY <2>1, <3>2 DEF Kept, Untouched
  <2>2. QED
    BY <1>1, <1>4, <2>1 DEF Untouched
<1>13. QED
  BY <1>6, <1>10, <1>11, <1>12 DEF Kept

LEMMA NextAccountKeeps ==
  ASSUME Grounds, Kept, setting' = setting, NextAccount
  PROVE  Kept'
<1>1. /\ \A i : Dir(i)' = Dir(i) /\ AskedOf(i)' = AskedOf(i)
      /\ Apart' <=> Apart
      /\ Given' = Given
      /\ (DOMAIN setting.accounts)' = DOMAIN setting.accounts
  BY AccountsStay
<1>2. current \in Nat /\ \A i \in DOMAIN setting.accounts : i \in Nat
  BY DirIs
<1>3. /\ pc = "next" /\ UNCHANGED <<tree, stored>>
      /\ \/ current' = current + 1 /\ pc' = "reset"
         \/ current' = current /\ pc' = "done" /\ current = Len(setting.accounts)
  <2>1. CASE current < Len(setting.accounts)
    BY <2>1 DEF NextAccount, Goto
  <2>2. CASE ~(current < Len(setting.accounts))
    <3>1. setting.accounts \in Seq(Accounts)
      BY SyncCommandAssumption DEF Grounds
    <3>2. current = Len(setting.accounts)
      BY <2>2, <3>1 DEF Grounds
    <3>3. QED
      BY <2>2, <3>2 DEF NextAccount, Goto
  <2>3. QED
    BY <2>1, <2>2
<1>4. \A i \in DOMAIN setting.accounts :
        (Done(i)' => Done(i)) /\ (Cleared(i)' => Cleared(i))
  BY <1>2, <1>3 DEF Done, Cleared
<1>5. \A i, kind : Has(i, kind)' <=> Has(i, kind)
  BY <1>1, <1>3 DEF Has
<1>6. Served
  BY <1>3 DEF Kept
<1>7. Served'
  BY <1>1, <1>3, <1>4, <1>5, <1>6 DEF Served
<1>8. Rooted' /\ Underway'
  BY <1>3 DEF Kept, Rooted, Underway
<1>9. Untouched'
  <2>1. \A i \in DOMAIN setting.accounts : i > current' => i > current
    BY <1>2, <1>3
  <2>2. QED
    BY <1>1, <1>3, <2>1 DEF Kept, Untouched
<1>10. QED
  BY <1>7, <1>8, <1>9 DEF Kept

LEMMA OwnAncestor ==
  ASSUME NEW dir \in Paths
  PROVE  dir \in Ancestors(dir)
<1>1. Len(dir) \in 0..Len(dir)
  BY DEF Paths
<1>2. SubSeq(dir, 1, Len(dir)) = dir
  BY DEF Paths
<1>3. QED
  BY <1>1, <1>2 DEF Ancestors

LEMMA PreparingKeeps ==
  ASSUME Grounds, Kept, setting' = setting, PrepareSync
  PROVE  Kept'
<1>1. /\ Dir(current) = Directory(Account) /\ Dir(current) \in Paths /\ current \in Nat
  BY DirIs
<1>2. CASE Fail
  BY <1>2, KeptByStopping DEF Fail, Goto
<1>3. CASE ~Fail
  <2>1. /\ pc = "prepare" /\ UNCHANGED <<stored, current>> /\ synced' = 0
        /\ tree' = tree \union Ancestors(Directory(Account))
        /\ pc' \in {"failed", "folders"} \/ (pc' = "index" /\ Given.limit = 0)
    BY <1>3 DEF PrepareSync, Goto
  <2>2. Dir(current) \in tree' /\ tree \subseteq tree'
    BY <1>1, <2>1, OwnAncestor
  <2>3. CASE pc' = "failed"
    BY <2>1, <2>2, <2>3, KeptByStopping
  <2>4. CASE pc' = "index" /\ Given.limit = 0
    <3>1. AskedOf(current) = {}
      BY <2>4 DEF AskedOf, Asked
    <3>2. Cleared(current)
      BY <2>1 DEF Cleared
    <3>3. QED
      BY <2>1, <2>2, <2>4, <3>1, <3>2, KeptByMoving
  <2>5. CASE pc' = "folders"
    <3>1. Cleared(current) /\ ~Done(current)'
      BY <1>1, <2>1, <2>5 DEF Cleared, Done
    <3>2. Underway'
      BY <2>1 DEF Underway
    <3>3. PICK none : none = {}
      OBVIOUS
    <3>4. /\ stored' = stored \union none
          /\ \A h \in none : h.dir = Dir(current) /\ h.new /\ h.dir \in tree'
      BY <2>1, <3>3
    <3>5. pc # "failed"
      BY <2>1
    <3>6. QED
      BY <2>1, <2>2, <3>1, <3>2, <3>4, <3>5, KeptByAdding
  <2>6. QED
    BY <2>1, <2>3, <2>4, <2>5
<1>4. QED
  BY <1>2, <1>3

LEMMA HoldingKeeps ==
  ASSUME Grounds, Kept, setting' = setting, NEW kind \in Kinds, Hold(kind),
         tree' = tree, current' = current,
         \/ pc = "index" /\ pc' = "embed"
         \/ pc = "embed" /\ pc' = "next"
  PROVE  Kept'
<1>1. Dir(current) = Directory(Account) /\ Dir(current) \in Paths
  BY DirIs
<1>2. PICK h \in Held : /\ stored' = stored \union {h}
                        /\ h.dir = Directory(Account) /\ h.kind = kind /\ h.new
  BY <1>1, HoldIs
<1>3. Dir(current) \in tree
  BY DEF Kept, Rooted
<1>4. PICK more : more = {h}
  OBVIOUS
<1>5. /\ stored' = stored \union more
      /\ \A g \in more : g.dir = Dir(current) /\ g.new /\ g.dir \in tree'
  BY <1>1, <1>2, <1>3, <1>4
<1>6. Done(current) /\ Cleared(current)
  BY DEF Done, Cleared
<1>7. Underway' /\ pc # "failed"
  BY DEF Underway
<1>8. tree \subseteq tree' /\ (pc' \in {"folders", "index", "embed"} => Dir(current) \in tree')
  BY <1>3
<1>9. QED
  BY <1>5, <1>6, <1>7, <1>8, KeptByAdding

LEMMA SyncingKeeps ==
  ASSUME Grounds, Shape, Kept, setting' = setting, SyncFolder
  PROVE  Kept'
<1>1. /\ pc = "folders" /\ synced < Len(plans) /\ synced' = synced + 1
      /\ Hold(plans[synced + 1].role)
      /\ UNCHANGED <<tree, pc, current, selection, plans>>
  BY DEF SyncFolder
<1>2. plans \in Seq(Plans) /\ synced \in 0..Len(plans) /\ Len(plans) \in Nat
  BY DEF Shape
<1>3. plans[synced + 1] \in Plans
  BY <1>1, <1>2, ElementOfSeq
<1>4. plans[synced + 1].role \in Kinds
  BY <1>3 DEF Plans, Kinds
<1>5. Dir(current) = Directory(Account) /\ Dir(current) \in Paths /\ current \in Nat
  BY DirIs
<1>6. PICK h \in Held : /\ stored' = stored \union {h} /\ h.dir = Directory(Account)
                        /\ h.kind = plans[synced + 1].role /\ h.new
  BY <1>1, <1>4, <1>5, HoldIs
<1>7. Dir(current)' = Dir(current)
  BY <1>1, AccountsStay
<1>8. \A kind : Has(current, kind) => Has(current, kind)'
  BY <1>1, <1>6, <1>7 DEF Has
<1>9. PICK role : role = plans[synced + 1].role
  OBVIOUS
<1>10. Underway'
  <2>1. Has(current, role)'
    BY <1>1, <1>5, <1>6, <1>7, <1>9 DEF Has
  <2>2. \A n \in 1..synced : Has(current, plans[n].role)
    BY <1>1 DEF Kept, Underway
  <2>3. ASSUME NEW n \in 1..(synced + 1), NEW its, its = plans[n].role
        PROVE  Has(current, its)'
    <3>1. n \in 1..synced \/ n = synced + 1
      BY <1>2
    <3>2. CASE n \in 1..synced
      BY <1>8, <2>2, <2>3, <3>2
    <3>3. CASE n = synced + 1
      BY <1>9, <2>1, <2>3, <3>3
    <3>4. QED
      BY <3>1, <3>2, <3>3
  <2>4. QED
    BY <1>1, <2>3 DEF Underway
<1>11. Dir(current) \in tree
  BY <1>1 DEF Kept, Rooted
<1>12. PICK more : more = {h}
  OBVIOUS
<1>13. /\ stored' = stored \union more
       /\ \A g \in more : g.dir = Dir(current) /\ g.new /\ g.dir \in tree'
  BY <1>1, <1>5, <1>6, <1>11, <1>12
<1>14. (Done(current)' => Done(current)) /\ (Cleared(current)' => Cleared(current))
  BY <1>1 DEF Done, Cleared
<1>15. /\ pc # "failed" /\ tree \subseteq tree'
       /\ pc' \in {"folders", "index", "embed"} => Dir(current) \in tree'
  BY <1>1, <1>11
<1>16. QED
  BY <1>1, <1>10, <1>13, <1>14, <1>15, KeptByAdding

LEMMA FoldersSyncedKeeps ==
  ASSUME Grounds, Shape, Context, Kept, setting' = setting, FoldersSynced
  PROVE  Kept'
<1>1. /\ pc = "folders" /\ synced = Len(plans) /\ pc' = "index"
      /\ UNCHANGED <<tree, stored, current>>
  BY DEF FoldersSynced, Goto
<1>2. plans \in Seq(Plans) /\ plans = Covered(Account) /\ Given.limit # 0
  BY <1>1 DEF Shape, Context
<1>3. AskedOf(current) = {plans[n].role : n \in DOMAIN plans}
  BY <1>2 DEF AskedOf, Asked, Covered, Account
<1>4. \A role \in AskedOf(current) : \E n \in 1..synced : role = plans[n].role
  BY <1>1, <1>2, <1>3
<1>5. \A n \in 1..synced : Has(current, plans[n].role)
  BY <1>1 DEF Kept, Underway
<1>6. \A role \in AskedOf(current) : Has(current, role)
  BY <1>4, <1>5
<1>7. Dir(current)' = Dir(current)
  BY <1>1, AccountsStay
<1>8. \A role \in AskedOf(current) : Has(current, role)'
  BY <1>1, <1>6, <1>7 DEF Has
<1>9. Cleared(current) /\ Dir(current) \in tree
  BY <1>1 DEF Cleared, Kept, Rooted
<1>10. QED
  BY <1>1, <1>8, <1>9, KeptByMoving

LEMMA KeptStays ==
  ASSUME Commanded, Kept, [Next]_vars
  PROVE  Kept'
<1>1. setting' = setting
  BY SettingStays
<1>2. Grounds /\ Shape /\ Context /\ current \in Nat
  BY DirIs DEF Commanded
<1>3. CASE ValidateOptions
  <2>1. CASE Fail
    BY <1>2, <2>1, KeptByStopping DEF Fail, Goto
  <2>2. CASE ~Fail
    <3>1. /\ pc = "validate" /\ pc' = "reset"
          /\ UNCHANGED <<tree, stored, current>>
      BY <1>3, <2>2 DEF ValidateOptions, Goto
    <3>2. ~Done(current)' /\ ~Cleared(current)'
      BY <1>2, <3>1 DEF Done, Cleared
    <3>3. QED
      BY <1>1, <1>2, <3>1, <3>2, KeptByMoving
  <2>3. QED
    BY <2>1, <2>2
<1>4. CASE NoReset
  <2>1. CASE Fail
    BY <1>2, <2>1, KeptByStopping DEF Fail, Goto
  <2>2. CASE ~Fail
    <3>1. /\ pc = "reset" /\ pc' = "select" /\ ~Given.reset
          /\ UNCHANGED <<tree, stored, current>>
      BY <1>4, <2>2 DEF NoReset, Goto
    <3>2. ~Done(current)'
      BY <1>2, <3>1 DEF Done
    <3>3. QED
      BY <1>1, <1>2, <3>1, <3>2, KeptByMoving
  <2>3. QED
    BY <2>1, <2>2
<1>5. CASE ResetAccount
  BY <1>1, <1>2, <1>5, ResetKeeps
<1>6. CASE ResetFails
  <2>1. Dir(current) = Directory(Account)
    BY <1>2, DirIs
  <2>2. /\ pc' = "failed" /\ tree' = tree /\ current' = current /\ stored' \subseteq stored
        /\ \A h \in stored : h.dir \notin Under(Dir(current)) => h \in stored'
    BY <1>6, <2>1 DEF ResetFails, Goto
  <2>3. \A h \in stored : StartsWith(h.dir, Dir(current)) \/ h \in stored'
    BY <2>2 DEF Under
  <2>4. QED
    BY <1>1, <1>2, <2>2, <2>3, KeptByFailing
<1>7. CASE SelectFolders
  <2>1. CASE Fail
    BY <1>2, <2>1, KeptByStopping DEF Fail, Goto
  <2>2. CASE ~Fail
    <3>1. /\ pc = "select" /\ pc' = "prepare"
          /\ UNCHANGED <<tree, stored, current>>
      BY <1>7, <2>2 DEF SelectFolders, Goto
    <3>2. ~Done(current)' /\ Cleared(current)
      BY <1>2, <3>1 DEF Done, Cleared
    <3>3. QED
      BY <1>1, <1>2, <3>1, <3>2, KeptByMoving
  <2>3. QED
    BY <2>1, <2>2
<1>8. CASE PrepareSync
  BY <1>1, <1>2, <1>8, PreparingKeeps
<1>9. CASE SyncFolder
  BY <1>1, <1>2, <1>9, SyncingKeeps
<1>10. CASE FoldersSynced
  BY <1>1, <1>2, <1>10, FoldersSyncedKeeps
<1>11. CASE RebuildIndex \/ Embed
  <2>1. /\ tree' = tree /\ current' = current
        /\ \/ pc = "index" /\ pc' = "embed" /\ Hold("index")
           \/ pc = "embed" /\ pc' = "next" /\ Hold("vectors")
           \/ pc \in {"index", "embed"} /\ pc' = "next" /\ stored' = stored
           \/ pc' = "failed" /\ stored' = stored
    BY <1>11 DEF RebuildIndex, Embed, Goto
  <2>2. "index" \in Kinds /\ "vectors" \in Kinds
    BY DEF Kinds
  <2>3. CASE pc = "index" /\ pc' = "embed" /\ Hold("index")
    BY <1>1, <1>2, <2>1, <2>2, <2>3, HoldingKeeps
  <2>4. CASE pc = "embed" /\ pc' = "next" /\ Hold("vectors")
    BY <1>1, <1>2, <2>1, <2>2, <2>4, HoldingKeeps
  <2>5. CASE pc \in {"index", "embed"} /\ pc' = "next" /\ stored' = stored
    <3>1. Done(current) /\ Cleared(current)
      BY <2>5 DEF Done, Cleared
    <3>2. QED
      BY <1>1, <1>2, <2>1, <2>5, <3>1, KeptByMoving
  <2>6. CASE pc' = "failed" /\ stored' = stored
    BY <1>1, <1>2, <2>1, <2>6, KeptByStopping
  <2>7. QED
    BY <2>1, <2>3, <2>4, <2>5, <2>6
<1>12. CASE StepFails
  BY <1>1, <1>2, <1>12, KeptByStopping DEF StepFails, Fail, Goto
<1>13. CASE NextAccount
  BY <1>1, <1>2, <1>13, NextAccountKeeps
<1>14. CASE UNCHANGED vars
  <2>1. UNCHANGED <<tree, stored, pc, current, plans, synced>>
    BY <1>14 DEF vars
  <2>2. CASE pc = "failed"
    BY <1>1, <1>2, <2>1, <2>2, KeptByStopping
  <2>3. CASE pc # "failed"
    <3>1. \A i : Dir(i)' = Dir(i)
      BY <1>1, AccountsStay
    <3>2. \A kind : Has(current, kind)' <=> Has(current, kind)
      BY <2>1, <3>1 DEF Has
    <3>3. Underway'
      <4>1. Underway
        BY <2>3 DEF Kept
      <4>2. pc' = "done" => current' = Len(setting'.accounts)
        BY <1>1, <2>1, <4>1 DEF Underway
      <4>3. ASSUME pc' = "folders", NEW n \in 1..synced', NEW role, role = plans[n].role
            PROVE  Has(current, role)'
        BY <2>1, <3>2, <4>1, <4>3 DEF Underway
      <4>4. pc' = "folders" => \A n \in 1..synced' : Has(current, plans[n].role)'
        BY <2>1, <4>3
      <4>5. QED
        BY <4>2, <4>4 DEF Underway
    <3>4. PICK none : none = {}
      OBVIOUS
    <3>5. /\ stored' = stored \union none
          /\ \A h \in none : h.dir = Dir(current) /\ h.new /\ h.dir \in tree'
      BY <2>1, <3>4
    <3>6. pc' \in {"folders", "index", "embed"} => Dir(current) \in tree'
      BY <2>1 DEF Kept, Rooted
    <3>7. (Done(current)' => Done(current)) /\ (Cleared(current)' => Cleared(current))
      BY <2>1 DEF Done, Cleared
    <3>8. QED
      BY <1>1, <1>2, <2>1, <2>3, <3>3, <3>5, <3>6, <3>7, KeptByAdding
  <2>4. QED
    BY <2>2, <2>3
<1>15. QED
  BY <1>3, <1>4, <1>5, <1>6, <1>7, <1>8, <1>9, <1>10, <1>11, <1>12, <1>13, <1>14 DEF Next

(* For any number of accounts with directories apart, at every moment of a  *)
(* command and after every error: the accounts that are done hold what was  *)
(* asked for, after resets nothing older, and the accounts to come hold     *)
(* what they held (sync, sync_one_account).                                 *)
THEOREM SyncedMailIsThere == Spec => []SyncedIsThere
<1>1. Commanded /\ Kept => SyncedIsThere
  <2> SUFFICES ASSUME Commanded, Kept, Apart, NEW i \in DOMAIN setting.accounts
               PROVE  /\ i < current \/ pc = "done" =>
                           /\ \A role \in AskedOf(i) : Has(i, role)
                           /\ Given.reset => \A h \in stored : h.dir = Dir(i) => h.new
                      /\ i > current =>
                           {h \in stored : h.dir = Dir(i)} = {h \in setting.stored : h.dir = Dir(i)}
    BY DEF SyncedIsThere, AskedOf, Has, Dir
  <2>1. Served /\ Untouched
    BY DEF Kept
  <2>2. pc = "done" => current = Len(setting.accounts)
    BY DEF Kept, Underway
  <2>3. setting.accounts \in Seq(Accounts) /\ current \in Nat
    BY SyncCommandAssumption DEF Commanded, Grounds
  <2>4. pc = "done" => i < current \/ i = current
    BY <2>2, <2>3
  <2>5. i < current \/ pc = "done" => Done(i) /\ Cleared(i)
    BY <2>4 DEF Done, Cleared
  <2>6. i > current =>
          {h \in stored : h.dir = Dir(i)} = {h \in setting.stored : h.dir = Dir(i)}
    BY <2>1 DEF Untouched
  <2>7. QED
    BY <2>1, <2>5, <2>6 DEF Served
<1>2. Commanded /\ Kept /\ [Next]_vars => (Commanded /\ Kept)'
  BY CommandedStays, KeptStays
<1>3. QED
  BY <1>1, <1>2, CommandedAtFirst, KeptAtFirst, PTL DEF Spec
=============================================================================
