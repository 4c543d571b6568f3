------------------------------- MODULE SyncPlan -------------------------------
(***************************************************************************)
(* Which folders a sync covers (src/src/imap/sync/plan.rs, imap/           *)
(* folders.rs), as operators on the options of the command, the account's  *)
(* sync_folders and the names its folders have.  A name stands for all its *)
(* spellings in case and padding; quotes around it make a difference.      *)
(***************************************************************************)
EXTENDS Naturals, Sequences

CONSTANTS
  Words,          \* mailbox names, quotes left out
  VirtualWords,   \* is_virtual_mailbox
  TrashWords,     \* what --all leaves out beside them
  Logical,        \* the role each word is that names one in the program
  NoWord,         \* the empty name
  NoDefaults      \* the account has no sync_folders

Roles == {"inbox", "sent", "archive", "drafts", "trash"}

Names == [word : Words \union {NoWord}, quoted : BOOLEAN]

ASSUME PlanAssumption ==
  /\ VirtualWords \subseteq Words /\ TrashWords \subseteq Words
  /\ Logical \in [DOMAIN Logical -> Roles] /\ DOMAIN Logical \subseteq Words

Plans == [role : Roles, folder : Words]

Error == [kind |-> "error", names |-> <<>>]

Selections == [kind : {"default", "all", "named", "error"}, names : Seq(Names)]

\* Mailbox names are compared without their quotes.
NamesEq(left, right) == left.word = right.word

\* Duplicates are left out, wherever they are.
Normalized(names) ==
  LET kept[n \in 0..Len(names)] ==
        IF n = 0 THEN <<>>
        ELSE IF \E i \in DOMAIN kept[n - 1] : NamesEq(kept[n - 1][i], names[n])
             THEN kept[n - 1]
             ELSE Append(kept[n - 1], names[n])
  IN  kept[Len(names)]

\* A name of nothing but padding; one of two quotes passes.
HasEmpty(names) == \E i \in DOMAIN names : names[i].word = NoWord /\ ~names[i].quoted

FromDefaults(defaults) ==
  CASE defaults = NoDefaults -> [kind |-> "default", names |-> <<>>]
    [] OTHER -> IF HasEmpty(defaults) \/ defaults = <<>> THEN Error
                ELSE [kind |-> "named", names |-> Normalized(defaults)]

(* --folder over --all over sync_folders; the first two exclude each other. *)
FromInputs(all, named, defaults) ==
  CASE HasEmpty(named) \/ (all /\ named # <<>>) -> Error
    [] ~all /\ named # <<>> /\ ~HasEmpty(named) ->
         [kind |-> "named", names |-> Normalized(named)]
    [] all /\ named = <<>> -> [kind |-> "all", names |-> <<>>]
    [] OTHER -> FromDefaults(defaults)

-----------------------------------------------------------------------------
(* folders is what the account calls its folders: [Roles -> Words]          *)

PlanOf(folders, role) == [role |-> role, folder |-> folders[role]]

DefaultPlans(folders) == <<PlanOf(folders, "inbox"), PlanOf(folders, "sent")>>

AllPlans(folders) ==
  DefaultPlans(folders) \o
    (IF folders["archive"] \in VirtualWords \union TrashWords THEN <<>>
     ELSE <<PlanOf(folders, "archive")>>)

ResolutionOrder == <<"inbox", "sent", "archive", "drafts", "trash">>

\* The roles a name may stand for: its own, or those whose folder has the name.
RolesNamed(folders, name) ==
  IF ~name.quoted /\ name.word \in DOMAIN Logical THEN {Logical[name.word]}
  ELSE {role \in Roles : folders[role] = name.word}

RoleNamed(folders, name) ==
  LET fits == {i \in DOMAIN ResolutionOrder :
                 ResolutionOrder[i] \in RolesNamed(folders, name)}
  IN  ResolutionOrder[CHOOSE i \in fits : \A j \in fits : i <= j]

\* Neither the name nor the folder it stands for may be a virtual one.
Refuses(folders, name) ==
  \/ name.word \in VirtualWords
  \/ RolesNamed(folders, name) = {}
  \/ folders[RoleNamed(folders, name)] \in VirtualWords

\* Mutant: only roles are compared.
RoleSelected(plans, plan) == \E i \in DOMAIN plans : plans[i].role = plan.role

AlreadySelected(plans, plan) ==
  \E i \in DOMAIN plans : plans[i].role = plan.role \/ plans[i].folder = plan.folder

NamedPlans(folders, names) ==
  LET plans[n \in 0..Len(names)] ==
        IF n = 0 THEN <<>>
        ELSE LET plan == PlanOf(folders, RoleNamed(folders, names[n]))
             IN  IF AlreadySelected(plans[n - 1], plan) THEN plans[n - 1]
                 ELSE Append(plans[n - 1], plan)
  IN  plans[Len(names)]

SelectionRefused(folders, selection) ==
  \E i \in DOMAIN selection.names : Refuses(folders, selection.names[i])

PlansFor(folders, selection) ==
  CASE selection.kind = "default" -> DefaultPlans(folders)
    [] selection.kind = "all" -> AllPlans(folders)
    [] selection.kind = "named" -> NamedPlans(folders, selection.names)
=============================================================================
