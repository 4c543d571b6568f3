--------------------------- MODULE MutationPolicy ---------------------------
(***************************************************************************)
(* The account mutation policy: which remote mutation a queued command     *)
(* stands for and which policies permit it (src/src/policy.rs).            *)
(***************************************************************************)

CONSTANT LowerCase(_)  \* the ASCII lower case of a folder name

Policies == {"full_write", "read_only", "archive"}

Mutations == {"archive", "move_to_trash", "move_other", "expunge", "flag",
              "send", "append_draft"}

NoMutation == "no_mutation"  \* a command without a remote side effect

\* A folder name that stands for the account's trash folder, whatever its case.
ClassifiesAsTrash(trashFolder, folder) ==
  LowerCase(folder) \in {"trash", "deleted", LowerCase(trashFolder)}

\* The remote mutation a command causes; a reply only makes a local draft.
Classify(trashFolder, command) ==
  CASE command.op = "archive" -> "archive"
    [] command.op = "delete"  -> IF command.expunge THEN "expunge"
                                                    ELSE "move_to_trash"
    [] command.op = "move"    -> IF ClassifiesAsTrash(trashFolder, command.folder)
                                 THEN "move_to_trash" ELSE "move_other"
    [] command.op = "flag"    -> "flag"
    [] command.op = "send"    -> "send"
    [] OTHER                  -> NoMutation

PolicyAllows(policy, mutation) ==
  \/ policy = "full_write"
  \/ /\ policy = "archive"
     /\ mutation \in {"archive", "move_other", "flag"}

Authorize(policy, trashFolder, command) ==
  \/ Classify(trashFolder, command) = NoMutation
  \/ PolicyAllows(policy, Classify(trashFolder, command))
=============================================================================
