------------------------- MODULE InstructionDelivery -------------------------
(***************************************************************************)
(* What `agent poll` promises of the instructions that come in by mail: an *)
(* instruction is given to the command at most once, and what became of it *)
(* is said only of an instruction that was claimed, once and for all.      *)
(***************************************************************************)
CONSTANT Instructions

VARIABLE fate

Init == fate = [i \in Instructions |-> "new"]

Become(some, what) ==
  fate' = [i \in Instructions |-> IF i \in some THEN what ELSE fate[i]]

Claim(i) == fate[i] = "new" /\ Become({i}, "claimed")

\* The instructions of one thread are given together.
Give(some) ==
  /\ \A i \in some : fate[i] = "claimed"
  /\ Become(some, "given")

Process(some) ==
  /\ \A i \in some : fate[i] = "given"
  /\ Become(some, "processed")

\* The command failed, or could not be started.
Fail(some) ==
  /\ \A i \in some : fate[i] \in {"claimed", "given"}
  /\ Become(some, "failed")

Next ==
  \/ \E i \in Instructions : Claim(i)
  \/ \E some \in SUBSET Instructions : Give(some) \/ Process(some) \/ Fail(some)

Spec == Init /\ [][Next]_fate
=============================================================================
