----------------------------- MODULE MCSendQueue -----------------------------
(* SendQueue on small instances: a send of one file, a mutation, two keys    *)
(* that the file may have, one or two processes.                             *)
EXTENDS SendQueue

CONSTANTS k1, k2

MCLowerCase(name) == IF name = "Trash" THEN "trash" ELSE name

Send(path) == [op |-> "send", path |-> path]
MoveToTrash == [op |-> "move", folder |-> "Trash"]

\* Two files that hold copies of one message.
SameMessage == [path \in Paths |-> k1]
SendsOnly == {Send("a")}
SendAndMove == {Send("a"), MoveToTrash}
==============================================================================
