--------------------------- MODULE AtMostOnceSend ---------------------------
(***************************************************************************)
(* What the queue promises of sends (README.md 309-313,                    *)
(* docs/release-v11.0.0.md 52-57): an item is handed to SMTP at most once, *)
(* and its key blocks every other item until a Failed or Dropped record    *)
(* of the item releases it.                                                *)
(***************************************************************************)
EXTENDS Naturals

CONSTANTS Items, Keys, NoKey

VARIABLES
  calls,      \* SMTP submissions made for each item
  submitted,  \* the key an item was submitted with
  released    \* items that no longer hold their key

Init ==
  /\ calls = [i \in Items |-> 0]
  /\ submitted = [i \in Items |-> NoKey]
  /\ released = {}

Submit(i, k) ==
  /\ calls[i] = 0
  /\ \A j \in Items : submitted[j] = k => j \in released
  /\ calls' = [calls EXCEPT ![i] = 1]
  /\ submitted' = [submitted EXCEPT ![i] = k]
  /\ UNCHANGED released

Release(i) ==
  /\ released' = released \union {i}
  /\ UNCHANGED <<calls, submitted>>

Next == \E i \in Items : Release(i) \/ \E k \in Keys : Submit(i, k)

Spec == Init /\ [][Next]_<<calls, submitted, released>>
=============================================================================
