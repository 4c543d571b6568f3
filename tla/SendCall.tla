------------------------------ MODULE SendCall ------------------------------
(***************************************************************************)
(* What a caller of send_raw may count on, whatever the transport: it      *)
(* sends the message at most once, to those it names, and an end without   *)
(* an error means that it was sent.  After an error it may be sent or not. *)
(***************************************************************************)
EXTENDS Naturals, Sequences

CONSTANTS Callers, NoMail

VARIABLES
  sending,   \* what each caller is sending
  out,       \* what was sent in its last call
  done       \* how many calls ended without an error

Init ==
  /\ sending = [c \in Callers |-> NoMail]
  /\ out = [c \in Callers |-> <<>>]
  /\ done = 0

\* Only the caller's own entry changes.
Only(c, new, old) ==
  DOMAIN new = Callers /\ \A other \in Callers \ {c} : new[other] = old[other]

Begin(c) ==
  /\ sending[c] = NoMail /\ sending'[c] # NoMail
  /\ Only(c, sending', sending)
  /\ out' = [out EXCEPT ![c] = <<>>]
  /\ UNCHANGED done

Recipients(mail) == {mail.to[i] : i \in DOMAIN mail.to}

(* The message goes to its recipients and to nobody else, and its key lies  *)
(* open exactly when one of them has no key to lock it with; HTML is not    *)
(* sent inline.                                                             *)
Fits(package, mail) ==
  /\ {to.address : to \in package.to} = Recipients(mail)
  /\ package.key <=> \E to \in package.to : to.scheme = "clear"
  /\ mail.html => \A to \in package.to : to.scheme # "inline"

\* The call may end with that, without knowing.
Deliver(c) ==
  /\ sending[c] # NoMail /\ out[c] = <<>>
  /\ Len(out'[c]) = 1 /\ Fits(out'[c][1], sending[c])
  /\ Only(c, out', out)
  /\ sending' \in {sending, [sending EXCEPT ![c] = NoMail]}
  /\ UNCHANGED done

Succeed(c) ==
  /\ sending[c] # NoMail /\ out[c] # <<>>
  /\ sending' = [sending EXCEPT ![c] = NoMail]
  /\ done' = done + 1
  /\ UNCHANGED out

Fail(c) ==
  /\ sending' = [sending EXCEPT ![c] = NoMail]
  /\ UNCHANGED <<out, done>>

Next ==
  \E c \in Callers :
    Begin(c) \/ Deliver(c) \/ Succeed(c) \/ Fail(c)

Spec == Init /\ [][Next]_<<sending, out, done>>
=============================================================================
