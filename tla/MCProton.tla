------------------------------ MODULE MCProton ------------------------------
(* ProtonSend on small instances: three messages, three events, and at most *)
(* two processes, in the settings that each hazard needs.                   *)
EXTENDS ProtonSend, TLC

CONSTANTS p, q, x, y, z

New == [labels |-> {"inbox", "starred"}, unread |-> TRUE]
Filed == [labels |-> {"starred"}, unread |-> FALSE]

MCMailStates == {New, Filed}

Nobody == [m \in Msgs |-> Unborn]

First(state) == [m \in Msgs |-> IF m = 1 THEN state ELSE Unborn]

Only(jobs) == [worker \in Processes |-> IF worker = p THEN jobs ELSE {}]

Both(first, second) == [worker \in Processes |-> IF worker = p THEN first ELSE second]

KeyOf == [address \in Addresses |-> CASE address = x -> "internal"
                                      [] address = y -> "external" [] OTHER -> "none"]

NoSend == [mail |-> {}, keys |-> KeyOf, maxSends |-> 0]

\* One poller that may fail anywhere, on mail that comes, changes and goes.
Poller ==
  [bodies |-> TRUE, jobs |-> Only({"poll", "bootstrap"}), pageSize |-> 3, merge |-> 2,
   mails |-> Nobody, events |-> {"receive", "change", "delete"},
   maxLog |-> 3, failures |-> Failures] @@ NoSend

\* Headers only: a poller and a sync walk pages of one message.
Walk ==
  [bodies |-> FALSE, jobs |-> Both({"poll"}, {"sync"}), pageSize |-> 1, merge |-> 2,
   mails |-> First(New), events |-> {"receive", "refresh"},
   maxLog |-> 2, failures |-> {}] @@ NoSend

\* The session expires between any two requests.
Session ==
  [bodies |-> TRUE, jobs |-> Only({"poll", "bootstrap", "sync", "check"}), pageSize |-> 2, merge |-> 1,
   mails |-> First(New), events |-> {"receive", "expire"},
   maxLog |-> 2, failures |-> {}] @@ NoSend

\* Two pollers apply the same events.
TwoPollers ==
  [bodies |-> TRUE, jobs |-> Both({"poll"}, {"poll"}), pageSize |-> 2, merge |-> 1,
   mails |-> Nobody, events |-> {"receive", "change"},
   maxLog |-> 2, failures |-> {}] @@ NoSend


\* Mail comes and changes, lists are to be read again, and the session expires.
Expiring ==
  [bodies |-> FALSE, jobs |-> Only({"poll", "bootstrap"}), pageSize |-> 1, merge |-> 1,
   mails |-> Nobody, events |-> {"receive", "change", "refresh", "expire"},
   maxLog |-> 2, failures |-> {}] @@ NoSend

\* Mail comes, changes and goes while a poll is under way.
Deleting ==
  [bodies |-> TRUE, jobs |-> Only({"poll", "bootstrap"}), pageSize |-> 3, merge |-> 3,
   mails |-> First(New), events |-> {"receive", "change", "delete"},
   maxLog |-> 3, failures |-> {}] @@ NoSend

\* One poller, mail that comes and changes, and nothing that goes wrong.
Undisturbed ==
  [bodies |-> TRUE, jobs |-> Only({"poll"}), pageSize |-> 3, merge |-> 1,
   mails |-> Nobody, events |-> {"receive", "change"}, maxLog |-> 2, failures |-> {}] @@ NoSend

\* Mail to any two addresses is sent, with anything that may go wrong.
Sender ==
  [bodies |-> FALSE, jobs |-> Only({"send", "check"}), pageSize |-> 1, merge |-> 1,
   mails |-> Nobody, events |-> {"expire"}, maxLog |-> 0, failures |-> Failures,
   mail |-> [to : {<<x>>, <<x, y>>, <<z, x>>, <<y, z>>, <<z, z>>}, html : BOOLEAN],
   keys |-> KeyOf, maxSends |-> 2]

\* Two senders and a session that expires under both.
TwoSenders ==
  [Sender EXCEPT !.jobs = Both({"send"}, {"send"}), !.failures = {"lost_reply"},
                 !.mail = [to : {<<x, z>>}, html : {FALSE}]]

UpdateSettings == {Undisturbed}

ProtonSettings == {Poller, Walk, Session, TwoPollers, Expiring, Deleting, Sender, TwoSenders}
=============================================================================
