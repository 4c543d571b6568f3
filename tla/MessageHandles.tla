---------------------------- MODULE MessageHandles ----------------------------
(***************************************************************************)
(* The tokens users and scripts name messages by (src/src/storage/         *)
(* handles.rs): a full id, the short handle of an id, a prefix of an id or *)
(* of a content id.  A listing shows short handles; a later command        *)
(* resolves one, while messages come and go.                               *)
(***************************************************************************)
EXTENDS EmailIndex

CONSTANTS
  ShortHandle,   \* the handle of each id: the first characters of its hash
  IdPrefixed,    \* the ids that begin with a token
  Prefixed,      \* the contents whose content id begins with a token
  NoToken,
  Refused,       \* ambiguous, or nothing found
  Readers

FullId(id) == <<"id", id>>

Tokens == {FullId(id) : id \in Ids} \union {ShortHandle[id] : id \in Ids}
            \union DOMAIN IdPrefixed \union DOMAIN Prefixed

\* A handle is too short to be an id, or is the id itself (short_handle_map).
ASSUME HandleAssumption ==
  /\ \A id, other \in Ids : id # other => ShortHandle[id] # FullId(other)
  /\ IdPrefixed \in [DOMAIN IdPrefixed -> SUBSET Ids]
  /\ Prefixed \in [DOMAIN Prefixed -> SUBSET Contents]

ReaderPcs == {"idle", "shown", "resolved", "done"}

VARIABLE readers

NotReading == [pc |-> "idle", id |-> NoRow, token |-> NoToken, result |-> Refused]

HandlesInit == readers = [r \in Readers |-> NotReading]

-----------------------------------------------------------------------------
ActiveIds == {id \in Ids : Live(id)}

\* display_handle, decorate_handles: an id that is not active is its own handle.
DisplayHandle(id) == IF Live(id) THEN ShortHandle[id] ELSE FullId(id)

ContentMatches(token) ==
  {id \in ActiveIds : token \in DOMAIN Prefixed /\ catalog[id].content \in Prefixed[token]}

\* What the first kind of token that matches anything matches.
Matches(token) ==
  LET exact == {id \in ActiveIds : FullId(id) = token}
      short == {id \in ActiveIds : ShortHandle[id] = token}
      prefixed == {id \in ActiveIds : token \in DOMAIN IdPrefixed /\ id \in IdPrefixed[token]}
  IN  CASE exact # {} -> exact
        [] exact = {} /\ short # {} -> short
        [] exact = {} /\ short = {} /\ prefixed # {} -> prefixed
        [] OTHER -> ContentMatches(token)

\* Mutant: the first match is taken.
ResolveToFirst(token) ==
  IF Matches(token) = {} THEN Refused ELSE CHOOSE id \in Matches(token) : TRUE

ResolveMessageToken(token) ==
  IF Cardinality(Matches(token)) = 1 THEN CHOOSE id \in Matches(token) : TRUE
  ELSE Refused

-----------------------------------------------------------------------------
(* A command shows a message; another one is given the handle that was      *)
(* shown.  json_message resolves it, and resolves it again to locate it.    *)

ShowMessage(r) ==
  /\ readers[r].pc = "idle"
  /\ \E id \in ActiveIds :
       readers' = [readers EXCEPT ![r] = [NotReading EXCEPT !.pc = "shown", !.id = id,
                                                            !.token = DisplayHandle(id)]]
  /\ UNCHANGED indexVars

ResolveAs(r, pc) ==
  LET found == ResolveMessageToken(readers[r].token) IN
  /\ readers' = [readers EXCEPT ![r].pc = IF found = Refused THEN "done" ELSE pc,
                                ![r].result = found]
  /\ UNCHANGED indexVars

ResolveId(r) == readers[r].pc = "shown" /\ ResolveAs(r, "resolved")

LocateMessage(r) == readers[r].pc = "resolved" /\ ResolveAs(r, "done")

HandlesNext == \E r \in Readers \intersect setting.working :
                 ShowMessage(r) \/ ResolveId(r) \/ LocateMessage(r)

-----------------------------------------------------------------------------
HandlesTypeOK ==
  readers \in [Readers -> [pc : ReaderPcs, id : Ids \union {NoRow},
                           token : Tokens \union {NoToken},
                           result : Ids \union {Refused}]]

(* A handle that was shown means the message it was shown for, or nothing,  *)
(* for as long as that message is there: messages that come and go between  *)
(* the two commands, and between the two lookups of one command, do not     *)
(* make it mean another (short_handle_map, resolve_message_token).          *)
HandleMeansWhatWasShown ==
  [][\A r \in Readers :
       readers'[r].result # readers[r].result /\ Live(readers[r].id) =>
         readers'[r].result \in {readers[r].id, Refused}]_readers
=============================================================================
