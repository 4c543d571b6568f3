------------------------------- MODULE LocalMail -------------------------------
(***************************************************************************)
(* The commands that work on an account's stored mail, side by side: index *)
(* rebuilds, embedding runs, agent polls and lookups by handle, while      *)
(* syncs and mutations change the messages they read.                      *)
(***************************************************************************)
EXTENDS Embeddings, AgentPoll, MessageHandles

localVars == <<indexVars, embedVars, agentVars, readers>>

LocalInit == IndexInit /\ EmbedInit /\ AgentInit /\ HandlesInit

LocalNext ==
  \/ /\ \/ MailChanges
        \/ \E x \in Rebuilders \ Pollers : x \in setting.working
                                           /\ (RebuildStep(x) \/ RebuildFails(x))
     /\ UNCHANGED <<embedVars, agentVars, readers>>
  \/ EmbedNext /\ UNCHANGED <<agentVars, readers>>
  \/ AgentNext /\ UNCHANGED <<embedVars, readers>>
  \/ HandlesNext /\ UNCHANGED <<embedVars, agentVars>>

LocalSpec == LocalInit /\ [][LocalNext]_localVars

(* Rebuilds, embedding runs and polls are repeated by a timer or the user,  *)
(* and what was started goes on.                                            *)
FairLocalSpec ==
  /\ LocalSpec
  /\ \A x \in Rebuilders \ Pollers :
       WF_localVars(x \in setting.working /\ RebuildStep(x)
                    /\ UNCHANGED <<embedVars, agentVars, readers>>)
  /\ \A e \in Embedders :
       WF_localVars(e \in setting.working /\ EmbedStep(e) /\ UNCHANGED <<agentVars, readers>>)
  /\ \A p \in Pollers :
       WF_localVars(p \in setting.working /\ PollStep(p) /\ UNCHANGED <<embedVars, readers>>)

-----------------------------------------------------------------------------
LocalTypeOK == IndexTypeOK /\ EmbedTypeOK /\ AgentTypeOK /\ HandlesTypeOK

Readable(id) == catalog[id].content \notin unreadable

(* With rebuilds repeated, the index ends up with exactly the messages that *)
(* are there, and a search for a text shows and counts exactly the messages *)
(* that have it: what a rebuild that listed earlier pruned, or dropped with *)
(* the schema of an older program, comes back, and a document that outlived *)
(* its message is counted no more (rebuild, prune_stale, ensure_schema,     *)
(* search_messages).  A message whose blob cannot be read keeps what was    *)
(* last read of it.                                                         *)
Holding(content) == {id \in Ids : Live(id) /\ catalog[id].content = content}

Unread == {id \in Ids : Live(id) /\ ~Readable(id)}

IndexInStep ==
  /\ \A id \in Ids : ~Live(id) => indexed[id] = NoRow
  /\ \A content \in Contents \ unreadable :
       Holding(content) = Shown(content) \ Unread
       /\ Holding(content) = Counted(content) \ Unread
  /\ \A content \in unreadable : Counted(content) \subseteq Unread

RebuildsRepeat ==
  /\ (Rebuilders \ Pollers) \intersect setting.working # {} \/ PollsRepeat
  /\ ~setting.fails

IndexSettles == <>[](RebuildsRepeat => IndexInStep)

(* With embedding runs repeated, each without a limit, every message of the *)
(* index that can be read can be found by meaning, though runs with         *)
(* --rebuild replace what others store meanwhile.                           *)
AllEmbedded ==
  \A c \in IndexedChunks(Ids) : c.content \notin unreadable => c \in Hydrated(vectors)

EmbeddingsRepeat ==
  /\ Embedders \intersect setting.working # {} /\ ~setting.fails
  /\ \A options \in setting.embeddings :
       options.limit = NoLimit /\ options.handles = AllIds

EmbeddingsSettle == <>[](EmbeddingsRepeat => AllEmbedded)

=============================================================================
