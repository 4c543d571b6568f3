------------------------------ MODULE MCLocalMail ------------------------------
(* LocalMail on small instances, one for each hazard: three messages of one  *)
(* conversation, where a and b refer to each other, c answers b, and b2 is    *)
(* what Proton makes of b later.                                             *)
EXTENDS LocalMail

CONSTANTS a, b, b2, c, x, y, e, f, p, q, r

MCRfcOf == [content \in Contents |-> CASE content = a -> "ra" [] content = c -> NoRfc
                                       [] OTHER -> "rb"]
MCMentions == [content \in Contents |-> CASE content = a -> {} [] content = b -> {"ra"}
                                          [] content = b2 -> {} [] content = c -> {"rb"}]

\* The ids 1 and 3 have the same short handle, and the id of b begins with it too.
MCShortHandle == [id \in Ids |-> IF id = 2 THEN <<"hash", 2>> ELSE <<"hash", 1>>]
MCIdPrefixed == [token \in {<<"msg", 1>>} |-> Ids]
MCPrefixed == [token \in {<<"hash", 1>>} |-> {b}]

Row(content, folder) == [content |-> content, folder |-> folder, deleted |-> FALSE]

Table(first, second, third) == <<first, second, third>>

Store(id, content, folder) ==
  [op |-> "ingest", id |-> id, content |-> content, folder |-> folder]
Remove(id) == [op |-> "remove", id |-> id]
Delete(id) == [op |-> "mark_deleted", id |-> id]
File(id, folder) == [op |-> "move", id |-> id, folder |-> folder]
Lose(content) == [op |-> "lose", content |-> content]

Setting(start, ver, changes, most, working) ==
  [start |-> start, version |-> ver, changes |-> changes, most |-> most,
   working |-> working, fails |-> FALSE, embeddings |-> {}, dry |-> {FALSE},
   kills |-> 0, unlock |-> "never"]

\* Two rebuilds race with each other and with what happens to the messages.
RacingRebuilds ==
  [Setting(Table(Row(a, "inbox"), Row(b, "inbox"), NoRow), "4",
           {Store(3, c, "inbox"), Store(2, b2, "inbox"), Remove(1), Store(1, a, "inbox"),
            Delete(2), Lose(a)}, 3, {x, y})
   EXCEPT !.fails = TRUE]

\* Two programs find the index of an older one, or none.
Upgrade(ver) ==
  Setting(Table(Row(a, "inbox"), Row(b, "inbox"), Row(c, "inbox")), ver,
          {Remove(1), Delete(2)}, 1, {x, y})

Embedding(rebuild, limit, handles) ==
  [rebuild |-> rebuild, limit |-> limit, handles |-> handles]

\* A rebuild of the vectors beside the run that follows a sync.
RacingEmbeddings ==
  [Setting(Table(Row(a, "inbox"), Row(b, "inbox"), NoRow), "4",
           {Store(2, b2, "inbox"), Store(3, c, "inbox"), Remove(1)}, 1, {x, e, f})
   EXCEPT !.embeddings = {Embedding(TRUE, NoLimit, AllIds), Embedding(FALSE, NoLimit, AllIds)}]

\* Runs are cut short by limits, unreadable messages and errors.
CutShort ==
  [Setting(Table(Row(a, "inbox"), Row(b, "inbox"), Row(c, "inbox")), "4",
           {Lose(a), Lose(b)}, 2, {x, e})
   EXCEPT !.embeddings = {Embedding(TRUE, 2, AllIds), Embedding(TRUE, NoLimit, AllIds),
                          Embedding(FALSE, NoLimit, {2, 3})},
          !.fails = TRUE]

\* Two polls; messages come in, move and go.
Polling(dry) ==
  [Setting(Table(Row(a, "inbox"), Row(b, "inbox"), NoRow), "4",
           {Store(3, c, "inbox"), File(2, "archive"), Remove(1)}, 2, {p, q})
   EXCEPT !.dry = dry]

\* A poll is killed, the lock file it left is removed, a message cannot be read.
KilledPoll ==
  [Setting(Table(Row(a, "inbox"), Row(b, "inbox"), Row(c, "inbox")), "4",
           {Lose(b)}, 1, {p, q})
   EXCEPT !.kills = 1, !.unlock = "dead"]

\* The lock file is removed under a poll that runs.
Unlocked ==
  [Setting(Table(Row(a, "inbox"), Row(b, "inbox"), Row(c, "inbox")), "4", {}, 0, {p, q})
   EXCEPT !.unlock = "any"]

\* Messages with the same handle come and go while one is looked up.
Lookups ==
  Setting(Table(Row(a, "inbox"), Row(b, "inbox"), NoRow), "4",
          {Store(3, c, "inbox"), Store(3, b, "inbox"), Remove(1), Delete(2), Delete(3)},
          3, {r})

LocalSettings ==
  {RacingRebuilds, Upgrade("none"), Upgrade("3"), RacingEmbeddings, CutShort,
   Polling({FALSE}), Polling({TRUE}), KilledPoll, Unlocked, Lookups}
==============================================================================
