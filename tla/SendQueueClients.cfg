CONSTANTS
  LowerCase <- MCLowerCase
  Runners = {"runner"}
  Clients = {"client"}
  MaxItems = 2
  k1 = k1
  k2 = k2
  NoKey = NoKey
  Keys = {k1}
  Paths = {"a"}
  LocalDrafts = {"a"}
  Commands <- SendAndMove
  TrashFolder = "Trash"
  InitialFiles <- SameMessage
  Events = {"crash", "power_loss", "write_error", "lost_reply", "reconcile_error", "drop", "edit"}
SPECIFICATION FairSpec
INVARIANTS
  TypeOK
  QueueInv
  ResendOnlyAfterRelease
  AtMostOnce
PROPERTIES RefinesAtMostOnce QueueDrains
