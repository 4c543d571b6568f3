CONSTANTS
  LowerCase <- MCLowerCase
  Runners = {"r1", "r2"}
  Clients = {"r1"}
  MaxItems = 2
  k1 = k1
  k2 = k2
  NoKey = NoKey
  Keys = {k1}
  Paths = {"a"}
  LocalDrafts = {"a"}
  Commands <- SendAndMove
  TrashFolder = "Trash"
  InitialFiles <- SameMessage
  Events = {"power_loss", "policy", "hand_written", "exec_send"}
SPECIFICATION Spec
INVARIANTS
  EffectsArePermitted
  IntentIsDurable
