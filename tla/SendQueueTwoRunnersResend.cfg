CONSTANTS
  LowerCase <- MCLowerCase
  Runners = {"r1", "r2"}
  Clients = {"r1"}
  MaxItems = 1
  k1 = k1
  k2 = k2
  NoKey = NoKey
  Keys = {k1}
  Paths = {"a"}
  LocalDrafts = {}
  Commands <- SendsOnly
  TrashFolder = "Trash"
  InitialFiles <- SameMessage
  Events = {}
SPECIFICATION Spec
INVARIANT AtMostOnce
