CONSTANTS
  LowerCase <- MCLowerCase
  Runners = {"cli"}
  Clients = {"cli"}
  MaxItems = 2
  k1 = k1
  k2 = k2
  NoKey = NoKey
  Keys = {k1}
  Paths = {"a"}
  LocalDrafts = {"a"}
  Commands <- SendsOnly
  TrashFolder = "Trash"
  InitialFiles <- SameMessage
  Events = {"reconcile_error"}
SPECIFICATION Spec
INVARIANT AcceptedIsNotResent
