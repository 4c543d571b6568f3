CONSTANTS
  Words = {"inbox", "sent", "archive", "draft", "drafts", "trash", "deleted", "posted", "all mail", "list"}
  VirtualWords = {"all mail"}
  TrashWords = {"trash", "deleted"}
  Logical <- MCLogical
  NoWord = ""
  NoDefaults = NoDefaults
  PathNames <- MCPathNames
  NoLimit = NoLimit
  Settings <- CommandSettings
SPECIFICATION Spec
INVARIANTS TypeOK PlansAreSound SyncedIsThere
PROPERTIES ResetIsContained
CHECK_DEADLOCK FALSE
