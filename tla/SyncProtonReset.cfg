CONSTANTS
  Words = {"inbox", "sent", "archive", "draft", "drafts", "trash", "deleted", "posted", "all mail", "list"}
  VirtualWords = {"all mail"}
  TrashWords = {"trash", "deleted"}
  Logical <- MCLogical
  NoWord = ""
  NoDefaults = NoDefaults
  PathNames <- MCPathNames
  NoLimit = NoLimit
  Settings <- ProtonReset
SPECIFICATION Spec
INVARIANT ResetIsResynced
CHECK_DEADLOCK FALSE
