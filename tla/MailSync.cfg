CONSTANTS
  m1 = m1
  m2 = m2
  n1 = n1
  n2 = n2
  p = p
  q = q
  Mails = {m1, m2, n1, n2}
  Mailboxes = {"INBOX", "Archive"}
  VirtualMailboxes = {}
  Roles = {"inbox", "archive"}
  Folder <- MCFolder
  Rfc <- MCRfc
  Size <- MCSize
  HeaderSize <- MCHeaderSize
  NoMessage = NoMessage
  NoBinding = NoBinding
  NoId = NoId
  NoRow = NoRow
  NoLimit = NoLimit
  Mutators = {p, q}
  Syncers = {s, w}
  Watchers = {w}
  Settings <- SyncSettings
  MaxRuns = 2
  MaxUid = 3
  MaxValidity = 2
SPECIFICATION FairWatchSpec
INVARIANTS WatchTypeOK PlaceIsTrueOrUnsettled
PROPERTIES NothingSkipped ActsOnDenotedMessage AnnouncedOnce FlagsConverge ArchiveConverges ArrivalsAnnounced
CHECK_DEADLOCK FALSE
