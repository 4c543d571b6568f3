CONSTANTS
  m1 = m1
  m2 = m2
  p = p
  q = q
  Mails = {m1, m2}
  Mailboxes = {"INBOX", "Archive", "Trash", "All Mail"}
  VirtualMailboxes = {"All Mail"}
  Roles = {"inbox", "archive", "trash"}
  Folder <- MCFolder
  Rfc <- MCRfc
  Size <- MCSize
  HeaderSize <- MCHeaderSize
  NoMessage = NoMessage
  NoBinding = NoBinding
  NoId = NoId
  NoRow = NoRow
  Mutators = {p, q}
  Settings <- ExpungeOnly
  MaxRuns = 3
  MaxUid = 4
  MaxValidity = 2
SPECIFICATION Spec
PROPERTIES ExpungeRemoves
CHECK_DEADLOCK FALSE
