CONSTANTS
  p = p
  q = q
  MaxMsgs = 3
  MailStates <- MCMailStates
  Unborn = Unborn
  Gone = Gone
  Processes = {p, q}
  None = None
  Torn = Torn
  Settings <- UpdateSettings
  MaxSessions = 3
  x = x
  y = y
  z = z
  Addresses = {x, y, z}
  NoMail = NoMail
SPECIFICATION SendSpec
INVARIANTS UpdatesReachRows
CHECK_DEADLOCK FALSE
