CONSTANTS
  p = p
  q = q
  MaxMsgs = 3
  MailStates <- MCMailStates
  Unborn = Unborn
  Gone = Gone
  Processes = {p, q}
  None = None
  Torn = Torn
  Settings <- ProtonSettings
  MaxSessions = 3
  x = x
  y = y
  z = z
  Addresses = {x, y, z}
  NoMail = NoMail
SPECIFICATION FairSendSpec
INVARIANTS TypeOK NothingMissed DeletedStays SessionHeld
PROPERTIES CaughtUp SendsAtMostOnce
CHECK_DEADLOCK FALSE
