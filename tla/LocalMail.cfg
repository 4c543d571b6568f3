CONSTANTS
  a = a
  b = b
  b2 = b2
  c = c
  x = x
  y = y
  e = e
  f = f
  p = p
  q = q
  r = r
  Ids = {1, 2, 3}
  Contents = {a, b, b2, c}
  Folders = {"inbox", "archive"}
  Rfcs = {"ra", "rb"}
  NoRfc = NoRfc
  RfcOf <- MCRfcOf
  Mentions <- MCMentions
  Rebuilders = {x, y, p, q}
  NoRow = NoRow
  Settings <- LocalSettings
  Embedders = {e, f}
  NoLimit = NoLimit
  AllIds = AllIds
  Pollers = {p, q}
  AgentFolder = "inbox"
  Trusted = {a, c}
  NoPoller = NoPoller
  ShortHandle <- MCShortHandle
  IdPrefixed <- MCIdPrefixed
  Prefixed <- MCPrefixed
  NoToken = NoToken
  Refused = Refused
  Readers = {r}
SPECIFICATION FairLocalSpec
INVARIANTS LocalTypeOK ThreadsPartition OnePollAtATime
PROPERTIES IndexSettles VectorsKept EmbeddingsSettle DeliversAtMostOnce InstructionsSettle HandleMeansWhatWasShown
CHECK_DEADLOCK FALSE
