CONSTANTS
  NULL = NULL
  Senders = {d1, t1}
  DataThread = d1
  Sockets = {s1, s2}
  Writers = {w1}
  Batchers = {b1, b2}
  Streams = {f1, f2, f3}
  MaxDate = 2
  MaxLogs = 3
  Clients = {c1, c2}
  LowerName <- MCLowerName
  InOrder <- MCInOrder
  Catalog <- MCCatalog
  Table = "t"
  FirstRows <- MCFirstRows
  Calls <- MCCalls
  MaxCalls = 2
  GbkTexts <- MCGbkTexts
  UnicodeGBKMap <- MCUnicodeGBKMap
  UnicodeGBKIndex <- MCUnicodeGBKIndex
  GBKUnicodeMap <- MCGBKUnicodeMap
  Literals <- MCLiterals
  Delimiters = {"a"}
  MaxUses = 3
  INCREASE_SIZE = 2
  XmlTokens <- MCXmlTokens
  MaxTokens = 6
SPECIFICATION Spec
INVARIANTS
  SchemesWhole
  RightFileUnlessOverlapped
  GbkReadsBack
  StringsKeepTheirTexts
  NodesFormTrees
PROPERTIES
  OnlyOutdatedSendsHarm
  Reconnects
  DatabaseServes
\* Calls are bounded, and a crash is the end.
CHECK_DEADLOCK FALSE
