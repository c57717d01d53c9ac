SPECIFICATION FairSpec
CONSTANTS
  User = {u, v, w}
  Server = {s1, s2}
  MayAsk = {u, w}
  MayQuit = {u}
  Unregistered = {w}
  MaxRequests = 2
  None = None
  NoName = NoName
  BlankName = BlankName
INVARIANTS
  NoSendOnClosedChannel
  ChatOnlyIfAccepted
  PartnersAgree
PROPERTIES
  AcceptedEnds
  StrandedOnlyByGoneTarget
CHECK_DEADLOCK FALSE
