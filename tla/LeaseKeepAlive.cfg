CONSTANTS
  Capacity = 1
  Window = 1
  NoRequest = NoRequest
  KeepAlive = KeepAlive
  NoCall = NoCall
  TTL = 2
  Unread = 1
  MaxCalls = 3
SPECIFICATION FairSpec
INVARIANTS TypeOK TrustIsSafe KeeperWasRenewed
PROPERTIES KeepAlivesAreAnswered
CHECK_DEADLOCK FALSE
