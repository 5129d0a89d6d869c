CONSTANTS
  Hosts = {"h1", "h2"}
  Given <- ThreeHttp
  Urls <- HttpUrls
  Tasks = {t1, t2}
  Features = "openssl"
  Secure = FALSE
  Capacity = 1
  RelayCapacity = 1
  NoUrl = NoUrl
SPECIFICATION FairSpec
INVARIANTS TypeOK MembersAreWanted
PROPERTIES RequestsAreServed ChangesAreAccepted ConnectReturns
CHECK_DEADLOCK FALSE
