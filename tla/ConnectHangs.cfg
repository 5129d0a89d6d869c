CONSTANTS
  Hosts = {"h1", "h2"}
  Given <- ThreeHttp
  Urls <- HttpUrls
  Tasks = {t1, t2}
  Features = "tls"
  Secure = FALSE
  Capacity = 2
  RelayCapacity = 1
  NoUrl = NoUrl
SPECIFICATION FairSpec
PROPERTIES ConnectReturns
CHECK_DEADLOCK FALSE
