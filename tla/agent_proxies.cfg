SPECIFICATION FairSpec
CONSTANTS
  Xray = {x1, x2}
  Naive = {n1}
  Handler = {h1, h2}
  Configured = {x1}
  MaxEvents = 2
  MaxFlips = 2
CHECK_DEADLOCK FALSE
PROPERTY QuotaStopsProxies
PROPERTY ProxiesComeBack
