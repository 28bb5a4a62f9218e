CONSTANTS
  poller = poller
  b1 = b1
  b2 = b2
  s1 = s1
  Observers <- MCObservers
  Breaches <- MCBreaches
  Sids <- MCSids
  MaxFailures = 1
  MaxDrops = 1
  PingMaxOut = 1
  MaxPings = 0
  MaxServerPings = 1
  Resubscribe = FALSE
  LockRace = FALSE
SPECIFICATION ClientSpec
PROPERTIES
  StreamsEndOnReconnect
CHECK_DEADLOCK FALSE
