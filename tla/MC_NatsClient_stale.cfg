CONSTANTS
  poller = poller
  b1 = b1
  b2 = b2
  s1 = s1
  Observers <- MCObservers
  Breaches <- MCBreaches
  Sids = {}
  MaxFailures = 1
  MaxDrops = 1
  PingMaxOut = 0
  MaxPings = 3
  MaxServerPings = 0
  Resubscribe = TRUE
  LockRace = FALSE
SPECIFICATION ClientSpec
PROPERTIES
  LiveLinkKept
CHECK_DEADLOCK FALSE
