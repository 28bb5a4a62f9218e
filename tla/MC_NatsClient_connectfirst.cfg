CONSTANTS
  poller = poller
  b1 = b1
  b2 = b2
  s1 = s1
  Observers <- MCObservers
  Breaches <- MCBreaches
  Sids <- MCSids
  MaxFailures = 0
  MaxDrops = 1
  PingMaxOut = 1
  MaxPings = 0
  MaxServerPings = 0
  Resubscribe = TRUE
  LockRace = FALSE
SPECIFICATION ClientSpec
INVARIANTS
  ConnectFirst
CHECK_DEADLOCK FALSE
