CONSTANTS
  poller = poller
  b1 = b1
  b2 = b2
  s1 = s1
  Observers <- MCObservers
  Breaches <- MCBreaches
  Sids <- MCSids
  MaxFailures = 0
  MaxDrops = 0
  PingMaxOut = 1
  MaxPings = 4
  MaxServerPings = 1
  Resubscribe = TRUE
  LockRace = FALSE
SPECIFICATION ClientSpec
INVARIANTS
  PingCounterBound
PROPERTIES
  ClientRecovers
  OldLoopsEnd
CHECK_DEADLOCK FALSE
