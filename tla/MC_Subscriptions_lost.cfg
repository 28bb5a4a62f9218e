CONSTANTS
  s1 = s1
  q1 = q1
  Sids <- MCSids
  Reqs <- MCReqs
  UnsubMaxes = {0}
  MaxMsgs = 1
SPECIFICATION Spec
INVARIANTS
  NoMessageLost
CHECK_DEADLOCK FALSE
