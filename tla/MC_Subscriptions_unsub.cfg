CONSTANTS
  s1 = s1
  q1 = q1
  Sids <- MCSids
  Reqs <- MCReqs
  UnsubMaxes = {0}
  MaxMsgs = 1
SPECIFICATION Spec
PROPERTIES
  StreamEndsWithServerSub
CHECK_DEADLOCK FALSE
