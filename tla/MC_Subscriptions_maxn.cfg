CONSTANTS
  s1 = s1
  q1 = q1
  Sids <- MCSids
  Reqs <- MCReqs
  UnsubMaxes = {2}
  MaxMsgs = 2
SPECIFICATION Spec
INVARIANTS
  MaxYieldsN
CHECK_DEADLOCK FALSE
