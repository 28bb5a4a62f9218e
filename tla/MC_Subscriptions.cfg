CONSTANTS
  s1 = s1
  q1 = q1
  Sids <- MCSids
  Reqs <- MCReqs
  UnsubMaxes = {0, 2}
  MaxMsgs = 3
SPECIFICATION Spec
INVARIANTS
  MaxedAfterServerQuota
  RequestReplyConserved
PROPERTIES
  RequestAnswered
  NoFeedAfterMax
CHECK_DEADLOCK FALSE
