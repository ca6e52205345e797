SPECIFICATION FairSpec
CONSTANTS
  c1 = c1
  c2 = c2
  s1 = s1
  s2 = s2
  Client = {c1, c2}
  Scan = {s1, s2}
  Events <- MCEvents
  Buffer = 1
INVARIANTS
  NoSendOnClosed
  OrderKept
  MissesOnlyOverrun
PROPERTIES
  PublishEnds
  LeaverForgotten
CHECK_DEADLOCK FALSE
