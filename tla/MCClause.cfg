SPECIFICATION FairSpec
CONSTANTS
  u1 = u1
  u2 = u2
  c1 = c1
  c2 = c2
  c3 = c3
  v1 = v1
  v2 = v2
  o1 = o1
  None = None
  p1 = p1
  Pe = {p1}
  PeOf <- OnePe
  Unit = {u1, u2}
  ClauseTask = {c1, c2, c3}
  Values <- ThreeValues
  ProcessTime <- ThreeTimes
  HomeUnit <- SplitUnits
  Pipelined = TRUE
  QueueLimit = 2
  ChannelSize = 1
  OtherReq = {o1}
  Elapsed = {0, 1, 2}
INVARIANTS CountersMatch AllValuesRead NothingLost QuietOnlyIfWaiting
PROPERTIES EveryClauseFinishes
