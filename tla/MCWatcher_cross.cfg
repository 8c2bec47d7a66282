SPECIFICATION Spec
CONSTANTS
  p1 = p1
  p2 = p2
  t1 = t1
  t2 = t2
  c1 = c1
  c2 = c2
  c3 = c3
  c4 = c4
  o1 = o1
  None = None
  Pe = {p1, p2}
  WatcherTask = {t1, t2}
  ClauseTask = {c1, c2, c3, c4}
  Singles <- MCSingles
  HasClauseData = {c1, c3, c4}
  ClausePe <- CrossClausePe
  HomePe <- MCHomePe
  QueueLimit = 2
  ChannelSize = 1
  Elapsed = {0, 1, 2}
  OtherReq = {o1}
  OtherPe <- MCOtherPe
INVARIANTS RepliesComeHome

