SPECIFICATION FairSpec
CONSTANTS
  p1 = p1
  p2 = p2
  t1 = t1
  t2 = t2
  t3 = t3
  t4 = t4
  t5 = t5
  None = None
  Pe = {p1, p2}
  WatcherTask = {t1, t2, t3, t4, t5}
  Level <- MCLevel
  HomePe <- MCHomePe
  Work <- MCWork
  LevelSync = TRUE
  ChannelSize = 1
  Rounds <- MCRounds
INVARIANTS CountersMeasureOpenWork OneLevelOpen SentInOrder
PROPERTIES ImplementsBarrier EveryRoundCompletes
