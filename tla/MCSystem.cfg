SPECIFICATION FairSpec
CONSTANTS
  t1 = t1
  t2 = t2
  c1 = c1
  c2 = c2
  c3 = c3
  v1 = v1
  v2 = v2
  None = None
  NPe = 2
  NUnits = 2
  WatcherTask = {t1, t2}
  ClauseTask = {c1, c2, c3}
  Singles <- MCSingles
  HasClauseData = {c1, c3}
  ClausePe <- MCClausePe
  InnerClause <- MCInnerClause
  Values <- MCValues
  ClauseTime <- MCClauseTime
  Pipelined = TRUE
  QueueLimit = 1
  ChannelSize = 1
  Level <- MCLevel
  HomePe <- MCHomePe
  RoundChoices <- MCRoundChoices
  MaxTransit = 1
  MaxLost = 1
  ExtraRuns = 1
INVARIANTS OkMeansDone StallOnlyIfDropped NothingPanics
PROPERTIES ImplementsBarrier EverySessionEnds
