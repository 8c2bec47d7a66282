SPECIFICATION FairSpec
CONSTANTS
  m1 = m1
  m2 = m2
  m3 = m3
  m4 = m4
  m5 = m5
  Message = {m1, m2, m3, m4, m5}
  SourcePort <- MCSource
  TargetPort <- MCTarget
  NPorts = 4
  ideal_icnt = FALSE
  MaxTransit = 2
  ChannelSize = 1
  Elapsed = {1, 2}
PROPERTIES ImplementsOrderedNetwork EveryMessageArrives
