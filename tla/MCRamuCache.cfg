SPECIFICATION FairSpec
CONSTANTS
  r1 = r1
  r2 = r2
  r3 = r3
  r4 = r4
  r5 = r5
  Request = {r1, r2, r3, r4, r5}
  Addr <- MCAddr
  MemId <- MCMemId
  DramChannel <- MCDramChannel
  DramRoom = 1
  None = None
  NPorts = 2
  Sets = 1
  Associativity = 1
  BlockSize = 2
  AlwaysHit = FALSE
  hit_latency = 2
  ChannelSize = 1
  Elapsed = {2}
INVARIANTS DramMatches NothingDoubled ReportsHold
PROPERTIES LostOnlyInSlot EveryRequestAnswered
