SPECIFICATION FairSpec
CONSTANTS
  r1 = r1
  r2 = r2
  r3 = r3
  r4 = r4
  r5 = r5
  Request = {r1, r2, r3, r4, r5}
  Addr <- MCAddr
  MemId <- MCMemId
  Answer <- MCAnswer
  NPorts = 2
  Sets = 2
  Associativity = 2
  BlockSize = 2
  AlwaysHit = FALSE
  hit_latency = 1
  miss_latency = 3
  MaxOngoing = 3
  ChannelSize = 1
  Elapsed = {2}
INVARIANTS OneReadPerBlock AnsweredOnce QuietOnlyIfEmpty
PROPERTIES ImplementsFifo EveryRequestAnswered
