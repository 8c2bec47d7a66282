SPECIFICATION MemoryFairSpec
CONSTANTS
  r1 = r1
  r2 = r2
  r3 = r3
  r4 = r4
  Request = {r1, r2, r3, r4}
  Addr <- MCAddr
  EntryPort <- MCEntryPort
  MemId <- MCMemId
  Answer <- MCAnswer
  PeOf <- MCPeOf
  NPe = 2
  NPorts = 2
  ideal_icnt = FALSE
  MaxTransit = 1
  MaxOngoing = 3
  ChannelSize = 1
  hit_latency = 1
  miss_latency = 7
  Sets = 1
  Associativity = 1
  BlockSize = 1
  AlwaysHit = FALSE
  Elapsed = {2}
INVARIANTS HeldIsProgress
PROPERTIES ImplementsMemoryService EveryHeldAnswered
