SPECIFICATION FairSpec
CONSTANTS
  b1 = b1
  p1 = p1
  p2 = p2
  c1 = c1
  c2 = c2
  Buffers = {b1}
  Producers = {p1, p2}
  Consumers = {c1, c2}
  BufferOf <- OneBuffer
  BufferSize = 2
  ProductionLimit = 4
  Products = {1, 2}
INVARIANTS
  TypeOK
  BufferExclusive
  TokenAccounting
  UniqueIds
  ConsumersInStep
PROPERTY
  Termination
  KeepsPromise
