CONSTANTS
  Producers = {p1}
  Consumers = {c1, c2}
  Closers = {s1}
  MaxCapacity = 2
  MaxPackets = 4
  Nil = Nil
SPECIFICATION Spec
INVARIANTS FifoExactlyOnce Bounded NoLostPush
PROPERTIES ShutdownUnblocksUnlessRaced ImplementsLossyFifo
