\* The program's own instance: one capture thread, one consumer.
CONSTANTS
  Producers = {p1}
  Consumers = {c1}
  Closers = {s1}
  MaxCapacity = 2
  MaxPackets = 3
  Nil = Nil
SPECIFICATION Spec
PROPERTY ShutdownUnblocks
