SPECIFICATION Spec
CONSTANTS
  Producers = {p1, p2}
  Consumers = {c1, c2}
  Poppers = {t1}
  NULL = NULL
  Pushes = 2
  Pops = 2
  KeepGoing = {TRUE}
INVARIANTS
  QueueTypeOK
  NoLostSignal
  SomeoneAwake
PROPERTIES
  IsFifo
  EachIsHandedOut
