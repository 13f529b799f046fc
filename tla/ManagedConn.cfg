CONSTANTS
  s1 = s1
  s2 = s2
  Senders = {s1, s2}
  Consumer = consumer
  Nobody = nobody
  MaxDrops = 2
SPECIFICATION FairSpec
INVARIANTS
  TypeOK
  OneConnection
  CloseLeavesNothing
PROPERTIES
  ConsumerStops
  EnqueueReturnsWithBroker
