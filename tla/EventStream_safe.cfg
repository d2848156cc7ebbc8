SPECIFICATION FairSpec
CONSTANTS
  None = None
  Conns = {k1, k2}
  BufferSize = 2
  QueueSize = 2
  MaxSequence = 3
  MaxBoots = 2
INVARIANTS
  LossInv
  SubscriberMissesNothing
  ReplayIsExact
  NothingTwice
PROPERTIES
  EventsArrive
  SubscriptionsEnd
CHECK_DEADLOCK FALSE
