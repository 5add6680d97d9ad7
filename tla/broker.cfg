SPECIFICATION FairSpec
CONSTANTS
  p1 = p1
  p2 = p2
  s1 = s1
  Publishers <- TwoPublishers
  Subscribers <- OneSubscriber
  MaxHistory = 2
  QueueSize = 1
  MaxEvents = 3
  MaxCancels = 1
  MaxClears = 1
  MaxRestarts = 1
INVARIANTS TypeOK HistoryOrdered NoDuplicateDelivery NoSilentGap DeliveryOrder
PROPERTIES PersistedEventsKept Delivered
