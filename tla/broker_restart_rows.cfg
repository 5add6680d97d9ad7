SPECIFICATION Spec
CONSTANTS
  p1 = p1
  p2 = p2
  s1 = s1
  Publishers <- TwoPublishers
  Subscribers <- OneSubscriber
  MaxHistory = 2
  QueueSize = 1
  MaxEvents = 3
  MaxCancels = 0
  MaxClears = 0
  MaxRestarts = 1
PROPERTY RowsSurviveRestart
