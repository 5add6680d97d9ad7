SPECIFICATION Spec
CONSTANTS
  t1 = t1
  t2 = t2
  t3 = t3
  r1 = r1
  r2 = r2
  r3 = r3
  NoTask = NoTask
  NoRequest = NoRequest
  Tasks <- TwoTasks
  Requests <- ThreeRequests
  MaxOverflows = 0
  MaxRestarts = 0
INVARIANT InterruptedStatusStays
CHECK_DEADLOCK FALSE
