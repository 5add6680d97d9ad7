SPECIFICATION FairSpec
CONSTANTS
  t1 = t1
  t2 = t2
  t3 = t3
  r1 = r1
  r2 = r2
  r3 = r3
  NoTask = NoTask
  NoRequest = NoRequest
  Tasks <- ThreeTasks
  Requests <- ThreeRequests
  MaxOverflows = 1
  MaxRestarts = 1
INVARIANTS TypeOK Interruptible NoStaleInterrupt CancelsOnlyAsked StatusSettled
PROPERTIES InterruptStops Answered OneAtATime
CHECK_DEADLOCK FALSE
