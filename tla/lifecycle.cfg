SPECIFICATION FairSpec
CONSTANTS
  s1 = s1
  s2 = s2
  r1 = r1
  r2 = r2
  r3 = r3
  Sessions <- TwoSessions
  Requests <- TwoRequests
  Reaper = Reaper
  NoSession = NoSession
  MaxFaults = 1
  MaxRestarts = 1
INVARIANTS TypeOK KnownContainers MemoryAgrees
PROPERTIES ReconcileSpares Retired
