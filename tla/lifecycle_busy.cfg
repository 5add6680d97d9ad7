SPECIFICATION Spec
CONSTANTS
  s1 = s1
  s2 = s2
  r1 = r1
  r2 = r2
  r3 = r3
  Sessions <- OneSession
  Requests <- TwoRequests
  Reaper = Reaper
  NoSession = NoSession
  MaxFaults = 0
  MaxRestarts = 0
PROPERTY OnlyIdleReaped
