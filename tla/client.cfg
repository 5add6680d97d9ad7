SPECIFICATION Spec
CONSTANTS
  s1 = s1
  s2 = s2
  NoSession = NoSession
  Sessions = {s1, s2}
  Kept = 2
  Shown = 2
  MaxLog <- OneLonger
INVARIANTS TypeOK ListOrdered ShowsSession KnowsTask
CHECK_DEADLOCK FALSE
