SPECIFICATION Spec
CONSTANTS
  s1 = s1
  s2 = s2
  NoSession = NoSession
  Sessions = {s1, s2}
  Kept = 2
  Shown = 2
  MaxLog <- OneLonger
INVARIANT RefusalIsTrue
CHECK_DEADLOCK FALSE
