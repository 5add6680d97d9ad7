SPECIFICATION Spec
CONSTANTS
  Responses <- FewResponses
  MaxSteps = 3
  Threshold = 2
INVARIANT RepeatedMeansSame
CHECK_DEADLOCK FALSE
