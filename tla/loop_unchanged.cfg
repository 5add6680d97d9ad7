SPECIFICATION Spec
CONSTANTS
  Responses <- FewResponses
  MaxSteps = 3
  Threshold = 2
INVARIANT UnchangedMeansExecuted
CHECK_DEADLOCK FALSE
