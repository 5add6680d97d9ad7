SPECIFICATION FairSpec
CONSTANTS
  Responses <- FewResponses
  MaxSteps = 3
  Threshold = 2
INVARIANTS TypeOK AdapterClosed InterruptIsPrompt StuckIsCut LauncherOnce
PROPERTIES Terminates ReportsOnce StepByStep
CHECK_DEADLOCK FALSE
