SPECIFICATION FairSpec
CONSTANTS
  Width = 8
  Height = 6
  PanelHeight = 1
  PanelReach = 2
  Window = 4
  MaxSteps = 2
  ModelAnswers <- Answers1
INVARIANTS TypeOK MeaningKept OnlyOutsideRefused DoneInOrder PictureFresh ButtonReleased RequestsContinue
PROPERTY Settles
CHECK_DEADLOCK FALSE
