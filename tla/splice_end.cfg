SPECIFICATION LiveSpec
CONSTANTS
  Modes = {"http"}
  MaxSent = 1
PROPERTY EndOfAnswerArrives
CHECK_DEADLOCK FALSE
