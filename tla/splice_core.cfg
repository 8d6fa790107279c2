SPECIFICATION LiveSpec
CONSTANTS
  Modes = {"http", "tcp"}
  MaxSent = 2
INVARIANTS TypeOK AnswerComplete RequestComplete
PROPERTIES
  SessionEndsSplice TCPSpliceEnds AgentEndReachesVisitor RelayEndReachesAgent
  ImplementsPipe
CHECK_DEADLOCK FALSE
