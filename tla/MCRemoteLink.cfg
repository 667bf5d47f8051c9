SPECIFICATION Spec
CONSTANTS
  Kinds <- TcpKinds
  Greeting = TRUE
  EndsAlone = TRUE
  MayHangUp = TRUE
  MaxCommands = 4
  MaxInterrupts = 3
  MaxNoise = 0
INVARIANTS TypeOK AnswersMatch
PROPERTIES AtMostOnce NeverStuck EndsOnHangUp
CHECK_DEADLOCK FALSE
