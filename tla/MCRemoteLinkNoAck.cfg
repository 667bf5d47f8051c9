SPECIFICATION Spec
CONSTANTS
  Kinds = {"noack", "query"}
  Greeting = TRUE
  EndsAlone = TRUE
  MayHangUp = FALSE
  MaxCommands = 2
  MaxInterrupts = 0
  MaxNoise = 0
PROPERTIES NoAckReplyAcked
CHECK_DEADLOCK FALSE
