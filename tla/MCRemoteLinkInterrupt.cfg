SPECIFICATION Spec
CONSTANTS
  Kinds = {"resume"}
  Greeting = TRUE
  EndsAlone = FALSE
  MayHangUp = FALSE
  MaxCommands = 1
  MaxInterrupts = 1
  MaxNoise = 0
PROPERTIES InterruptStops
CHECK_DEADLOCK FALSE
