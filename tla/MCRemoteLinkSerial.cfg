SPECIFICATION Spec
CONSTANTS
  Kinds <- SerialKinds
  Greeting = FALSE
  EndsAlone = TRUE
  MayHangUp = FALSE
  MaxCommands = 3
  MaxInterrupts = 0
  MaxNoise = 3

PROPERTIES NeverStuck RepliesDelivered
CHECK_DEADLOCK FALSE
