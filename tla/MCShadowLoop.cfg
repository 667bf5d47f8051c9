CONSTANTS
  Addr <- MCAddr
  Mapped <- MCAddr
  Insn = {}
  Byte <- MCByte
  Zero <- MCZero
  BpLen = 3
  WordLen = 3
  breakpoint_data <- MCTrap
  Lists <- MCLists
  Buffers <- MCBuffers
SPECIFICATION Spec
INVARIANTS TypeOK CopyInBounds LoopAgrees
CHECK_DEADLOCK FALSE
