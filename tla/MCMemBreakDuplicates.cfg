CONSTANTS
  Addr <- MCAddr
  Mapped <- MCMapped
  Insn <- MCInsn
  Byte = {0, 1}
  ClientByte = {0}
  Zero = 0
  BpLen = 2
  WordLen = 2
  breakpoint_data <- MCTrapOnes
  MaxLen = 3
  MaxBreakpoints = 2
SPECIFICATION AnyClientSpec
INVARIANT TrapsRemoved
