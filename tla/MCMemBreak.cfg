CONSTANTS
  Addr <- MCAddr
  Mapped <- MCMapped
  Insn <- MCInsn
  Byte = {0, 1}
  ClientByte = {0, 1}
  Zero = 0
  BpLen = 2
  WordLen = 2
  breakpoint_data <- MCTrap
  MaxLen = 3
  MaxBreakpoints = 3
SPECIFICATION Spec
INVARIANTS TypeOK TrapsArmed
PROPERTY ImplementsShadow
