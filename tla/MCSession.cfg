\* A whole session, the debugger working as GDB does.
SPECIFICATION Spec
CONSTANTS
  End = 2
  Entry = 1
  Sites = {1}
  MaxInterrupts = 2
INVARIANTS
  TypeOK
  DetachedClean
  TrapsExplained
  StatusTruthful
  InterruptsOnce
  NoStaleUse
PROPERTIES
  EndTold
  DetachEnds
CHECK_DEADLOCK FALSE
