CONSTANTS
  Gprs = {"r1", "pc"}
  Fprs = {"f0"}
  Expedite = {"pc"}
  Order <- MCOrder
  Val = {0, 1}
  Zero = 0
SPECIFICATION Spec
INVARIANTS TypeOK Coherent RepliesTruthful
PROPERTIES OneSnapshot ResumesWithView
CHECK_DEADLOCK FALSE
