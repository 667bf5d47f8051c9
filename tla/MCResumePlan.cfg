SPECIFICATION Spec
CONSTANTS
  AllThreads <- MCThreads
  OtherIds = {0, 9}
  Signals = {0, 5}
  MaxActions = 2
INVARIANTS TypeOK ArrayClosed OrderAsAsked ErrorsResumeNothing
