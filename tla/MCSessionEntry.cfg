\* Does the first run end at the entry point?
SPECIFICATION Spec
CONSTANTS
  End = 2
  Entry = 1
  Sites = {1}
  MaxInterrupts = 2
PROPERTY
  EntryReached
CHECK_DEADLOCK FALSE
