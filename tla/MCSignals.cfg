SPECIFICATION Spec
CONSTANTS
  Host <- Darwin
  RealtimeLo = 0
  RealtimeHi = 0
  MaxNumber = 160
  Exits = {0, 29, 42, 255}
INVARIANTS TypeOK SignalIntact PassedBack NeverAnother NamesMatch
CHECK_DEADLOCK FALSE
