SPECIFICATION Spec
CONSTANTS
  Empty <- MCEmpty
  Undef = Undef
  Wild = Wild
  PadUnit = 3
  Dict <- MCDict
  Absent <- MCAbsent
  MinBits = 2
  ByteXor <- MCXor
  NPTries = 3
  Widths = {2, 3}
INVARIANTS Lookup NoListsOnlyIfPerfect CFindsKeys
PROPERTY Termination
CHECK_DEADLOCK FALSE
