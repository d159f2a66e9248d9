SPECIFICATION Spec
CONSTANTS
  Dicts <- MCDicts
  Arguments <- MCArguments
INVARIANTS FindsKeys BlocksReturn
CHECK_DEADLOCK FALSE
