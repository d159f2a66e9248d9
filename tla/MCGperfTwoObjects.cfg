SPECIFICATION Spec
CONSTANTS
  d1 = d1
  d2 = d2
  Nothing = Nothing
  Partial = Partial
  Dicts <- MCDicts
  MaxTime = 2
  Uses <- MCAnyUse
INVARIANT GeneratesTable
CHECK_DEADLOCK FALSE
