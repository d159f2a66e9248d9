SPECIFICATION Spec
CONSTANTS
  d1 = d1
  d2 = d2
  Nothing = Nothing
  Partial = Partial
  Dicts <- MCDicts
  MaxTime = 2
  Uses <- MCUses
INVARIANTS
  TypeOK
  NoStrayWriter
  KillIsOwn
  GeneratesFreshTable
  TrustErrcode
  ReapedOrKilledIsQuiet
PROPERTY SaveReturns
CHECK_DEADLOCK FALSE
