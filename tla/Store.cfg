SPECIFICATION Spec
CONSTANTS
  short = short
  long = long
  longer = longer
  Values <- MCValues
  Pieces <- MCPieces
  LegacyValue = longer
  None = none
  Slots = {one}
  MaxTurns = 2
  Faulty = {"dpapi"}
  MaxFaults = 1
CHECK_DEADLOCK FALSE
INVARIANTS
  TypeOK
  ReadsAreWhole
  SetIsRead
  DeleteIsFinal
PROPERTIES
  LegacySurvives
