SPECIFICATION Spec
CONSTANTS
  Family = {"3xx", "4xx", "7xx"}
  FileName = {1, 2, 3, 4}
  Directory = {{1, 3}, {2, 4}}
  NoKey <- MCNoKey
  Key <- MCKey
  Value <- MCValue
  NoGroup = NoGroup
  GroupOf <- MCGroupOf
  TextsOf <- MCTextsOf
  MaxLines = 5
INVARIANTS LinesOfRealSections FieldsSinceLastReplace KindAgreesWithRoles OneSlotPerWordBit
CHECK_DEADLOCK FALSE
