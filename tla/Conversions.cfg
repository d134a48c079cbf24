SPECIFICATION Spec
CONSTANTS
  DecimalPlaces = 2
  MaxValue = 1011
  MaxLen = 6
  MaxLevels = 2
  TextCharacters = {" ", "tab", ";", "x", "high"}
  Bytes = {0, 45, 160, 255}
INVARIANTS DecimalsAgree MessagesAgree TextsAgree
CHECK_DEADLOCK FALSE
