SPECIFICATION FairSpec
CONSTANTS
  VGA_WIDTH = 3
  VGA_HEIGHT = 2
  TAB_SIZE = 2
  BYTE = 4
  Text <- MCText
  KeyText <- MCKeyText
INVARIANTS
  TypeOK
  StraysOnlyWhenTorn
PROPERTIES
  PutIsWhole
  CursorReturns
  PutReturns
