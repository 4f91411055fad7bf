SPECIFICATION Spec
CONSTANTS
  n = 1
  Capacity = 3
  DiskEntries = 5
  Names <- MCNames
  Parts <- MCParts
  Bytes <- MCBytes
  NUL = NUL
  E5 = E5
INVARIANTS
  TypeOK
  FoundIsTheOne
  MissedOnlyBehindDeleted
  SearchIsInside
