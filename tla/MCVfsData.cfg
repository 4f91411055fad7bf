SPECIFICATION Spec
CONSTANTS
  MAX_FILE_DESCRIPTORS = 3
  HeapBlocks = 20
  Files <- MCFiles
  Dirs <- MCDirs
  Damaged <- MCDamaged
  Paths <- MCPaths
  EMPTY = EMPTY
  NULL = NULL
INVARIANT
  DescriptorHasData
