SPECIFICATION Spec
CONSTANTS
  ENTRIES = 3
  HeapFrames <- MCHeapFrames
  Remapped <- MCRemapped
  Targets <- MCTargets
  Accessed <- MCAccessed
  NONE = NONE
INVARIANTS
  TablesAreAsAsked
PROPERTIES
  ImplementsAddressSpace
