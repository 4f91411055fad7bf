SPECIFICATION GdtSpec
CONSTANTS
  N = 2
  Limits <- MCLimits
  Bases <- MCBases
  Types <- MCTypes
  TOTAL = 2
INVARIANTS
  DecodesAsAsked
