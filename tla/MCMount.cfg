SPECIFICATION Spec
CONSTANTS
  PER = 2
  INT = 16
  BYTE = 2
  HEAD = 4
  Disks <- MCDisks
  Volumes <- MCVolumes
  AREA = 3
INVARIANTS
  MountedIsReadable
  NeverWaits
PROPERTIES
  MountAdvances
  MountEnds
