SPECIFICATION Spec
CONSTANTS
  MAX_NODES = 5
  Names = {"root", "a"}
  NODES_PER_BLOCK = 2
  Devices = {"DEV_NONE"}
INVARIANT WorkingDirRooted
INVARIANT NoDirectoryCycle
PROPERTY OrphanKept
