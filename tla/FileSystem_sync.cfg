SPECIFICATION Spec
CONSTANTS
  MAX_NODES = 3
  Names = {"root", "a"}
  NODES_PER_BLOCK = 2
  Devices = {"DEV_NONE", "DEV_ATA"}
INVARIANT SyncedMeansOnDisk
