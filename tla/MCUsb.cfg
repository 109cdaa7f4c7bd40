SPECIFICATION Spec
CONSTANTS
  Lba = {1, 2}
  Datum = {1, 2}
  MaxTag = 4
  MaxFaults = 1
  SlowDevice = FALSE
INVARIANTS TypeOK WriteIsOnMedium SucceedsWithoutFault OneMouseTransfer
PROPERTIES NoLateEffect OnlyBootDiskWritten CallsReturn MouseRecovers
