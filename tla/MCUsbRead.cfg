SPECIFICATION Spec
CONSTANTS
  Lba = {1, 2}
  Datum = {1, 2}
  MaxTag = 2
  MaxFaults = 1
  SlowDevice = FALSE
INVARIANT ReadReturnsSector
