\* Three slots of two sectors.
SPECIFICATION ResetSpec
CONSTANTS
  tree = tree
  Unmounted = Unmounted
  Contents <- MCContents
  Empty = tree
  RecordSectors <- MCRecordSectors
  Capacities = {8}
  Sectors <- MCSectors
  MaxGeneration = 7
  RECORD_AREA_START = 2
  RECORD_SECTORS = 1
  MAX_RECORD_SECTORS = 2
INVARIANTS AcknowledgedKept
