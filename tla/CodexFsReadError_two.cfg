\* Two slots of two sectors.
SPECIFICATION ReadErrorSpec
CONSTANTS
  empty = empty
  large = large
  Unmounted = Unmounted
  Contents <- MCContents
  Empty = empty
  RecordSectors <- MCRecordSectors
  Capacities = {6}
  Sectors <- MCSectors
  MaxGeneration = 3
  RECORD_AREA_START = 2
  RECORD_SECTORS = 1
  MAX_RECORD_SECTORS = 3
PROPERTY MountsNewestValid
