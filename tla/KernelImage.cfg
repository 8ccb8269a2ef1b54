SPECIFICATION MCSpec
CONSTANTS
  Paths <- MCPaths
  MAX_PATH_BYTES = 6
  MAX_FILES = 5
  MAX_RECORD_BYTES = 36
  RECORD_HEADER_BYTES = 1
  RECORD_ENTRY_BYTES = 1
  DataBytes <- MCDataBytes
  NoData <- MCNoData
  Data <- MCData
  Modes <- MCModes
  FirstSnapshots <- MCFirstSnapshots
  MaxGeneration = 12
  MAX_PCI_DEVICES = 4
  Absent = Absent
  Layouts <- MCLayouts
  MAX_USER_LOG_BYTES = 3
  CodeStart = 4
  CodeEnd = 7
  Message <- MCMessage
  AddressMax = 15
  Machines <- MCMachines
  Kernels = {"v1", "v2"}
  ProgramOf <- MCProgramOf
  LARGE_FILE_PROOF <- MCProof
  U64_MAX = 12
  MaxBoots = 3
  SCREEN_WIDTH = 640
  SCREEN_HEIGHT = 480
  Strokes <- MCStrokes
  Packets <- MCPackets
  CommandOf <- MCCommandOf
  FirstConfig = 103
  TotalPages = 2
  PrintedLines = {1, 9}
  MaxEvents = 3
CHECK_DEADLOCK FALSE
INVARIANTS TreeKept GatesHonest ComesUpAgain DesktopShown InputFollowed
PROPERTIES WrittenIsKept InputHandled
