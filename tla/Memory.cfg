SPECIFICATION MemorySpec
CONSTANTS
    PAGE_SIZE = 2
    MAX_FREE_EXTENTS = 4
    MAX_ALLOCATOR_REGIONS = 8
    InitialRegions <- MCInitialRegions
    Requests = {0, 1, 2, 3}
    PhysicalPages = 32
    Fanout <- MCFanout
    LOW_MEMORY_RESERVE = 2
    IDENTITY_BOOT_WINDOW = 4
    STACK_WINDOW = 2
    HIGH_HALF_BASE = 192
    DEMO_BASE = 128
    USER_CODE_BASE = 64
    USER_STACK_TOP = 72
    MAX_MEMORY_REGIONS = 7
    MAX_RESERVED = 10
    MAX_USER_OWNED_PAGES = 7
    Firmwares <- MCFirmwares
    Programs <- MCPrograms
    DemoSizes = {1, 2}
    MaxSpaces = 2
    Threads = {t1, t2}
    Layouts <- MCLayouts
    BootstrapBase = 8
    N = 14
    Externals <- MCExternals
    MaxGranted = 3
SYMMETRY ThreadSymmetry
CHECK_DEADLOCK FALSE
INVARIANTS PagesOwned PagesSound TablesAgree RightsKept HeapSound FreeDecision
