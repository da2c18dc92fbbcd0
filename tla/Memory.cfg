SPECIFICATION LabelledSpec
VIEW UpToFrames

CONSTANTS
    NR_TASKS = 4
    LOW_MEM = 3
    HIGH_MEMORY = 10
    USER_PAGES = 2
    COPY_PAGES = 1
    Values = {0, 1}
    EXIT_WIRED = TRUE
    REAP_WIRED = TRUE

INVARIANTS
    TypeOK
    OnlyOomPanics
    RefCountExact
    NoWritableSharing
    MemoryInv
PROPERTIES
    SeparateMemories
