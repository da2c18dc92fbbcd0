SPECIFICATION ProcessSpec
VIEW UpToFrames

CONSTANTS
    NR_TASKS = 5
    LOW_MEM = 3
    HIGH_MEMORY = 11
    USER_PAGES = 2
    COPY_PAGES = 1
    Values = {0}
    EXIT_WIRED = TRUE
    REAP_WIRED = TRUE
    MAX_PID = 4
    MAX_FORKS = 6

INVARIANTS
    ProcessTypeOK
    PidsUnique
    FatherLives
    FatherFound
    ZombieAnnounced
