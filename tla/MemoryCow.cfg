CONSTANTS
    NR_TASKS = 2
    LOW_MEM = 3
    HIGH_MEMORY = 7
    USER_PAGES = 1
    COPY_PAGES = 1
    Values = {0, 1}
    EXIT_WIRED = FALSE
    REAP_WIRED = FALSE
SPECIFICATION LabelledSpec
PROPERTIES CowKeepsContent
