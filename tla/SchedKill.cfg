SPECIFICATION Spec

CONSTANTS
    NR_TASKS = 3
    PRIORITY = 1
    Signals = {9, 14}
    SIGALRM = 14
    Unblockable = {9, 19}
    SIGKILL = 9
    Sent = {9}
    Delays = {1}
    Masks <- NoMask

PROPERTIES
    KillWakes
