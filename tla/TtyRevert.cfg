SPECIFICATION Spec
\* With the last key pressed and every reader asleep the terminal is idle.
CHECK_DEADLOCK FALSE

CONSTANTS
    TTY_BUF_SIZE = 4
    Readers = {r1}
    Writers = {}
    r1 = r1
    NONE = NONE
    INIT_TASK = INIT_TASK
    Keys = {a, NL, BS}
    a = a
    NL = NL
    BS = BS
    OUT = OUT
    Starts = {0}
    Counts = {0}
    Signalled = {}
    Masked = {INIT_TASK}
    MAX_EVENTS = 4

PROPERTIES
    RevertKeepsQueue
