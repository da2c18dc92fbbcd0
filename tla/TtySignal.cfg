SPECIFICATION Spec
\* With the last key pressed and every reader asleep the terminal is idle.
CHECK_DEADLOCK FALSE

CONSTANTS
    TTY_BUF_SIZE = 4
    Readers = {r1}
    Writers = {}
    r1 = r1
    NONE = NONE
    INIT_TASK = INIT_TASK
    Keys = {a, b, NL}
    a = a
    b = b
    NL = NL
    BS = BS
    OUT = OUT
    Starts = {0, 2}
    Counts = {0, 1, 2}
    Signalled = {r1}
    Masked = {INIT_TASK}
    MAX_EVENTS = 3

PROPERTIES
    PopOnlyNonEmpty
