SPECIFICATION KeyboardSpec
\* With the last key pressed and every reader asleep the terminal is idle.
CHECK_DEADLOCK FALSE

CONSTANTS
    TTY_BUF_SIZE = 4
    Readers = {r1}
    Writers = {}
    r1 = r1
    NONE = NONE
    INIT_TASK = INIT_TASK
    Keys <- MCKeys
    a = a
    A = A
    NL = NL
    BS = BS
    OUT = OUT
    SPACE = SPACE
    Starts = {0, 2}
    Counts = {0, 1, 2}
    Signalled = {r1}
    Masked = {INIT_TASK}
    MAX_EVENTS = 4
    PrintKeys <- MCPrintKeys
    ModKeys = {"lshift", "lctrl", "rctrl", "lalt", "ralt", "caps"}
    scancode_table <- MCTable
    shift_scancode_table <- MCShiftTable
    toupper <- MCToupper

INVARIANTS
    SleeperIsQueued
    NoLineWhileAllSleep
    NoStuckModifier
PROPERTIES
    LineDiscipline
    ReadReturns
