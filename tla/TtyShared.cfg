SPECIFICATION Spec
SYMMETRY ReaderSymmetry
\* With the last key pressed and every reader asleep the terminal is idle.
CHECK_DEADLOCK FALSE

CONSTANTS
    TTY_BUF_SIZE = 4
    Readers = {r1, r2}
    Writers = {w1, w2}
    r1 = r1
    r2 = r2
    w1 = w1
    w2 = w2
    NONE = NONE
    INIT_TASK = w2
    Keys = {a, NL, BS}
    a = a
    NL = NL
    BS = BS
    OUT = OUT
    Starts = {2}
    Counts = {0, 2}
    Signalled = {w1}
    Masked = {w2}
    MAX_EVENTS = 4

INVARIANTS
    TypeOK
    CharsConserved
