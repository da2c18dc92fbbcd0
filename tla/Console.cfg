SPECIFICATION OutputSpec
VIEW UpToCell

CONSTANTS
    VIDEO_X_SZ = 3
    VIDEO_Y_SZ = 2
    TAB_LEN = 3
    BYTE = 3
    MAX_NEST = 2
    INT_BITS = 11
    MAX_FORMAT = 4
    Samples <- MCSamples

INVARIANTS
    TypeOK
    CursorOnScreen
    StoresNearScreen
    CursorShown
    NumbersReadBack
    ArgumentsMatched
