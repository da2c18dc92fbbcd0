SPECIFICATION Spec

CONSTANTS
    Signals = {9, 10, 12}
    SIGKILL = 9
    Masks <- MCMasks
    Actions <- MCActions
    MAX_DEPTH = 2

INVARIANTS
    TypeOK
    HandlerMasked
PROPERTIES
    ContextRestored
