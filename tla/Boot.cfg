SPECIFICATION StartupSpec
\* A program that dies of an exception stops the system.
CHECK_DEADLOCK FALSE

CONSTANTS
    SEG = 128
    SETUPLEN = 4
    SYSSEG = 1
    ENDSEG = 4
    INITSEG = 9
    BOOTBLOCK = 62
    Geometries = {8, 9, 15, 18, 36}
    Raised = {0, 1, 3, 4, 5, 6, 9, 13}

INVARIANTS
    TypeOK
    SystemInPlace
    InterruptsServed
    TrapsTransparent
PROPERTIES
    StartupCompletes
