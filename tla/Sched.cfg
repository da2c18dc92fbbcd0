SPECIFICATION Spec

CONSTANTS
    NR_TASKS = 3
    PRIORITY = 2
    Signals = {9, 14}
    SIGALRM = 14
    Unblockable = {9, 19}
    SIGKILL = 9
    Sent = {9, 14}
    Delays = {1}
    Masks <- AlarmMasks

INVARIANTS
    TypeOK
    CurrentIsRunnable
    WokenBySignal
PROPERTIES
    MaskedSignalsKept
    NoStarvation
    SleeperWakes
    SignalWakes
