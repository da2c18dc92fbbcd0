------------------------------ MODULE Keyboard ------------------------------
(***************************************************************************)
(* kernel/chr_drv/do_keyboard.c in front of the terminal: scancodes change *)
(* the static flags of do_keyboard_interrupt or are decoded, with the      *)
(* flags, into the character that Tty's keyboard_interrupt puts in.        *)
(*                                                                         *)
(* The right Ctrl and Alt keys send the left ones' scancodes after a       *)
(* prefix 0xE0, an interrupt of its own that looks like the release of no  *)
(* known key.  The right Shift key is no modifier to this driver: it has   *)
(* an entry in the tables.  So rshift, rctrl and ralt stay 0.              *)
(***************************************************************************)
EXTENDS Tty

CONSTANTS
    PrintKeys,              \* keys that are looked up in the tables
    ModKeys,                \* modifier keys the keyboard has, of those below
    SPACE,                  \* what ch starts as
    scancode_table,         \* the tables, and toupper on their characters
    shift_scancode_table,
    toupper

VARIABLES
    held,                          \* modifier keys that are down
    caps, lshift, lctrl, lalt      \* the driver's flags

flags == <<caps, lshift, lctrl, lalt>>
kvars == <<held, flags>>

SHIFTS == {"lshift"}
CTRLS  == {"lctrl", "rctrl"}
ALTS   == {"lalt", "ralt"}

ASSUME KeyboardAssumption ==
    /\ ModKeys \subseteq SHIFTS \cup CTRLS \cup ALTS \cup {"caps"}
    /\ scancode_table \in [PrintKeys -> Keys]
    /\ shift_scancode_table \in [PrintKeys -> Keys]
    /\ toupper \in [Keys -> Keys]
    /\ SPACE \in Keys

KeyboardInit ==
    /\ Init
    /\ held = {}
    /\ caps = FALSE /\ lshift = FALSE /\ lctrl = FALSE /\ lalt = FALSE

\* A scancode that ends in the first part of do_keyboard_interrupt.
FlagsOnly ==
    /\ Alive
    /\ events < MAX_EVENTS
    /\ events' = events + 1
    /\ UNCHANGED <<queues, sleep, signal, cpu, pc, nr, tmpbuf, hist>>

PressModifier(k) ==
    /\ k \in ModKeys \ held
    /\ held' = held \cup {k}
    /\ lctrl'  = (lctrl \/ k \in CTRLS)
    /\ lalt'   = (lalt \/ k \in ALTS)
    /\ lshift' = (lshift \/ k \in SHIFTS)
    /\ caps'   = IF k = "caps" THEN ~caps ELSE caps
    /\ FlagsOnly

\* Mutant: the release of Ctrl is compared with the wrong scancode.
ReleaseModifier_KeepsCtrl(k) ==
    /\ k \in held
    /\ held' = held \ {k}
    /\ lalt'   = (lalt /\ k \notin ALTS)
    /\ lshift' = (lshift /\ k \notin SHIFTS)
    /\ UNCHANGED <<caps, lctrl>>
    /\ FlagsOnly

ReleaseModifier(k) ==
    /\ k \in held
    /\ held' = held \ {k}
    /\ lctrl'  = (lctrl /\ k \notin CTRLS)
    /\ lalt'   = (lalt /\ k \notin ALTS)
    /\ lshift' = (lshift /\ k \notin SHIFTS)
    /\ UNCHANGED caps
    /\ FlagsOnly

\* The character of key k.  With Ctrl or Alt and no Shift it stays ' '.
Decoded(k) ==
    LET cap_out == IF caps THEN ~lshift ELSE lshift
        cased(ch) == IF cap_out THEN toupper[ch] ELSE ch
    IN  IF lshift THEN cased(shift_scancode_table[k])
        ELSE IF lctrl \/ lalt THEN SPACE
        ELSE cased(scancode_table[k])

\* The release of such a key has no effect.
do_keyboard_interrupt(k) ==
    /\ keyboard_interrupt(Decoded(k))
    /\ UNCHANGED kvars

KeyboardNext ==
    \/ \E k \in PrintKeys : do_keyboard_interrupt(k)
    \/ \E k \in ModKeys : PressModifier(k) \/ ReleaseModifier(k)
    \/ TaskStep /\ UNCHANGED kvars

KeyboardSpec == KeyboardInit /\ [][KeyboardNext]_<<vars, kvars>> /\ Fairness

-----------------------------------------------------------------------------
\* No modifier sticks: a flag is set only while a key that sets it is down,
\* though two keys share a flag, and Shift is never missed.
NoStuckModifier ==
    /\ lctrl => held \cap CTRLS # {}
    /\ lalt => held \cap ALTS # {}
    /\ lshift <=> held \cap SHIFTS # {}

=============================================================================
