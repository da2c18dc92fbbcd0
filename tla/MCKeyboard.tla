----------------------------- MODULE MCKeyboard -----------------------------
(***************************************************************************)
(* Keyboard with a letter, Enter, Backspace, both Ctrl keys, Shift and     *)
(* Caps.                                                                   *)
(***************************************************************************)
EXTENDS Keyboard

CONSTANTS a, A    \* a letter in both cases

MCKeys == {a, A, NL, BS, SPACE}
MCPrintKeys == {"letter", "enter", "backspace"}
MCTable ==
    [k \in MCPrintKeys |-> CASE k = "letter" -> a [] k = "enter" -> NL [] OTHER -> BS]
MCShiftTable == [MCTable EXCEPT !["letter"] = A]
MCToupper == [ch \in MCKeys |-> IF ch = a THEN A ELSE ch]
=============================================================================
