------------------------------ MODULE Console -------------------------------
(***************************************************************************)
(* The VGA console: video_putchar of kernel/chr_drv/vga_console.c, called  *)
(* for a task (con_write, printk) and, in the middle of that, by the       *)
(* keyboard interrupt that echoes a key.  con_init installs the interrupt  *)
(* with a trap gate and keyboard.s acknowledges it before it calls the     *)
(* handler, so one keyboard interrupt can interrupt another.               *)
(*                                                                         *)
(* video_x and video_y are shared and unprotected.  The kernel is built    *)
(* without optimisation: video_x++ is a load and a store, and every test   *)
(* loads anew.  Interrupts nest: only the innermost call of video_putchar  *)
(* runs, and it runs to its end before the one below continues.            *)
(***************************************************************************)
EXTENDS Integers, Sequences, FiniteSets, SequencesExt

CONSTANTS
    VIDEO_X_SZ, VIDEO_Y_SZ,   \* columns and rows (80, 25)
    TAB_LEN,                  \* 8
    BYTE,                     \* values of a VGA register (256)
    MAX_NEST                  \* bound: keyboard interrupts in progress at one time

ASSUME ConsoleAssumption ==
    /\ VIDEO_X_SZ \in Nat /\ VIDEO_X_SZ > 0
    /\ VIDEO_Y_SZ \in Nat /\ VIDEO_Y_SZ > 0
    /\ TAB_LEN \in 1..VIDEO_X_SZ /\ VIDEO_X_SZ % TAB_LEN = 0
    /\ BYTE \in Nat \ {0} /\ VIDEO_X_SZ * VIDEO_Y_SZ <= BYTE * BYTE
    /\ MAX_NEST \in Nat

VARIABLES
    video_x, video_y,
    calls,     \* the calls of video_putchar in progress, the running one last
    cell,      \* history: the cell of video memory stored to last
    index,     \* the VGA's index register, port 0x3D4
    cursor,    \* the VGA's cursor position, its low and its high byte
    quiet      \* history: no interrupt since a task's call came to update_cursor

vga  == <<index, cursor, quiet>>
vars == <<video_x, video_y, calls, cell, vga>>

NOTHING == -(MAX_NEST + 2)   \* no value loaded: less than any coordinate

\* A call has a place in the code and the value it loaded and has yet to store.
Call(at) == [at |-> at, tmp |-> NOTHING]

\* After video_init.
Init ==
    /\ video_x = 0 /\ video_y = 0 /\ calls = <<>> /\ cell = 0
    /\ index = "high" /\ cursor = [low |-> 0, high |-> 0] /\ quiet = TRUE

-----------------------------------------------------------------------------
(* Kinds of steps of the running call.                                     *)

At(at)  == calls # <<>> /\ Last(calls).at = at
Goto(c) == calls' = Append(Front(calls), c)

\* v = val
AssignX(at, val, next) ==
    At(at) /\ video_x' = val /\ Goto(Call(next)) /\ UNCHANGED <<video_y, cell, vga>>
AssignY(at, val, next) ==
    At(at) /\ video_y' = val /\ Goto(Call(next)) /\ UNCHANGED <<video_x, cell, vga>>

\* v += d: a load, then a store
AddX(at, d, next) ==
    /\ At(at)
    /\ IF Last(calls).tmp = NOTHING
       THEN Goto([at |-> at, tmp |-> video_x]) /\ UNCHANGED video_x
       ELSE Goto(Call(next)) /\ video_x' = Last(calls).tmp + d
    /\ UNCHANGED <<video_y, cell, vga>>
AddY(at, d, next) ==
    /\ At(at)
    /\ IF Last(calls).tmp = NOTHING
       THEN Goto([at |-> at, tmp |-> video_y]) /\ UNCHANGED video_y
       ELSE Goto(Call(next)) /\ video_y' = Last(calls).tmp + d
    /\ UNCHANGED <<video_x, cell, vga>>

\* if (cond)
Branch(at, cond, yes, no) ==
    At(at) /\ Goto(Call(IF cond THEN yes ELSE no)) /\ UNCHANGED <<video_x, video_y, cell, vga>>

\* Mutant: no clamping of the coordinates.
Cell_Unclamped(x, y) == x + VIDEO_X_SZ * y

\* video_putchar_at: the cell stored to.
Cell(x, y) == (IF x >= VIDEO_X_SZ THEN VIDEO_X_SZ ELSE x)
              + VIDEO_X_SZ * (IF y >= VIDEO_Y_SZ THEN VIDEO_Y_SZ ELSE y)

\* The arguments are pushed from right to left: video_y is loaded first.
video_putchar_at(at, next) ==
    /\ At(at)
    /\ IF Last(calls).tmp = NOTHING
       THEN Goto([at |-> at, tmp |-> video_y]) /\ UNCHANGED cell
       ELSE Goto(Call(next)) /\ cell' = Cell(video_x, Last(calls).tmp)
    /\ UNCHANGED <<video_x, video_y, vga>>

-----------------------------------------------------------------------------
(* video_putchar.                                                          *)

NewLine == AssignX("newline", 0, "nl1") \/ AddY("nl1", 1, "wrap_x")

Tab == Branch("tab", video_x % TAB_LEN # 0, "tab1", "wrap_x") \/ AddX("tab1", 1, "tab")

Backspace ==
    \/ AddX("backspace", -1, "bs1")
    \/ Branch("bs1", video_x < 0, "bs2", "erase")
    \/ AssignX("bs2", VIDEO_X_SZ, "bs3")
    \/ AddY("bs3", -1, "bs4")
    \/ Branch("bs4", video_y < 0, "bs5", "erase")
    \/ AssignY("bs5", 0, "erase")
    \/ video_putchar_at("erase", "wrap_x")

Printed == video_putchar_at("char", "right") \/ AddX("right", 1, "wrap_x")

\* Mutant: the column is compared for equality.
WrapX_AtEdgeOnly ==
    \/ Branch("wrap_x", video_x = VIDEO_X_SZ, "wx1", "wrap_y")
    \/ AssignX("wx1", 0, "wx2")
    \/ AddY("wx2", 1, "wrap_y")

WrapX ==
    \/ Branch("wrap_x", video_x >= VIDEO_X_SZ, "wx1", "wrap_y")
    \/ AssignX("wx1", 0, "wx2")
    \/ AddY("wx2", 1, "wrap_y")

\* Mutant: the row steps back by one after the screen was rolled.
WrapY_StepsBack ==
    \/ Branch("wrap_y", video_y >= VIDEO_Y_SZ, "roll", "end")
    \/ AssignX("roll", 0, "wy1")
    \/ AddY("wy1", -1, "end")

\* roll_screen moves lines of video memory only.
WrapY ==
    \/ Branch("wrap_y", video_y >= VIDEO_Y_SZ, "roll", "end")
    \/ AssignX("roll", 0, "wy1")
    \/ AssignY("wy1", VIDEO_Y_SZ - 1, "end")

-----------------------------------------------------------------------------
(* update_cursor.                                                          *)

\* Its arguments: video_x is loaded first, then video_y.
Position ==
    /\ At("end")
    /\ IF Last(calls).tmp = NOTHING
       THEN Goto([at |-> "end", tmp |-> video_x])
       ELSE Goto([at |-> "index_low", tmp |-> VIDEO_X_SZ * video_y + Last(calls).tmp])
    /\ quiet' = (quiet \/ (Len(calls) = 1 /\ Last(calls).tmp = NOTHING))
    /\ UNCHANGED <<video_x, video_y, cell, index, cursor>>

\* outb(0x3D4, ...)
Select(at, reg, next) ==
    /\ At(at)
    /\ index' = reg
    /\ Goto([Last(calls) EXCEPT !.at = next])
    /\ UNCHANGED <<video_x, video_y, cell, cursor, quiet>>

\* outb(0x3D5, val): the register selected last gets val.
Data(at, val) ==
    /\ At(at)
    /\ cursor' = [cursor EXCEPT ![index] = val]
    /\ UNCHANGED <<video_x, video_y, cell, index, quiet>>

\* Mutant: the index of the low byte is not written, it was once.
update_cursor_NoIndex ==
    \/ Position
    \/ /\ At("index_low")
       /\ Goto([Last(calls) EXCEPT !.at = "low"])
       /\ UNCHANGED <<video_x, video_y, cell, vga>>
    \/ Data("low", Last(calls).tmp % BYTE) /\ Goto([Last(calls) EXCEPT !.at = "index_high"])
    \/ Select("index_high", "high", "high")
    \/ Data("high", (Last(calls).tmp \div BYTE) % BYTE) /\ Goto(Call("return"))

update_cursor ==
    \/ Position
    \/ Select("index_low", "low", "low")
    \/ Data("low", Last(calls).tmp % BYTE) /\ Goto([Last(calls) EXCEPT !.at = "index_high"])
    \/ Select("index_high", "high", "high")
    \/ Data("high", (Last(calls).tmp \div BYTE) % BYTE) /\ Goto(Call("return"))

Return ==
    /\ At("return")
    /\ calls' = Front(calls)
    /\ UNCHANGED <<video_x, video_y, cell, vga>>

-----------------------------------------------------------------------------
\* A task prints a character of write_q.
con_write ==
    /\ calls = <<>>
    /\ \E ch \in {"char", "newline", "tab", "backspace"} : calls' = <<Call(ch)>>
    /\ quiet' = FALSE
    /\ UNCHANGED <<video_x, video_y, cell, index, cursor>>

\* do_keyboard_interrupt echoes the key with con_write, which prints the keys
\* and whatever a task left in write_q.
keyboard_interrupt ==
    /\ Len(calls) <= MAX_NEST
    /\ \E ch \in {"char", "newline", "tab", "backspace"} : calls' = Append(calls, Call(ch))
    /\ quiet' = FALSE
    /\ UNCHANGED <<video_x, video_y, cell, index, cursor>>

Next ==
    \/ con_write \/ keyboard_interrupt
    \/ NewLine \/ Tab \/ Backspace \/ Printed \/ WrapX \/ WrapY
    \/ update_cursor \/ Return

Spec == Init /\ [][Next]_vars

-----------------------------------------------------------------------------
(* Properties.                                                             *)

Labels == {"newline", "nl1", "tab", "tab1", "backspace", "bs1", "bs2", "bs3",
           "bs4", "bs5", "erase", "char", "right", "wrap_x", "wx1", "wx2",
           "wrap_y", "roll", "wy1", "end", "index_low", "low", "index_high", "high", "return"}

\* A coordinate is off its range by a bounded amount for every call in progress.
Drift(v, size, step) == v \in -Len(calls)..(size - 1 + step * Len(calls))

\* The types of the variables.  The coordinates leave the screen while calls
\* of video_putchar interrupt each other: for each of them by no more than one
\* row, by one column to the left and, a tab that finds itself behind the edge
\* going on to the next tab stop, by TAB_LEN columns to the right.
TypeOK ==
    /\ calls \in Seq([at : Labels, tmp : Int]) /\ Len(calls) <= MAX_NEST + 1
    /\ Drift(video_x, VIDEO_X_SZ, TAB_LEN)
    /\ Drift(video_y, VIDEO_Y_SZ, 1)
    /\ cell \in Int
    /\ index \in {"low", "high"}
    /\ cursor \in [{"low", "high"} -> 0..(BYTE - 1)]
    /\ quiet \in BOOLEAN

\* Whenever no call of video_putchar is in progress the cursor is on the
\* screen, whatever keyboard interrupts came between its loads and stores of
\* video_x and video_y and however they nested.
CursorOnScreen ==
    calls = <<>> => video_x \in 0..(VIDEO_X_SZ - 1) /\ video_y \in 0..(VIDEO_Y_SZ - 1)

\* video_putchar_at stores outside the screen when an interrupt comes between
\* a decrement in the backspace branch and the test behind it, but never
\* further below the start of video memory than a row and a column for every
\* interrupt in progress, and never above the one row its clamping allows.
StoresNearScreen ==
    cell \in -(MAX_NEST * (VIDEO_X_SZ + 1))..(VIDEO_X_SZ * (VIDEO_Y_SZ + 1))

\* Interrupts between its port writes leave update_cursor's position mixed
\* from two calls, in the wrong register even; the next character printed
\* without one puts the VGA's cursor where the next character will go.
CursorShown ==
    calls = <<>> /\ quiet =>
        cursor.high * BYTE + cursor.low = VIDEO_X_SZ * video_y + video_x

-----------------------------------------------------------------------------
(* The inductive invariant behind the properties.                          *)

\* How many of the calls 1..j of cs are at one of some places.  A call that
\* has decremented a coordinate and not yet seen that it is negative may leave
\* it so; interrupted there, it passes it on to those above.
Pending(cs, places, j) == Cardinality({i \in 1..j : cs[i].at \in places})

MinusX == {"bs1", "bs2"}
MinusY == {"bs4", "bs5"}

LowX(cs, j) == -Pending(cs, MinusX, j)
LowY(cs, j) == -Pending(cs, MinusY, j)

\* What a call that interrupts j others may find at most.
HighX(j) == VIDEO_X_SZ - 1 + TAB_LEN * j
HighY(j) == VIDEO_Y_SZ - 1 + j

\* A value that call c, which interrupts j others, has loaded is one that they
\* may leave behind.
Held(c, j, lowx, lowy) ==
    c.tmp # NOTHING =>
      /\ c.at \in {"right", "tab1", "backspace"} => c.tmp \in lowx..HighX(j)
      /\ c.at \in {"nl1", "bs3", "wx2", "erase", "char"} => c.tmp \in lowy..HighY(j)

\* The coordinates while c, which interrupts j others, is the running call.
\* When it returns it has put both back below the end of the screen, whatever
\* the others left.
Within(c, j, lowx, lowy, x, y) ==
    /\ x >= IF c.at \in MinusX THEN lowx - 1 ELSE lowx
    /\ y >= IF c.at \in MinusY THEN lowy - 1 ELSE lowy
    /\ x <= CASE c.at \in {"bs3", "bs4", "bs5", "erase", "wrap_x", "wx1"} -> HighX(j + 1)
              [] c.at = "tab" -> HighX(j) + 1
              [] c.at \in {"newline", "char", "right", "backspace", "bs1", "bs2", "tab1"} -> HighX(j)
              [] OTHER -> VIDEO_X_SZ - 1
    /\ y <= CASE c.at \in {"wrap_y", "roll", "wy1"} -> HighY(j + 1)
              [] c.at = "wrap_x" /\ x < VIDEO_X_SZ -> HighY(j + 1)
              [] c.at \in {"end", "index_low", "low", "index_high", "high", "return"} -> VIDEO_Y_SZ - 1
              [] OTHER -> HighY(j)

InRange ==
    IF calls = <<>> THEN CursorOnScreen
    ELSE LET j == Len(calls) - 1
         IN  Within(Last(calls), j, LowX(calls, j), LowY(calls, j), video_x, video_y)

\* While no interrupt comes: how far update_cursor is.
Cursor ==
    quiet =>
      LET here == VIDEO_X_SZ * video_y + video_x
          low  == here % BYTE
          high == (here \div BYTE) % BYTE
      IN  \/ calls = <<>> /\ cursor = [low |-> low, high |-> high]
          \/ /\ Len(calls) = 1
             /\ \/ calls[1] = [at |-> "end", tmp |-> video_x]
                \/ calls[1] = [at |-> "index_low", tmp |-> here]
                \/ calls[1] = [at |-> "low", tmp |-> here] /\ index = "low"
                \/ calls[1] = [at |-> "index_high", tmp |-> here] /\ cursor.low = low
                \/ calls[1] = [at |-> "high", tmp |-> here] /\ cursor.low = low /\ index = "high"
                \/ calls[1].at = "return" /\ cursor = [low |-> low, high |-> high]

ConsoleInv ==
    /\ TypeOK
    /\ InRange
    /\ \A j \in 1..Len(calls) : Held(calls[j], j - 1, LowX(calls, j - 1), LowY(calls, j - 1))
    /\ StoresNearScreen
    /\ Cursor

=============================================================================
