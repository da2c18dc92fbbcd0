------------------------------- MODULE Format -------------------------------
(***************************************************************************)
(* Formatted output: vsprintf and _sprintnum of kernel/vsprintf.c, and     *)
(* printk and printf, which print what vsprintf has written up to its      *)
(* first NUL.  serial_debug.c has the same two loops with s_putchar in the *)
(* place of a store.                                                       *)
(*                                                                         *)
(* A character of the output is a number: a digit is its value, other      *)
(* characters are negative.  An argument is an int; as a string it points  *)
(* at one of StringLength characters.                                      *)
(***************************************************************************)
EXTENDS Integers, Sequences, SequencesExt

CONSTANTS
    INT_BITS,      \* width of an int (32)
    MAX_FORMAT,    \* bound: length of the formats looked at
    Samples        \* arguments of the longer formats

INT_MIN == -(2^(INT_BITS - 1))
INT_MAX == 2^(INT_BITS - 1) - 1

ASSUME FormatAssumption ==
    /\ INT_BITS \in Nat \ {0}
    /\ MAX_FORMAT \in Nat
    /\ Samples \subseteq Seq(INT_MIN..INT_MAX)

VARIABLES
    phase,        \* "idle", "format" in vsprintf, "print" behind it
    fmt, args,    \* printk's arguments
    pos, taken,   \* how much of each vsprintf has used
    dest          \* the buffer on printk's stack

fvars == <<phase, fmt, args, pos, taken, dest>>

NUL     == -1
MINUS   == -2
PERCENT == -3
TEXT    == -4
GARBAGE == -5        \* what lies beside a table or behind the arguments

FormatInit ==
    /\ phase = "idle"
    /\ fmt = <<>> /\ args = <<>> /\ dest = <<>>
    /\ pos = 0 /\ taken = 0

-----------------------------------------------------------------------------
(* _sprintnum.                                                             *)

\* C divides towards zero, and a remainder has the sign of the dividend.
Quotient(n, d)  == IF n < 0 THEN -((-n) \div d) ELSE n \div d
Remainder(n, d) == n - d * Quotient(n, d)

\* -num, in an int.
Negated(n) == IF n = INT_MIN THEN INT_MIN ELSE -n

\* digits[]: a negative index reads what lies before the table.
Digit(k) == IF k >= 0 THEN k ELSE GARBAGE

\* The characters that while(num) puts into buf.
LowestFirst(num, base) ==
    LET buf[n \in INT_MIN..INT_MAX] ==
            IF n = 0 THEN <<>> ELSE <<Digit(Remainder(n, base))>> \o buf[Quotient(n, base)]
    IN  buf[num]

\* Mutant: buf is copied out as it was filled.
_sprintnum_Backwards(num, base, sign) ==
    LET m == IF sign /\ num < 0 THEN Negated(num) ELSE num
    IN  (IF sign /\ num < 0 THEN <<MINUS>> ELSE <<>>)
            \o (IF m = 0 THEN <<0>> ELSE LowestFirst(m, base))

_sprintnum(num, base, sign) ==
    LET m == IF sign /\ num < 0 THEN Negated(num) ELSE num
    IN  (IF sign /\ num < 0 THEN <<MINUS>> ELSE <<>>)
            \o (IF m = 0 THEN <<0>> ELSE Reverse(LowestFirst(m, base)))

-----------------------------------------------------------------------------
(* printk and vsprintf.                                                    *)

\* Characters of a format: text, '%' and the letters behind it.
FormatChars == {"t", "%", "d", "u", "x", "s", "c"}
Conversions == {"d", "u", "x", "s", "c"}

printk(f, a) ==
    /\ phase' = "format"
    /\ fmt' = f /\ args' = a
    /\ UNCHANGED <<pos, taken, dest>>

va_arg == args[taken + 1]

StringLength(arg) == arg % 3

\* Behind the last argument va_arg reads what lies there.
Converted(c) ==
    IF taken >= Len(args) THEN <<GARBAGE>>
    ELSE
    CASE c = "d" -> _sprintnum(va_arg, 10, TRUE)
      [] c = "u" -> _sprintnum(va_arg, 10, FALSE)
      [] c = "x" -> _sprintnum(va_arg, 16, FALSE)
      [] c = "s" -> [i \in 1..StringLength(va_arg) |-> TEXT]
      [] c = "c" -> <<IF va_arg = 0 THEN NUL ELSE TEXT>>

\* One turn of the loop: a character ...
Plain ==
    /\ phase = "format" /\ pos < Len(fmt) /\ fmt[pos + 1] # "%"
    /\ pos' = pos + 1
    /\ dest' = Append(dest, TEXT)
    /\ UNCHANGED <<phase, fmt, args, taken>>

\* Mutant: every letter takes an argument.
Directive_AlwaysTakes ==
    /\ phase = "format" /\ pos + 1 < Len(fmt) /\ fmt[pos + 1] = "%"
    /\ pos' = pos + 2
    /\ taken' = taken + 1
    /\ LET c == fmt[pos + 2] IN
       dest' = IF c \in Conversions THEN dest \o Converted(c)
               ELSE IF c = "%" THEN Append(dest, PERCENT) ELSE dest
    /\ UNCHANGED <<phase, fmt, args>>

\* ... or '%' and its letter; an unknown letter is skipped.
Directive ==
    /\ phase = "format" /\ pos + 1 < Len(fmt) /\ fmt[pos + 1] = "%"
    /\ pos' = pos + 2
    /\ LET c == fmt[pos + 2] IN
       IF c \in Conversions
       THEN dest' = dest \o Converted(c) /\ taken' = taken + 1
       ELSE dest' = (IF c = "%" THEN Append(dest, PERCENT) ELSE dest) /\ UNCHANGED taken
    /\ UNCHANGED <<phase, fmt, args>>

\* The end of the format, or a '%' with nothing behind it.
Finish ==
    /\ phase = "format" /\ (pos = Len(fmt) \/ (pos + 1 = Len(fmt) /\ fmt[pos + 1] = "%"))
    /\ phase' = "print"
    /\ UNCHANGED <<fmt, args, pos, taken, dest>>

\* printk's loop over buf, up to its first NUL, feeds the terminal (Tty, Console).
tty_write ==
    /\ phase = "print"
    /\ phase' = "idle"
    /\ fmt' = <<>> /\ args' = <<>> /\ dest' = <<>>
    /\ pos' = 0 /\ taken' = 0

\* One conversion of every int, and every short format.
FormatNext ==
    \/ /\ phase = "idle"
       /\ \/ \E c \in {"d", "u", "x"}, n \in INT_MIN..INT_MAX : printk(<<"%", c>>, <<n>>)
          \/ \E n \in 0..MAX_FORMAT : \E f \in [1..n -> FormatChars], a \in Samples : printk(f, a)
    \/ Plain \/ Directive \/ Finish \/ tty_write

FormatSpec == FormatInit /\ [][FormatNext]_fvars

-----------------------------------------------------------------------------
(* Properties.                                                             *)

\* The number a text of digits stands for.
Value(text, base) ==
    LET v[i \in 0..Len(text)] == IF i = 0 THEN 0 ELSE v[i - 1] * base + text[i]
    IN  v[Len(text)]

\* Numbers can be read back: %d writes every int but the smallest, %u and %x
\* every int that is not negative, in digits of the base, without a zero in
\* front, so that their value is the number (_sprintnum).
NumbersReadBack ==
    phase = "print" /\ fmt \in {<<"%", c>> : c \in {"d", "u", "x"}} /\ args # <<>> =>
        LET num == args[1]
            sign == fmt[2] = "d"
            base == IF fmt[2] = "x" THEN 16 ELSE 10
            neg == sign /\ num < 0
            digits == IF neg THEN Tail(dest) ELSE dest
        IN  (IF sign THEN num # INT_MIN ELSE num >= 0) =>
                /\ neg <=> Head(dest) = MINUS
                /\ \A i \in 1..Len(digits) : digits[i] \in 0..(base - 1)
                /\ digits[1] = 0 => digits = <<0>>
                /\ Value(digits, base) = IF neg THEN -num ELSE num

\* A '%' at i starts a directive when an even number of '%' stands before it.
StartsDirective(i) ==
    /\ fmt[i] = "%" /\ i < Len(fmt)
    /\ \E n \in 0..(i - 1) :
          /\ n % 2 = 0
          /\ \A k \in (i - n)..(i - 1) : fmt[k] = "%"
          /\ i - n = 1 \/ fmt[i - n - 1] # "%"

\* vsprintf takes one argument for every conversion, in their order and none
\* for "%%" or an unknown letter, so that a call with as many arguments prints
\* nothing that lies behind them, wherever '%' stands in the format.
ArgumentsMatched ==
    phase = "print" =>
        LET wanted == {i \in 1..Len(fmt) : StartsDirective(i) /\ fmt[i + 1] \in Conversions}
        IN  /\ taken = Cardinality(wanted)
            /\ Cardinality(wanted) <= Len(args) /\ (\A i \in 1..Len(args) : args[i] >= 0)
                  => ~Contains(dest, GARBAGE)

-----------------------------------------------------------------------------
(* What holds throughout: the inductive invariant.                         *)

Ints == INT_MIN..INT_MAX

FormatTypes ==
    /\ phase \in {"idle", "format", "print"}
    /\ fmt \in Seq(FormatChars) /\ args \in Seq(Ints)
    /\ pos \in 0..Len(fmt) /\ taken \in Nat
    /\ dest \in Seq(Int)

\* The run of '%' in front of position p + 1 is even.
EvenRun(p) ==
    \E n \in 0..p :
        /\ n % 2 = 0
        /\ \A k \in (p - n + 1)..p : fmt[k] = "%"
        /\ n = p \/ fmt[p - n] # "%"

\* The conversions that start among the first p characters.
Wanted(p) == {i \in 1..p : StartsDirective(i) /\ fmt[i + 1] \in Conversions}

\* vsprintf stands between directives and has taken an argument for each.
Matched ==
    /\ EvenRun(pos)
    /\ taken = Cardinality(Wanted(pos))
    /\ phase = "print" => Wanted(Len(fmt)) = Wanted(pos)
    /\ phase = "idle" => fmt = <<>> /\ args = <<>> /\ dest = <<>> /\ pos = 0 /\ taken = 0

\* Arguments that are there, and not negative, leave no garbage.
Clean ==
    Cardinality(Wanted(Len(fmt))) <= Len(args) /\ (\A i \in 1..Len(args) : args[i] >= 0)
        => \A i \in 1..Len(dest) : dest[i] # GARBAGE

\* A conversion alone: before it nothing is written, behind it its text is.
Single ==
    fmt \in {<<"%", c>> : c \in {"d", "u", "x"}} /\ args # <<>> =>
        \/ phase = "format" /\ pos = 0 /\ taken = 0 /\ dest = <<>>
        \/ pos = 2 /\ dest = _sprintnum(args[1], IF fmt[2] = "x" THEN 16 ELSE 10, fmt[2] = "d")

FormatInv == FormatTypes /\ Matched /\ Clean /\ Single

=============================================================================
