------------------------------ MODULE LineInput -----------------------------
(***************************************************************************)
(* What the terminal promises the one program that reads it, without       *)
(* circular queues, wait queues, put-back or interrupts: characters come   *)
(* out in the order they went in, a read ends when a line has ended at or  *)
(* after its last character, and only input beyond the capacity is lost.   *)
(*                                                                         *)
(* The promise ends with the first signal to the reader, the first         *)
(* Backspace that hits the very character being read or put back, and the  *)
(* first that takes a line's end back; with the first key that fills the   *)
(* buffer between the test for a full one and the move of its head; and    *)
(* with the first character for which tmpbuf has no room (orderly is then  *)
(* FALSE).                                                                 *)
(***************************************************************************)
EXTENDS Integers, Sequences

CONSTANTS
    Chars,       \* characters that can be typed
    EOL,         \* the one that ends a line
    CAPACITY     \* characters the terminal keeps for sure

VARIABLES
    pending,     \* typed and not yet given to the reader
    given,       \* given to the reader
    busy,        \* the reader is in a call
    want,        \* how many characters it still wants
    ended,       \* the line its read ends with is complete
    orderly

vars == <<pending, given, busy, want, ended, orderly>>

Init ==
    /\ pending = <<>> /\ given = <<>>
    /\ busy = FALSE /\ want = 0 /\ ended = FALSE
    /\ orderly = TRUE

Call ==
    /\ ~busy /\ busy'
    /\ want' \in Nat
    /\ UNCHANGED <<pending, given, ended, orderly>>

Type(ch) ==
    /\ \/ pending' = Append(pending, ch)
       \/ Len(pending) >= CAPACITY /\ UNCHANGED pending
    /\ UNCHANGED <<given, busy, want, ended, orderly>>

Erase ==
    /\ pending # <<>> /\ pending[Len(pending)] # EOL
    /\ pending' = SubSeq(pending, 1, Len(pending) - 1)
    /\ UNCHANGED <<given, busy, want, ended, orderly>>

Deliver ==
    /\ busy /\ want > 0 /\ pending # <<>>
    /\ given' = Append(given, Head(pending))
    /\ pending' = Tail(pending)
    /\ want' = want - 1
    /\ ended' = (want = 1 /\ Head(pending) = EOL)
    /\ UNCHANGED <<busy, orderly>>

\* The read has all it wanted, in the middle of a line that ends further on.
SeeEnd ==
    /\ busy /\ want = 0 /\ ended'
    /\ \E i \in 1..Len(pending) : pending[i] = EOL
    /\ UNCHANGED <<pending, given, busy, want, orderly>>

\* What was typed during a read can leave no room for what the read looked at.
Overflow ==
    /\ ended
    /\ \E i \in 1..(Len(pending) - CAPACITY) :
          pending' = SubSeq(pending, 1, i - 1) \o SubSeq(pending, i + 1, Len(pending))
    /\ UNCHANGED <<given, busy, want, ended, orderly>>

Return ==
    /\ busy /\ ended
    /\ ~busy' /\ ~ended'
    /\ UNCHANGED <<pending, given, want, orderly>>

\* Nothing is promised any more.
Disorder == ~orderly'

Next ==
    \/ Call \/ (\E ch \in Chars : Type(ch)) \/ Erase
    \/ Deliver \/ SeeEnd \/ Overflow \/ Return
    \/ Disorder

Spec == Init /\ [][Next]_vars

=============================================================================
