------------------------------ MODULE TtyQueue ------------------------------
(***************************************************************************)
(* The circular queue of kernel/chr_drv/tty_queue.c.  A queue is a record  *)
(* of the array and its two indices; one slot stays unused, so that head = *)
(* tail means empty.  The indices are unsigned long: 0 - 1 is 2^32 - 1 and *)
(* its remainder is TTY_BUF_SIZE - 1 because the size is a power of two.   *)
(***************************************************************************)
EXTENDS Integers, Sequences

CONSTANT TTY_BUF_SIZE    \* 1024

ASSUME QueueAssumption ==
    /\ TTY_BUF_SIZE \in Nat /\ TTY_BUF_SIZE >= 2
    /\ \E k \in 1..30 : TTY_BUF_SIZE = 2^k

Indices == 0..(TTY_BUF_SIZE - 1)

tty_isempty_q(q) == q.head = q.tail
tty_isfull_q(q)  == (q.tail + 1) % TTY_BUF_SIZE = q.head

\* The two assignments of tty_push_q, for a queue that is not full.
Store(q, ch) == [q EXCEPT !.buf[q.tail] = ch]
Advance(q)   == [q EXCEPT !.tail = (@ + 1) % TTY_BUF_SIZE]

tty_push_q(q, ch) == IF tty_isfull_q(q) THEN q ELSE Advance(Store(q, ch))

\* The two assignments of tty_push_q_front, behind its test for a full queue:
\* the reader that calls it can be interrupted in front of each of them.
StepBack(q)      == [q EXCEPT !.head = (@ + TTY_BUF_SIZE - 1) % TTY_BUF_SIZE]
FillHead(q, ch)  == [q EXCEPT !.buf[q.head] = ch]

\* What follows sleep_if_empty in tty_pop_q: q.buf[q.head] is returned.
Drop(q) == [q EXCEPT !.head = (@ + 1) % TTY_BUF_SIZE]

tty_queue_head(q) == q.buf[q.head]
tty_queue_tail(q) == q.buf[q.tail]

\* The characters between head and tail, in the order they would be popped.
Length(q)  == (q.tail + TTY_BUF_SIZE - q.head) % TTY_BUF_SIZE
Content(q) == [i \in 1..Length(q) |-> q.buf[(q.head + i - 1) % TTY_BUF_SIZE]]

=============================================================================
