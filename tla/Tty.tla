--------------------------------- MODULE Tty --------------------------------
(***************************************************************************)
(* The terminal: kernel/chr_drv/tty_io.c, the keyboard interrupt that      *)
(* feeds it and the wait queues of kernel/sched.c (interruptible_sleep_on, *)
(* wake_up) its readers and writers sleep on.                              *)
(*                                                                         *)
(* At most one task executes in the kernel (cpu); it leaves the processor  *)
(* only in schedule(), and any runnable task may be chosen there.  The     *)
(* keyboard interrupt arrives between any two steps, except inside the     *)
(* cli/sti of sleep_if_empty, which is why testing the queue and going to  *)
(* sleep is one step.  The model takes an interrupt to be handled before   *)
(* the next key comes, so read_q, which the handler fills and empties,     *)
(* needs no variable; Console looks at interrupts that nest.               *)
(***************************************************************************)
EXTENDS TtyQueue, FiniteSets, SequencesExt

CONSTANTS
    Readers,     \* tasks that call tty_read
    Writers,     \* tasks that call _user_tty_write
    INIT_TASK,   \* task 0
    NONE,        \* no task: NULL
    Keys,        \* characters the keyboard produces
    NL, BS,      \* '\n' and '\b'
    OUT,         \* a character on its way to the screen
    Starts,      \* indices at which input may start in a buffer used before
    Counts,      \* values of nr
    Signalled,   \* tasks that are sent signals
    Masked,      \* tasks that do not take them: they block them, or are task 0
    MAX_EVENTS   \* bound on the number of keys pressed and signals sent

Tasks == Readers \cup Writers

ASSUME TtyAssumption ==
    /\ NONE \notin Tasks
    /\ IsFiniteSet(Tasks)
    /\ Counts \subseteq Nat
    /\ Starts \subseteq Indices
    /\ Signalled \subseteq Tasks
    /\ INIT_TASK \in Tasks => INIT_TASK \in Masked
    /\ MAX_EVENTS \in Nat

VARIABLES
    buffer, write_q,    \* the queues of tty_table[0]
    wait_proc,          \* their wait_proc fields
    state,              \* TASK_RUNNING or TASK_INTERRUPTIBLE
    signal,             \* tasks with a signal pending
    cpu,                \* the task executing in the kernel
    pc,                 \* where each task is
    tmp,                \* the variable tmp of its interruptible_sleep_on
    nr,                 \* characters still to read or to write
    tmpbuf,             \* tty_read: characters to be put back
    got,                \* history: what each reader was given
    accepted,           \* history: what was put into buffer, see Forget
    orderly,            \* history: see Disturbs, StepsBack, Overrun and SendSignal
    events              \* number of keys pressed and signals sent

queues == <<buffer, write_q>>
sleep  == <<wait_proc, state, tmp>>
hist   == <<got, accepted, orderly>>
vars   == <<queues, sleep, signal, cpu, pc, nr, tmpbuf, hist, events>>

RUNNING       == "running"
INTERRUPTIBLE == "interruptible"

(***************************************************************************)
(* Points of the code.  Readers: "pop" tty_pop_q, "asleep" the schedule()  *)
(* of interruptible_sleep_on, "take" after sleep_if_empty, "unread" the    *)
(* loop over tmpbuf, "front" and "fill" the two assignments of its         *)
(* tty_push_q_front.  Writers: "push" and "pushed", the loop of            *)
(* _user_tty_write; "drain" the loop of con_write, "wpop", "wasleep",      *)
(* "load" and "drop", its tty_pop_q.  Both: "user", and "return", the end  *)
(* of the call.  Nothing follows "panic", where panic() loops with         *)
(* interrupts off, and "wild", where memory behind tmpbuf is overwritten.  *)
(***************************************************************************)
Stops  == {"panic", "wild"}
Points == {"user", "pop", "asleep", "take", "unread", "front", "fill", "return",
           "push", "pushed", "drain", "wpop", "wasleep", "load", "drop"} \cup Stops

Empty(k, ch) == [buf |-> [i \in Indices |-> ch], head |-> k, tail |-> k]

Init ==
    /\ \E k \in Starts : buffer = Empty(k, 0)
    /\ write_q = Empty(0, OUT)
    /\ wait_proc = [buffer |-> NONE, write_q |-> NONE]
    /\ state = [t \in Tasks |-> RUNNING]
    /\ signal = {}
    /\ cpu = NONE
    /\ pc = [t \in Tasks |-> "user"]
    /\ tmp = [t \in Tasks |-> NONE]
    /\ nr = [t \in Tasks |-> 0]
    /\ tmpbuf = [t \in Tasks |-> <<>>]
    /\ got = [t \in Tasks |-> <<>>]
    /\ accepted = <<>>
    /\ orderly = TRUE
    /\ events = 0

-----------------------------------------------------------------------------
(* Wait queues.                                                            *)

Awake(W) == [t \in Tasks |-> IF t \in W THEN RUNNING ELSE state[t]]

\* interruptible_sleep_on up to its schedule().  Task 0 must not sleep.
interruptible_sleep_on(t, q, at) ==
    \/ /\ t = INIT_TASK
       /\ pc' = [pc EXCEPT ![t] = "panic"]
       /\ UNCHANGED <<sleep, cpu>>
    \/ /\ t # INIT_TASK
       /\ tmp' = [tmp EXCEPT ![t] = wait_proc[q]]
       /\ wait_proc' = [wait_proc EXCEPT ![q] = t]
       /\ state' = [state EXCEPT ![t] = INTERRUPTIBLE]
       /\ pc' = [pc EXCEPT ![t] = at]
       /\ cpu' = NONE

\* Mutant: the queue's pointer is not restored.
Resume_StaysQueued(t, q, next) ==
    /\ cpu = NONE
    /\ state[t] = RUNNING
    /\ IF wait_proc[q] \notin {NONE, t}
       THEN /\ state' = [Awake({wait_proc[q]}) EXCEPT ![t] = INTERRUPTIBLE]
            /\ UNCHANGED <<wait_proc, tmp, pc, cpu>>
       ELSE /\ state' = Awake({tmp[t]})
            /\ pc' = [pc EXCEPT ![t] = next]
            /\ cpu' = t
            /\ UNCHANGED <<wait_proc, tmp>>

\* ... and after it: another task at the front is woken and this one sleeps
\* again; otherwise it leaves the queue and wakes the one behind.
Resume(t, q, next) ==
    /\ cpu = NONE
    /\ state[t] = RUNNING
    /\ IF wait_proc[q] \notin {NONE, t}
       THEN /\ state' = [Awake({wait_proc[q]}) EXCEPT ![t] = INTERRUPTIBLE]
            /\ UNCHANGED <<wait_proc, tmp, pc, cpu>>
       ELSE /\ wait_proc' = [wait_proc EXCEPT ![q] = tmp[t]]
            /\ state' = Awake({tmp[t]})
            /\ tmp' = [tmp EXCEPT ![t] = NONE]
            /\ pc' = [pc EXCEPT ![t] = next]
            /\ cpu' = t

\* schedule() makes a sleeper with a pending signal runnable, unless blocked.
WakeBySignal(t) ==
    /\ cpu = NONE
    /\ t \in signal \ Masked /\ state[t] = INTERRUPTIBLE
    /\ state' = Awake({t})
    /\ UNCHANGED <<queues, wait_proc, tmp, signal, cpu, pc, nr, tmpbuf, hist, events>>

\* accepted without a character that was erased, or for which there was no room
\* when it was to be put back.
Forget(ch) == RemoveFirst(accepted, ch)

-----------------------------------------------------------------------------
(* The keyboard interrupt: do_keyboard_interrupt and copy_to_buffer.       *)

\* The character is echoed: pushed to write_q, which con_write then empties.
\* Nothing here depends on what is shown: any output is OUT.
Echo(q) == LET q1 == tty_push_q(q, OUT) IN [q1 EXCEPT !.head = q1.tail]

Alive == \A t \in Tasks : pc[t] \notin Stops

Key ==
    /\ Alive
    /\ events < MAX_EVENTS
    /\ events' = events + 1
    /\ UNCHANGED <<signal, cpu, pc, tmp, nr, tmpbuf, got>>

\* Mutant: the index is not reduced.
Character_NoWrap(ch) ==
    /\ ch \notin {NL, BS}
    /\ Key
    /\ ~tty_isfull_q(buffer)
    /\ buffer' = [Store(buffer, ch) EXCEPT !.tail = @ + 1]
    /\ accepted' = Append(accepted, ch)
    /\ write_q' = Echo(write_q)
    /\ UNCHANGED <<wait_proc, state, orderly>>

\* An ordinary character is dropped when the buffer is full, but echoed.
Character(ch) ==
    /\ ch \notin {NL, BS}
    /\ Key
    /\ buffer' = tty_push_q(buffer, ch)
    /\ accepted' = IF tty_isfull_q(buffer) THEN accepted ELSE Append(accepted, ch)
    /\ write_q' = Echo(write_q)
    /\ UNCHANGED <<wait_proc, state, orderly>>

\* Mutant: Enter is treated as any character.
Enter_NoWake(ch) ==
    /\ ch = NL
    /\ Key
    /\ buffer' = tty_push_q(buffer, ch)
    /\ accepted' = IF tty_isfull_q(buffer) THEN accepted ELSE Append(accepted, ch)
    /\ write_q' = Echo(write_q)
    /\ UNCHANGED <<wait_proc, state, orderly>>

\* Enter wakes the readers' queue up, pushed or not.
Enter(ch) ==
    /\ ch = NL
    /\ Key
    /\ buffer' = tty_push_q(buffer, ch)
    /\ accepted' = IF tty_isfull_q(buffer) THEN accepted ELSE Append(accepted, ch)
    /\ state' = Awake({wait_proc.buffer})
    /\ wait_proc' = [wait_proc EXCEPT !.buffer = NONE]
    /\ write_q' = Echo(write_q)
    /\ UNCHANGED orderly

\* The test against '\n' looks at the slot the next character will go to.
CanErase == ~tty_isempty_q(buffer) /\ tty_queue_tail(buffer) # NL

\* A Backspace that takes back a line's end, or the last character in the
\* buffer when a reader has just found the buffer not empty, or is putting this
\* character back.
Disturbs ==
    \/ Last(Content(buffer)) = NL
    \/ Length(buffer) = 1 /\ \E t \in Readers : pc[t] \in {"take", "fill"}

Backspace(ch) ==
    /\ ch = BS
    /\ Key
    /\ IF CanErase
       THEN /\ buffer' = [buffer EXCEPT !.tail = (@ + TTY_BUF_SIZE - 1) % TTY_BUF_SIZE]
            /\ accepted' = Forget(Last(Content(buffer)))
            /\ orderly' = (orderly /\ ~Disturbs)
            /\ write_q' = Echo(write_q)
       ELSE UNCHANGED <<buffer, accepted, orderly, write_q>>
    /\ UNCHANGED <<wait_proc, state>>

keyboard_interrupt(ch) == Character(ch) \/ Enter(ch) \/ Backspace(ch)

-----------------------------------------------------------------------------
(* tty_read.                                                               *)

\* A reader's step that touches neither the wait queues nor the processor.
Goes(t, at) ==
    /\ pc' = [pc EXCEPT ![t] = at]
    /\ UNCHANGED <<sleep, cpu>>

tty_read(t, n) ==
    /\ t \in Readers /\ cpu = NONE /\ pc[t] = "user"
    /\ cpu' = t
    /\ pc' = [pc EXCEPT ![t] = "pop"]
    /\ nr' = [nr EXCEPT ![t] = n]
    /\ UNCHANGED <<queues, sleep, signal, tmpbuf, hist, events>>

\* tty_pop_q starts with sleep_if_empty: cli, test, sleep or sti.
sleep_if_empty(t) ==
    /\ cpu = t /\ pc[t] = "pop"
    /\ IF t \notin signal /\ tty_isempty_q(buffer)
       THEN interruptible_sleep_on(t, "buffer", "asleep")
       ELSE Goes(t, "take")
    /\ UNCHANGED <<queues, signal, nr, tmpbuf, hist, events>>

ReaderResumes(t) ==
    /\ pc[t] = "asleep"
    /\ Resume(t, "buffer", "pop")
    /\ UNCHANGED <<queues, signal, nr, tmpbuf, hist, events>>

\* The rest of tty_pop_q and one turn of tty_read's inner loop: the character
\* is delivered, or, once nr is 0, kept to be put back.
Take(t) ==
    LET ch == tty_queue_head(buffer) IN
    /\ cpu = t /\ pc[t] = "take"
    /\ nr[t] > 0 \/ Len(tmpbuf[t]) < TTY_BUF_SIZE
    /\ buffer' = Drop(buffer)
    /\ IF nr[t] <= 0
       THEN /\ tmpbuf' = [tmpbuf EXCEPT ![t] = Append(@, ch)]
            /\ Goes(t, IF ch = NL THEN "unread" ELSE "pop")
            /\ UNCHANGED <<got, nr>>
       ELSE /\ got' = [got EXCEPT ![t] = Append(@, ch)]
            /\ nr' = [nr EXCEPT ![t] = @ - 1]
            /\ Goes(t, IF ch = NL /\ nr[t] = 1 THEN "return" ELSE "pop")
            /\ UNCHANGED tmpbuf
    /\ UNCHANGED <<write_q, signal, accepted, orderly, events>>

\* The same where tmpbuf has no room: the character goes behind its end.
Overrun(t) ==
    /\ cpu = t /\ pc[t] = "take"
    /\ nr[t] <= 0 /\ Len(tmpbuf[t]) >= TTY_BUF_SIZE
    /\ buffer' = Drop(buffer)
    /\ orderly' = FALSE
    /\ Goes(t, "wild")
    /\ UNCHANGED <<write_q, signal, nr, tmpbuf, got, accepted, events>>

\* Mutant: the loop over tmpbuf stops before index 0.
Unread_KeepsFirst(t) ==
    /\ cpu = t /\ pc[t] = "unread"
    /\ IF Len(tmpbuf[t]) <= 1
       THEN Goes(t, "return") /\ tmpbuf' = [tmpbuf EXCEPT ![t] = <<>>] /\ UNCHANGED accepted
       ELSE IF tty_isfull_q(buffer)
       THEN /\ tmpbuf' = [tmpbuf EXCEPT ![t] = Front(@)]
            /\ accepted' = Forget(Last(tmpbuf[t]))
            /\ Goes(t, "unread")
       ELSE Goes(t, "front") /\ UNCHANGED <<tmpbuf, accepted>>
    /\ UNCHANGED <<queues, signal, nr, got, orderly, events>>

\* The loop that puts tmpbuf back, last character first: its test and that of
\* tty_push_q_front, whose -1 for a full buffer is ignored.
Unread(t) ==
    /\ cpu = t /\ pc[t] = "unread"
    /\ IF tmpbuf[t] = <<>>
       THEN Goes(t, "return") /\ UNCHANGED <<tmpbuf, accepted>>
       ELSE IF tty_isfull_q(buffer)
       THEN /\ tmpbuf' = [tmpbuf EXCEPT ![t] = Front(@)]
            /\ accepted' = Forget(Last(tmpbuf[t]))
            /\ Goes(t, "unread")
       ELSE Goes(t, "front") /\ UNCHANGED <<tmpbuf, accepted>>
    /\ UNCHANGED <<queues, signal, nr, got, orderly, events>>

\* head is moved.  If a key has taken the last free slot since the test, head
\* meets tail and everything in the buffer is lost.
StepsBack(t) ==
    /\ cpu = t /\ pc[t] = "front"
    /\ buffer' = StepBack(buffer)
    /\ orderly' = (orderly /\ ~tty_isfull_q(buffer))
    /\ Goes(t, "fill")
    /\ UNCHANGED <<write_q, signal, nr, tmpbuf, got, accepted, events>>

\* Mutant: the loop over tmpbuf runs forwards.
Fills_Forwards(t) ==
    /\ cpu = t /\ pc[t] = "fill"
    /\ buffer' = FillHead(buffer, Head(tmpbuf[t]))
    /\ tmpbuf' = [tmpbuf EXCEPT ![t] = Tail(@)]
    /\ Goes(t, "unread")
    /\ UNCHANGED <<write_q, signal, nr, hist, events>>

\* The slot at head gets its character.
Fills(t) ==
    /\ cpu = t /\ pc[t] = "fill"
    /\ buffer' = FillHead(buffer, Last(tmpbuf[t]))
    /\ tmpbuf' = [tmpbuf EXCEPT ![t] = Front(@)]
    /\ Goes(t, "unread")
    /\ UNCHANGED <<write_q, signal, nr, hist, events>>

-----------------------------------------------------------------------------
(* _user_tty_write and con_write.                                          *)

_user_tty_write(t, n) ==
    /\ t \in Writers /\ cpu = NONE /\ pc[t] = "user"
    /\ cpu' = t
    /\ pc' = [pc EXCEPT ![t] = "push"]
    /\ nr' = [nr EXCEPT ![t] = n]
    /\ UNCHANGED <<queues, sleep, signal, tmpbuf, hist, events>>

\* tty_push_q stores the character, then moves tail; a full queue drops it.
Push(t) ==
    /\ cpu = t /\ pc[t] = "push"
    /\ \/ /\ nr[t] = 0
          /\ Goes(t, "drain")
          /\ UNCHANGED <<write_q, nr>>
       \/ /\ nr[t] > 0
          /\ IF tty_isfull_q(write_q)
             THEN Goes(t, "push") /\ UNCHANGED write_q
             ELSE Goes(t, "pushed") /\ write_q' = Store(write_q, OUT)
          /\ nr' = [nr EXCEPT ![t] = @ - 1]
    /\ UNCHANGED <<buffer, signal, tmpbuf, hist, events>>

Pushed(t) ==
    /\ cpu = t /\ pc[t] = "pushed"
    /\ write_q' = Advance(write_q)
    /\ Goes(t, "push")
    /\ UNCHANGED <<buffer, signal, nr, tmpbuf, hist, events>>

\* con_write's loop test.
Drain(t) ==
    /\ cpu = t /\ pc[t] = "drain"
    /\ Goes(t, IF tty_isempty_q(write_q) THEN "return" ELSE "wpop")
    /\ UNCHANGED <<queues, signal, nr, tmpbuf, hist, events>>

\* con_write's tty_pop_q: sleep_if_empty, ...
WriterPops(t) ==
    /\ cpu = t /\ pc[t] = "wpop"
    /\ IF t \notin signal /\ tty_isempty_q(write_q)
       THEN interruptible_sleep_on(t, "write_q", "wasleep")
       ELSE Goes(t, "load")
    /\ UNCHANGED <<queues, signal, nr, tmpbuf, hist, events>>

WriterResumes(t) ==
    /\ pc[t] = "wasleep"
    /\ Resume(t, "write_q", "wpop")
    /\ UNCHANGED <<queues, signal, nr, tmpbuf, hist, events>>

\* ... then the character is read (and shown), and head is moved.
Load(t) ==
    /\ cpu = t /\ pc[t] = "load"
    /\ Goes(t, "drop")
    /\ UNCHANGED <<queues, signal, nr, tmpbuf, hist, events>>

WriterDrops(t) ==
    /\ cpu = t /\ pc[t] = "drop"
    /\ write_q' = Drop(write_q)
    /\ Goes(t, "drain")
    /\ UNCHANGED <<buffer, signal, nr, tmpbuf, hist, events>>

-----------------------------------------------------------------------------
\* Back to user mode; ret_from_syscall takes the pending signal if it may.
Return(t) ==
    /\ cpu = t /\ pc[t] = "return"
    /\ pc' = [pc EXCEPT ![t] = "user"]
    /\ cpu' = NONE
    /\ signal' = signal \ ({t} \ Masked)
    /\ UNCHANGED <<queues, sleep, nr, tmpbuf, hist, events>>

\* Another task, in user mode, sends a signal.  A task interrupted in user mode
\* takes it, through ret_from_syscall, before its next instruction: it stays
\* pending for those in a call and those that do not take it.
SendSignal(t) ==
    /\ cpu = NONE
    /\ t \in Signalled \ signal
    /\ pc[t] # "user" \/ t \in Masked
    /\ events < MAX_EVENTS
    /\ events' = events + 1
    /\ signal' = signal \cup {t}
    /\ orderly' = (orderly /\ t \notin Readers)
    /\ UNCHANGED <<queues, sleep, cpu, pc, nr, tmpbuf, got, accepted>>

InKernel(t) ==
    \/ sleep_if_empty(t) \/ Take(t) \/ Overrun(t)
    \/ Unread(t) \/ StepsBack(t) \/ Fills(t)
    \/ Push(t) \/ Pushed(t) \/ Drain(t) \/ WriterPops(t) \/ Load(t) \/ WriterDrops(t)
    \/ Return(t)

Resumes(t) == ReaderResumes(t) \/ WriterResumes(t)

TaskStep ==
    \E t \in Tasks :
        \/ \E n \in Counts : tty_read(t, n) \/ _user_tty_write(t, n)
        \/ InKernel(t) \/ Resumes(t) \/ WakeBySignal(t) \/ SendSignal(t)

Next == (\E ch \in Keys : keyboard_interrupt(ch)) \/ TaskStep

(***************************************************************************)
(* A task in the kernel runs on; a runnable one is chosen in the end, and  *)
(* schedule() looks at every sleeper's signals (Sched: NoStarvation and    *)
(* SignalWakes).  Nothing is assumed of programs and of the keyboard.      *)
(***************************************************************************)
Fairness ==
    \A t \in Tasks : /\ WF_vars(InKernel(t))
                     /\ SF_vars(Resumes(t))
                     /\ SF_vars(WakeBySignal(t))

Spec == Init /\ [][Next]_vars /\ Fairness

-----------------------------------------------------------------------------
Queue == [buf : [Indices -> Keys \cup {0, OUT}], head : Indices, tail : Indices]

\* Types.
TypeOK ==
    /\ buffer \in Queue /\ write_q \in Queue
    /\ wait_proc \in [{"buffer", "write_q"} -> Tasks \cup {NONE}]
    /\ state \in [Tasks -> {RUNNING, INTERRUPTIBLE}]
    /\ signal \subseteq Tasks
    /\ cpu \in Tasks \cup {NONE}
    /\ pc \in [Tasks -> Points]
    /\ tmp \in [Tasks -> Tasks \cup {NONE}]
    /\ nr \in [Tasks -> Nat]

\* The buffer without the slot at head that a reader is about to fill.
Filling == \E t \in Readers : pc[t] = "fill"
Settled == IF Filling THEN Drop(buffer) ELSE buffer

Line == INSTANCE LineInput WITH
    Chars <- Keys,
    EOL <- NL,
    CAPACITY <- TTY_BUF_SIZE - 1,
    pending <- LET r == CHOOSE t \in Readers : TRUE IN tmpbuf[r] \o Content(Settled),
    given <- LET r == CHOOSE t \in Readers : TRUE IN got[r],
    busy <- \E r \in Readers : pc[r] # "user",
    want <- LET r == CHOOSE t \in Readers : TRUE IN nr[r],
    ended <- \E r \in Readers : pc[r] \in {"unread", "front", "fill", "return"}

\* For its one reader the terminal is LineInput: sleeping, waking, the loop
\* that puts back what tty_read looked at and the keyboard interrupt between
\* any two of their steps neither lose nor reorder what was typed, but for what
\* a full buffer cannot take back, and a read ends only with a line.  All this
\* while orderly; what ends that is listed at LineInput.
LineDiscipline == Line!Spec

Positions(s, ch)   == {i \in 1..Len(s) : s[i] = ch}
Occurrences(s, ch) == Cardinality(Positions(s, ch))

\* Where readers hold ch: it was given to them, or they are to put it back.
InHands(ch) == UNION {{t} \X Positions(got[t] \o tmpbuf[t], ch) : t \in Readers}

\* With several readers no character is given out twice and none is lost but
\* those a full buffer cannot take back, though the readers take turns in the
\* middle of a line and a writer's output, and signals to it, come in between.
\* The key that takes the last free slot in the middle of tty_push_q_front
\* (RevertKeepsQueue) ends orderly.
CharsConserved ==
    orderly => \A ch \in Keys :
        Cardinality(InHands(ch)) + Occurrences(Content(Settled), ch) = Occurrences(accepted, ch)

\* A complete line never lies in the buffer while every reader in tty_read
\* sleeps: sleep_if_empty tests and sleeps before Enter can slip in between.
NoLineWhileAllSleep ==
    LET inside == {t \in Readers : pc[t] # "user"} IN
    inside # {} /\ (\A t \in inside : state[t] = INTERRUPTIBLE)
        => ~\E i \in 1..Length(buffer) : Content(buffer)[i] = NL

\* Where a queue has one user the wait queue is exact: whoever sleeps is the
\* task wait_proc names, so a wake_up finds it, and wait_proc never names a
\* task that left, by Enter or by a signal, and now sleeps for something else.
SleeperIsQueued ==
    \A t \in Tasks :
        /\ state[t] = INTERRUPTIBLE => wait_proc[IF t \in Readers THEN "buffer" ELSE "write_q"] = t
        /\ wait_proc.buffer = t => pc[t] = "asleep"
        /\ wait_proc.write_q = t => pc[t] = "wasleep"

\* A reader comes back once a line end lies at or behind the last character it
\* still wants, however its sleeps, its put-back loop, its output and further
\* keys interleave, unless orderly ends: Backspace takes that line end away, a
\* put-back loses it, or the reader is signalled or overruns tmpbuf.
ReadReturns ==
    \A t \in Readers :
        (pc[t] # "user" /\ \E i \in 1..Length(buffer) : Content(buffer)[i] = NL /\ i >= nr[t])
            ~> (pc[t] = "user" \/ ~orderly)

-----------------------------------------------------------------------------
(* What the comments say and the code does not do.                         *)

\* tty_queue.c:22, at tty_pop_q: "Here we should check the queue, if emtpy
\* sleep": no character is taken out of an empty buffer.
PopOnlyNonEmpty ==
    [][\A t \in Readers : Take(t) => ~tty_isempty_q(buffer)]_vars

\* tty_io.c:154, at the loop over tmpbuf: "revert the queue and stop the cycle":
\* moving head back makes room for one character more and loses none of those
\* that are there.
RevertKeepsQueue ==
    [][\A t \in Readers : StepsBack(t) => Length(buffer') = Length(buffer) + 1]_vars

-----------------------------------------------------------------------------
(* What holds throughout: the inductive invariants.                        *)

ReaderPoints ==
    {"user", "pop", "asleep", "take", "unread", "front", "fill", "return"} \cup Stops
WriterPoints ==
    {"user", "push", "pushed", "drain", "wpop", "wasleep", "load", "drop", "return"}
        \cup Stops

\* With the types of what is put back and of the history; and what is put back
\* exists.
Types ==
    /\ TypeOK
    /\ orderly \in BOOLEAN
    /\ got \in [Tasks -> Seq(Keys \cup {0, OUT})]
    /\ tmpbuf \in [Tasks -> Seq(Keys \cup {0, OUT})]
    /\ \A t \in Tasks : pc[t] \in {"front", "fill"} => tmpbuf[t] # <<>>

\* Every task is in the code it called, waits in the queue it reads from, and
\* sleeps only there.
Roles ==
    /\ \A t \in Readers : pc[t] \in ReaderPoints /\ tmp[t] \in Readers \cup {NONE}
    /\ \A t \in Writers : pc[t] \in WriterPoints /\ tmp[t] \in Writers \cup {NONE}
    /\ wait_proc.buffer \in Readers \cup {NONE}
    /\ wait_proc.write_q \in Writers \cup {NONE}
    /\ \A t \in Tasks : state[t] = INTERRUPTIBLE => pc[t] \in {"asleep", "wasleep"}

HasLine == \E i \in 1..Length(buffer) : Content(buffer)[i] = NL

\* A reader without rivals sleeps in its queue, and beside no line.
Sleeping ==
    \A r \in Readers :
        /\ state[r] = INTERRUPTIBLE => wait_proc.buffer = r /\ ~HasLine
        /\ wait_proc.buffer = r => pc[r] = "asleep"
        /\ tmp[r] = NONE

\* It puts back only what it looked at after its last character, and, as long
\* as nothing disturbs it, pops only when there is something.
Reading ==
    \A r \in Readers :
        /\ tmpbuf[r] # <<>> => nr[r] = 0 /\ pc[r] \notin {"user", "return"}
        /\ orderly => r \notin signal /\ (pc[r] \in {"take", "fill"} => ~tty_isempty_q(buffer))

\* A writer without rivals: the same for its queue.
Draining ==
    \A w \in Writers :
        /\ state[w] = INTERRUPTIBLE => wait_proc.write_q = w
        /\ wait_proc.write_q = w => pc[w] = "wasleep"
        /\ tmp[w] = NONE

ReadPoints == {"pop", "asleep", "take", "unread", "front", "fill"}

\* Any number of readers: who moves the buffer's head is alone in the kernel
\* and, as long as nothing disturbs it, finds a character at head; what is to be
\* put back was read behind the last character wanted.
Popping ==
    /\ \A t \in Tasks : pc[t] \in ReadPoints => t \in Readers
    /\ \A t \in Tasks : pc[t] \in {"take", "front", "fill"} => cpu = t
    /\ \A t \in Tasks : tmpbuf[t] # <<>> => nr[t] = 0 /\ pc[t] \in ReadPoints \cup Stops
    /\ orderly => signal \cap Readers = {}
    /\ orderly => \A t \in Tasks : pc[t] \in {"take", "fill"} => ~tty_isempty_q(buffer)
    /\ accepted \in Seq(Keys \cup {0, OUT})

OneReader == \E r : Readers = {r} /\ r \notin Writers
OneWriter == \A v, w \in Writers : v = w

TtyInv == Types /\ Roles
ReaderInv == TtyInv /\ Sleeping /\ Reading
CharsInv  == Types /\ Popping /\ CharsConserved

=============================================================================
