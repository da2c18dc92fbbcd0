# neu-os in TLA+

neu-os is a teaching kernel for the i386, modelled on Linux 0.11: a boot
loader, paging with copy-on-write, a scheduler, signals, a terminal with a
keyboard and a VGA console. This directory holds TLA+ models of it, the TLC
configurations that check them and the TLAPS proofs of their main invariants.

The kernel is built with `-O0` (`Makefile.header`), and kernel mode is never
preempted: `do_timer` returns without rescheduling when the interrupted code
ran at CPL 0. What does interleave is user code of several tasks, tasks that
give up the processor inside a system call, and interrupts, which hit kernel
code as well.

## 1. Inventory

| Component | State | Operations | Talks to | Hard parts | What makes it correct |
|---|---|---|---|---|---|
| Memory (`mm/`, `fork.c`, `exit.c`) | `mem_map`, page directory, page tables, frames, `task[]` | fork, write fault, missing-page fault, verified and unverified stores, exit, release | scheduler (slots), terminal (stores into user memory), traps (page fault) | long sequences of fork/fault/exit; failure half way; out of memory | counts exact, writable frames private, memories separate, no internal panic |
| Process lifecycle (`fork.c`, `exit.c`) | pid, father, `last_pid`, zombies, SIGCHLD | fork, exit, tell_father, waitpid | memory, signals | exits of fathers and children crossing each other; pids that wrap | pids unique, every process has a father that can wait, each zombie has been announced to the father it has now |
| Scheduler (`sched.c`, `system_call.s`, `sys.c`) | `current`, state, counter, alarm, pending and blocked signals of each task | tick, schedule, fork, pause, sleep, kill, ssetmask, return from a call | everything that sleeps | a tick at any point; wake-ups, alarms and signals crossing | only runnable tasks run, wake-ups have a cause, nobody starves, sleepers wake |
| Wait queues (`sched.c`) | `wait_proc` and the local `tmp` of each sleeper | interruptible_sleep_on, wake_up | terminal, scheduler | a queue made of stack variables; wake-ups out of turn | a sleeper can be found by its waker |
| Terminal (`chr_drv/tty_*.c`) | read, write and line buffer | key, Enter, Backspace, tty_read, write | keyboard, console, wait queues | interrupt against reader; put-back, whose test and stores are three steps; queue limits | order and number of characters, a waiting line is read |
| Keyboard decoding (`do_keyboard.c`) | shift, ctrl, alt, caps | press, release | terminal | flags that live between interrupts and are shared by two keys | no modifier sticks |
| Signals (`signal.c`, `libc_restore.s`) | action table, mask, frames on the user stack | sigaction, ssetmask, do_signal, restorers | scheduler, return path | nested handlers, a signal inside a restorer | the interrupted context comes back; masks add up |
| Console (`vga_console.c`) | `video_x`, `video_y`, the cursor's registers, video memory | video_putchar, roll_screen, update_cursor | terminal, printk | keyboard interrupts nest inside the code | the cursor returns to the screen, stores stay near it, what is shown is where one prints |
| Formatted output (`vsprintf.c`, `printk.c`) | the format, the arguments, the buffer | vsprintf, _sprintnum, printk | terminal | digits in reverse, zero, negative and smallest ints; arguments taken one by one | numbers can be read back, arguments match directives |
| Boot (`bootsect.s`, `setup.s`) | memory, disk position | move, read setup, read system, move down, enter protected mode | BIOS | 64KB and track limits, failing reads | the image is complete and in order, booting ends |
| Start-up (`head.s`, `main.c`) | interrupt table, 8259 masks and requests, interrupt flag, what is initialised | the calls of `main()` | traps, scheduler, terminal | initialisers that overwrite each other's gates and open lines one by one | no interrupt before what serves it |
| Traps (`traps.c`, `asm.s`) | the stack of an exception | the 17 gates, `no_error_code`, `error_code` | memory (page fault) | two stack layouts, pops that mirror them | a program that goes on has its registers |
| Block requests (`blk_drv/`) | request list | make_request, add_request | none | | not part of the kernel, section 7 |
| System call wrappers, port macros | none | | | | single instructions, section 7 |

Hazards, each with its source line and the properties aimed at it, are in
`PROJECT.json`.

## 2. Modules

| Module | Models | Builds on | TLC instance | Proofs |
|---|---|---|---|---|
| `Memory` | memory manager, fork, exit, release | | `MCMemory` | `MemoryProofs` |
| `AddressSpace` | abstract: private memories that fork copies | | through `MemoryRefinement` | `RefinementProofs` |
| `MemoryRefinement` | `Memory` implements `AddressSpace` | `Memory` | `MCMemory` | `RefinementProofs` |
| `Process` | pids, fathers, exit, SIGCHLD, waitpid | `Memory` | `MCProcess` | `ProcessProofs` |
| `Sched` | scheduler, timer, sleep and signals | | `MCSched` | `SchedProofs` |
| `TtyQueue` | the circular queue, as operators | | through `Tty` | `TtyProofs` |
| `LineInput` | abstract: a terminal with one reader | | through `Tty` | `TtyProofs` |
| `Tty` | terminal, wait queues, keyboard interrupt | `TtyQueue` | `MCTty` | `TtyProofs` |
| `Keyboard` | modifiers and decoding in front of the terminal | `Tty` | `MCKeyboard` | `TtyProofs` |
| `Signal` | delivery of signals to one process | | `MCSignal` | `SignalProofs` |
| `Boot` | boot loader | | through `Startup` | `BootProofs` |
| `Startup` | protected mode to user mode, interrupts, exceptions | `Boot` | `MCBoot` | `BootProofs` |
| `Console` | video_putchar, update_cursor, nested interrupts | | `MCConsole` | `ConsoleProofs` |
| `Format` | vsprintf and printk | | `MCConsole` | `ConsoleProofs` |

A definition whose name ends in `_Something` and whose comment says "Mutant"
or "Variant" is a wrong variant of the definition behind it. No specification
uses it; put in place of the right one it makes a property fail, which shows
that the property is about that code.

### Memory

Slot `s` of `task[]` stands for the task, its directory entry and its page
table (segments are 640KB, so each task has one). `pte[s][p]` is a frame and a
protection (`NP` not present, `RO`, `RW`); `mem_map` counts users of the
frames from `LOW_MEM` up; `content` is what a frame holds, one value per
frame. Since kernel mode is not preempted and no interrupt handler touches
pages, a system call or fault is one action.

| Action | Code |
|---|---|
| `Fork`, `ForkFails` with `RollBack` | sys_fork, copy_process, copy_mem, copy_page_tables; their failures, with what was taken given back |
| `do_wp_page`, `UnWpOom` | write fault on a present page; out of memory in it |
| `do_no_page`, `NoPageOom` | fault on a missing page |
| `UserWrite`, `VerifiedStore`, `TtyStore` | a store by the program; by the kernel after verify_area; by tty_read without it |
| `Exit`, `ExitOrphan`, `ExitOfTask0`, `Release` | do_exit with and without a father, free_page_tables, release |
| `Halted` | panic |

`EXIT_WIRED` and `REAP_WIRED` say whether `do_exit` and `release` can be
reached. In this commit they cannot: their entries in `sys_call_table` are
stubs, and the only caller of `release` on a zombie, waitpid, never finds one
(section 6). The runs have both TRUE, so that the code behind them is checked
as well; the steps of the built kernel are then a subset of the model's. The
theorems hold for every combination.
`COPY_PAGES` may be smaller than `USER_PAGES`: then a child of task 0 lacks
pages and the missing-page fault occurs.

### AddressSpace and MemoryRefinement

`AddressSpace` says what processes may rely on: a memory each, a copy at fork,
and nothing of what others store. `SeparateMemories` is the refinement; `view`
is what a slot's page table lets it read, `peers` the slots that have the same
frame. Two promises are weaker because the code's are. Task 0 works on low
frames that its children map read-only and that are not counted, so its stores
are seen by children that have not written the page; and `tty_read` stores
without `verify_area`, so its store reaches all sharers. Both must still reach
the sharers only. A history variable labels the second kind of store, so that
no other store can pass for one. A page that is un-shared may come out
cleared, which is the finding `memory_cow`.

### Process

Every step is a step of `Memory` together with what it does to the fields of
the task structures.

| Action | Code |
|---|---|
| `sys_fork`, `sys_fork_fails` | find_empty_process (with `NextPid` for its loop), copy_process |
| `do_exit` | do_exit, send_sig, tell_father |
| `sys_waitpid` | verify_area, then the loop, which skips every task |
| `reap` | the case of a zombie in that loop, with release |

waitpid is modelled as it is coded: the test at `exit.c:118` skips every slot
that holds a task, so that the call never sleeps and always ends with -ECHILD,
after `verify_area` has un-shared the page for the status. `release` is
therefore never reached on a zombie; `reap` is what it does for the zombie's
father, as a step of its own that `REAP_WIRED` allows. It takes nothing from
the loop but that a father releases its own children. Without it no slot, frame
or pid of a process that exited would ever be used again, and half of
what fork and exit are written for would not happen. `heard[t]` is a history: the zombies `t` can know of by the last
SIGCHLD sent to it.

### Sched

`alarm[s]` stands for `alarm - jiffies` and is counted down by ticks; `pc`
says whether a task is in user code, between the store of TASK_INTERRUPTIBLE
and the `schedule()` of pause or sleep, behind that `schedule()`, behind a
system call's handler, or at `ret_from_syscall`. A tick in kernel mode only
counts (`TickInKernelMode`) and can come between any two of these. `schedule`
is one step: a tick inside it changes a counter or `jiffies`, which is taken to
happen before it or after it. `Masks` are the masks programs pass to ssetmask and, as
`sa_mask`, to sigaction. Task slots are only taken, as in the built kernel.

### TtyQueue, Tty and LineInput

Indices are taken modulo `TTY_BUF_SIZE`, which divides 2^32. A task is at one
of the points listed at the head of `Tty`; a keyboard interrupt may come
between any two of its steps except within the cli/sti of `sleep_if_empty`.
One interrupt is taken to end before the next key: `read_q` is filled and
emptied within it and has no variable. Which runnable task `schedule()` picks
is left open. `Take`, `Unread`, `StepsBack` and `Fills` are `tty_read`'s loop:
the pop; and for what is put back the test for a full buffer, the move of
`head` and the store, between which keys come. `Overrun` is the first store
behind the end of `tmpbuf`; the model stops there, as it does where task 0
would sleep and `interruptible_sleep_on` panics. `Drain`, `WriterPops`, `Load`
and `WriterDrops` are `con_write` called for a task, with the pop split in two
because the echo of a key drains the same queue.

A signal stays pending only for a task inside a call, and for one that blocks
it (`Masked`); a task interrupted in user mode takes it through
`ret_from_syscall` before it can call `tty_read`. `Masked` tasks are not woken
by it. A task that was just forked is an exception the model leaves out: a
signal sent before its first instruction is pending until its first interrupt.

`LineInput` is what is left of this for one reader: a sequence of typed
characters, and a read that takes from its front and ends when a line ends at
or after its last character. `LineDiscipline` is the refinement; the typed
characters are the buffer with what the reader holds to put back in front of
it. The promise ends (`orderly` becomes FALSE), exactly where the code breaks
it (section 6), with

- a Backspace that hits the character being popped or put back,
- a Backspace that takes back the end of a line,
- a signal to a reader,
- a key that takes the last free slot between the test of `tty_push_q_front`
  and its move of `head`: `head` meets `tail` and the buffer looks empty,
- a character stored behind the end of `tmpbuf`.

A full buffer that the test of `tty_push_q_front` finds does not end it:
`Overflow` allows the loss of characters beyond the capacity, and of no others.

`accepted` is the history `CharsConserved` counts against: what was put into
the buffer, less what Backspace took back and what a full buffer could not
take back from a reader (`Forget`).

### Keyboard

`held` is the hardware, the modifier keys that are down; the flags are the
driver's. A key is decoded with the flags and given to `Tty`'s
`keyboard_interrupt`. The tables are constants: a letter, Enter, Backspace.
The prefix 0xE0 of the right-hand keys is a release of no key and has no
action.

### Signal

One process; words on its stack and registers hold "a value of context n",
which is enough to see whether the context below gets back exactly what it
had. Restorers run instruction by instruction and can be interrupted after
each. The model pairs each kind of frame with its own restorer: a program that
pairs them wrongly has a stack that is off by a word. `active` is a history of
the handlers entered, with the registers and stack each interrupted.

### Boot and Startup

`Boot`: memory in sectors of 512 bytes, each holding the number of the disk
sector it came from; segment registers in units of 0x1000. A BIOS read
succeeds, or fails after any number of its sectors. What the BIOS accepts (one
track, one 64KB segment) is `Readable`.

`Startup` goes on from there. `end_move` and `startup_32` set up the 8259s and
the interrupt table, where `startup_32` may never leave its loop that waits for
the A20 line (`"A20_off"`); the calls of `main()` are one action each, in the order of
`main_calls`, and between any two of them the timer or the keyboard may
request an interrupt and have it served, if flag, mask and priority let it
through. Serving it before the table and data it needs are there halts the
system in `"interrupt"`; printing before there is a terminal, in
`"null_call"`. In user mode programs raise exceptions: `Saved` is the stack
the two entries of `asm.s` build over what the processor pushes, `Popped` what
they take off. `Raised` leaves out 7 and 16, which return with a broken frame
(section 6); 14 is the page fault, in `Memory`.

### Console

Every load and store of `video_x` and `video_y` and every port write of
`update_cursor` is a step of the innermost call of `video_putchar`. An
interrupt pushes a new call on top. The screen of the run is 3 by 2 with tab
stops at 3, which keeps the one relation the code depends on: the width is a
multiple of the tab length. A call in progress can leave `video_x` up to
`TAB_LEN` columns behind the right edge (a tab that finds itself there goes on
to the next stop), one column before the left edge, and `video_y` one row off;
with tab stops at 2 the first would look like one column. The value of a port
byte is 0 to 2: the six cells need both bytes of the position.

### Format

One turn of vsprintf's loop is an action. A character of the output is a
number: a digit is its value, text and the minus sign are negative. Arguments
are ints, and as strings point at a length. `_sprintnum` is a function from
int to text, with C's division and a width of `INT_BITS`.

## 3. Runs

States and times are with two workers.

| Run | Checks | Instance | Result |
|---|---|---|---|
| `memory` | types, panics, exact counts, private frames, the inductive invariant, and `SeparateMemories` | 4 tasks, 7 frames, 2 pages of which a child of task 0 gets 1, contents {0, 1} | holds, 17 448 states, 75 s |
| `memory_cow` | the comment on copy-on-write | 2 tasks, 4 frames | violated (finding) |
| `process` | pids, adoption, fathers, announced zombies | 5 slots, 8 frames, 2 pages, pids up to 4, 6 forks | holds, 231 930 states, 75 s |
| `sched` | scheduler safety and liveness | 3 tasks, slices of 2 ticks, SIGKILL and SIGALRM sent, delay 1 | holds, 192 372 states, 110 s |
| `sched_kill` | the comment on waking for a signal | the same, SIGKILL only | violated (finding) |
| `tty_line` | wait queue, no lost wake-up, modifiers, `LineDiscipline`, the read returns | one reader with signals, queue of three, four key events | holds, 276 922 states, 40 s |
| `tty_shared` | types; no character lost or duplicated, but for what a full buffer cannot take back | two readers that ask for 0 or 2 characters, two writers, one signalled and one task 0, a queue of three, four key events | holds, 5.1 million states, 160 s |
| `tty_signal` | the comment on popping an empty queue | one reader with signals | violated (finding) |
| `tty_revert` | the comment on reverting the queue | one reader that asks for 0 characters, four keys | violated (finding) |
| `signal` | nested handlers | depth 2, three signals | holds, 414 110 states |
| `boot` | image in place, interrupts served, registers kept, user mode reached | real sizes, 8, 9, 15, 18 and 36 sectors; real gates | holds, 2 260 states, 45 s |
| `console` | cursor, stores and cursor register; numbers and arguments of printk | up to three calls in progress; ints of 11 bits, formats of up to 4 characters | holds, 2 847 572 states, 50 s |

Bounds and why they are enough.

- `memory`: four tasks give four generations and sharing among four; seven
  frames run out, since a task takes two for itself; two pages with one
  inherited reach both the shared and the missing page. Two contents tell a
  store, a copy and a cleared page apart. TLC identifies states that differ
  in what a free frame still holds, which get_free_page clears, or in the names
  of the managed frames (`UpToFrames`): any free frame serves as well as another.
- `process`: a zombie that is handed over, and whose new father is told, needs
  three processes besides process 1's father; with five slots there is one more
  to exit in between. Pids wrap at 4, which is the least the search needs; six
  forks, failed ones included, fill the slots and then start over in released
  ones with pids that were in use before. TLC identifies states that differ in the names of
  the frames (`UpToFrames` of `MCProcess`); `mem_map` is determined by the page
  tables (`RefCountsCorrect`).
- `sched`: two tasks besides task 0 are needed for one to sleep while another
  runs and sends; the slice of 2 makes halving and refilling differ.
- `tty_line`: a queue of three and four key events reach a line longer than
  the read, one shorter than it, keys during the put-back, and a buffer the
  keys fill while the reader holds characters.
- `tty_shared`: four keys fill the buffer while readers hold characters, so
  that putting back loses some, which `accepted` then forgets; a read of 0
  holds everything up to the line's end. Of the two writers one is signalled
  while it sleeps, and the other is task 0, which panics instead. Readers are
  symmetric; only safety is checked here.
- `signal`: depth 2 is a handler inside a handler inside the program; a third
  level repeats the second.
- `console`: the second nested call is what makes a coordinate leave its range
  twice. TLC identifies states that differ in the cell stored to last, which no
  step reads, as long as both are where `StoresNearScreen` allows (`UpToCell`). Formatting and the console share no variable, so the run looks at each
  while the other is idle (`OutputSpec`). Eleven bits hold four digits; formats
  of four characters hold two directives, or one behind "%%" or an unknown
  letter.

Deadlock is not checked where the system may stop: an idle terminal, and a
program that dies of an exception, after which the kernel loops in `die`.

## 4. Fairness

- `Sched`: weak fairness of the timer tick and of the running task's kernel
  code. The 8253 keeps ticking and kernel code is not preempted. Nothing is
  assumed of user programs.
- `Tty`, `Keyboard`: weak fairness of the task that executes in the kernel;
  strong fairness of a runnable task being resumed and of a signal ending a
  sleep. The last two are what `NoStarvation` and `SignalWakes` establish for
  the scheduler. Nothing is assumed of the keyboard.
- `Boot`: the processor goes on, and a read that the BIOS can do succeeds if it
  is tried for ever. A read it cannot do never succeeds.
- `Startup`: the processor goes on, as weak fairness of `end_move`,
  `startup_32` and `main`. Nothing is assumed of the clock and the keyboard.
- `Memory`, `Process`, `Signal`, `Console`, `Format`: safety only, no fairness.

## 5. Proofs

All theorems hold for every value of the constants that satisfies the named
assumptions, and their proofs are checked to the last leaf. An invariant a run
checks is seldom preserved by a step on its own; each component's module ends
with the inductive one, checked with TLC first. In each proof module there is
one lemma per action (or per group of actions that disturb the same
conjuncts), and the theorems at its end combine them.

**Memory** (`MemoryProofs`; from `SizeAssumption`, `ValueAssumption`,
`WiringAssumption`: any number of tasks up to 255, any memory size).
`TypeCorrect`, `MemoryCorrect`, `RefCountsCorrect`, `WritableFramesPrivate`,
`PanicsOnlyWhenOutOfMemory`. Exact counts alone are not inductive: fork raises
a count once per entry, so it must be known that a process holds a frame in one
place (`OnePlacePerSlot`); exit frees the page table and the entries one by
one, so page tables and task structures must have a single user
(`KernelFramesExclusive`); a new task's slot must be empty
(`SlotsConsistent`); task 0 must keep its low memory (`Task0Fixed`). The proof
rests on three changes to the table of users: an entry redirected to a fresh
frame (`RedirectKeepsInv`), places forgotten (`ForgetKeepsInv`), nothing
touched (`UntouchedKeepsInv`). The byte never wraps because a process
contributes at most one user per frame (`ColumnBound`) and there are at most
255.

**Separate memories** (`RefinementProofs`). `MemoriesAreSeparate`: `Memory`
with its labels implements `AddressSpace`. The initial states map to its
initial states, and each action maps to one of its steps: a fork to a copy, an
un-sharing to a page that keeps its content or is cleared, a store to a store
that its sharers see if it was unverified or by task 0 to low memory. That a
store is seen by nobody else is `NoWritableSharing`; that the sharers see it at
the same page is `SamePageNumber` (`FramesKeepTheirPage`), which `MemoryInv`
does not contain and which has to be proved beside it: fork copies entries to
the same index.

**Process** (`ProcessProofs`; adds `ProcessAssumption`).
`ProcessImplementsMemory`: every step is a step of `Memory`, so `MemoryInv`
comes for free. `ProcessCorrect` proves `ProcessInv`, and `ProcessTypeCorrect`,
`PidsAreUnique`, `FathersLive`, `FathersFound` and `ZombiesAnnounced` follow.
What had to be added: process 1 is in slot 1, its father is task 0, and as
task 0 never waits it is never released (`FirstChild`), so that a child handed
over has a father, and process 1, which is told, is the process in slot 1.
`FatherFound` is a consequence (`FatherIsFound`), with the smallest slot that
has the father's pid. That the pid given out is free (`NextPidFree`) rests on there being one left
while a slot is free, which is counting (`PidLeft`).

**Scheduler** (`SchedProofs`; from `SchedAssumption`). `SchedCorrect`,
`SchedTypeCorrect`, `RunnableRuns`, `WakeupsJustified`, and the action property
`MaskedSignalsAreKept`. `SchedInv` adds that task 0 is never in pause or sleep
(`IdleNeverSleeps`): `schedule()` falls back on task 0 without looking at its
state. `RunnableRuns` covers the steps between the store of
TASK_INTERRUPTIBLE and `schedule()`: the task that runs is then the only one
there (`FallsAsleep`). The facts about `schedule()` are in `ScheduleFacts`, used for each of
its callers; the bound on counters is `RefilledType`.

**Signals** (`SignalProofs`; any depth). `SignalCorrect`, `SignalTypeCorrect`,
`HandlersStayMasked` and the action property `ContextsRestored`. The invariant
`WellNested` says for each context, running or interrupted, at which
instruction of which restorer it is, that the registers already popped are in
place, that those still to be popped lie on its stack in the restorer's order,
and that below them lies the stack of the context it interrupted. A delivery
adds a level with nothing popped; an instruction of a restorer moves one word;
the last `ret` leaves the registers and stack of the level below.

**Console** (`ConsoleProofs`; any screen whose width is a multiple of the tab
length and whose cells fit two bytes, any depth). `ConsoleCorrect`,
`ConsoleTypeCorrect`, `CursorStaysOnScreen`, `StoresStayNear`, `CursorIsShown`.
The invariant gives the running call the range of the coordinates at its place
in the code (`Within`) and every interrupted call the range of what it has
loaded and will use (`Held`). The lower ends count the calls below that have
decremented a coordinate and not yet tested it (`Pending`); the upper ends
count all calls below. A call that returns has brought both coordinates back
below the upper edge whatever it found. The attempt to prove the type
invariant corrected it: its bound on `video_x` was right only for a tab length
of at most 2.

**Boot and start-up** (`BootProofs`; from the assumptions of `Boot` and
`Startup`: any image size, setup length and geometries). `BootCorrect`,
`BootTypeCorrect`, `ImageArrives`. The disk position and the address stay in
step (`InStep`), what has been read is in place (`Loading`), and the move down
works segment by segment from the bottom (`Moving`). `StartupBoots`: the
composed specification implements `Boot`'s, which gives
`ImageArrivesAtKernel`. `StartupCorrect` proves `KernelInv` (the calls of
`main()` in order, what each has put in place, interrupts closed until all of
it is there), from which `InterruptsAreServed`. `TrapsAreTransparent` has the
hypothesis that 7 and 16 are not among the exceptions raised: these two return
through a broken frame (section 6), and the lemma `FpuTrapsBreak` shows that
the hypothesis is needed.

**Terminal** (`TtyProofs`; from `QueueAssumption`, `TtyAssumption` and
`KeyboardAssumption`). The first part is about the circular queue: what
`Content` is after a push, a pop, the move of `head` backwards, a store at
`head` and a Backspace (`PushContent`, `DropContent`, `StepBackContent`,
`FillContent`, `ErasedContent`), with the indices modulo the size. Then:

- `TtyTypeCorrect`, for any readers and writers; `ModifiersRelease`.
- `ReaderCorrect`, `NoWakeupLost`: with one reader (`OneReader`) `ReaderInv`
  holds, and it never sleeps beside a line. `WaitQueuesExact` also needs one
  writer (`OneWriter`). The hypotheses are those under which the code is right:
  a second task on the same queue can be stranded (section 6). They are stated
  for `KeyboardSpec`, the specification the run checks.
- `LinesAreKept`: with one reader the terminal implements `LineInput`, until
  one of the five accidents of section 2 makes `orderly` FALSE. Its sequence is what the reader holds to put back, followed by the buffer
  (`Pending`); so that taking a character to look at it is no change, and
  putting it back is none or an overflow. Between the move of `head` and the
  store the slot at `head` holds garbage, which `Settled` leaves out of what is
  read. Keys come in between (`KeySettled`), and do no harm unless one takes the
  last slot before the move. Each action is shown to be a step of
  `LineInput` or a stutter as long as `orderly` is TRUE, and `orderly` to stay
  FALSE.

- `CharsCorrect`, `CharactersAreConserved`: with any finite set of readers
  characters are conserved, until one of the same accidents; neither `OneReader` nor `OneWriter` is assumed, and
  a task may both read and write. `CharsConserved` is not inductive alone: a
  pop out of an empty buffer would give a character out twice. `Popping` adds
  that who is at "take" or in a put-back has the processor and, while `orderly`,
  finds something;
  and that `tmpbuf` is filled only once `nr` is 0, so that every character a
  reader takes comes last among those it was given and those it will put back. The counts are cardinalities of
  sets of positions (`Positions`, `InHands`), so that the lemmas need no sum
  over the readers: `HandsSplit` takes one reader's share out of the union,
  `HandsMove` says what a character more or less for one reader changes, and
  `OccurAppend`, `OccurConcat`, `OccurForget` say the same of one sequence. What
  they need of induction is taken from the least member of a set of naturals
  (`LeastMember`). `TtyAssumption` says that the set of tasks is finite:
  `task[]` has `NR_TASKS` entries.

An earlier attempt showed that `CharsConserved` held only within the run's
bounds: a put-back into a full buffer loses characters, which three keys did
not reach. The history now forgets them, and the run reaches the case.

**Formatted output** (`ConsoleProofs`; from `FormatAssumption`: an int of any
width, formats of any length, any arguments). `FormatCorrect`,
`ArgumentsAreMatched`, `NumbersAreReadBack`. `FormatInv` says that `vsprintf`
always stands where an even number of '%' lies behind it (`EvenRun`), so that
the '%' it meets starts a directive exactly when `StartsDirective` says so; that
it has taken one argument for each conversion that started before (`Matched`);
that its output holds no garbage if the arguments suffice (`Clean`); and that
behind a conversion alone stands what `_sprintnum` returns (`Single`). What
`_sprintnum` and the reading back compute is defined by recursive functions:
their equations are proved to have a solution, the facts about their values by
the least number that would violate them.

Only model-checked: liveness (`NoStarvation`, `SleeperWakes`, `SignalWakes`,
`ReadReturns`, `StartupCompletes`), which is beyond the proof system. Every
invariant and every action property of the passing runs is proved.

## 6. Findings and further observations

Four disagreements of the code with its comments are shown by runs:
`memory_cow`, `sched_kill`, `tty_signal`, `tty_revert`. Five more are listed in
`findings` of `PROJECT.json` without a run: Backspace behind a line's end
(`tty_io.c:55`), the two tests of waitpid (`exit.c:118`, `exit.c:138`), the
entries of #NM and #MF (`asm.s:190`) and the memory that is managed
(`main.c:67`).

Seen while modelling, without a run of their own:

- Signals and sleeping. `sys.c:22` "when sleep wakeup, we clear the alarm": the
  code clears the pending SIGALRM, not `alarm`, so a sleep ended by another
  signal leaves an alarm that ends a later pause. `sleep(0)`, or a sleep with
  SIGALRM blocked, has nothing that ends it. `jiffies` is a signed long:
  after 2^31 ticks (248 days) no alarm goes off. `signal.c:81` says SIGKILL
  cannot be masked; `do_signal` ors `sa_mask` into `blocked` unfiltered.
  `libc_restore.s:13`: `__masksig_restore` drops the saved mask; the signals a
  handler blocked stay blocked after it. `signal_demo.c:33` uses
  `__sig_restore` for a frame with a mask.
- Terminal. `tty_io.c:163`: `tty_read` stores into user memory without
  `verify_area`; with CR0.WP clear the store reaches a page shared after fork,
  although `memory.c:326-328` says any write to it triggers copy-on-write.
  `tty_io.c:57`: Backspace between a reader's test and its pop empties the
  buffer the reader then pops from. `tty_io.c:150-152`: what is put back into a
  full buffer is lost. `tty_io.c:148`: one reader is enough to store behind the
  end of `tmpbuf`: the buffer is full, Enter is dropped but wakes the reader,
  and keys go on while it collects. `sched.c:141`: a task 0 whose characters the
  echo has printed panics where another writer would sleep. `sched.c:151`: with two readers one can be stranded, and
  two sleepers with signals pending can wake each other for ever.
  `tty_io.c:98`: a writer whose characters the echo has already printed sleeps
  on `write_q`, and nothing wakes that queue; a pop it makes after such a drain
  leaves the queue looking full.
- Keyboard. The right Shift key is in the decoding table and types a
  character. Caps and Shift together give upper case for the letters of the
  shifted table. Left and right Ctrl, and left and right Alt, share a flag:
  releasing one releases both. The handler acknowledges the 8259 before it
  has handled the key and sits behind a trap gate, so that it can interrupt itself
  (and `read_q`'s store and index are then not one step) and can sleep inside
  the interrupt.
- Traps. Gate 6 (invalid opcode) is `double_fault`. The entry of `debug` pushes
  `do_int3`. `device_not_available`, `coprocessor_error` and `irq13` return
  through a frame that is off by a word.
- Output. `%x` and `%u` of a negative number, and `%d` of the smallest int,
  index the digit table below its start. `vsprintf` has no bound on its
  destination. `main.c:99` prints `"%s@neu-os$"` without an argument.
- Console. Backspace in the top left corner moves the cursor to the second
  row: `video_x` becomes 80, which the code below takes for a full row.

## 7. Not modelled

- `kernel/blk_drv`: no makefile compiles it, no driver sets `request_fn` and
  nothing calls `ll_rw_block`. Its state is never part of the running program,
  so there is nothing a model could be faithful to. (As written, the search for
  a free request in `make_request` tests `available` the wrong way round and
  would not end.)
- `sleep_on`, `get_cursor`: no caller. `sys_signal`, `sys_sgetmask`: the first
  is not in `sys_call_table`, the second only reads.
- The serial port: a busy wait and a store, and the same two loops as
  `vsprintf`. The size of the buffer printk works in. What a store behind the
  end of `tmpbuf` destroys: the model stops at the first.
- The demo programs behind `move_to_user_mode`. They are users of the kernel,
  and the models allow any program.
- Absolute time: `jiffies` and its overflow; `cutime`, `start_time`, exit codes.
- Nested keyboard interrupts in the terminal (they are in `Console`).
- The data in a page, a message or a frame beyond what a property compares;
  what handlers print.
- TSS and LDT contents, segment descriptors, the TLB flush, and the
  system-call wrapper macros: single instructions without control.

## 8. What could follow

The proofs cover every safety property the runs check. Beyond them:

1. The hazards without a property (`PROJECT.json`) need a model with more
   detail: `alarm` across two sleeps, and a keyboard interrupt between the store and the index of `tty_push_q`.
2. The serial port's busy wait, with a model of the port's status register.
3. `blk_drv`, once something calls it.
