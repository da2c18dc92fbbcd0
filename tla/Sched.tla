-------------------------------- MODULE Sched -------------------------------
(***************************************************************************)
(* The scheduler: schedule(), do_timer and the blocking system calls of    *)
(* kernel/sched.c and kernel/sys.c, the system-call and timer paths of     *)
(* kernel/system_call.s, and the part of the signal machinery that decides *)
(* who wakes up (kernel/exit.c:sys_kill, kernel/signal.c:sys_ssetmask).    *)
(*                                                                         *)
(* One task is current.  It runs user code, or it is inside a system call; *)
(* a task that is not current resumes after the schedule() it called.  The *)
(* timer may interrupt at any of the points below, but only a tick that    *)
(* hits user mode can switch tasks; schedule() itself is one step.         *)
(***************************************************************************)
EXTENDS Integers, FiniteSets

CONSTANTS
    NR_TASKS,     \* slots of task[]; all of them are taken by fork, none is given back
    PRIORITY,     \* the time slice, 15 for every task (INIT_TASK, inherited by fork)
    Signals,      \* signal numbers
    SIGALRM,
    Unblockable,  \* SIGKILL and SIGSTOP: the signals missing from _BLOCKABLE
    SIGKILL,
    Sent,         \* signals user programs send with kill
    Delays,       \* HZ * seconds, as ticks, that programs pass to sleep
    Masks         \* masks programs pass to ssetmask, and to sigaction as sa_mask

ASSUME SchedAssumption ==
    /\ NR_TASKS \in Nat /\ NR_TASKS >= 2
    /\ PRIORITY \in Nat /\ PRIORITY >= 1
    /\ Signals \subseteq Nat
    /\ SIGALRM \in Signals \ Unblockable
    /\ SIGKILL \in Unblockable
    /\ Sent \subseteq Signals
    /\ Delays \subseteq Nat
    /\ Masks \subseteq SUBSET Signals

VARIABLES
    task,      \* the slots in use
    current,   \* the slot of the running task
    state,     \* TASK_RUNNING or TASK_INTERRUPTIBLE
    counter,   \* ticks left of the slice
    alarm,     \* ticks until the alarm goes off, OFF if none is set
    signal,    \* pending signals
    blocked,   \* masked signals
    pc         \* where the task is, or where it resumes after schedule()

vars == <<task, current, state, counter, alarm, signal, blocked, pc>>

-----------------------------------------------------------------------------
Slots == 0..(NR_TASKS - 1)

RUNNING == "running"
INTERRUPTIBLE == "interruptible"

(***************************************************************************)
(* The code keeps alarm as a value of jiffies and tests alarm < jiffies.   *)
(* Here alarm is counted down by every tick instead: alarm[s] stands for   *)
(* alarm - jiffies, and the test becomes alarm[s] = EXPIRED.               *)
(***************************************************************************)
OFF     == -2
EXPIRED == -1
Aged(al) == [s \in Slots |-> IF al[s] >= 0 THEN al[s] - 1 ELSE al[s]]

(***************************************************************************)
(* Points of the code:                                                     *)
(*   user    executing the program                                         *)
(*   pausing, sleeping   in sys_pause or sys_sleep, before schedule()      *)
(*   pause, sleep        the same, after schedule()                        *)
(*   return  in system_call, after the handler (lines 59-64)               *)
(*   sigret  at ret_from_syscall (lines 65-95)                             *)
(***************************************************************************)
FallingAsleep == {"pausing", "sleeping"}
Asleep == {"pause", "sleep"}
Points == {"user", "return", "sigret"} \cup FallingAsleep \cup Asleep

Init ==
    /\ task = {0}
    /\ current = 0
    /\ state = [s \in Slots |-> RUNNING]
    /\ counter = [s \in Slots |-> IF s = 0 THEN PRIORITY ELSE 0]
    /\ alarm = [s \in Slots |-> OFF]
    /\ signal = [s \in Slots |-> {}]
    /\ blocked = [s \in Slots |-> {}]
    /\ pc = [s \in Slots |-> "user"]

-----------------------------------------------------------------------------
(* schedule()                                                              *)

\* Tasks the two loops look at: every task but task 0.
Others == task \ {0}

\* A task whose alarm went off gets SIGALRM.
AfterAlarms(sig, al) ==
    [s \in Slots |-> IF s \in Others /\ al[s] = EXPIRED THEN sig[s] \cup {SIGALRM} ELSE sig[s]]

\* signal & (_BLOCKABLE & ~blocked): the pending signals that end a sleep.
Wakes(sig, s) == sig[s] \ (Unblockable \cup blocked[s])

\* Mutant: the loop starts one slot too low.
AfterWakeups_SkipsLast(st, sig) ==
    [s \in Slots |-> IF s \in Others \ {NR_TASKS - 1} /\ st[s] = INTERRUPTIBLE /\ Wakes(sig, s) # {}
                     THEN RUNNING ELSE st[s]]

AfterWakeups(st, sig) ==
    [s \in Slots |-> IF s \in Others /\ st[s] = INTERRUPTIBLE /\ Wakes(sig, s) # {}
                     THEN RUNNING ELSE st[s]]

\* Mutant: the refill does not halve what is left.
Refilled_NotHalved(run, cnt) ==
    IF run # {} /\ \A s \in run : cnt[s] = 0
    THEN [s \in Slots |-> IF s \in Others THEN cnt[s] + PRIORITY ELSE cnt[s]]
    ELSE cnt

\* When no runnable task has ticks left every task gets new ones.
Refilled(run, cnt) ==
    IF run # {} /\ \A s \in run : cnt[s] = 0
    THEN [s \in Slots |-> IF s \in Others THEN cnt[s] \div 2 + PRIORITY ELSE cnt[s]]
    ELSE cnt

\* The runnable task with the most ticks, the highest slot first; task 0 if none.
Chosen(run, cnt) ==
    IF run = {} THEN {0}
    ELSE {s \in run : \A r \in run : cnt[r] < cnt[s] \/ (cnt[r] = cnt[s] /\ r <= s)}

\* schedule(), called with these values of state, counter, alarm and signal.
schedule(st, cnt, al, sig) ==
    LET sig1 == AfterAlarms(sig, al)
        st1  == AfterWakeups(st, sig1)
        run  == {s \in Others : st1[s] = RUNNING}
        cnt1 == Refilled(run, cnt)
    IN  /\ signal' = sig1
        /\ alarm' = [s \in Slots |-> IF s \in Others /\ al[s] = EXPIRED THEN OFF ELSE al[s]]
        /\ state' = st1
        /\ counter' = cnt1
        /\ current' \in Chosen(run, cnt1)

-----------------------------------------------------------------------------
(* timer_interrupt and do_timer.  A tick in user mode leaves through       *)
(* ret_from_syscall, whether or not it switched to another task.           *)

Ticked == [counter EXCEPT ![current] = IF @ > 1 THEN @ - 1 ELSE 0]

\* Mutant: schedule() is called only by the tick that ends the slice.
TickInUserMode_AtEndOnly ==
    /\ pc[current] = "user"
    /\ pc' = [pc EXCEPT ![current] = "sigret"]
    /\ IF counter[current] # 1
       THEN counter' = Ticked /\ alarm' = Aged(alarm) /\ UNCHANGED <<current, state, signal>>
       ELSE schedule(state, Ticked, Aged(alarm), signal)
    /\ UNCHANGED <<task, blocked>>

TickInUserMode ==
    /\ pc[current] = "user"
    /\ pc' = [pc EXCEPT ![current] = "sigret"]
    /\ IF Ticked[current] > 0
       THEN counter' = Ticked /\ alarm' = Aged(alarm) /\ UNCHANGED <<current, state, signal>>
       ELSE schedule(state, Ticked, Aged(alarm), signal)
    /\ UNCHANGED <<task, blocked>>

\* Mutant: the test of cpl comes before the decrement.
TickInKernelMode_Free ==
    /\ pc[current] # "user"
    /\ alarm' = Aged(alarm)
    /\ UNCHANGED <<task, current, state, counter, signal, blocked, pc>>

\* Mutant: the test of cpl is missing, a tick in kernel mode switches tasks.
TickInKernelMode_Preempts ==
    /\ pc[current] # "user"
    /\ IF Ticked[current] > 0
       THEN counter' = Ticked /\ alarm' = Aged(alarm) /\ UNCHANGED <<current, state, signal>>
       ELSE schedule(state, Ticked, Aged(alarm), signal)
    /\ UNCHANGED <<task, blocked, pc>>

TickInKernelMode ==
    /\ pc[current] # "user"
    /\ counter' = Ticked
    /\ alarm' = Aged(alarm)
    /\ UNCHANGED <<task, current, state, signal, blocked, pc>>

Tick == TickInUserMode \/ TickInKernelMode

-----------------------------------------------------------------------------
(* System calls of the current task.  Task 0 only forks (main.c).          *)

\* copy_process: the child starts in user mode with a full slice, no pending
\* signals, no alarm and its parent's mask.
sys_fork ==
    /\ pc[current] = "user"
    /\ \E n \in Slots \ task :
          /\ \A m \in Slots \ task : n <= m
          /\ task' = task \cup {n}
          /\ state' = [state EXCEPT ![n] = RUNNING]
          /\ counter' = [counter EXCEPT ![n] = PRIORITY]
          /\ alarm' = [alarm EXCEPT ![n] = OFF]
          /\ signal' = [signal EXCEPT ![n] = {}]
          /\ blocked' = [blocked EXCEPT ![n] = blocked[current]]
          /\ pc' = [pc EXCEPT ![n] = "user", ![current] = "return"]
    /\ UNCHANGED current

sys_pause ==
    /\ pc[current] = "user" /\ current # 0
    /\ pc' = [pc EXCEPT ![current] = "pausing"]
    /\ state' = [state EXCEPT ![current] = INTERRUPTIBLE]
    /\ UNCHANGED <<task, current, counter, alarm, signal, blocked>>

\* sys_alarm, then the new state, which no tick looks at.
sys_sleep(ticks) ==
    /\ pc[current] = "user" /\ current # 0
    /\ pc' = [pc EXCEPT ![current] = "sleeping"]
    /\ alarm' = [alarm EXCEPT ![current] = IF ticks > 0 THEN ticks ELSE OFF]
    /\ state' = [state EXCEPT ![current] = INTERRUPTIBLE]
    /\ UNCHANGED <<task, current, counter, signal, blocked>>

\* Mutant: the receiver is woken at once, whatever it has masked.
sys_kill_Wakes(s, sig) ==
    /\ pc[current] = "user" /\ current # 0
    /\ s \in Others
    /\ signal' = [signal EXCEPT ![s] = @ \cup {sig}]
    /\ state' = [state EXCEPT ![s] = RUNNING]
    /\ pc' = [pc EXCEPT ![current] = "return"]
    /\ UNCHANGED <<task, current, counter, alarm, blocked>>

\* sys_kill never reaches task 0 (the loop stops before FIRST_TASK).
sys_kill(s, sig) ==
    /\ pc[current] = "user" /\ current # 0
    /\ s \in Others
    /\ signal' = [signal EXCEPT ![s] = @ \cup {sig}]
    /\ pc' = [pc EXCEPT ![current] = "return"]
    /\ UNCHANGED <<task, current, state, counter, alarm, blocked>>

sys_ssetmask(mask) ==
    /\ pc[current] = "user" /\ current # 0
    /\ blocked' = [blocked EXCEPT ![current] = mask \ {SIGKILL}]
    /\ pc' = [pc EXCEPT ![current] = "return"]
    /\ UNCHANGED <<task, current, state, counter, alarm, signal>>

\* A call that only computes a result: sys_sgetmask, sys_debug, a fork that
\* found no slot, a stub.
OtherCall ==
    /\ pc[current] = "user"
    /\ pc' = [pc EXCEPT ![current] = "return"]
    /\ UNCHANGED <<task, current, state, counter, alarm, signal, blocked>>

-----------------------------------------------------------------------------
(* The rest of a system call.                                              *)

\* The schedule() of sys_pause and sys_sleep.
GoToSleep ==
    /\ pc[current] \in FallingAsleep
    /\ pc' = [pc EXCEPT ![current] = IF @ = "pausing" THEN "pause" ELSE "sleep"]
    /\ schedule(state, counter, alarm, signal)
    /\ UNCHANGED <<task, blocked>>

PauseReturns ==
    /\ pc[current] = "pause"
    /\ pc' = [pc EXCEPT ![current] = "return"]
    /\ UNCHANGED <<task, current, state, counter, alarm, signal, blocked>>

\* sys_sleep drops a pending SIGALRM (and only that) when it wakes up.
SleepReturns ==
    /\ pc[current] = "sleep"
    /\ signal' = [signal EXCEPT ![current] = @ \ {SIGALRM}]
    /\ pc' = [pc EXCEPT ![current] = "return"]
    /\ UNCHANGED <<task, current, state, counter, alarm, blocked>>

\* system_call:59-64: out of ticks, or not runnable, means schedule() first.
SystemCallReturns ==
    /\ pc[current] = "return"
    /\ pc' = [pc EXCEPT ![current] = "sigret"]
    /\ IF state[current] # RUNNING \/ counter[current] = 0
       THEN schedule(state, counter, alarm, signal)
       ELSE UNCHANGED <<current, state, counter, alarm, signal>>
    /\ UNCHANGED <<task, blocked>>

\* The sa_mask that do_signal finds: none for a default or ignored signal, for
\* SA_NOMASK and for SIGKILL, which sys_sigaction refuses; otherwise the
\* program's mask and the signal itself.
HandlerMasks(sig) ==
    {{}} \cup (IF sig = SIGKILL THEN {} ELSE {mask \cup {sig} : mask \in Masks})

\* Mutant: the mask is not consulted.
ret_from_syscall_Unmasked ==
    /\ pc[current] = "sigret"
    /\ pc' = [pc EXCEPT ![current] = "user"]
    /\ IF current = 0 \/ signal[current] = {}
       THEN UNCHANGED signal
       ELSE \E sig \in signal[current] : signal' = [signal EXCEPT ![current] = @ \ {sig}]
    /\ UNCHANGED <<task, current, state, counter, alarm, blocked>>

\* ret_from_syscall: the lowest pending signal that is not blocked is taken
\* (never by task 0) and handed to do_signal; then iret.
ret_from_syscall ==
    /\ pc[current] = "sigret"
    /\ pc' = [pc EXCEPT ![current] = "user"]
    /\ LET ready == signal[current] \ blocked[current]
       IN  IF current = 0 \/ ready = {}
           THEN UNCHANGED <<signal, blocked>>
           ELSE \E sig \in ready :
                  /\ \A r \in ready : sig <= r
                  /\ signal' = [signal EXCEPT ![current] = @ \ {sig}]
                  /\ \E mask \in HandlerMasks(sig) :
                        blocked' = [blocked EXCEPT ![current] = @ \cup mask]
    /\ UNCHANGED <<task, current, state, counter, alarm>>

-----------------------------------------------------------------------------
UserStep ==
    \/ sys_fork
    \/ sys_pause
    \/ \E ticks \in Delays : sys_sleep(ticks)
    \/ \E s \in Slots, sig \in Sent : sys_kill(s, sig)
    \/ \E mask \in Masks : sys_ssetmask(mask)
    \/ OtherCall

KernelStep == GoToSleep \/ PauseReturns \/ SleepReturns \/ SystemCallReturns \/ ret_from_syscall

Next == Tick \/ UserStep \/ KernelStep

(***************************************************************************)
(* The 8253 keeps ticking, and a task inside the kernel runs on: interrupts*)
(* come back to it.  Nothing is assumed of user programs.                  *)
(***************************************************************************)
Fairness == WF_vars(Tick) /\ WF_vars(KernelStep)

Spec == Init /\ [][Next]_vars /\ Fairness

-----------------------------------------------------------------------------
(* Safety                                                                  *)

AlarmTimes == {OFF, EXPIRED} \cup UNION {0..d : d \in Delays}

\* The counters never grow past the slice plus what a sleeper may save up:
\* the halving in schedule() keeps them below twice the priority.
TypeOK ==
    /\ task \subseteq Slots /\ 0 \in task
    /\ current \in task
    /\ state \in [Slots -> {RUNNING, INTERRUPTIBLE}]
    /\ counter \in [Slots -> 0..(2 * PRIORITY - 1)]
    /\ alarm \in [Slots -> AlarmTimes]
    /\ signal \in [Slots -> SUBSET Signals]
    /\ blocked \in [Slots -> SUBSET Signals]
    /\ pc \in [Slots -> Points]

\* The processor is never given to a task that sleeps: the one that runs is
\* runnable, unless it is about to call schedule() itself, which no tick in
\* between takes from it.  Task 0 (which the wake-up loop passes over) never
\* goes to sleep: schedule() falls back on it without looking at its state.
CurrentIsRunnable ==
    /\ IF pc[current] \in FallingAsleep THEN state[current] = INTERRUPTIBLE
                                       ELSE state[current] = RUNNING
    /\ \A s \in task \ {current} : pc[s] \notin FallingAsleep
    /\ state[0] = RUNNING

\* schedule(): a task that comes out of pause or sleep does so because of a
\* signal it will be able to take, which is still pending when it runs again,
\* however many other tasks ran and sent signals in between.
WokenBySignal ==
    \A s \in task : pc[s] \in Asleep /\ state[s] = RUNNING
                       => Wakes(signal, s) # {}

\* A pending signal a task has masked stays pending until it unmasks it; the
\* one exception is the SIGALRM that sys_sleep discards when it returns.
MaskedSignalsKept ==
    [][\A s \in task :
          (signal[s] \cap blocked[s])
             \ (IF s = current /\ pc[s] = "sleep" THEN {SIGALRM} ELSE {})
          \subseteq signal'[s]]_vars

\* Task 0, which no signal wakes, is never inside pause or sleep.
IdleNeverSleeps == pc[0] \notin FallingAsleep \cup Asleep

\* The conjunction every step preserves.
SchedInv == TypeOK /\ CurrentIsRunnable /\ IdleNeverSleeps /\ WokenBySignal

-----------------------------------------------------------------------------
(* Liveness                                                                *)

\* schedule(): no runnable task is starved, whatever the others do: fork,
\* wake each other up, or spin.
NoStarvation ==
    \A s \in Slots \ {0} :
        (s \in task /\ state[s] = RUNNING) ~> (current = s)

\* A sleeper with its alarm set is woken, unless it has masked SIGALRM: the
\* schedule() that turns the alarm into a signal does come.
SleeperWakes ==
    \A s \in Slots \ {0} :
        (pc[s] = "sleep" /\ alarm[s] # OFF /\ SIGALRM \notin blocked[s])
           ~> (state[s] = RUNNING)

\* sys_kill only sets a bit; the sleeper the signal is for is woken all the
\* same, by a later schedule().
SignalWakes ==
    \A s \in Slots \ {0} :
        (state[s] = INTERRUPTIBLE /\ Wakes(signal, s) # {}) ~> (state[s] = RUNNING)

-----------------------------------------------------------------------------
(* What the comments say and the code does not do                          *)

\* kernel/sched.c:68: a task that received a signal is woken up.  The test
\* below that comment leaves out SIGKILL and SIGSTOP.
KillWakes ==
    \A s \in Slots \ {0} :
        (state[s] = INTERRUPTIBLE /\ SIGKILL \in signal[s]) ~> (state[s] = RUNNING)

=============================================================================
