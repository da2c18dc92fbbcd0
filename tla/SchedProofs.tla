----------------------------- MODULE SchedProofs ----------------------------
(***************************************************************************)
(* Proofs for every number of tasks, every time slice and every set of     *)
(* signals and delays that the scheduler keeps its types, gives the        *)
(* processor to runnable tasks only, and ends pause and sleep only for a   *)
(* signal that is still pending when the task runs again.                  *)
(***************************************************************************)
EXTENDS Sched, TLAPS

\* The constants the proofs compute with.
LEMMA SlotFacts == 0 \in Slots /\ Slots \subseteq Int /\ PRIORITY \in Nat /\ PRIORITY >= 1
  BY SchedAssumption DEF Slots

\* An alarm that ages is still an alarm.
LEMMA AgedType ==
    ASSUME NEW al \in [Slots -> AlarmTimes]
    PROVE  Aged(al) \in [Slots -> AlarmTimes]
  <1> SUFFICES ASSUME NEW s \in Slots, al[s] >= 0
               PROVE  al[s] - 1 \in AlarmTimes
    BY DEF Aged
  <1>1. PICK d \in Delays : al[s] \in 0..d
    BY DEF AlarmTimes, OFF, EXPIRED
  <1>2. d \in Nat
    BY SchedAssumption
  <1>3. CASE al[s] = 0
    BY <1>3 DEF AlarmTimes, EXPIRED
  <1>4. CASE al[s] # 0
    <2>1. al[s] - 1 \in 0..d
      BY <1>1, <1>2, <1>4
    <2> QED
      BY <2>1 DEF AlarmTimes
  <1> QED
    BY <1>3, <1>4

\* Halving keeps a counter below twice the priority.
LEMMA RefilledType ==
    ASSUME NEW cnt \in [Slots -> 0..(2 * PRIORITY - 1)], NEW run
    PROVE  Refilled(run, cnt) \in [Slots -> 0..(2 * PRIORITY - 1)]
  <1>1. ASSUME NEW s \in Slots
        PROVE  cnt[s] \div 2 + PRIORITY \in 0..(2 * PRIORITY - 1)
    BY SlotFacts
  <1> QED
    BY <1>1 DEF Refilled

\* What schedule() guarantees, whatever values it is called with.
LEMMA ScheduleFacts ==
    ASSUME NEW st \in [Slots -> {RUNNING, INTERRUPTIBLE}],
           NEW cnt \in [Slots -> 0..(2 * PRIORITY - 1)],
           NEW al \in [Slots -> AlarmTimes],
           NEW sig \in [Slots -> SUBSET Signals],
           task \subseteq Slots, 0 \in task, st[0] = RUNNING,
           schedule(st, cnt, al, sig)
    PROVE  /\ current' \in task
           /\ state' \in [Slots -> {RUNNING, INTERRUPTIBLE}]
           /\ counter' \in [Slots -> 0..(2 * PRIORITY - 1)]
           /\ alarm' \in [Slots -> AlarmTimes]
           /\ signal' \in [Slots -> SUBSET Signals]
           /\ state'[current'] = RUNNING /\ state'[0] = RUNNING
           /\ \A s \in Slots : /\ sig[s] \subseteq signal'[s]
                               /\ state'[s] = RUNNING => st[s] = RUNNING \/ signal'[s] \ (Unblockable \cup blocked[s]) # {}
  <1> DEFINE sig1 == AfterAlarms(sig, al)
             st1  == AfterWakeups(st, sig1)
             run  == {s \in Others : st1[s] = RUNNING}
             cnt1 == Refilled(run, cnt)
  <1>1. /\ signal' = sig1 /\ state' = st1 /\ counter' = cnt1
        /\ current' \in Chosen(run, cnt1)
        /\ alarm' = [s \in Slots |-> IF s \in Others /\ al[s] = EXPIRED THEN OFF ELSE al[s]]
    BY DEF schedule
  <1>2. sig1 \in [Slots -> SUBSET Signals] /\ \A s \in Slots : sig[s] \subseteq sig1[s]
    BY SchedAssumption DEF AfterAlarms
  <1>3. /\ st1 \in [Slots -> {RUNNING, INTERRUPTIBLE}]
        /\ st1[0] = RUNNING
        /\ \A s \in Slots : st1[s] = RUNNING => st[s] = RUNNING \/ sig1[s] \ (Unblockable \cup blocked[s]) # {}
    BY SlotFacts DEF AfterWakeups, Others, Wakes
  <1>4. cnt1 \in [Slots -> 0..(2 * PRIORITY - 1)]
    BY RefilledType
  <1>5. alarm' \in [Slots -> AlarmTimes]
    BY <1>1 DEF AlarmTimes
  <1>6. current' \in task /\ st1[current'] = RUNNING
    BY <1>1, <1>3 DEF Chosen, Others
  <1> QED
    BY <1>1, <1>2, <1>3, <1>4, <1>5, <1>6

-----------------------------------------------------------------------------
\* The boot state satisfies the invariant.
LEMMA InitSchedInv == Init => SchedInv
  <1> SUFFICES ASSUME Init PROVE SchedInv
    OBVIOUS
  <1>1. TypeOK
    <2>1. counter \in [Slots -> 0..(2 * PRIORITY - 1)]
      BY SlotFacts DEF Init
    <2> QED
      BY <2>1, SlotFacts DEF Init, TypeOK, AlarmTimes, Points
  <1>2. CurrentIsRunnable /\ IdleNeverSleeps /\ WokenBySignal
    BY SlotFacts DEF Init, CurrentIsRunnable, IdleNeverSleeps, WokenBySignal, FallingAsleep, Asleep
  <1> QED
    BY <1>1, <1>2 DEF SchedInv

\* A step that calls schedule() from a state whose sleepers are accounted for:
\* the caller goes on at the point at, asleep if that is pause or sleep.
LEMMA ScheduleKeepsInv ==
    ASSUME SchedInv,
           NEW cnt \in [Slots -> 0..(2 * PRIORITY - 1)],
           NEW al \in [Slots -> AlarmTimes],
           NEW at \in Points \ FallingAsleep,
           schedule(state, cnt, al, signal),
           pc' = [pc EXCEPT ![current] = at],
           UNCHANGED <<task, blocked>>,
           at \in Asleep => pc[current] \in FallingAsleep
    PROVE  SchedInv'
  <1>0. TypeOK /\ CurrentIsRunnable /\ IdleNeverSleeps /\ WokenBySignal
    BY DEF SchedInv
  <1>1. /\ current' \in task
        /\ state' \in [Slots -> {RUNNING, INTERRUPTIBLE}]
        /\ counter' \in [Slots -> 0..(2 * PRIORITY - 1)]
        /\ alarm' \in [Slots -> AlarmTimes]
        /\ signal' \in [Slots -> SUBSET Signals]
        /\ state'[current'] = RUNNING /\ state'[0] = RUNNING
        /\ \A s \in Slots : /\ signal[s] \subseteq signal'[s]
                            /\ state'[s] = RUNNING => state[s] = RUNNING \/ signal'[s] \ (Unblockable \cup blocked[s]) # {}
    <2>1. /\ signal \in [Slots -> SUBSET Signals] /\ task \subseteq Slots /\ 0 \in task
          /\ state \in [Slots -> {RUNNING, INTERRUPTIBLE}] /\ state[0] = RUNNING
      BY <1>0 DEF TypeOK, CurrentIsRunnable
    <2> QED
      BY <2>1, ScheduleFacts
  <1>2. pc' \in [Slots -> Points]
    BY <1>0 DEF TypeOK
  <1>3. TypeOK'
    BY <1>0, <1>1, <1>2 DEF TypeOK
  <1>p. \A s \in task : pc'[s] \notin FallingAsleep
    <2>1. \A s \in task : pc'[s] = IF s = current THEN at ELSE pc[s]
      BY <1>0 DEF TypeOK
    <2> QED
      BY <2>1, <1>0 DEF CurrentIsRunnable
  <1>4. CurrentIsRunnable'
    BY <1>1, <1>p DEF CurrentIsRunnable
  <1>5. IdleNeverSleeps'
    <2>1. 0 \in task /\ (0 = current => at \notin Asleep)
      BY <1>0 DEF TypeOK, IdleNeverSleeps
    <2>2. pc'[0] \notin Asleep
      BY <1>0, <2>1 DEF TypeOK, IdleNeverSleeps
    <2> QED
      BY <1>p, <2>1, <2>2 DEF IdleNeverSleeps
  <1>6. WokenBySignal'
    <2> SUFFICES ASSUME NEW s \in task, pc'[s] \in Asleep, state'[s] = RUNNING
                 PROVE  Wakes(signal, s)' # {}
      BY DEF WokenBySignal
    <2>0. s \in Slots
      BY <1>0 DEF TypeOK
    <2>1. Wakes(signal, s)' = signal'[s] \ (Unblockable \cup blocked[s])
      BY DEF Wakes
    <2>a. /\ signal[s] \subseteq signal'[s]
          /\ state[s] = RUNNING \/ signal'[s] \ (Unblockable \cup blocked[s]) # {}
      BY <2>0, <1>1
    <2>2. CASE s = current
      <3>1. pc[current] \in FallingAsleep
        BY <2>0, <2>2, <1>0 DEF TypeOK
      <3>2. state[s] # RUNNING
        BY <2>2, <3>1, <1>0 DEF CurrentIsRunnable, RUNNING, INTERRUPTIBLE
      <3> QED
        BY <2>1, <2>a, <3>2
    <2>3. CASE s # current
      <3>1. pc[s] \in Asleep
        BY <2>0, <2>3, <1>0 DEF TypeOK
      <3>2. state[s] = RUNNING => Wakes(signal, s) # {}
        BY <3>1, <1>0 DEF WokenBySignal, Wakes
      <3>3. Wakes(signal, s) \subseteq signal'[s] \ (Unblockable \cup blocked[s])
        BY <2>a DEF Wakes
      <3> QED
        BY <2>1, <2>a, <3>2, <3>3
    <2> QED
      BY <2>2, <2>3
  <1> QED
    BY <1>3, <1>4, <1>5, <1>6 DEF SchedInv

\* A system call gives up the runnable state of its task, whose schedule() is
\* still to come.
LEMMA FallsAsleep ==
    ASSUME SchedInv, current # 0, pc[current] = "user",
           NEW at \in FallingAsleep, pc' = [pc EXCEPT ![current] = at],
           state' = [state EXCEPT ![current] = INTERRUPTIBLE],
           alarm' \in [Slots -> AlarmTimes],
           UNCHANGED <<task, current, counter, signal, blocked>>
    PROVE  SchedInv'
  <1>0. TypeOK /\ CurrentIsRunnable /\ IdleNeverSleeps /\ WokenBySignal
    BY DEF SchedInv
  <1>1. at \notin Asleep /\ at \in Points
    BY DEF Asleep, FallingAsleep, Points
  <1>2. /\ task \subseteq Slots /\ current \in task /\ 0 \in task
        /\ \A s \in Slots : /\ pc'[s] = IF s = current THEN at ELSE pc[s]
                            /\ state'[s] = IF s = current THEN INTERRUPTIBLE ELSE state[s]
    BY <1>0 DEF TypeOK
  <1>3. TypeOK'
    BY <1>0, <1>1 DEF TypeOK
  <1>4. CurrentIsRunnable' /\ IdleNeverSleeps'
    BY <1>0, <1>2 DEF CurrentIsRunnable, IdleNeverSleeps
  <1>5. WokenBySignal'
    BY <1>0, <1>1, <1>2 DEF WokenBySignal, Wakes
  <1> QED
    BY <1>3, <1>4, <1>5 DEF SchedInv

\* Every step preserves the invariant.
LEMMA NextSchedInv == SchedInv /\ [Next]_vars => SchedInv'
  <1> SUFFICES ASSUME SchedInv, [Next]_vars
               PROVE  SchedInv'
    OBVIOUS
  <1>0. TypeOK /\ CurrentIsRunnable /\ IdleNeverSleeps /\ WokenBySignal
    BY DEF SchedInv
  <1>t. /\ Ticked \in [Slots -> 0..(2 * PRIORITY - 1)]
        /\ Aged(alarm) \in [Slots -> AlarmTimes]
    <2>1. counter[current] \in 0..(2 * PRIORITY - 1) /\ current \in Slots
      BY <1>0 DEF TypeOK
    <2>2. (IF counter[current] > 1 THEN counter[current] - 1 ELSE 0) \in 0..(2 * PRIORITY - 1)
      BY <2>1, SlotFacts
    <2> QED
      BY <1>0, <2>2, AgedType DEF TypeOK, Ticked
  <1>p. current \in Slots /\ task \subseteq Slots
    BY <1>0 DEF TypeOK
  <1>1. CASE TickInUserMode
    <2>1. CASE Ticked[current] > 0
      <3>1. TypeOK'
        BY <1>0, <1>1, <1>t, <2>1 DEF TickInUserMode, TypeOK, Points
      <3>2. CurrentIsRunnable' /\ IdleNeverSleeps' /\ WokenBySignal'
        BY <1>0, <1>1, <1>p, <2>1, SlotFacts
           DEF TickInUserMode, TypeOK, CurrentIsRunnable, IdleNeverSleeps, WokenBySignal, Wakes, FallingAsleep, Asleep
      <3> QED
        BY <3>1, <3>2 DEF SchedInv
    <2>2. CASE ~(Ticked[current] > 0)
      <3>1. /\ schedule(state, Ticked, Aged(alarm), signal)
            /\ pc' = [pc EXCEPT ![current] = "sigret"]
            /\ UNCHANGED <<task, blocked>>
        BY <1>1, <2>2 DEF TickInUserMode
      <3>2. state \in [Slots -> {RUNNING, INTERRUPTIBLE}] /\ state[0] = RUNNING
        BY <1>0 DEF TypeOK, CurrentIsRunnable
      <3> QED
        BY <3>1, <3>2, <1>t, ScheduleKeepsInv DEF Points, FallingAsleep, Asleep
    <2> QED
      BY <2>1, <2>2
  <1>2. CASE TickInKernelMode
    BY <1>0, <1>2, <1>t
       DEF TickInKernelMode, SchedInv, TypeOK, CurrentIsRunnable, IdleNeverSleeps, WokenBySignal, Wakes
  <1>3. CASE sys_fork
    <2>1. PICK n \in Slots \ task :
            /\ task' = task \cup {n}
            /\ state' = [state EXCEPT ![n] = RUNNING]
            /\ counter' = [counter EXCEPT ![n] = PRIORITY]
            /\ alarm' = [alarm EXCEPT ![n] = OFF]
            /\ signal' = [signal EXCEPT ![n] = {}]
            /\ blocked' = [blocked EXCEPT ![n] = blocked[current]]
            /\ pc' = [pc EXCEPT ![n] = "user", ![current] = "return"]
      BY <1>3 DEF sys_fork
    <2>2. current' = current /\ pc[current] = "user" /\ PRIORITY \in 0..(2 * PRIORITY - 1)
      BY <1>3, SlotFacts DEF sys_fork
    <2>3. TypeOK'
      BY <1>0, <2>1, <2>2 DEF TypeOK, Points, AlarmTimes
    <2>4. CurrentIsRunnable' /\ IdleNeverSleeps'
      BY <1>0, <2>1, <2>2, SlotFacts DEF TypeOK, CurrentIsRunnable, IdleNeverSleeps, FallingAsleep, Asleep
    <2>5. WokenBySignal'
      <3> SUFFICES ASSUME NEW s \in task', pc'[s] \in Asleep, state'[s] = RUNNING
                   PROVE  Wakes(signal, s)' # {}
        BY DEF WokenBySignal
      <3>1. s # n /\ s # current /\ s \in task
        BY <2>1, <1>0 DEF TypeOK, FallingAsleep, Asleep
      <3>2. pc[s] \in Asleep /\ state[s] = RUNNING /\ signal'[s] = signal[s] /\ blocked'[s] = blocked[s]
        BY <2>1, <3>1, <1>0 DEF TypeOK
      <3> QED
        BY <3>1, <3>2, <1>0 DEF WokenBySignal, Wakes
    <2> QED
      BY <2>3, <2>4, <2>5 DEF SchedInv
  <1>4. CASE sys_pause
    <2>1. alarm' \in [Slots -> AlarmTimes]
      BY <1>0, <1>4 DEF sys_pause, TypeOK
    <2> QED
      BY <1>4, <2>1, FallsAsleep DEF sys_pause, FallingAsleep, Asleep
  <1>5. ASSUME NEW ticks \in Delays, sys_sleep(ticks)
        PROVE  SchedInv'
    <2>1. ticks \in 0..ticks
      BY SchedAssumption
    <2>2. ticks \in AlarmTimes /\ OFF \in AlarmTimes
      BY <2>1 DEF AlarmTimes
    <2>3. alarm' \in [Slots -> AlarmTimes]
      BY <1>0, <1>5, <2>2 DEF sys_sleep, TypeOK
    <2> QED
      BY <1>5, <2>3, FallsAsleep DEF sys_sleep, FallingAsleep, Asleep
  <1>6. ASSUME NEW s \in Slots, NEW sig \in Sent, sys_kill(s, sig)
        PROVE  SchedInv'
    <2>1. sig \in Signals
      BY SchedAssumption
    <2>2. TypeOK'
      BY <1>0, <1>6, <2>1 DEF sys_kill, TypeOK, Points
    <2>3. CurrentIsRunnable' /\ IdleNeverSleeps'
      BY <1>0, <1>6, SlotFacts DEF sys_kill, TypeOK, CurrentIsRunnable, IdleNeverSleeps, FallingAsleep, Asleep
    <2>4. \A r \in task : /\ Wakes(signal, r) \subseteq Wakes(signal, r)'
                          /\ pc'[r] \in Asleep => pc'[r] = pc[r]
      BY <1>0, <1>6 DEF sys_kill, TypeOK, Wakes, FallingAsleep, Asleep
    <2>5. WokenBySignal'
      BY <1>0, <1>6, <2>4 DEF sys_kill, WokenBySignal
    <2> QED
      BY <2>2, <2>3, <2>5 DEF SchedInv
  <1>7. ASSUME NEW mask \in Masks, sys_ssetmask(mask)
        PROVE  SchedInv'
    <2>1. mask \ {SIGKILL} \subseteq Signals
      BY SchedAssumption
    <2>2. TypeOK'
      BY <1>0, <1>7, <2>1 DEF sys_ssetmask, TypeOK, Points
    <2>3. CurrentIsRunnable' /\ IdleNeverSleeps'
      BY <1>0, <1>7, SlotFacts DEF sys_ssetmask, TypeOK, CurrentIsRunnable, IdleNeverSleeps, FallingAsleep, Asleep
    <2>4. \A r \in task : pc'[r] \in Asleep =>
                             pc'[r] = pc[r] /\ Wakes(signal, r)' = Wakes(signal, r)
      BY <1>0, <1>7 DEF sys_ssetmask, TypeOK, Wakes, FallingAsleep, Asleep
    <2>5. WokenBySignal'
      BY <1>0, <1>7, <2>4 DEF sys_ssetmask, WokenBySignal
    <2> QED
      BY <2>2, <2>3, <2>5 DEF SchedInv
  <1>8. CASE OtherCall \/ PauseReturns
    BY <1>0, <1>8, SlotFacts
       DEF OtherCall, PauseReturns, SchedInv, TypeOK, Points, CurrentIsRunnable, IdleNeverSleeps, WokenBySignal, Wakes, FallingAsleep, Asleep
  <1>9. CASE SleepReturns
    <2>1. TypeOK'
      BY <1>0, <1>9 DEF SleepReturns, TypeOK, Points
    <2>2. CurrentIsRunnable' /\ IdleNeverSleeps'
      BY <1>0, <1>9, SlotFacts DEF SleepReturns, TypeOK, CurrentIsRunnable, IdleNeverSleeps, FallingAsleep, Asleep
    <2>3. \A r \in task : pc'[r] \in Asleep =>
                             pc'[r] = pc[r] /\ Wakes(signal, r)' = Wakes(signal, r)
      BY <1>0, <1>9 DEF SleepReturns, TypeOK, Wakes, FallingAsleep, Asleep
    <2>4. WokenBySignal'
      BY <1>0, <1>9, <2>3 DEF SleepReturns, WokenBySignal
    <2> QED
      BY <2>1, <2>2, <2>4 DEF SchedInv
  <1>10. CASE SystemCallReturns
    <2>1. CASE state[current] # RUNNING \/ counter[current] = 0
      <3>1. /\ schedule(state, counter, alarm, signal)
            /\ pc' = [pc EXCEPT ![current] = "sigret"]
            /\ UNCHANGED <<task, blocked>>
        BY <1>10, <2>1 DEF SystemCallReturns
      <3>2. /\ state \in [Slots -> {RUNNING, INTERRUPTIBLE}] /\ state[0] = RUNNING
            /\ counter \in [Slots -> 0..(2 * PRIORITY - 1)] /\ alarm \in [Slots -> AlarmTimes]
        BY <1>0 DEF TypeOK, CurrentIsRunnable
      <3> QED
        BY <3>1, <3>2, ScheduleKeepsInv DEF Points, FallingAsleep, Asleep
    <2>2. CASE ~(state[current] # RUNNING \/ counter[current] = 0)
      <3>1. pc' = [pc EXCEPT ![current] = "sigret"] /\ UNCHANGED <<task, blocked, current, state, counter, alarm, signal>>
        BY <1>10, <2>2 DEF SystemCallReturns
      <3>2. pc[current] = "return"
        BY <1>10 DEF SystemCallReturns
      <3> QED
        BY <1>0, <1>p, <3>1, <3>2, SlotFacts
           DEF SchedInv, TypeOK, Points, CurrentIsRunnable, IdleNeverSleeps, WokenBySignal, Wakes, FallingAsleep, Asleep
    <2> QED
      BY <2>1, <2>2
  <1>11. CASE ret_from_syscall
    <2>1. /\ pc[current] = "sigret" /\ pc' = [pc EXCEPT ![current] = "user"]
          /\ UNCHANGED <<task, current, state, counter, alarm>>
      BY <1>11 DEF ret_from_syscall
    <2>2. /\ \/ UNCHANGED <<signal, blocked>>
             \/ \E sig \in Signals, mask \in SUBSET Signals :
                   /\ signal' = [signal EXCEPT ![current] = @ \ {sig}]
                   /\ blocked' = [blocked EXCEPT ![current] = @ \cup mask]
      <3>1. \A sig \in Signals : HandlerMasks(sig) \subseteq SUBSET Signals
        <4> SUFFICES ASSUME NEW sig \in Signals, NEW mask \in Masks
                     PROVE  mask \cup {sig} \subseteq Signals
          BY DEF HandlerMasks
        <4> QED
          BY SchedAssumption
      <3>2. signal[current] \ blocked[current] \subseteq Signals
        BY <1>0, <1>p DEF TypeOK
      <3> QED
        BY <1>11, <3>1, <3>2 DEF ret_from_syscall
    <2>3. TypeOK'
      BY <1>0, <2>1, <2>2 DEF TypeOK, Points
    <2>4. CurrentIsRunnable' /\ IdleNeverSleeps'
      BY <1>0, <2>1, SlotFacts DEF TypeOK, CurrentIsRunnable, IdleNeverSleeps, FallingAsleep, Asleep
    <2>5. \A r \in task : pc'[r] \in Asleep =>
                             pc'[r] = pc[r] /\ Wakes(signal, r)' = Wakes(signal, r)
      BY <1>0, <2>1, <2>2 DEF TypeOK, Wakes, FallingAsleep, Asleep
    <2>6. WokenBySignal'
      BY <1>0, <2>1, <2>5 DEF WokenBySignal
    <2> QED
      BY <2>3, <2>4, <2>6 DEF SchedInv
  <1>12. CASE GoToSleep
    <2>1. PICK at \in Asleep : pc' = [pc EXCEPT ![current] = at]
      BY <1>12 DEF GoToSleep, Asleep
    <2>2. at \in Points \ FallingAsleep
      BY DEF Points, Asleep, FallingAsleep
    <2>3. counter \in [Slots -> 0..(2 * PRIORITY - 1)] /\ alarm \in [Slots -> AlarmTimes]
      BY <1>0 DEF TypeOK
    <2> QED
      BY <1>12, <2>1, <2>2, <2>3, ScheduleKeepsInv DEF GoToSleep
  <1>13. CASE UNCHANGED vars
    BY <1>0, <1>13
       DEF vars, SchedInv, TypeOK, CurrentIsRunnable, IdleNeverSleeps, WokenBySignal, Wakes
  <1> QED
    BY <1>1, <1>2, <1>3, <1>4, <1>5, <1>6, <1>7, <1>8, <1>9, <1>10, <1>11, <1>12, <1>13
       DEF Next, Tick, UserStep, KernelStep

-----------------------------------------------------------------------------
\* The invariant of the scheduler holds in every reachable state.
THEOREM SchedCorrect == Spec => []SchedInv
  <1> QED
    BY InitSchedInv, NextSchedInv, PTL DEF Spec

\* Types, and the bound on counters that the halving in schedule() gives.
THEOREM SchedTypeCorrect == Spec => []TypeOK
  <1>1. SchedInv => TypeOK
    BY DEF SchedInv
  <1> QED
    BY <1>1, SchedCorrect, PTL

\* schedule() never gives the processor to a task that sleeps.
THEOREM RunnableRuns == Spec => []CurrentIsRunnable
  <1>1. SchedInv => CurrentIsRunnable
    BY DEF SchedInv
  <1> QED
    BY <1>1, SchedCorrect, PTL

\* pause and sleep end only for a signal that is still there when the task
\* runs again.
THEOREM WakeupsJustified == Spec => []WokenBySignal
  <1>1. SchedInv => WokenBySignal
    BY DEF SchedInv
  <1> QED
    BY <1>1, SchedCorrect, PTL

\* No step drops a pending signal that its task has masked, whoever sends,
\* masks, sleeps or switches in between; only sys_sleep discards a SIGALRM.
THEOREM MaskedSignalsAreKept == Spec => MaskedSignalsKept
  <1> DEFINE Kept(s) ==
        (signal[s] \cap blocked[s])
           \ (IF s = current /\ pc[s] = "sleep" THEN {SIGALRM} ELSE {}) \subseteq signal'[s]
  <1>1. SchedInv /\ [Next]_vars => [\A s \in task : Kept(s)]_vars
    <2> SUFFICES ASSUME SchedInv, Next, NEW s \in task
                 PROVE  Kept(s)
      OBVIOUS
    <2>1. /\ signal \in [Slots -> SUBSET Signals] /\ task \subseteq Slots /\ current \in task
          /\ s \in Slots /\ current \in Slots
      BY DEF SchedInv, TypeOK
    <2>2. CASE signal' = signal
      BY <2>2
    <2>3. ASSUME NEW st, NEW cnt, NEW al, schedule(st, cnt, al, signal)
          PROVE  Kept(s)
      <3>1. signal' = AfterAlarms(signal, al)
        BY <2>3 DEF schedule
      <3> QED
        BY <3>1, <2>1 DEF AfterAlarms
    <2>4. CASE Tick
      BY <2>2, <2>3, <2>4 DEF Tick, TickInUserMode, TickInKernelMode
    <2>5. CASE sys_fork
      <3>1. PICK n \in Slots \ task : signal' = [signal EXCEPT ![n] = {}]
        BY <2>5 DEF sys_fork
      <3>2. signal'[s] = signal[s]
        BY <3>1, <2>1
      <3> QED
        BY <3>2
    <2>6. CASE GoToSleep
      BY <2>3, <2>6 DEF GoToSleep
    <2>8. CASE \E r \in Slots, sig \in Sent : sys_kill(r, sig)
      <3>1. PICK r \in Slots, sig \in Sent : signal' = [signal EXCEPT ![r] = @ \cup {sig}]
        BY <2>8 DEF sys_kill
      <3>2. signal[s] \subseteq signal'[s]
        BY <3>1, <2>1
      <3> QED
        BY <3>2
    <2>9. CASE SleepReturns
      <3>1. signal' = [signal EXCEPT ![current] = signal[current] \ {SIGALRM}]
            /\ pc[current] = "sleep"
        BY <2>9 DEF SleepReturns
      <3>2. CASE s = current
        BY <3>1, <3>2, <2>1
      <3>3. CASE s # current
        BY <3>1, <3>3, <2>1
      <3> QED
        BY <3>2, <3>3
    <2>10. CASE SystemCallReturns
      BY <2>2, <2>3, <2>10 DEF SystemCallReturns
    <2>11. CASE ret_from_syscall /\ signal' # signal
      <3>1. PICK sig \in signal[current] \ blocked[current] :
               signal' = [signal EXCEPT ![current] = signal[current] \ {sig}]
        BY <2>11 DEF ret_from_syscall
      <3>2. CASE s = current
        BY <3>1, <3>2, <2>1
      <3>3. CASE s # current
        BY <3>1, <3>3, <2>1
      <3> QED
        BY <3>2, <3>3
    <2> QED
      BY <2>2, <2>4, <2>5, <2>6, <2>8, <2>9, <2>10, <2>11
         DEF Next, UserStep, KernelStep, sys_pause, sys_sleep, sys_ssetmask, OtherCall, PauseReturns
  <1> QED
    BY <1>1, SchedCorrect, PTL DEF Spec, MaskedSignalsKept

=============================================================================
