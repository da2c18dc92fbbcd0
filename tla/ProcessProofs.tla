---------------------------- MODULE ProcessProofs ----------------------------
(***************************************************************************)
(* Proofs about Process, for every number of tasks, pids and frames: pids  *)
(* stay unique, every process keeps a father that can wait for it, and     *)
(* every zombie has been announced to its father.                          *)
(***************************************************************************)
EXTENDS Process, MemoryProofs, WellFoundedInduction

-----------------------------------------------------------------------------
(* Smallest and largest members.                                           *)

Below == {ss \in Nat \X Nat : ss[1] < ss[2]}

\* A set of natural numbers that is not empty has a smallest member.
LEMMA SmallestMember ==
    ASSUME NEW T \in SUBSET Nat, T # {}
    PROVE  \E x \in T : \A y \in T : x <= y
  <1>1. IsWellFoundedOn(Below, Nat)
    BY NatLessThanWellFounded DEF OpToRel, Below
  <1>2. PICK x \in T : \A y \in T : <<y, x>> \notin Below
    BY <1>1, WFMin
  <1>3. \A y \in T : ~(y < x)
    BY <1>2 DEF Below
  <1> QED
    BY <1>3

-----------------------------------------------------------------------------
(* find_empty_process.                                                     *)

\* With a slot free there is a pid free: the tasks that are present, task 0
\* with pid 0 among them, do not use up 1..MAX_PID.
LEMMA PidLeft ==
    ASSUME ProcessTypeOK, pid[0] = 0, task[0] # NULL,
           NEW n \in Slots, task[n] = NULL
    PROVE  FreePids # {}
  <1> DEFINE D == Slots \ {n}
             F == [s \in D |-> pid[s]]
  <1> SUFFICES ASSUME FreePids = {}
               PROVE  FALSE
    OBVIOUS
  <1>1. 0 \in Slots /\ n # 0
    BY ConstantFacts
  <1>2. \A k \in 0..MAX_PID : \E s \in D : pid[s] = k
    <2>1. ASSUME NEW k \in 1..MAX_PID
          PROVE  \E s \in D : pid[s] = k
      <3>1. k \in PidsInUse
        BY DEF FreePids
      <3> QED
        BY <3>1 DEF PidsInUse, Present
    <2>2. \E s \in D : pid[s] = 0
      BY <1>1
    <2> QED
      BY <2>1, <2>2, ProcessAssumption, SizeAssumption
  <1>3. F \in Surjection(D, 0..MAX_PID)
    <2>1. F \in [D -> 0..MAX_PID]
      BY DEF ProcessTypeOK
    <2>2. \A k \in 0..MAX_PID : \E s \in D : F[s] = k
      BY <1>2
    <2> HIDE DEF F, D
    <2> QED
      BY <2>1, <2>2 DEF Surjection
  <1>4. IsFiniteSet(D) /\ Cardinality(D) = NR_TASKS - 1
    <2>1. IsFiniteSet(Slots) /\ Cardinality(Slots) = NR_TASKS
      BY SizeAssumption, FS_Interval DEF Slots
    <2> QED
      BY <2>1, FS_RemoveElement
  <1>5. Cardinality(0..MAX_PID) <= NR_TASKS - 1
    <2> HIDE DEF F, D
    <2> QED
      BY <1>3, <1>4, FS_Surjection
  <1>6. Cardinality(0..MAX_PID) = MAX_PID + 1
    BY FS_Interval, ProcessAssumption, SizeAssumption
  <1> QED
    BY <1>5, <1>6, ProcessAssumption, SizeAssumption

\* find_empty_process ends with a pid no task has, the nearest from last_pid on.
LEMMA NextPidFree ==
    ASSUME ProcessTypeOK, FreePids # {}
    PROVE  /\ NextPid \in FreePids
           /\ \A m \in FreePids : Distance(NextPid) <= Distance(m)
  <1> DEFINE T == {Distance(m) : m \in FreePids}
  <1>1. \A m \in FreePids : Distance(m) \in Nat
    BY ProcessAssumption, SizeAssumption DEF ProcessTypeOK, FreePids, Distance
  <1>2. T \in SUBSET Nat /\ T # {}
    BY <1>1
  <1>3. PICK x \in T : \A y \in T : x <= y
    <2> HIDE DEF T
    <2> QED
      BY <1>2, SmallestMember
  <1>4. \E n \in FreePids : \A m \in FreePids : Distance(n) <= Distance(m)
    BY <1>3
  <1>5. NextPid = CHOOSE n \in FreePids : \A m \in FreePids : Distance(n) <= Distance(m)
    BY DEF NextPid
  <1> HIDE DEF T
  <1> QED
    BY <1>4, <1>5

\* In particular it starts with last_pid itself: pid 1 while it is free and
\* last_pid has not passed it.
LEMMA NextPidFirst ==
    ASSUME ProcessTypeOK, 1 \in FreePids, last_pid \in {0, 1}
    PROVE  NextPid = 1
  <1>1. /\ NextPid \in FreePids
        /\ Distance(NextPid) <= Distance(1)
    BY NextPidFree
  <1>2. NextPid \in 1..MAX_PID
    BY <1>1 DEF FreePids
  <1> QED
    BY <1>1, <1>2, ProcessAssumption, SizeAssumption DEF Distance

-----------------------------------------------------------------------------
(* What the steps of Memory mean for the slots.                            *)

\* A task that is present is live or a zombie; task 0 is live.
LEMMA SlotFacts ==
    ASSUME MemoryInv
    PROVE  /\ 0 \in Live
           /\ Live \subseteq Present /\ zombie \subseteq Present \ {0}
           /\ Live = Present \ zombie
           /\ Present \subseteq Slots
           /\ task[0] # NULL
  BY ConstantFacts DEF MemoryInv, TypeOK, Task0Fixed, SlotsConsistent, Live, Present,
                       init_task, NULL

\* Every step of Process is a step of Memory.
LEMMA StepOfMemory ==
    ASSUME [ProcessNext]_<<vars, pvars>>
    PROVE  [Next]_vars
  <1>1. ASSUME panic = "none", NEW s \in Slots, ProcessStep(s)
        PROVE  Next
    BY <1>1 DEF Next, Running
  <1>2. ASSUME panic = "none", NEW s \in Slots,
               sys_fork(s) \/ sys_fork_fails(s) \/ do_exit(s)
        PROVE  Next
    BY <1>1, <1>2 DEF sys_fork, sys_fork_fails, do_exit, ProcessStep
  <1>3. ASSUME panic = "none", NEW s \in Slots,
               MemoryStep(s) \/ \E p \in Pages : sys_waitpid(s, p)
        PROVE  Next \/ UNCHANGED vars
    BY <1>1, <1>3 DEF MemoryStep, sys_waitpid, ProcessStep
  <1>4. ASSUME panic = "none", NEW s \in Slots, NEW c \in Slots, reap(s, c)
        PROVE  Next
    BY <1>4 DEF reap, Next, Running
  <1> QED
    BY <1>2, <1>3, <1>4 DEF ProcessNext, Next

-----------------------------------------------------------------------------
(* The first process and the fathers.                                      *)

\* Apart from task 0 nobody has pid 0, and pid 1 is that of slot 1.
LEMMA PidFacts ==
    ASSUME ProcessInv
    PROVE  /\ \A s \in Present \ {0} : pid[s] # 0
           /\ \A s \in Present : pid[s] = 1 => s = 1
           /\ Present # {0} => 1 \in Present /\ pid[1] = 1 /\ father[1] = 0
  <1>1. 0 \in Present /\ pid[0] = 0
    BY SlotFacts DEF ProcessInv, FirstChild
  <1> QED
    BY <1>1 DEF ProcessInv, FirstChild, PidsUnique

\* Whoever is named as the father of a task is in task[], maybe as a zombie.
LEMMA FatherPresent ==
    ASSUME ProcessInv, NEW c \in Present \ {0}
    PROVE  \E t \in Present : pid[t] = father[c]
  <1>1. father[c] = 1 \/ \E t \in Live : pid[t] = father[c]
    BY DEF ProcessInv, FatherLives
  <1>2. Present # {0}
    OBVIOUS
  <1> QED
    BY <1>1, <1>2, PidFacts, SlotFacts DEF ProcessInv

\* tell_father finds the father, whose pid no other task has.
LEMMA FatherIsFound == ProcessInv => FatherFound
  <1> SUFFICES ASSUME ProcessInv
               PROVE  FatherFound
    OBVIOUS
  <1>1. ASSUME NEW s \in Live \ {0}
        PROVE  FatherSlot(s) # {}
    <2> DEFINE f == Adopted(s)[s]
    <2>1. s \in Present /\ s # 0 /\ s \in Slots
      BY SlotFacts DEF ProcessInv
    <2>2. f = 1 \/ \E t \in Live : pid[t] = f
      BY <2>1 DEF ProcessInv, FatherLives, Adopted
    <2>3. \E t \in Present : pid[t] = f
      BY <2>1, <2>2, PidFacts, SlotFacts DEF ProcessInv
    <2>4. PICK t \in Present : pid[t] = f
      BY <2>3
    <2>5. \A u \in Present : pid[u] = f => t <= u
      BY <2>4, ConstantFacts DEF ProcessInv, PidsUnique, Present
    <2> QED
      BY <2>4, <2>5 DEF FatherSlot
  <1> QED
    BY <1>1, PidFacts DEF FatherFound

-----------------------------------------------------------------------------
(* Fork.                                                                   *)

\* What a fork that succeeds does: a slot that was free, the first one, gets a
\* task; the panic of copy_page_tables is ruled out by Memory's invariant.
LEMMA ForkEffect ==
    ASSUME ProcessInv, MemoryInv', NEW s \in Slots, sys_fork(s)
    PROVE  \E n \in Slots \ Present :
              /\ n # 0 /\ \A m \in 1..(n - 1) : m \in Present
              /\ s \in Live /\ s # n
              /\ Present' = Present \cup {n} /\ Live' = Live \cup {n} /\ UNCHANGED zombie
              /\ pid' = [pid EXCEPT ![n] = NextPid]
              /\ father' = [father EXCEPT ![n] = pid[s]]
              /\ last_pid' = NextPid
  <1>1. PICK n \in find_empty_process :
           \E t \in get_free_page(mem_map) :
              IF pg_dir[n] # NULL
              THEN panic' = "already_exists"
              ELSE /\ task' = [task EXCEPT ![n] = t]
                   /\ copy_page_tables(s, n)
    BY DEF sys_fork, Fork
  <1>2. PICK t \in Frames :
           IF pg_dir[n] # NULL
           THEN panic' = "already_exists"
           ELSE /\ task' = [task EXCEPT ![n] = t]
                /\ copy_page_tables(s, n)
    BY <1>1 DEF get_free_page
  <1>3. panic' # "already_exists"
    BY DEF MemoryInv, OnlyOomPanics
  <1>4. task' = [task EXCEPT ![n] = t] /\ copy_page_tables(s, n)
    BY <1>2, <1>3
  <1>5. /\ n \in Slots \ {0} /\ task[n] = NULL
        /\ \A m \in 1..(n - 1) : task[m] # NULL
    BY DEF find_empty_process
  <1>6. \A m \in 1..(n - 1) : m \in Present
    BY <1>5, SizeAssumption DEF Present, Slots
  <1>7. \A k \in find_empty_process : k = n
    BY <1>5, ConstantFacts DEF find_empty_process, Slots
  <1>8. /\ s \in Live /\ UNCHANGED zombie
        /\ last_pid' = NextPid
        /\ pid' = [pid EXCEPT ![n] = NextPid]
        /\ father' = [father EXCEPT ![n] = pid[s]]
    BY <1>7 DEF sys_fork, Fork, find_pid
  <1>9. n \notin Present /\ s # n
    BY <1>5, <1>8 DEF Present, Live
  <1>10. Present' = Present \cup {n} /\ Live' = Live \cup {n}
    <2>1. t # NULL /\ n \notin zombie
      BY <1>9, SlotFacts, ConstantFacts, SizeAssumption DEF ProcessInv, NULL
    <2>2. \A r \in Slots : task'[r] = IF r = n THEN t ELSE task[r]
      BY <1>4 DEF ProcessInv, MemoryInv, TypeOK
    <2> QED
      BY <1>5, <1>8, <2>1, <2>2 DEF Present, Live
  <1> QED
    BY <1>5, <1>6, <1>8, <1>9, <1>10

\* The pid given to a slot that is free.
LEMMA NewPid ==
    ASSUME ProcessInv, NEW n \in Slots \ Present
    PROVE  /\ NextPid \in 1..MAX_PID /\ NextPid \notin PidsInUse
           /\ 1 \notin Present => NextPid = 1
  <1>1. FreePids # {}
    <2>1. task[n] = NULL /\ task[0] # NULL /\ pid[0] = 0
      BY SlotFacts DEF Present, ProcessInv, FirstChild
    <2> QED
      BY <2>1, PidLeft DEF ProcessInv
  <1>2. NextPid \in FreePids
    BY <1>1, NextPidFree DEF ProcessInv
  <1>3. ASSUME 1 \notin Present
        PROVE  NextPid = 1
    <2>1. PidsInUse = {0} /\ last_pid \in {0, 1}
      BY <1>3 DEF PidsInUse, ProcessInv, FirstChild
    <2>2. 1 \in FreePids
      BY <2>1, ProcessAssumption, SizeAssumption DEF FreePids
    <2> QED
      BY <2>1, <2>2, NextPidFirst DEF ProcessInv
  <1> QED
    BY <1>2, <1>3 DEF FreePids

\* The child gets a pid of its own, which is no zombie's father's, and a father
\* that runs.
LEMMA ForkKeepsProcessInv ==
    ASSUME ProcessInv, MemoryInv', NEW s \in Slots, sys_fork(s)
    PROVE  ProcessInv'
  <1>1. PICK n \in Slots \ Present :
              /\ n # 0 /\ \A m \in 1..(n - 1) : m \in Present
              /\ s \in Live /\ s # n
              /\ Present' = Present \cup {n} /\ Live' = Live \cup {n} /\ UNCHANGED zombie
              /\ pid' = [pid EXCEPT ![n] = NextPid]
              /\ father' = [father EXCEPT ![n] = pid[s]]
              /\ last_pid' = NextPid
    BY ForkEffect
  <1>2. UNCHANGED heard
    BY DEF sys_fork
  <1>3. /\ NextPid \in 1..MAX_PID /\ NextPid \notin PidsInUse
        /\ 1 \notin Present => NextPid = 1
    BY <1>1, NewPid
  <1>4. /\ pid \in [Slots -> 0..MAX_PID] /\ father \in [Slots -> -1..MAX_PID]
        /\ Present \subseteq Slots /\ 0 \in Present /\ zombie \subseteq Present \ {0}
        /\ n \notin Live /\ n \notin zombie /\ Live \subseteq Present
    BY <1>1, SlotFacts DEF ProcessInv, ProcessTypeOK
  <1>5. /\ \A r \in Slots \ {n} : pid'[r] = pid[r] /\ father'[r] = father[r]
        /\ pid'[n] = NextPid /\ father'[n] = pid[s]
    BY <1>1, <1>4
  <1>6. ProcessTypeOK'
    <2>1. pid[s] \in 0..MAX_PID /\ pid[s] \in -1..MAX_PID
      BY <1>4
    <2>2. father' \in [Slots -> -1..MAX_PID]
      BY <1>1, <1>4, <2>1
    <2>3. pid' \in [Slots -> 0..MAX_PID] /\ last_pid' \in 0..MAX_PID
      BY <1>1, <1>3, <1>4
    <2> QED
      BY <1>1, <1>2, <2>2, <2>3 DEF ProcessInv, ProcessTypeOK
  <1>7. PidsUnique'
    BY <1>1, <1>3, <1>4, <1>5 DEF ProcessInv, PidsUnique, PidsInUse
  <1>8. FirstChild'
    <2>1. pid'[0] = 0
      BY <1>1, <1>4, <1>5 DEF ProcessInv, FirstChild
    <2>2. CASE 1 \in Present
      <3>1. pid[1] = 1 /\ father[1] = 0 /\ n # 1
        BY <1>1, <2>2 DEF ProcessInv, FirstChild
      <3> QED
        BY <1>1, <1>4, <1>5, <2>1, <2>2, <3>1 DEF FirstChild
    <2>3. CASE 1 \notin Present
      <3>1. n = 1
        BY <1>1, <2>3, ConstantFacts DEF Slots
      <3>2. s = 0 /\ pid[s] = 0
        BY <1>1, <1>4, <2>3 DEF ProcessInv, FirstChild
      <3> QED
        BY <1>1, <1>3, <1>5, <2>1, <2>3, <3>1, <3>2 DEF FirstChild
    <2> QED
      BY <2>2, <2>3
  <1>9. FatherLives'
    <2>1. ASSUME NEW c \in Present \ {0}
          PROVE  father'[c] = 1 \/ \E t \in Live' : pid'[t] = father'[c]
      BY <1>1, <1>4, <1>5 DEF ProcessInv, FatherLives
    <2>2. \E t \in Live' : pid'[t] = father'[n]
      BY <1>1, <1>4, <1>5
    <2> QED
      BY <1>1, <2>1, <2>2 DEF FatherLives
  <1>10. ZombieAnnounced'
    <2> SUFFICES ASSUME NEW c \in zombie, NEW t \in Present \cup {n}, pid'[t] = father'[c]
                 PROVE  c \in heard[t]
      BY <1>1, <1>2 DEF ZombieAnnounced
    <2>1. c # n /\ father'[c] = father[c] /\ c \in Present \ {0}
      BY <1>1, <1>4, <1>5
    <2>2. father[c] \in PidsInUse
      BY <2>1, FatherPresent DEF PidsInUse
    <2>3. t # n
      BY <1>3, <1>5, <2>1, <2>2
    <2> QED
      BY <1>4, <1>5, <2>1, <2>3 DEF ProcessInv, ZombieAnnounced
  <1> QED
    BY <1>6, <1>7, <1>8, <1>9, <1>10 DEF ProcessInv

-----------------------------------------------------------------------------
(* Exit.                                                                   *)

\* What do_exit does: the father is found, so that the process stays as a
\* zombie, and free_page never panics.
LEMMA ExitEffect ==
    ASSUME ProcessInv, MemoryInv', NEW s \in Slots, do_exit(s)
    PROVE  /\ s \in Live \ {0}
           /\ UNCHANGED <<task, pid, last_pid>>
           /\ zombie' = zombie \cup {s}
           /\ Present' = Present /\ Live' = Live \ {s}
           /\ father' = Adopted(s)
           /\ Hears(Announced(s) \cup FatherSlot(s))
  <1>1. s \in Live \ {0}
    BY DEF do_exit, Exit, ExitOrphan
  <1>2. FatherSlot(s) # {}
    BY <1>1, FatherIsFound DEF FatherFound
  <1>3. panic' # "free_free_page"
    BY DEF MemoryInv, OnlyOomPanics
  <1>4. Exit(s) /\ father' = Adopted(s) /\ UNCHANGED pid
    BY <1>2 DEF do_exit
  <1>5. zombie' = zombie \cup {s} /\ UNCHANGED task
    BY <1>3, <1>4 DEF Exit
  <1>6. Present' = Present /\ Live' = Live \ {s}
    BY <1>5 DEF Present, Live
  <1> QED
    BY <1>1, <1>4, <1>5, <1>6 DEF do_exit

\* Nobody keeps a father that is gone; the father of the new zombie, and
\* process 1 for those it inherits, are told.
LEMMA ExitKeepsProcessInv ==
    ASSUME ProcessInv, MemoryInv', NEW s \in Slots, do_exit(s)
    PROVE  ProcessInv'
  <1>1. /\ s \in Live \ {0}
        /\ UNCHANGED <<task, pid, last_pid>>
        /\ zombie' = zombie \cup {s}
        /\ Present' = Present /\ Live' = Live \ {s}
        /\ father' = Adopted(s)
        /\ Hears(Announced(s) \cup FatherSlot(s))
    BY ExitEffect
  <1>2. /\ father \in [Slots -> -1..MAX_PID] /\ pid \in [Slots -> 0..MAX_PID]
        /\ Present \subseteq Slots /\ 0 \in Present
        /\ Live \subseteq Present /\ s \in Present /\ zombie \subseteq Present
    BY <1>1, SlotFacts DEF ProcessInv, ProcessTypeOK
  <1>3. \A c \in Slots : father'[c] = IF c \in ChildrenOf(s) THEN 1 ELSE father[c]
    BY <1>1 DEF Adopted
  <1>4. Present # {0}
    BY <1>1, <1>2
  <1>5. ProcessTypeOK'
    <2>1. 1 \in -1..MAX_PID
      BY ProcessAssumption, SizeAssumption
    <2>2. father' \in [Slots -> -1..MAX_PID]
      BY <1>1, <1>2, <2>1 DEF Adopted
    <2>3. heard' \in [Slots -> SUBSET Slots]
      <3>1. \A t \in Slots : heard[t] \subseteq Slots /\ zombie' \subseteq Slots
        BY <1>1, <1>2 DEF ProcessInv, ProcessTypeOK
      <3> QED
        BY <1>1, <3>1 DEF Hears
    <2> QED
      BY <1>1, <2>2, <2>3 DEF ProcessInv, ProcessTypeOK
  <1>6. PidsUnique'
    BY <1>1 DEF ProcessInv, PidsUnique
  <1>7. FirstChild'
    <2>1. 1 \in Present /\ father[1] = 0 /\ pid[s] # 0 /\ 1 \notin ChildrenOf(s)
      BY <1>1, <1>2, <1>4, PidFacts DEF ChildrenOf
    <2> QED
      BY <1>1, <1>2, <1>3, <2>1 DEF ProcessInv, FirstChild
  <1>8. FatherLives'
    <2> SUFFICES ASSUME NEW c \in Present \ {0}, father'[c] # 1
                 PROVE  \E t \in Live \ {s} : pid[t] = father'[c]
      BY <1>1 DEF FatherLives
    <2>1. c \notin ChildrenOf(s) /\ father'[c] = father[c]
      BY <1>2, <1>3
    <2>2. PICK t \in Live : pid[t] = father[c]
      BY <2>1 DEF ProcessInv, FatherLives
    <2> QED
      BY <2>1, <2>2 DEF ChildrenOf
  <1>9. ZombieAnnounced'
    <2> DEFINE told == Announced(s) \cup FatherSlot(s)
    <2> SUFFICES ASSUME NEW c \in zombie \cup {s}, NEW t \in Present, pid[t] = father'[c]
                 PROVE  c \in heard'[t]
      BY <1>1 DEF ZombieAnnounced
    <2>1. t \in told => c \in heard'[t]
      BY <1>1, <1>2 DEF Hears
    <2>2. t \notin told => heard'[t] = heard[t]
      BY <1>1, <1>2 DEF Hears
    <2>3. CASE c = s
      <3>1. pid[t] = Adopted(s)[s] /\ t \in Slots
        BY <1>1, <1>2, <2>3
      <3>2. \A u \in Present : pid[u] = pid[t] => t <= u
        BY <3>1, ConstantFacts DEF ProcessInv, PidsUnique
      <3>3. t \in FatherSlot(s)
        BY <3>1, <3>2 DEF FatherSlot
      <3> QED
        BY <2>1, <3>3
    <2>4. CASE c # s /\ c \notin ChildrenOf(s)
      <3>1. c \in zombie /\ father'[c] = father[c]
        BY <1>2, <1>3, <2>4
      <3>2. c \in heard[t]
        BY <3>1 DEF ProcessInv, ZombieAnnounced
      <3> QED
        BY <2>1, <2>2, <3>2
    <2>5. CASE c # s /\ c \in ChildrenOf(s)
      <3>1. c \in zombie /\ pid[t] = 1
        BY <1>2, <1>3, <2>5
      <3>2. t = 1
        BY <3>1, PidFacts
      <3>3. t \in Announced(s)
        BY <2>5, <3>1, <3>2 DEF Announced
      <3> QED
        BY <2>1, <3>3
    <2> QED
      BY <2>3, <2>4, <2>5
  <1> QED
    BY <1>5, <1>6, <1>7, <1>8, <1>9 DEF ProcessInv

-----------------------------------------------------------------------------
(* The release of a zombie.                                                *)

\* Process 1 is the child of task 0, which waits for nobody: it stays.  What is
\* taken out of the slot names no live task's father.
LEMMA ReapKeepsProcessInv ==
    ASSUME ProcessInv, MemoryInv', NEW w \in Slots, NEW s \in Slots, reap(w, s)
    PROVE  ProcessInv'
  <1>1. /\ w \in Live \ {0} /\ s \in zombie /\ s # 0 /\ father[s] = pid[w]
        /\ task' = [task EXCEPT ![s] = NULL] /\ zombie' = zombie \ {s}
        /\ pid' = [pid EXCEPT ![s] = 0]
        /\ father' = [father EXCEPT ![s] = 0]
        /\ heard' = [t \in Slots |-> heard[t] \ {s}]
        /\ UNCHANGED last_pid
    BY DEF reap, Release
  <1>2. /\ pid \in [Slots -> 0..MAX_PID] /\ father \in [Slots -> -1..MAX_PID]
        /\ Present \subseteq Slots /\ 0 \in Present
        /\ zombie \subseteq Present /\ Live = Present \ zombie
    BY SlotFacts DEF ProcessInv, ProcessTypeOK
  <1>3. Present' = Present \ {s} /\ Live' = Live
    <2>1. \A r \in Slots : task'[r] = IF r = s THEN NULL ELSE task[r]
      BY <1>1 DEF ProcessInv, MemoryInv, TypeOK
    <2> QED
      BY <1>1, <1>2, <2>1 DEF Present, Live
  <1>4. \A r \in Slots \ {s} : pid'[r] = pid[r] /\ father'[r] = father[r]
    BY <1>1, <1>2
  <1>5. s # 1 /\ 1 \in Present
    <2>1. w \in Present /\ Present # {0}
      BY <1>1, <1>2
    <2> QED
      BY <1>1, <2>1, PidFacts
  <1>6. ProcessTypeOK'
    <2>1. 0 \in -1..MAX_PID /\ 0 \in 0..MAX_PID
      BY ProcessAssumption, SizeAssumption
    <2>2. pid' \in [Slots -> 0..MAX_PID] /\ father' \in [Slots -> -1..MAX_PID]
      BY <1>1, <1>2, <2>1
    <2>3. heard' \in [Slots -> SUBSET Slots]
      BY <1>1 DEF ProcessInv, ProcessTypeOK
    <2> QED
      BY <1>1, <2>2, <2>3 DEF ProcessInv, ProcessTypeOK
  <1>7. PidsUnique'
    BY <1>2, <1>3, <1>4 DEF ProcessInv, PidsUnique
  <1>8. FirstChild'
    BY <1>1, <1>2, <1>3, <1>4, <1>5 DEF ProcessInv, FirstChild
  <1>9. FatherLives'
    <2> SUFFICES ASSUME NEW c \in Present \ {0, s}, father[c] # 1
                 PROVE  \E t \in Live : pid'[t] = father[c]
      BY <1>2, <1>3, <1>4 DEF FatherLives
    <2>1. PICK t \in Live : pid[t] = father[c]
      BY DEF ProcessInv, FatherLives
    <2>2. t # s /\ t \in Slots
      BY <1>1, <1>2
    <2> QED
      BY <1>4, <2>1, <2>2
  <1>10. ZombieAnnounced'
    <2> SUFFICES ASSUME NEW c \in zombie \ {s}, NEW t \in Present \ {s}, pid[t] = father[c]
                 PROVE  c \in heard[t] \ {s}
      BY <1>1, <1>2, <1>3, <1>4 DEF ZombieAnnounced
    <2> QED
      BY DEF ProcessInv, ZombieAnnounced
  <1> QED
    BY <1>6, <1>7, <1>8, <1>9, <1>10 DEF ProcessInv

-----------------------------------------------------------------------------
(* The other steps.                                                        *)

\* A page changes, or a fork fails and has advanced last_pid.
LEMMA UnchangedKeepsProcessInv ==
    ASSUME ProcessInv, MemoryInv',
           UNCHANGED <<task, zombie, pid, father, heard>>,
           last_pid' \in {last_pid, NextPid}
    PROVE  ProcessInv'
  <1>1. Present' = Present /\ Live' = Live
    BY DEF Present, Live
  <1>2. /\ last_pid' \in 0..MAX_PID
        /\ 1 \notin Present => last_pid' \in {0, 1}
    <2>1. last_pid \in 0..MAX_PID /\ (1 \notin Present => last_pid \in {0, 1})
      BY DEF ProcessInv, ProcessTypeOK, FirstChild
    <2>2. NextPid \in 0..MAX_PID
      <3>1. FreePids = {} => NextPid = last_pid
        BY DEF NextPid
      <3>2. FreePids # {} => NextPid \in 1..MAX_PID
        BY NextPidFree DEF ProcessInv, FreePids
      <3> QED
        BY <2>1, <3>1, <3>2
    <2>3. 1 \notin Present => NextPid = 1
      BY NewPid, SizeAssumption DEF Slots
    <2> QED
      BY <2>1, <2>2, <2>3
  <1>3. ProcessTypeOK'
    BY <1>1, <1>2 DEF ProcessInv, ProcessTypeOK
  <1>4. PidsUnique' /\ FatherLives' /\ FirstChild' /\ ZombieAnnounced'
    BY <1>1, <1>2 DEF ProcessInv, PidsUnique, FatherLives, FirstChild, ZombieAnnounced
  <1> QED
    BY <1>3, <1>4 DEF ProcessInv

\* Faults, stores and waitpid's verify_area leave the tasks alone.
LEMMA PagesKeepTasks ==
    ASSUME NEW s \in Slots, MemoryStep(s) \/ \E p \in Pages : sys_waitpid(s, p)
    PROVE  UNCHANGED <<task, zombie, pid, father, last_pid, heard>>
  <1>1. UNCHANGED pvars
    BY DEF MemoryStep, sys_waitpid
  <1>2. UNCHANGED <<task, zombie>>
    BY DEF MemoryStep, sys_waitpid, vars, do_wp_page, UnWpOom, do_no_page, NoPageOom,
           UserWrite, VerifiedStore
  <1> QED
    BY <1>1, <1>2 DEF pvars

-----------------------------------------------------------------------------
(* The theorems.                                                           *)

LEMMA InitProcessInv == ProcessInit => ProcessInv
  <1> SUFFICES ASSUME ProcessInit
               PROVE  ProcessInv
    OBVIOUS
  <1>1. MemoryInv
    BY InitMemoryInv DEF ProcessInit
  <1>2. Present = {0}
    BY ConstantFacts DEF ProcessInit, Init, Present, init_task, NULL
  <1>3. 0 \in -1..MAX_PID /\ -1 \in -1..MAX_PID /\ 0 \in 0..MAX_PID
    BY ProcessAssumption, SizeAssumption
  <1>4. ProcessTypeOK
    BY <1>3 DEF ProcessInit, ProcessTypeOK
  <1>5. PidsUnique /\ FirstChild /\ FatherLives
    BY <1>2, ConstantFacts DEF ProcessInit, PidsUnique, FirstChild, FatherLives
  <1>6. ZombieAnnounced
    BY DEF ProcessInit, Init, ZombieAnnounced
  <1> QED
    BY <1>1, <1>4, <1>5, <1>6 DEF ProcessInv

LEMMA NextProcessInv == ProcessInv /\ [ProcessNext]_<<vars, pvars>> => ProcessInv'
  <1> SUFFICES ASSUME ProcessInv, [ProcessNext]_<<vars, pvars>>
               PROVE  ProcessInv'
    OBVIOUS
  <1>1. MemoryInv'
    BY StepOfMemory, NextMemoryInv DEF ProcessInv
  <1>2. CASE \E s \in Slots : sys_fork(s)
    BY <1>1, <1>2, ForkKeepsProcessInv
  <1>3. ASSUME NEW s \in Slots, sys_fork_fails(s)
        PROVE  ProcessInv'
    <2>1. UNCHANGED <<task, zombie>>
      BY <1>3, ForkFailsUndone DEF sys_fork_fails, ProcessInv, MemoryInv
    <2> QED
      BY <1>1, <1>3, <2>1, UnchangedKeepsProcessInv DEF sys_fork_fails, find_pid
  <1>4. CASE \E s \in Slots : do_exit(s)
    BY <1>1, <1>4, ExitKeepsProcessInv
  <1>5. CASE \E s \in Slots : MemoryStep(s) \/ \E p \in Pages : sys_waitpid(s, p)
    BY <1>1, <1>5, PagesKeepTasks, UnchangedKeepsProcessInv
  <1>6. CASE UNCHANGED <<vars, pvars>>
    BY <1>1, <1>6, UnchangedKeepsProcessInv DEF vars, pvars
  <1>7. CASE \E w \in Slots, s \in Slots : reap(w, s)
    BY <1>1, <1>7, ReapKeepsProcessInv
  <1> QED
    BY <1>2, <1>3, <1>4, <1>5, <1>6, <1>7 DEF ProcessNext, Halted

\* The invariant of the process life cycle holds in every reachable state.
THEOREM ProcessCorrect == ProcessSpec => []ProcessInv
  BY InitProcessInv, NextProcessInv, PTL DEF ProcessSpec

\* The fields of the task_structs keep their types; in particular last_pid and
\* every pid stay within 0..MAX_PID, whatever find_empty_process went through.
THEOREM ProcessTypeCorrect == ProcessSpec => []ProcessTypeOK
  <1>1. ProcessInv => ProcessTypeOK
    BY DEF ProcessInv
  <1> QED
    BY <1>1, ProcessCorrect, PTL

\* find_empty_process never gives a pid to two tasks, zombies included.
THEOREM PidsAreUnique == ProcessSpec => []PidsUnique
  <1>1. ProcessInv => PidsUnique
    BY DEF ProcessInv
  <1> QED
    BY <1>1, ProcessCorrect, PTL

\* do_exit leaves every child with a father that can wait for it, or process 1.
THEOREM FathersLive == ProcessSpec => []FatherLives
  <1>1. ProcessInv => FatherLives
    BY DEF ProcessInv
  <1> QED
    BY <1>1, ProcessCorrect, PTL

\* tell_father always finds a father and process 1 is in slot 1: the branch
\* "NO FATHER", in which an exiting process frees its own stack, is never taken.
THEOREM FathersFound == ProcessSpec => []FatherFound
  BY FatherIsFound, ProcessCorrect, PTL

\* Every zombie has been announced by SIGCHLD to whoever is its father now.
THEOREM ZombiesAnnounced == ProcessSpec => []ZombieAnnounced
  <1>1. ProcessInv => ZombieAnnounced
    BY DEF ProcessInv
  <1> QED
    BY <1>1, ProcessCorrect, PTL

\* Processes do nothing to memory that Memory does not allow: the life cycle
\* implements it, and every theorem about Memory holds of it too.
THEOREM ProcessImplementsMemory == ProcessSpec => Spec
  <1>1. ProcessInit => Init
    BY DEF ProcessInit
  <1>2. ProcessInv /\ [ProcessNext]_<<vars, pvars>> => [Next]_vars
    BY StepOfMemory DEF ProcessInv
  <1> QED
    BY <1>1, <1>2, ProcessCorrect, PTL DEF ProcessSpec, Spec

=============================================================================
