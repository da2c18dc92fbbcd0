------------------------------ MODULE Process -------------------------------
(***************************************************************************)
(* The life of a process: the pids of find_empty_process, do_exit,         *)
(* tell_father, release and sys_waitpid of kernel/exit.c, on top of the    *)
(* slots, page tables and frames of Memory.  Every step is a step of       *)
(* Memory together with what it does to the fields of the task_structs.    *)
(*                                                                         *)
(* sys_exit and sys_waitpid are stubs in sys_call_table: the module says   *)
(* what exit.c does once they are entered there.  The loop of sys_waitpid  *)
(* skips every task, so that it releases no zombie; reap is the release of *)
(* one by its father, which only REAP_WIRED lets happen, as in Memory.     *)
(***************************************************************************)
EXTENDS Memory

CONSTANTS
    MAX_PID,      \* the largest pid, 2^31 - 1
    MAX_FORKS     \* bound: calls of fork

ASSUME ProcessAssumption ==
    /\ MAX_PID \in Nat /\ MAX_PID >= NR_TASKS - 1
    /\ MAX_FORKS \in Nat

VARIABLES
    pid, father,   \* fields of the task_struct in each slot, 0 in a free slot
    last_pid,      \* the counter of find_empty_process
    forks,         \* calls of fork so far
    heard          \* history: see Hears

pvars == <<pid, father, last_pid, forks, heard>>

ProcessInit ==
    /\ Init
    /\ pid = [s \in Slots |-> 0]
    /\ father = [s \in Slots |-> IF s = 0 THEN -1 ELSE 0]
    /\ last_pid = 0 /\ forks = 0
    /\ heard = [s \in Slots |-> {}]

Present == {s \in Slots : task[s] # NULL}

-----------------------------------------------------------------------------
(* fork: find_empty_process and copy_process.                              *)

PidsInUse == {pid[s] : s \in Present}

\* Steps of ++last_pid from last_pid to n; past MAX_PID comes 1.
Distance(n) == IF n >= last_pid THEN n - last_pid ELSE MAX_PID - last_pid + n

\* Variant: the pid after the last one, used or not.
NextPid_Unchecked == IF last_pid = MAX_PID THEN 1 ELSE last_pid + 1

FreePids == (1..MAX_PID) \ PidsInUse

\* Variant: last_pid goes on past the largest pid.
NextPid_NoWrap ==
    CHOOSE n \in (last_pid..(last_pid + NR_TASKS)) \ PidsInUse :
        \A m \in (last_pid..(last_pid + NR_TASKS)) \ PidsInUse : n <= m

\* The first pid from last_pid on that no task has.  When every pid is taken
\* so is every slot, and the fork fails.
NextPid ==
    LET free == FreePids IN
    IF free = {} THEN last_pid
    ELSE CHOOSE n \in free : \A m \in free : Distance(n) <= Distance(m)

\* Every fork looks for a pid first, also one that fails later.
find_pid ==
    /\ forks < MAX_FORKS /\ forks' = forks + 1
    /\ last_pid' = NextPid

sys_fork(s) ==
    /\ Fork(s)
    /\ \E n \in find_empty_process :
          /\ pid' = [pid EXCEPT ![n] = NextPid]
          /\ father' = [father EXCEPT ![n] = pid[s]]
    /\ find_pid
    /\ UNCHANGED heard

sys_fork_fails(s) ==
    /\ ForkFails(s)
    /\ find_pid
    /\ UNCHANGED <<pid, father, heard>>

-----------------------------------------------------------------------------
(* exit.                                                                   *)

\* Slots T get SIGCHLD.  heard[t] is what t can know of its children by that
\* signal alone: those that were zombies when it was last sent.
Hears(T) ==
    heard' = [t \in Slots |-> IF t \in T THEN {c \in zombie' : father'[c] = pid[t]} ELSE heard[t]]

ChildrenOf(s) == {c \in Present : father[c] = pid[s]}

\* Children of an exiting process go to process 1.
Adopted(s) == [c \in Slots |-> IF c \in ChildrenOf(s) THEN 1 ELSE father[c]]

\* Variant: a child that is a zombie already is handed over silently.
Announced_Not(s) == {}

\* For a child that is a zombie already task[1] gets SIGCHLD.
Announced(s) == IF ChildrenOf(s) \cap zombie # {} THEN {1} \cap Present ELSE {}

\* The slot tell_father finds for s, if any: the first with the father's pid.
FatherSlot(s) ==
    LET f == Adopted(s)[s] IN
    {t \in Present : pid[t] = f /\ \A u \in Present : pid[u] = f => t <= u}

\* Variant: the children keep the pid of a process that is gone.
do_exit_NoAdoption(s) ==
    /\ Exit(s)
    /\ UNCHANGED <<pid, father, last_pid, forks>>
    /\ Hears(FatherSlot(s))

\* tell_father leaves the process as a zombie, or releases it when it has no
\* father ("NO FATHER").  Task 0 runs main() and never exits.
do_exit(s) ==
    /\ s # 0
    /\ IF FatherSlot(s) # {}
       THEN Exit(s) /\ father' = Adopted(s) /\ UNCHANGED pid
       ELSE ExitOrphan(s) /\ father' = [Adopted(s) EXCEPT ![s] = 0] /\ pid' = [pid EXCEPT ![s] = 0]
    /\ Hears(Announced(s) \cup FatherSlot(s))
    /\ UNCHANGED <<last_pid, forks>>

-----------------------------------------------------------------------------
(* waitpid.                                                                *)

\* verify_area(stat_addr, 4) un-shares a page that is present and read-only,
\* as a write fault does.  Then the loop skips every slot with a task (line
\* 118, *p where !*p is meant); at a free slot it reads address 0, the page
\* directory, finds father 0 there and goes on, since only task 0 has pid 0.
\* What is left is -ECHILD, whatever the arguments.  Task 0 never waits.
sys_waitpid(w, p) ==
    /\ w \in Live \ {0}
    /\ IF pte[w][p].prot = "RO" THEN do_wp_page(w, p) \/ UnWpOom(w, p) ELSE UNCHANGED vars
    /\ UNCHANGED pvars

\* The case of a zombie in that loop, for the child of w in slot s: the slot is
\* free again, and the next process in it is not one w has heard of.
reap(w, s) ==
    /\ w \in Live \ {0}
    /\ s # 0 /\ father[s] = pid[w]
    /\ Release(s)
    /\ pid' = [pid EXCEPT ![s] = 0]
    /\ father' = [father EXCEPT ![s] = 0]
    /\ heard' = [t \in Slots |-> heard[t] \ {s}]
    /\ UNCHANGED <<last_pid, forks>>

-----------------------------------------------------------------------------
\* The steps of Memory that are no business of this module.
MemoryStep(s) ==
    /\ \E p \in Pages :
          \/ \E v \in Values : UserWrite(s, p, v) \/ VerifiedStore(s, p, v)
          \/ do_wp_page(s, p) \/ UnWpOom(s, p) \/ do_no_page(s, p) \/ NoPageOom(s, p)
    /\ UNCHANGED pvars

ProcessNext ==
    \/ /\ panic = "none"
       /\ \E s \in Slots :
             \/ sys_fork(s) \/ sys_fork_fails(s)
             \/ do_exit(s)
             \/ \E p \in Pages : sys_waitpid(s, p)
             \/ \E c \in Slots : reap(s, c)
             \/ MemoryStep(s)
    \/ Halted /\ UNCHANGED pvars

ProcessSpec == ProcessInit /\ [][ProcessNext]_<<vars, pvars>>

-----------------------------------------------------------------------------
(* Properties.                                                             *)

\* Types of the fields.
ProcessTypeOK ==
    /\ pid \in [Slots -> 0..MAX_PID]
    /\ father \in [Slots -> -1..MAX_PID]
    /\ last_pid \in 0..MAX_PID
    /\ heard \in [Slots -> SUBSET Slots]

\* No two tasks, zombies included, have the same pid, also after last_pid has
\* started over at 1 and although it is advanced by forks that fail.
PidsUnique ==
    \A s \in Present, t \in Present : pid[s] = pid[t] => s = t

\* Every process has a father that can still wait for it, or process 1: the
\* loop of do_exit leaves no child with the pid of a process that is gone,
\* which a later process could get.
FatherLives ==
    \A s \in Present \ {0} : father[s] = 1 \/ \E t \in Live : pid[t] = father[s]

\* tell_father never has to release the process that calls it, whose own stack
\* lies in the frame release would free: a father is always found, process 1
\* in slot 1, as do_exit assumes when it tells task[1].
FatherFound ==
    /\ \A s \in Live \ {0} : FatherSlot(s) # {}
    /\ \A s \in Present : pid[s] = 1 => s = 1

\* A process can rely on SIGCHLD to learn of its zombies: each of them was a
\* zombie and its child when it was last sent the signal, whether it exited as
\* its child or was handed over by a process that exited later, and whatever
\* exits and adoptions came in between.
ZombieAnnounced ==
    \A c \in zombie, t \in Present : pid[t] = father[c] => c \in heard[t]

-----------------------------------------------------------------------------
(* The inductive invariant behind the properties.                          *)

\* The first fork makes process 1 in slot 1; its father is task 0.
FirstChild ==
    /\ pid[0] = 0
    /\ IF 1 \in Present THEN pid[1] = 1 /\ father[1] = 0
                        ELSE Present = {0} /\ last_pid \in {0, 1}

\* With these, FatherFound follows in every state.
ProcessInv ==
    /\ MemoryInv
    /\ ProcessTypeOK
    /\ PidsUnique
    /\ FirstChild
    /\ FatherLives
    /\ ZombieAnnounced

=============================================================================
