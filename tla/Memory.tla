------------------------------- MODULE Memory -------------------------------
(***************************************************************************)
(* Physical pages, page tables and copy-on-write: mm/memory.c together     *)
(* with its only callers, the process life cycle of kernel/fork.c and      *)
(* kernel/exit.c, the page-fault entry mm/page.s, and the stores the       *)
(* kernel makes into user memory.                                          *)
(*                                                                         *)
(* A task owns one 64MB slot of the linear address space; its segments are *)
(* 640KB long (INIT_TASK in sched.h), so exactly one page-directory entry  *)
(* and one page table belong to it.  Slot s of task[] therefore stands for *)
(* the task, for its directory entry pg_dir[16 * s] and for that table.    *)
(*                                                                         *)
(* Kernel mode is not preempted (do_timer returns when cpl = 0) and no     *)
(* interrupt handler allocates or frees pages, so each system call or      *)
(* fault is one step.                                                      *)
(***************************************************************************)
EXTENDS Integers, FiniteSets

CONSTANTS
    NR_TASKS,      \* task slots (64)
    LOW_MEM,       \* first managed frame (1MB); the frames below are the kernel's
    HIGH_MEMORY,   \* end of managed memory, set by mem_init (3MB)
    USER_PAGES,    \* pages a user segment can address (160)
    COPY_PAGES,    \* pages copied out of task 0 by copy_page_tables (0xA0)
    Values,        \* what a page may hold; 0 is a cleared page
    EXIT_WIRED,    \* do_exit can be reached (its system call is a stub)
    REAP_WIRED     \* release can be reached from sys_waitpid

ASSUME SizeAssumption ==
    /\ NR_TASKS \in 2..255
    /\ LOW_MEM \in Nat /\ LOW_MEM >= 3
    /\ HIGH_MEMORY \in Nat /\ HIGH_MEMORY >= LOW_MEM
    /\ USER_PAGES \in 1..LOW_MEM
    /\ COPY_PAGES \in 1..USER_PAGES

ASSUME ValueAssumption == Values \subseteq Nat /\ 0 \in Values

ASSUME WiringAssumption == EXIT_WIRED \in BOOLEAN /\ REAP_WIRED \in BOOLEAN

VARIABLES
    task,      \* task[s]: the frame of the task_struct, NULL for a free slot
    zombie,    \* slots whose task is TASK_ZOMBIE
    pg_dir,    \* pg_dir[s]: the frame of the slot's page table, NULL if not present
    pte,       \* pte[s][p]: entry p of that table
    mem_map,   \* reference count of every managed frame, an unsigned char
    content,   \* what each frame holds
    panic      \* the reason of the kernel panic, "none" while the system runs

vars == <<task, zombie, pg_dir, pte, mem_map, content, panic>>

-----------------------------------------------------------------------------
Slots  == 0..(NR_TASKS - 1)
Pages  == 0..(USER_PAGES - 1)
Frames == LOW_MEM..(HIGH_MEMORY - 1)
Memory == 0..(HIGH_MEMORY - 1)

NULL      == 0
pg0       == 1          \* head.s: page table of the first 4MB
init_task == 2          \* sched.c: the static task_union of task 0

NoEntry == [page |-> NULL, prot |-> "NP"]      \* a page-table entry that is zero
EmptyTable == [p \in Pages |-> NoEntry]

\* Slots of tasks that can execute user code.
Live == {s \in Slots : task[s] # NULL /\ s \notin zombie}

(***************************************************************************)
(* Places where a frame can be recorded: an entry of a page table, the     *)
(* directory entry (TABLE) or task[] itself (TASK).                        *)
(***************************************************************************)
TASK  == -1
TABLE == -2
Places == Pages \cup {TASK, TABLE}

At(s, x) == IF x = TASK THEN task[s]
            ELSE IF x = TABLE THEN pg_dir[s]
            ELSE IF pte[s][x].prot = "NP" THEN NULL ELSE pte[s][x].page

Users(f) == {h \in Slots \X Places : At(h[1], h[2]) = f}

-----------------------------------------------------------------------------
(***************************************************************************)
(* setup_paging maps the low memory one to one, readable and writable;     *)
(* mem_init marks every frame from LOW_MEM to HIGH_MEMORY free; sched_init *)
(* leaves task 0 alone in task[].                                          *)
(***************************************************************************)
Init ==
    /\ task = [s \in Slots |-> IF s = 0 THEN init_task ELSE NULL]
    /\ zombie = {}
    /\ pg_dir = [s \in Slots |-> IF s = 0 THEN pg0 ELSE NULL]
    /\ pte = [s \in Slots |-> IF s = 0 THEN [p \in Pages |-> [page |-> p, prot |-> "RW"]]
                                       ELSE EmptyTable]
    /\ mem_map = [f \in Frames |-> 0]
    /\ content = [f \in Memory |-> 0]
    /\ panic = "none"

\* get_free_page scans mem_map from its end: the highest free frame, if any.
\* Its callers bind the result with \E; "returns 0" is the empty set.
get_free_page(mm) ==
    {f \in Frames : mm[f] = 0 /\ \A g \in Frames : mm[g] = 0 => g <= f}

\* free_page drops a reference; a frame that has none left to drop is a panic.
FreedTooOften(drop) == \E f \in Frames : drop[f] > mem_map[f]

-----------------------------------------------------------------------------
(* sys_fork: find_empty_process, copy_process, copy_mem, copy_page_tables. *)

\* find_empty_process takes the first free slot after task 0.
find_empty_process ==
    {n \in Slots \ {0} : task[n] = NULL /\ \A m \in 1..(n - 1) : task[m] # NULL}

\* Entries copy_page_tables visits: 0xA0 of task 0's table, all of another's.
Visited(s) == IF s = 0 THEN 0..(COPY_PAGES - 1) ELSE Pages

CopiedPages(s) == {p \in Visited(s) : pte[s][p].prot # "NP"}

\* A copied entry is read-only, and so is the original when it maps managed memory.
ReadOnly(e) == [page |-> e.page, prot |-> "RO"]

\* Variant: line 330 is missing, the parent keeps its write permission.
copy_page_tables_ParentWritable(s, n) ==
    pte' = [pte EXCEPT ![n] = [p \in Pages |->
        IF p \in CopiedPages(s) THEN ReadOnly(pte[s][p]) ELSE NoEntry]]

copy_page_tables(s, n) ==
    pte' = [pte EXCEPT
        ![n] = [p \in Pages |-> IF p \in CopiedPages(s) THEN ReadOnly(pte[s][p]) ELSE NoEntry],
        ![s] = [p \in Pages |-> IF p \in CopiedPages(s) /\ pte[s][p].page >= LOW_MEM
                                THEN ReadOnly(pte[s][p]) ELSE pte[s][p]]]

\* mem_map after the copy: one more reference per copied entry, in a byte.
SharedCount(s, mm) ==
    [f \in Frames |->
        (mm[f] + Cardinality({p \in CopiedPages(s) : pte[s][p].page = f})) % 256]

\* mem_map once a free frame t is handed out.
Allocated(t) == [mem_map EXCEPT ![t] = 1]

\* copy_page_tables panics when the directory entry of the new slot is in use.
Fork(s) ==
    /\ s \in Live
    /\ \E n \in find_empty_process :
       \E t \in get_free_page(mem_map) :
          IF pg_dir[n] # NULL
          THEN panic' = "already_exists" /\ UNCHANGED <<task, pg_dir, pte, mem_map, content>>
          ELSE \E g \in get_free_page(Allocated(t)) :
                 /\ task' = [task EXCEPT ![n] = t]
                 /\ pg_dir' = [pg_dir EXCEPT ![n] = g]
                 /\ copy_page_tables(s, n)
                 /\ mem_map' = SharedCount(s, [mem_map EXCEPT ![t] = 1, ![g] = 1])
                 /\ content' = [content EXCEPT ![t] = 0, ![g] = 0]
                 /\ UNCHANGED panic
    /\ UNCHANGED zombie

\* Variant: fork.c:118 is missing, the task_struct's frame is not freed.
RollBack_Leaks(n, t, taken, mm) ==
    /\ task' = [taken EXCEPT ![n] = NULL]
    /\ mem_map' = mm

\* copy_mem has failed: copy_process clears the slot it took and frees the
\* frame it got.  free_page_tables, called first, finds no directory entry.
RollBack(n, t, taken, mm) ==
    /\ task' = [taken EXCEPT ![n] = NULL]
    /\ mem_map' = [mm EXCEPT ![t] = @ - 1]

\* No slot, or no frame for the task_struct: fork returns -1.  No frame for
\* the page table: what copy_process has done by then is rolled back, except
\* that get_free_page has zeroed the frame.
ForkFails(s) ==
    /\ s \in Live
    /\ \/ /\ find_empty_process = {} \/ get_free_page(mem_map) = {}
          /\ UNCHANGED <<task, mem_map, content>>
       \/ \E n \in find_empty_process :
          \E t \in get_free_page(mem_map) :
             /\ pg_dir[n] = NULL
             /\ get_free_page(Allocated(t)) = {}
             /\ RollBack(n, t, [task EXCEPT ![n] = t], Allocated(t))
             /\ content' = [content EXCEPT ![t] = 0]
    /\ UNCHANGED <<zombie, pg_dir, pte, panic>>

-----------------------------------------------------------------------------
(* User accesses, page faults and kernel stores into user memory.          *)

\* A user-mode store the MMU lets through.
UserWrite(s, p, v) ==
    /\ s \in Live
    /\ pte[s][p].prot = "RW"
    /\ content' = [content EXCEPT ![pte[s][p].page] = v]
    /\ UNCHANGED <<task, zombie, pg_dir, pte, mem_map, panic>>

\* un_wp_page keeps the frame only when its count says nobody else has it.
SoleUser(s, p) == pte[s][p].page >= LOW_MEM /\ mem_map[pte[s][p].page] = 1

\* Variant: lines 240-241 are missing, the old frame keeps its reference.
un_wp_page_NoRelease(s, p, f) ==
    /\ \/ SoleUser(s, p) /\ f = pte[s][p].page /\ UNCHANGED mem_map
       \/ ~SoleUser(s, p) /\ f \in get_free_page(mem_map) /\ mem_map' = [mem_map EXCEPT ![f] = 1]
    /\ pte' = [pte EXCEPT ![s][p] = [page |-> f, prot |-> "RW"]]

un_wp_page(s, p, f) ==
    /\ \/ /\ SoleUser(s, p)
          /\ f = pte[s][p].page
          /\ UNCHANGED mem_map
       \/ /\ ~SoleUser(s, p)
          /\ f \in get_free_page(mem_map)
          /\ mem_map' = [g \in Frames |->
                IF g = f THEN 1
                ELSE IF g = pte[s][p].page THEN (mem_map[g] + 255) % 256
                ELSE mem_map[g]]
    /\ pte' = [pte EXCEPT ![s][p] = [page |-> f, prot |-> "RW"]]

\* page_fault on a present entry: do_wp_page.  The new frame was cleared by
\* get_free_page and un_wp_page does not copy the old frame into it.
do_wp_page(s, p) ==
    /\ s \in Live
    /\ pte[s][p].prot = "RO"
    /\ \E f \in Frames :
          /\ un_wp_page(s, p, f)
          /\ content' = [content EXCEPT ![f] = IF SoleUser(s, p) THEN @ ELSE 0]
    /\ UNCHANGED <<task, zombie, pg_dir, panic>>

\* verify_area un-shares a read-only page before do_signal or save_old store
\* into it with put_fs_long or put_fs_byte.
VerifiedStore(s, p, v) ==
    /\ s \in Live
    /\ pte[s][p].prot = "RO"
    /\ \E f \in Frames :
          /\ un_wp_page(s, p, f)
          /\ content' = [content EXCEPT ![f] = v]
    /\ UNCHANGED <<task, zombie, pg_dir, panic>>

\* oom() in un_wp_page: the page is shared and no frame is free.
UnWpOom(s, p) ==
    /\ s \in Live
    /\ pte[s][p].prot = "RO"
    /\ ~SoleUser(s, p)
    /\ get_free_page(mem_map) = {}
    /\ panic' = "oom"
    /\ UNCHANGED <<task, zombie, pg_dir, pte, mem_map, content>>

\* page_fault on a missing entry: do_no_page maps a cleared frame (put_page,
\* the slot's table being present).
do_no_page(s, p) ==
    /\ s \in Live
    /\ pte[s][p].prot = "NP"
    /\ pg_dir[s] # NULL
    /\ \E f \in get_free_page(mem_map) :
          /\ mem_map' = [mem_map EXCEPT ![f] = 1]
          /\ pte' = [pte EXCEPT ![s][p] = [page |-> f, prot |-> "RW"]]
          /\ content' = [content EXCEPT ![f] = 0]
    /\ UNCHANGED <<task, zombie, pg_dir, panic>>

\* oom() in do_no_page: no frame is free.  put_page can fail only for a slot
\* without a table, which no live task is (SlotsConsistent).
NoPageOom(s, p) ==
    /\ s \in Live
    /\ pte[s][p].prot = "NP"
    /\ get_free_page(mem_map) = {}
    /\ panic' = "oom"
    /\ UNCHANGED <<task, zombie, pg_dir, pte, mem_map, content>>

-----------------------------------------------------------------------------
(* do_exit and release.                                                    *)

\* References free_page_tables drops: the table's frame and every mapped page.
TableRefs(s) == [f \in Frames |-> Cardinality({x \in Pages \cup {TABLE} : At(s, x) = f})]

\* The same and the task_struct's own frame.
OwnRefs(s) == [f \in Frames |-> Cardinality({x \in Places : At(s, x) = f})]

\* Variant: line 147 of memory.c is missing, the directory entry survives.
Exit_StaleDirectory(s) ==
    /\ EXIT_WIRED
    /\ s \in Live \ {0}
    /\ mem_map' = [f \in Frames |-> mem_map[f] - TableRefs(s)[f]]
    /\ pte' = [pte EXCEPT ![s] = EmptyTable]
    /\ zombie' = zombie \cup {s}
    /\ UNCHANGED <<task, pg_dir, content, panic>>

\* Variant: line 128 of memory.c is missing, task 0 can be torn down.
ExitOfTask0_Allowed ==
    /\ EXIT_WIRED
    /\ zombie' = zombie \cup {0}
    /\ UNCHANGED <<task, pg_dir, pte, mem_map, content, panic>>

\* do_exit of a task other than 0 frees its pages and its table.  tell_father
\* finds the father: the slot and the task_struct's frame stay until release.
Exit(s) ==
    /\ EXIT_WIRED
    /\ s \in Live \ {0}
    /\ IF FreedTooOften(TableRefs(s))
       THEN /\ panic' = "free_free_page"
            /\ UNCHANGED <<zombie, pg_dir, pte, mem_map>>
       ELSE /\ mem_map' = [f \in Frames |-> mem_map[f] - TableRefs(s)[f]]
            /\ pg_dir' = [pg_dir EXCEPT ![s] = NULL]
            /\ pte' = [pte EXCEPT ![s] = EmptyTable]
            /\ zombie' = zombie \cup {s}
            /\ UNCHANGED panic
    /\ UNCHANGED <<task, content>>

\* do_exit when tell_father finds no father: it releases the task at once.
\* Who is whose father is not part of this module's state.
ExitOrphan(s) ==
    /\ EXIT_WIRED
    /\ s \in Live \ {0}
    /\ IF FreedTooOften(OwnRefs(s))
       THEN /\ panic' = "free_free_page"
            /\ UNCHANGED <<task, pg_dir, pte, mem_map>>
       ELSE /\ mem_map' = [f \in Frames |-> mem_map[f] - OwnRefs(s)[f]]
            /\ task' = [task EXCEPT ![s] = NULL]
            /\ pg_dir' = [pg_dir EXCEPT ![s] = NULL]
            /\ pte' = [pte EXCEPT ![s] = EmptyTable]
            /\ UNCHANGED panic
    /\ UNCHANGED <<zombie, content>>

\* Task 0 has base 0, which free_page_tables refuses to free.
ExitOfTask0 ==
    /\ EXIT_WIRED
    /\ panic' = "swapper"
    /\ UNCHANGED <<task, zombie, pg_dir, pte, mem_map, content>>

Release(s) ==
    /\ REAP_WIRED
    /\ s \in zombie
    /\ IF mem_map[task[s]] = 0
       THEN /\ panic' = "free_free_page"
            /\ UNCHANGED mem_map
       ELSE /\ mem_map' = [mem_map EXCEPT ![task[s]] = @ - 1]
            /\ UNCHANGED panic
    /\ task' = [task EXCEPT ![s] = NULL]
    /\ zombie' = zombie \ {s}
    /\ UNCHANGED <<pg_dir, pte, content>>

-----------------------------------------------------------------------------
\* tty_read stores the characters it read with put_fs_byte and no verify_area.
\* head.s leaves CR0.WP clear, so a kernel-mode store ignores the R/W bit.
TtyStore(s, p, v) ==
    /\ s \in Live
    /\ pte[s][p].prot # "NP"
    /\ content' = [content EXCEPT ![pte[s][p].page] = v]
    /\ UNCHANGED <<task, zombie, pg_dir, pte, mem_map, panic>>

-----------------------------------------------------------------------------
\* panic() never returns: for(;;);
Halted == panic # "none" /\ UNCHANGED vars

ProcessStep(s) ==
    \/ Fork(s)
    \/ ForkFails(s)
    \/ \E p \in Pages :
          \/ \E v \in Values : UserWrite(s, p, v) \/ VerifiedStore(s, p, v)
          \/ do_wp_page(s, p)
          \/ UnWpOom(s, p)
          \/ do_no_page(s, p)
          \/ NoPageOom(s, p)
    \/ Exit(s)
    \/ ExitOrphan(s)

Running ==
    /\ panic = "none"
    /\ \/ \E s \in Slots :
             \/ ProcessStep(s)
             \/ Release(s)
             \/ \E p \in Pages, v \in Values : TtyStore(s, p, v)
       \/ ExitOfTask0

Next == Running \/ Halted

Spec == Init /\ [][Next]_vars

-----------------------------------------------------------------------------
(* Properties.                                                             *)

Entry == [page : Memory, prot : {"NP", "RO", "RW"}]

\* Every variable has its type; in particular mem_map fits its unsigned char.
TypeOK ==
    /\ task \in [Slots -> Memory]
    /\ zombie \in SUBSET (Slots \ {0})
    /\ pg_dir \in [Slots -> Memory]
    /\ pte \in [Slots -> [Pages -> Entry]]
    /\ mem_map \in [Frames -> 0..255]
    /\ content \in [Memory -> Values]
    /\ panic \in {"none", "oom", "already_exists", "free_free_page", "swapper"}

\* The byte in mem_map of every managed frame is exactly the number of page
\* table entries, page tables and task structures that hold the frame: no
\* leak, no early free, whatever forks, faults and exits came before
\* (get_free_page, free_page, copy_page_tables and un_wp_page together).
RefCountExact ==
    \A f \in Frames : mem_map[f] = Cardinality(Users(f))

\* A frame some page table entry lets its owner write belongs to that entry
\* alone: no other process maps it and it is no page table or task_struct.
\* Frames below LOW_MEM are not counted; there only task 0 may write.
NoWritableSharing ==
    \A s \in Slots, p \in Pages :
        pte[s][p].prot = "RW" =>
            IF pte[s][p].page >= LOW_MEM THEN Users(pte[s][p].page) = {<<s, p>>} ELSE s = 0

\* The kernel's own consistency checks never fire: the only panics are running
\* out of memory in a page fault and, were exit reachable, the exit of task 0.
OnlyOomPanics == panic \in {"none", "oom", "swapper"}

\* What a process reads: the contents of its pages, and which are missing.
View(s) == [p \in Pages |-> IF pte[s][p].prot = "NP" THEN -1
                            ELSE content[pte[s][p].page]]

-----------------------------------------------------------------------------
(* The inductive invariant behind the safety properties.                   *)

\* One process records a managed frame in at most one place.
OnePlacePerSlot ==
    \A s \in Slots, x \in Places, y \in Places :
        At(s, x) \in Frames /\ At(s, x) = At(s, y) => x = y

\* A frame that holds a task_struct or a page table has no second user.
KernelFramesExclusive ==
    \A s \in Slots, x \in {TASK, TABLE} :
        At(s, x) \in Frames => Users(At(s, x)) = {<<s, x>>}

\* Task 0 never leaves the low memory it booted with.
Task0Fixed ==
    /\ task[0] = init_task
    /\ pg_dir[0] = pg0
    /\ pte[0] = [p \in Pages |-> [page |-> p, prot |-> "RW"]]

\* A live process has a page table; a free or zombie slot has nothing mapped.
SlotsConsistent ==
    \A s \in Slots \ {0} :
        /\ task[s] \in {NULL} \cup Frames
        /\ s \in zombie => task[s] # NULL
        /\ IF s \in Live THEN pg_dir[s] \in Frames
                         ELSE pg_dir[s] = NULL /\ pte[s] = EmptyTable

\* Reference counting, copy-on-write protection and the slot table hold
\* together: the conjunction every operation preserves.
MemoryInv ==
    /\ TypeOK
    /\ OnlyOomPanics
    /\ OnePlacePerSlot
    /\ KernelFramesExclusive
    /\ Task0Fixed
    /\ SlotsConsistent
    /\ RefCountExact
    /\ NoWritableSharing

-----------------------------------------------------------------------------
(* What the comments of the code say and the code does not do.             *)

\* memory.c:220-222, un_wp_page "copies the content of the old page into the
\* new one (Copy On Write)": a process that un-shares a page still reads there
\* what it read before.
CowKeepsContent ==
    [][\A s \in Slots, p \in Pages : do_wp_page(s, p) => View(s)' = View(s)]_vars

=============================================================================
