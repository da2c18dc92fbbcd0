---------------------------- MODULE MemoryProofs ----------------------------
(***************************************************************************)
(* Proofs about Memory, for every number of tasks (up to 255), of frames,  *)
(* of pages and of page contents.                                          *)
(***************************************************************************)
EXTENDS Memory, FiniteSetTheorems, FunctionTheorems, TLAPS

-----------------------------------------------------------------------------
(* Facts about the constants.                                              *)

\* The index sets are what the definitions suggest, NULL and the two static
\* kernel frames are not managed frames, and TASK and TABLE are not pages.
LEMMA ConstantFacts ==
    /\ 0 \in Slots
    /\ \A s \in Slots : s \in Nat
    /\ \A p \in Pages : p \in Memory /\ p < LOW_MEM /\ p \notin Frames
    /\ \A f \in Frames : f \in Nat /\ f >= LOW_MEM /\ f < HIGH_MEMORY
    /\ Frames \subseteq Memory
    /\ NULL \in Memory /\ pg0 \in Memory /\ init_task \in Memory
    /\ NULL \notin Frames /\ pg0 \notin Frames /\ init_task \notin Frames
    /\ TASK \notin Pages /\ TABLE \notin Pages /\ TASK # TABLE
    /\ \A f \in Memory : f \in Frames <=> f >= LOW_MEM
  BY SizeAssumption DEF Slots, Pages, Frames, Memory, NULL, pg0, init_task, TASK, TABLE

\* A set of pages is finite, so counting the entries that map a frame is sound.
LEMMA PagesFinite ==
    ASSUME NEW T \in SUBSET Places
    PROVE  IsFiniteSet(T) /\ Cardinality(T) \in Nat
  <1>1. IsFiniteSet(Pages)
    BY SizeAssumption, FS_Interval DEF Pages
  <1>2. IsFiniteSet(Places)
    <2>1. IsFiniteSet(Pages \cup {TABLE})
      BY <1>1, FS_AddElement
    <2>2. IsFiniteSet((Pages \cup {TABLE}) \cup {TASK})
      BY <2>1, FS_AddElement
    <2>3. Places = (Pages \cup {TABLE}) \cup {TASK}
      BY DEF Places
    <2> QED
      BY <2>2, <2>3
  <1>3. IsFiniteSet(T)
    BY <1>2, FS_Subset
  <1> QED
    BY <1>3, FS_CardinalityType

\* Counts stay in a byte: adding modulo 256, or subtracting what is there.
LEMMA ByteSum ==
    ASSUME NEW m \in [Frames -> 0..255], NEW d \in [Frames -> Nat]
    PROVE  [f \in Frames |-> (m[f] + d[f]) % 256] \in [Frames -> 0..255]
  <1>1. \A f \in Frames : m[f] \in Nat /\ d[f] \in Nat
    OBVIOUS
  <1>2. \A a, b \in Nat : (a + b) % 256 \in 0..255
    OBVIOUS
  <1> QED
    BY <1>1, <1>2

LEMMA ByteDiff ==
    ASSUME NEW m \in [Frames -> 0..255], NEW d \in [Frames -> Nat],
           \A f \in Frames : d[f] <= m[f]
    PROVE  [f \in Frames |-> m[f] - d[f]] \in [Frames -> 0..255]
  <1>1. \A f \in Frames : m[f] \in 0..255 /\ d[f] \in Nat /\ d[f] <= m[f]
    OBVIOUS
  <1>2. \A a \in 0..255, b \in Nat : b <= a => a - b \in 0..255
    OBVIOUS
  <1> QED
    BY <1>1, <1>2

-----------------------------------------------------------------------------
(* Type correctness.                                                       *)

\* The boot state is well typed.
LEMMA InitTypeOK == Init => TypeOK
  BY ConstantFacts, ValueAssumption, SizeAssumption
     DEF Init, TypeOK, Entry, EmptyTable, NoEntry

\* A fork that fails leaves no trace in the slots and the reference counts:
\* the roll-back takes back exactly what copy_process did, or a free slot and
\* a frame would be lost with every failure.
LEMMA ForkFailsUndone ==
    ASSUME TypeOK, NEW s \in Slots, ForkFails(s)
    PROVE  UNCHANGED <<task, zombie, pg_dir, pte, mem_map, panic>>
  <1>1. ASSUME NEW n \in find_empty_process, NEW t \in get_free_page(mem_map),
               RollBack(n, t, [task EXCEPT ![n] = t], Allocated(t))
        PROVE  UNCHANGED <<task, mem_map>>
    <2>1. n \in Slots /\ task[n] = NULL
      BY DEF find_empty_process
    <2>2. t \in Frames /\ mem_map[t] = 0
      BY DEF get_free_page
    <2>3. task' = task
      BY <1>1, <2>1 DEF RollBack, TypeOK
    <2>4. mem_map' = mem_map
      BY <1>1, <2>2 DEF RollBack, Allocated, TypeOK
    <2> QED
      BY <2>3, <2>4
  <1>2. UNCHANGED <<task, mem_map>>
    BY <1>1 DEF ForkFails
  <1> QED
    BY <1>2 DEF ForkFails

\* Every step of every operation keeps the types, mem_map's byte included.
LEMMA NextTypeOK == TypeOK /\ [Next]_vars => TypeOK'
  <1> SUFFICES ASSUME TypeOK, [Next]_vars
               PROVE  TypeOK'
    OBVIOUS
  <1>t. /\ task \in [Slots -> Memory]
        /\ zombie \in SUBSET (Slots \ {0})
        /\ pg_dir \in [Slots -> Memory]
        /\ pte \in [Slots -> [Pages -> Entry]]
    BY DEF TypeOK
  <1>m. mem_map \in [Frames -> 0..255]
    BY DEF TypeOK
  <1>c. content \in [Memory -> Values]
    BY DEF TypeOK
  <1>1. ASSUME NEW s \in Slots, Fork(s)
        PROVE  TypeOK'
    <2>1. PICK n \in Slots, t \in Frames :
               \/ panic' = "already_exists" /\ UNCHANGED <<task, pg_dir, pte, mem_map, content>>
               \/ \E g \in Frames :
                    /\ task' = [task EXCEPT ![n] = t]
                    /\ pg_dir' = [pg_dir EXCEPT ![n] = g]
                    /\ copy_page_tables(s, n)
                    /\ mem_map' = SharedCount(s, [mem_map EXCEPT ![t] = 1, ![g] = 1])
                    /\ content' = [content EXCEPT ![t] = 0, ![g] = 0]
                    /\ UNCHANGED panic
      BY <1>1 DEF Fork, find_empty_process, get_free_page
    <2>2. CASE panic' = "already_exists" /\ UNCHANGED <<task, pg_dir, pte, mem_map, content>>
      BY <2>2, <1>1 DEF Fork, TypeOK
    <2>3. ASSUME NEW g \in Frames,
                 /\ task' = [task EXCEPT ![n] = t]
                 /\ pg_dir' = [pg_dir EXCEPT ![n] = g]
                 /\ copy_page_tables(s, n)
                 /\ mem_map' = SharedCount(s, [mem_map EXCEPT ![t] = 1, ![g] = 1])
                 /\ content' = [content EXCEPT ![t] = 0, ![g] = 0]
                 /\ UNCHANGED panic
          PROVE  TypeOK'
      <3>1. task' \in [Slots -> Memory] /\ pg_dir' \in [Slots -> Memory]
        BY <2>3, <1>t, ConstantFacts
      <3>2. content' \in [Memory -> Values]
        BY <2>3, <1>c, ConstantFacts, ValueAssumption
      <3>3. pte' \in [Slots -> [Pages -> Entry]]
        <4>1. \A p \in Pages : pte[s][p] \in Entry /\ ReadOnly(pte[s][p]) \in Entry
          BY <1>t DEF ReadOnly, Entry
        <4>2. NoEntry \in Entry
          BY ConstantFacts DEF NoEntry, Entry
        <4> QED
          BY <2>3, <1>t, <4>1, <4>2 DEF copy_page_tables
      <3>4. mem_map' \in [Frames -> 0..255]
        <4> DEFINE mm == [mem_map EXCEPT ![t] = 1, ![g] = 1]
                   d == [f \in Frames |-> Cardinality({p \in CopiedPages(s) : pte[s][p].page = f})]
        <4>1. mm \in [Frames -> 0..255]
          BY <1>m
        <4>2. d \in [Frames -> Nat]
          <5> SUFFICES ASSUME NEW f \in Frames
                       PROVE  Cardinality({p \in CopiedPages(s) : pte[s][p].page = f}) \in Nat
            OBVIOUS
          <5>1. {p \in CopiedPages(s) : pte[s][p].page = f} \in SUBSET (Pages \cup {TABLE})
            BY SizeAssumption DEF CopiedPages, Visited, Pages
          <5> QED
            BY <5>1, PagesFinite DEF Places
        <4>3. mem_map' = [f \in Frames |-> (mm[f] + d[f]) % 256]
          BY <2>3 DEF SharedCount
        <4> HIDE DEF mm, d
        <4> QED
          BY <4>1, <4>2, <4>3, ByteSum
      <3> QED
        BY <2>3, <3>1, <3>2, <3>3, <3>4, <1>1, <1>t DEF Fork, TypeOK
    <2> QED
      BY <2>1, <2>2, <2>3
  <1>2. ASSUME NEW s \in Slots, ForkFails(s)
        PROVE  TypeOK'
    <2>1. content' \in [Memory -> Values]
      <3>1. UNCHANGED content \/ \E t \in Frames : content' = [content EXCEPT ![t] = 0]
        BY <1>2 DEF ForkFails, get_free_page
      <3> QED
        BY <3>1, <1>c, ConstantFacts, ValueAssumption
    <2> QED
      BY <1>2, <2>1, ForkFailsUndone DEF TypeOK
  <1>3. ASSUME NEW s \in Slots, NEW p \in Pages, NEW v \in Values,
               UserWrite(s, p, v) \/ TtyStore(s, p, v)
        PROVE  TypeOK'
    <2>1. content' \in [Memory -> Values]
      BY <1>3, <1>t, <1>c DEF UserWrite, TtyStore, Entry
    <2> QED
      BY <1>3, <2>1 DEF UserWrite, TtyStore, TypeOK
  <1>4. ASSUME NEW s \in Slots, NEW p \in Pages, NEW f \in Frames, un_wp_page(s, p, f)
        PROVE  /\ pte' \in [Slots -> [Pages -> Entry]]
               /\ mem_map' \in [Frames -> 0..255]
    <2>1. [page |-> f, prot |-> "RW"] \in Entry
      BY ConstantFacts DEF Entry
    <2>2. pte' \in [Slots -> [Pages -> Entry]]
      BY <1>4, <1>t, <2>1 DEF un_wp_page
    <2>3. mem_map' \in [Frames -> 0..255]
      BY <1>4, <1>m DEF un_wp_page
    <2> QED
      BY <2>2, <2>3
  <1>5. ASSUME NEW s \in Slots, NEW p \in Pages, NEW v \in Values,
               VerifiedStore(s, p, v) \/ do_wp_page(s, p)
        PROVE  TypeOK'
    <2>1. PICK f \in Frames :
               /\ un_wp_page(s, p, f)
               /\ \/ content' = [content EXCEPT ![f] = v]
                  \/ content' = [content EXCEPT ![f] = IF SoleUser(s, p) THEN @ ELSE 0]
      BY <1>5 DEF VerifiedStore, do_wp_page
    <2>2. content' \in [Memory -> Values]
      BY <2>1, <1>c, ConstantFacts, ValueAssumption
    <2>3. UNCHANGED <<task, zombie, pg_dir, panic>>
      BY <1>5 DEF VerifiedStore, do_wp_page
    <2> QED
      BY <1>4, <2>1, <2>2, <2>3 DEF TypeOK
  <1>6. ASSUME NEW s \in Slots, NEW p \in Pages, do_no_page(s, p)
        PROVE  TypeOK'
    <2>1. PICK f \in Frames :
               /\ mem_map' = [mem_map EXCEPT ![f] = 1]
               /\ pte' = [pte EXCEPT ![s][p] = [page |-> f, prot |-> "RW"]]
               /\ content' = [content EXCEPT ![f] = 0]
      BY <1>6 DEF do_no_page, get_free_page
    <2>2. [page |-> f, prot |-> "RW"] \in Entry
      BY ConstantFacts DEF Entry
    <2>3. pte' \in [Slots -> [Pages -> Entry]]
      BY <2>1, <2>2, <1>t
    <2>4. mem_map' \in [Frames -> 0..255]
      BY <2>1, <1>m
    <2>5. content' \in [Memory -> Values]
      BY <2>1, <1>c, ConstantFacts, ValueAssumption
    <2> QED
      BY <1>6, <2>3, <2>4, <2>5 DEF do_no_page, TypeOK
  <1>7. ASSUME NEW s \in Slots, NEW p \in Pages,
               UnWpOom(s, p) \/ NoPageOom(s, p)
        PROVE  TypeOK'
    BY <1>7 DEF UnWpOom, NoPageOom, TypeOK
  <1>8. ASSUME NEW s \in Slots, Exit(s)
        PROVE  TypeOK'
    <2>1. CASE FreedTooOften(TableRefs(s))
      BY <1>8, <2>1 DEF Exit, TypeOK
    <2>2. CASE ~FreedTooOften(TableRefs(s))
      <3>1. TableRefs(s) \in [Frames -> Nat]
        <4> SUFFICES ASSUME NEW f \in Frames
                     PROVE  Cardinality({x \in Pages \cup {TABLE} : At(s, x) = f}) \in Nat
          BY DEF TableRefs
        <4> QED
          BY PagesFinite DEF Places
      <3>2. \A f \in Frames : TableRefs(s)[f] <= mem_map[f]
        BY <2>2, <3>1, <1>m DEF FreedTooOften
      <3>3. mem_map' \in [Frames -> 0..255]
        <4>1. mem_map' = [f \in Frames |-> mem_map[f] - TableRefs(s)[f]]
          BY <1>8, <2>2 DEF Exit
        <4> QED
          BY <4>1, <3>1, <3>2, <1>m, ByteDiff
      <3>4. pg_dir' \in [Slots -> Memory] /\ zombie' \in SUBSET (Slots \ {0})
        BY <1>8, <2>2, <1>t, ConstantFacts DEF Exit, Live
      <3>5. EmptyTable \in [Pages -> Entry]
        BY ConstantFacts DEF EmptyTable, NoEntry, Entry
      <3>6. pte' \in [Slots -> [Pages -> Entry]]
        BY <1>8, <2>2, <3>5, <1>t DEF Exit
      <3> QED
        BY <1>8, <2>2, <3>3, <3>4, <3>6 DEF Exit, TypeOK
    <2> QED
      BY <2>1, <2>2
  <1>11. ASSUME NEW s \in Slots, ExitOrphan(s)
        PROVE  TypeOK'
    <2>1. CASE FreedTooOften(OwnRefs(s))
      BY <1>11, <2>1 DEF ExitOrphan, TypeOK
    <2>2. CASE ~FreedTooOften(OwnRefs(s))
      <3>1. OwnRefs(s) \in [Frames -> Nat]
        <4> SUFFICES ASSUME NEW f \in Frames
                     PROVE  Cardinality({x \in Places : At(s, x) = f}) \in Nat
          BY DEF OwnRefs
        <4> QED
          BY PagesFinite DEF Places
      <3>2. \A f \in Frames : OwnRefs(s)[f] <= mem_map[f]
        BY <2>2, <3>1, <1>m DEF FreedTooOften
      <3>3. mem_map' \in [Frames -> 0..255]
        <4>1. mem_map' = [f \in Frames |-> mem_map[f] - OwnRefs(s)[f]]
          BY <1>11, <2>2 DEF ExitOrphan
        <4> QED
          BY <4>1, <3>1, <3>2, <1>m, ByteDiff
      <3>4. pg_dir' \in [Slots -> Memory] /\ task' \in [Slots -> Memory]
        BY <1>11, <2>2, <1>t, ConstantFacts DEF ExitOrphan, Live
      <3>5. EmptyTable \in [Pages -> Entry]
        BY ConstantFacts DEF EmptyTable, NoEntry, Entry
      <3>6. pte' \in [Slots -> [Pages -> Entry]]
        BY <1>11, <2>2, <3>5, <1>t DEF ExitOrphan
      <3> QED
        BY <1>11, <2>2, <3>3, <3>4, <3>6 DEF ExitOrphan, TypeOK
    <2> QED
      BY <2>1, <2>2
  <1>9. ASSUME NEW s \in Slots, Release(s)
        PROVE  TypeOK'
    <2>1. CASE mem_map[task[s]] = 0
      <3>1. task' \in [Slots -> Memory] /\ zombie' \in SUBSET (Slots \ {0})
        BY <1>9, <1>t, ConstantFacts DEF Release
      <3> QED
        BY <1>9, <2>1, <3>1 DEF Release, TypeOK
    <2>2. CASE mem_map[task[s]] # 0
      <3>1. task' \in [Slots -> Memory] /\ zombie' \in SUBSET (Slots \ {0})
        BY <1>9, <1>t, ConstantFacts DEF Release
      <3>2. mem_map' = [mem_map EXCEPT ![task[s]] = @ - 1]
        BY <1>9, <2>2 DEF Release
      <3>3. mem_map' \in [Frames -> 0..255]
        <4>1. CASE task[s] \in Frames
          <5>1. mem_map[task[s]] - 1 \in 0..255
            BY <4>1, <2>2, <1>m
          <5> QED
            BY <3>2, <5>1, <1>m
        <4>2. CASE task[s] \notin Frames
          BY <4>2, <3>2, <1>m
        <4> QED
          BY <4>1, <4>2
      <3> QED
        BY <1>9, <2>2, <3>1, <3>3 DEF Release, TypeOK
    <2> QED
      BY <2>1, <2>2
  <1>10. CASE Halted \/ ExitOfTask0 \/ UNCHANGED vars
    BY <1>10 DEF ExitOfTask0, Halted, vars, TypeOK
  <1> QED
    BY <1>1, <1>2, <1>3, <1>5, <1>6, <1>7, <1>8, <1>9, <1>10, <1>11, ValueAssumption
       DEF Next, Running, ProcessStep

\* Type correctness of the memory manager, for all parameters.
THEOREM TypeCorrect == Spec => []TypeOK
  BY InitTypeOK, NextTypeOK, PTL DEF Spec

-----------------------------------------------------------------------------
(* Counting the users of a frame.                                          *)

\* A set of places with at most one place per task is finite and has at most
\* NR_TASKS elements, so that its size fits the byte of mem_map.
LEMMA ColumnBound ==
    ASSUME NEW U \in SUBSET (Slots \X Places),
           \A h, k \in U : h[1] = k[1] => h[2] = k[2]
    PROVE  IsFiniteSet(U) /\ Cardinality(U) \in 0..255
  <1>1. IsFiniteSet(Slots) /\ Cardinality(Slots) = NR_TASKS
    BY SizeAssumption, FS_Interval DEF Slots
  <1> DEFINE F == [h \in U |-> h[1]]
  <1>2. F \in [U -> Slots]
    OBVIOUS
  <1>3. \A h, k \in U : F[h] = F[k] => h = k
    OBVIOUS
  <1>4. F \in Injection(U, Slots)
    <2> HIDE DEF F
    <2> QED BY <1>2, <1>3, Fun_IsInj
  <1>5. IsFiniteSet(U) /\ Cardinality(U) <= NR_TASKS
    BY <1>1, <1>4, FS_Injection
  <1>6. Cardinality(U) \in Nat
    BY <1>5, FS_CardinalityType
  <1> QED
    BY <1>5, <1>6, SizeAssumption

\* At in the form the other proofs use.
LEMMA AtFacts ==
    ASSUME TypeOK, NEW s \in Slots
    PROVE  /\ At(s, TASK) = task[s]
           /\ At(s, TABLE) = pg_dir[s]
           /\ \A p \in Pages : At(s, p) = IF pte[s][p].prot = "NP" THEN NULL ELSE pte[s][p].page
           /\ \A x \in Places : At(s, x) \in Memory
  BY ConstantFacts DEF At, TypeOK, Entry, Places

\* The users of a managed frame can be counted.
LEMMA UsersFinite ==
    ASSUME OnePlacePerSlot, NEW f \in Frames
    PROVE  IsFiniteSet(Users(f)) /\ Cardinality(Users(f)) \in 0..255
  <1>1. \A h, k \in Users(f) : h[1] = k[1] => h[2] = k[2]
    BY DEF Users, OnePlacePerSlot
  <1>2. Users(f) \in SUBSET (Slots \X Places)
    BY DEF Users
  <1> QED
    BY <1>1, <1>2, ColumnBound

\* A frame whose count is zero is recorded nowhere.
LEMMA FreeFrameUnused ==
    ASSUME OnePlacePerSlot, RefCountExact, NEW f \in Frames, mem_map[f] = 0
    PROVE  /\ Users(f) = {}
           /\ \A s \in Slots, x \in Places : At(s, x) # f
  <1>1. Users(f) = {}
    BY UsersFinite, FS_EmptySet DEF RefCountExact
  <1>2. ASSUME NEW s \in Slots, NEW x \in Places, At(s, x) = f
        PROVE  <<s, x>> \in Users(f)
    BY <1>2 DEF Users
  <1> QED
    BY <1>1, <1>2

-----------------------------------------------------------------------------
(* One entry of one page table is redirected to a fresh frame: do_no_page  *)
(* and un_wp_page.                                                         *)

\* Entry p of task s now maps the free frame f, and the frame it mapped
\* before, if it was a managed one, has one reference less.
Redirect(s, p, f) ==
    /\ mem_map[f] = 0
    /\ pte' = [pte EXCEPT ![s][p] = [page |-> f, prot |-> "RW"]]
    /\ UNCHANGED <<task, pg_dir>>
    /\ \A g \in Frames : mem_map'[g] = IF g = f THEN 1
                                       ELSE IF g = At(s, p) THEN mem_map[g] - 1
                                       ELSE mem_map[g]

\* Redirecting an entry keeps the counts exact and writable frames private.
LEMMA RedirectKeepsInv ==
    ASSUME MemoryInv, NEW s \in Slots, NEW p \in Pages, NEW f \in Frames,
           Redirect(s, p, f)
    PROVE  OnePlacePerSlot' /\ KernelFramesExclusive' /\ RefCountExact' /\ NoWritableSharing'
  <1>1. \A r \in Slots, x \in Places : At(r, x)' = IF r = s /\ x = p THEN f ELSE At(r, x)
    <2>1. \A r \in Slots, q \in Pages :
             pte'[r][q] = IF r = s /\ q = p THEN [page |-> f, prot |-> "RW"] ELSE pte[r][q]
      BY DEF MemoryInv, TypeOK, Redirect
    <2> QED
      BY <2>1, ConstantFacts DEF At, Places, Redirect
  <1>2. \A r \in Slots, x \in Places : At(r, x) # f
    BY FreeFrameUnused DEF MemoryInv, Redirect
  <1>3. p \in Places /\ p # TASK /\ p # TABLE
    BY ConstantFacts DEF Places
  <1>4. \A g \in Frames : Users(g)' = IF g = f THEN {<<s, p>>} ELSE Users(g) \ {<<s, p>>}
    <2> SUFFICES ASSUME NEW g \in Frames
                 PROVE  Users(g)' = IF g = f THEN {<<s, p>>} ELSE Users(g) \ {<<s, p>>}
      OBVIOUS
    <2>1. \A h \in Slots \X Places : h = <<s, p>> <=> h[1] = s /\ h[2] = p
      OBVIOUS
    <2>2. \A h \in Slots \X Places : h \in Users(g)' <=>
             (IF h = <<s, p>> THEN f ELSE At(h[1], h[2])) = g
      BY <1>1, <2>1 DEF Users
    <2>3. \A h \in Slots \X Places : h \in Users(g) <=> At(h[1], h[2]) = g
      BY DEF Users
    <2>4. Users(g)' \subseteq Slots \X Places /\ Users(g) \subseteq Slots \X Places
      BY DEF Users
    <2>5. \A h \in Slots \X Places : At(h[1], h[2]) # f
      BY <1>2
    <2> QED
      BY <2>2, <2>3, <2>4, <2>5, <1>3
  <1>5. OnePlacePerSlot'
    <2> SUFFICES ASSUME NEW r \in Slots, NEW x \in Places, NEW y \in Places,
                        At(r, x)' \in Frames, At(r, x)' = At(r, y)'
                 PROVE  x = y
      BY DEF OnePlacePerSlot
    <2> QED
      BY <1>1, <1>2 DEF MemoryInv, OnePlacePerSlot
  <1>6. KernelFramesExclusive'
    <2> SUFFICES ASSUME NEW r \in Slots, NEW x \in {TASK, TABLE}, At(r, x)' \in Frames
                 PROVE  Users(At(r, x))' = {<<r, x>>}
      BY DEF KernelFramesExclusive
    <2>1. x \in Places /\ At(r, x)' = At(r, x) /\ At(r, x) # f
      BY <1>1, <1>2, <1>3 DEF Places
    <2>2. Users(At(r, x)) = {<<r, x>>}
      BY <2>1 DEF MemoryInv, KernelFramesExclusive
    <2>3. <<r, x>> # <<s, p>>
      BY <1>3
    <2>4. Users(At(r, x))' = Users(At(r, x)) \ {<<s, p>>}
      BY <1>4, <2>1 DEF Users
    <2> QED
      BY <2>2, <2>3, <2>4
  <1>7. RefCountExact'
    <2> SUFFICES ASSUME NEW g \in Frames
                 PROVE  mem_map'[g] = Cardinality(Users(g)')
      BY DEF RefCountExact
    <2>1. CASE g = f
      BY <2>1, <1>4, FS_Singleton DEF Redirect
    <2>2. CASE g # f
      <3>1. mem_map[g] = Cardinality(Users(g)) /\ IsFiniteSet(Users(g))
        BY UsersFinite DEF MemoryInv, RefCountExact
      <3>2. <<s, p>> \in Users(g) <=> At(s, p) = g
        BY <1>3 DEF Users
      <3> QED
        BY <2>2, <3>1, <3>2, <1>4, FS_RemoveElement DEF Redirect
    <2> QED
      BY <2>1, <2>2
  <1>8. NoWritableSharing'
    <2> SUFFICES ASSUME NEW r \in Slots, NEW q \in Pages, pte'[r][q].prot = "RW"
                 PROVE  IF (pte[r][q].page)' >= LOW_MEM
                        THEN Users(pte[r][q].page)' = {<<r, q>>} ELSE r = 0
      BY DEF NoWritableSharing
    <2>0. pte[r][q].page \in Memory /\ (pte[r][q].page)' \in Memory /\ LOW_MEM \in Int
      BY SizeAssumption, ConstantFacts DEF MemoryInv, TypeOK, Entry, Redirect
    <2>1. CASE r = s /\ q = p
      <3>1. (pte[r][q].page)' = f
        BY <2>1 DEF MemoryInv, TypeOK, Redirect
      <3>2. Users(pte[r][q].page)' = {<<s, p>>}
        BY <3>1, <1>4 DEF Users
      <3> QED
        BY <2>1, <3>1, <3>2, ConstantFacts
    <2>2. CASE ~(r = s /\ q = p)
      <3>1. pte'[r][q] = pte[r][q]
        BY <2>2 DEF MemoryInv, TypeOK, Redirect
      <3>2. IF pte[r][q].page >= LOW_MEM THEN Users(pte[r][q].page) = {<<r, q>>} ELSE r = 0
        BY <3>1 DEF MemoryInv, NoWritableSharing
      <3>3. CASE pte[r][q].page >= LOW_MEM
        <4>1. Users(pte[r][q].page) = {<<r, q>>} /\ pte[r][q].page \in Frames
          BY <3>2, <3>3, <2>0, ConstantFacts
        <4>2. pte[r][q].page # f
          BY <4>1, FreeFrameUnused DEF MemoryInv, Redirect
        <4>3. Users(pte[r][q].page)' = Users(pte[r][q].page) \ {<<s, p>>}
          BY <4>1, <4>2, <3>1, <1>4 DEF Users
        <4>4. <<r, q>> # <<s, p>>
          BY <2>2
        <4>5. Users(pte[r][q].page)' = {<<r, q>>}
          BY <4>1, <4>3, <4>4
        <4> QED
          BY <3>1, <3>3, <4>5
      <3>4. CASE ~(pte[r][q].page >= LOW_MEM)
        BY <3>1, <3>2, <3>4
      <3> QED
        BY <3>3, <3>4
    <2> QED
      BY <2>1, <2>2
  <1> QED
    BY <1>5, <1>6, <1>7, <1>8

-----------------------------------------------------------------------------
(* Operations that leave every frame where it is.                          *)

\* When no entry, table or task structure moves and no count changes, only the
\* write permissions have to be looked at again.
LEMMA SamePlaces ==
    ASSUME MemoryInv,
           \A r \in Slots, x \in Places : At(r, x)' = At(r, x),
           UNCHANGED mem_map
    PROVE  /\ OnePlacePerSlot' /\ KernelFramesExclusive' /\ RefCountExact'
           /\ \A g \in Frames : Users(g)' = Users(g)
  <1>1. \A g \in Frames : Users(g)' = Users(g)
    <2> SUFFICES ASSUME NEW g \in Frames
                 PROVE  Users(g)' = Users(g)
      OBVIOUS
    <2>1. \A h \in Slots \X Places : At(h[1], h[2])' = At(h[1], h[2])
      OBVIOUS
    <2> QED
      BY <2>1 DEF Users
  <1>2. OnePlacePerSlot'
    BY DEF MemoryInv, OnePlacePerSlot
  <1>3. KernelFramesExclusive'
    <2> SUFFICES ASSUME NEW r \in Slots, NEW x \in {TASK, TABLE}, At(r, x)' \in Frames
                 PROVE  Users(At(r, x))' = {<<r, x>>}
      BY DEF KernelFramesExclusive
    <2>1. At(r, x)' = At(r, x)
      BY DEF Places
    <2>2. Users(At(r, x)) = {<<r, x>>}
      BY <2>1 DEF MemoryInv, KernelFramesExclusive
    <2>3. Users(At(r, x))' = Users(At(r, x))
      BY <1>1, <2>1 DEF Users
    <2> QED
      BY <2>2, <2>3
  <1>4. RefCountExact'
    <2> SUFFICES ASSUME NEW g \in Frames
                 PROVE  mem_map'[g] = Cardinality(Users(g)')
      BY DEF RefCountExact
    <2> QED
      BY <1>1 DEF MemoryInv, RefCountExact
  <1> QED
    BY <1>1, <1>2, <1>3, <1>4

\* Stores, failed forks and panics touch neither tables nor counts.
LEMMA UntouchedKeepsInv ==
    ASSUME MemoryInv, TypeOK', OnlyOomPanics',
           UNCHANGED <<task, zombie, pg_dir, pte, mem_map>>
    PROVE  MemoryInv'
  <1>1. /\ OnePlacePerSlot' /\ KernelFramesExclusive' /\ RefCountExact'
        /\ \A g \in Frames : Users(g)' = Users(g)
    <2>1. \A r \in Slots, x \in Places : At(r, x)' = At(r, x)
      BY DEF At
    <2> QED
      BY <2>1, SamePlaces
  <1>2. NoWritableSharing'
    BY DEF MemoryInv, NoWritableSharing, Users, At
  <1>3. Task0Fixed' /\ SlotsConsistent'
    BY DEF MemoryInv, Task0Fixed, SlotsConsistent, Live
  <1> QED
    BY <1>1, <1>2, <1>3 DEF MemoryInv

\* A redirected entry of a live task other than 0 leaves the slot table alone.
LEMMA EntryKeepsSlots ==
    ASSUME MemoryInv, NEW s \in Live \ {0}, NEW p \in Pages, NEW e,
           pte' = [pte EXCEPT ![s][p] = e], UNCHANGED <<task, zombie, pg_dir>>
    PROVE  Task0Fixed' /\ SlotsConsistent'
  <1>1. s \in Slots /\ 0 \in Slots
    BY ConstantFacts DEF Live
  <1>2. \A r \in Slots \ {s} : pte'[r] = pte[r]
    BY <1>1 DEF MemoryInv, TypeOK
  <1>3. Live' = Live
    BY DEF Live
  <1>4. Task0Fixed'
    BY <1>1, <1>2 DEF MemoryInv, Task0Fixed
  <1>5. SlotsConsistent'
    <2> SUFFICES ASSUME NEW r \in Slots \ {0}
                 PROVE  /\ task'[r] \in {NULL} \cup Frames
                        /\ r \in zombie' => task'[r] # NULL
                        /\ IF r \in Live' THEN pg_dir'[r] \in Frames
                                          ELSE pg_dir'[r] = NULL /\ pte'[r] = EmptyTable
      BY DEF SlotsConsistent
    <2> QED
      BY <1>2, <1>3 DEF MemoryInv, SlotsConsistent
  <1> QED
    BY <1>4, <1>5

\* un_wp_page keeps the invariant: when the count is one the frame is really
\* private, and otherwise the process moves to a frame of its own.
LEMMA UnWpKeepsInv ==
    ASSUME MemoryInv, TypeOK', NEW s \in Live, NEW p \in Pages, NEW f \in Frames,
           pte[s][p].prot = "RO", un_wp_page(s, p, f),
           UNCHANGED <<task, zombie, pg_dir, panic>>
    PROVE  MemoryInv'
  <1>1. s \in Slots /\ s # 0
    <2>1. s \in Slots
      BY DEF Live
    <2>2. ASSUME s = 0 PROVE FALSE
      BY <2>2 DEF MemoryInv, Task0Fixed
    <2> QED
      BY <2>1, <2>2
  <1>2. pte' = [pte EXCEPT ![s][p] = [page |-> f, prot |-> "RW"]]
    BY DEF un_wp_page
  <1>3. Task0Fixed' /\ SlotsConsistent'
    BY <1>1, <1>2, EntryKeepsSlots
  <1>4. At(s, p) = pte[s][p].page
    BY <1>1, AtFacts DEF MemoryInv
  <1>5. p \in Places
    BY DEF Places
  <1>6. CASE SoleUser(s, p)
    <2>1. f = pte[s][p].page /\ UNCHANGED mem_map
      BY <1>6 DEF un_wp_page
    <2>2. \A r \in Slots, q \in Pages :
             pte'[r][q] = IF r = s /\ q = p THEN [page |-> f, prot |-> "RW"] ELSE pte[r][q]
      BY <1>2 DEF MemoryInv, TypeOK
    <2>3. \A r \in Slots, x \in Places : At(r, x)' = At(r, x)
      BY <2>1, <2>2, ConstantFacts DEF At, Places
    <2>4. /\ OnePlacePerSlot' /\ KernelFramesExclusive' /\ RefCountExact'
          /\ \A g \in Frames : Users(g)' = Users(g)
      BY <2>1, <2>3, SamePlaces
    <2>5. Users(f) = {<<s, p>>}
      <3>1. IsFiniteSet(Users(f)) /\ Cardinality(Users(f)) = 1
        BY <1>6, <2>1, UsersFinite DEF MemoryInv, RefCountExact, SoleUser
      <3>2. PICK z : Users(f) = {z}
        BY <3>1, FS_Singleton
      <3>3. <<s, p>> \in Users(f)
        BY <1>1, <1>4, <1>5, <2>1 DEF Users
      <3> QED
        BY <3>2, <3>3
    <2>6. NoWritableSharing'
      <3> SUFFICES ASSUME NEW r \in Slots, NEW q \in Pages, pte'[r][q].prot = "RW"
                   PROVE  IF (pte[r][q].page)' >= LOW_MEM
                          THEN Users(pte[r][q].page)' = {<<r, q>>} ELSE r = 0
        BY DEF NoWritableSharing
      <3>0. pte[r][q].page \in Memory
        BY DEF MemoryInv, TypeOK, Entry
      <3>1. CASE r = s /\ q = p
        <4>1. (pte[r][q].page)' = f
          BY <3>1, <2>2
        <4>2. Users(pte[r][q].page)' = Users(f)
          BY <4>1, <2>4 DEF Users
        <4> QED
          BY <3>1, <4>1, <4>2, <2>5, ConstantFacts
      <3>2. CASE ~(r = s /\ q = p)
        <4>1. pte'[r][q] = pte[r][q]
          BY <3>2, <2>2
        <4>2. IF pte[r][q].page >= LOW_MEM THEN Users(pte[r][q].page) = {<<r, q>>} ELSE r = 0
          BY <4>1 DEF MemoryInv, NoWritableSharing
        <4>3. CASE pte[r][q].page >= LOW_MEM
          <5>1. pte[r][q].page \in Frames
            BY <4>3, <3>0, ConstantFacts
          <5>2. Users(pte[r][q].page)' = Users(pte[r][q].page)
            BY <5>1, <4>1, <2>4 DEF Users
          <5> QED
            BY <4>1, <4>2, <4>3, <5>2
        <4>4. CASE ~(pte[r][q].page >= LOW_MEM)
          BY <4>1, <4>2, <4>4
        <4> QED
          BY <4>3, <4>4
      <3> QED
        BY <3>1, <3>2
    <2> QED
      BY <1>3, <2>4, <2>6 DEF MemoryInv, OnlyOomPanics
  <1>7. CASE ~SoleUser(s, p)
    <2>1. mem_map[f] = 0
      BY <1>7 DEF un_wp_page, get_free_page
    <2>2. ASSUME NEW g \in Frames
          PROVE  mem_map'[g] = IF g = f THEN 1
                               ELSE IF g = At(s, p) THEN mem_map[g] - 1 ELSE mem_map[g]
      <3>1. mem_map'[g] = IF g = f THEN 1
                          ELSE IF g = pte[s][p].page THEN (mem_map[g] + 255) % 256
                          ELSE mem_map[g]
        BY <1>7 DEF un_wp_page
      <3>2. CASE g # f /\ g = At(s, p)
        <4>1. <<s, p>> \in Users(g)
          BY <3>2, <1>1, <1>5 DEF Users
        <4>2. mem_map[g] = Cardinality(Users(g)) /\ IsFiniteSet(Users(g))
              /\ mem_map[g] \in 0..255
          BY UsersFinite DEF MemoryInv, RefCountExact, TypeOK
        <4>3. mem_map[g] # 0
          BY <4>1, <4>2, FS_EmptySet
        <4>4. \A a \in 0..255 : a # 0 => (a + 255) % 256 = a - 1
          OBVIOUS
        <4> QED
          BY <3>1, <3>2, <4>2, <4>3, <4>4, <1>4
      <3> QED
        BY <3>1, <3>2, <1>4
    <2>3. Redirect(s, p, f)
      BY <1>2, <2>1, <2>2 DEF Redirect
    <2>4. OnePlacePerSlot' /\ KernelFramesExclusive' /\ RefCountExact' /\ NoWritableSharing'
      BY <1>1, <2>3, RedirectKeepsInv
    <2> QED
      BY <1>3, <2>4 DEF MemoryInv, OnlyOomPanics
  <1> QED
    BY <1>6, <1>7

\* do_no_page keeps the invariant.
LEMMA NoPageKeepsInv ==
    ASSUME MemoryInv, TypeOK', NEW s \in Slots, NEW p \in Pages, do_no_page(s, p)
    PROVE  MemoryInv'
  <1>1. PICK f \in Frames :
             /\ mem_map[f] = 0
             /\ mem_map' = [mem_map EXCEPT ![f] = 1]
             /\ pte' = [pte EXCEPT ![s][p] = [page |-> f, prot |-> "RW"]]
    BY DEF do_no_page, get_free_page
  <1>2. s \in Live /\ pte[s][p].prot = "NP" /\ UNCHANGED <<task, zombie, pg_dir, panic>>
    BY DEF do_no_page
  <1>3. s # 0
    <2> SUFFICES ASSUME s = 0 PROVE FALSE
      OBVIOUS
    <2> QED
      BY <1>2 DEF MemoryInv, Task0Fixed
  <1>4. Task0Fixed' /\ SlotsConsistent'
    BY <1>1, <1>2, <1>3, EntryKeepsSlots
  <1>5. At(s, p) \notin Frames
    BY <1>2, AtFacts, ConstantFacts DEF MemoryInv
  <1>6. Redirect(s, p, f)
    BY <1>1, <1>2, <1>5 DEF Redirect, MemoryInv, TypeOK
  <1>7. OnePlacePerSlot' /\ KernelFramesExclusive' /\ RefCountExact' /\ NoWritableSharing'
    BY <1>6, RedirectKeepsInv
  <1> QED
    BY <1>2, <1>4, <1>7 DEF MemoryInv, OnlyOomPanics

-----------------------------------------------------------------------------
(* do_exit and release: frames are given back.                             *)

\* The places among X where task s records frame g.
Held(s, X, g) == {x \in X : At(s, x) = g}

\* Task s gives up the places X and every frame recorded there loses one
\* reference per place: what do_exit and release do.
Forget(s, X) ==
    /\ \A r \in Slots, x \in Places : At(r, x)' = IF r = s /\ x \in X THEN NULL ELSE At(r, x)
    /\ \A g \in Frames : mem_map'[g] = mem_map[g] - Cardinality(Held(s, X, g))

\* A task records a managed frame at most once among any of its places, and
\* once exactly when it is one of the frame's users.
LEMMA PlacesOfFrame ==
    ASSUME OnePlacePerSlot, RefCountExact, NEW s \in Slots, NEW X \in SUBSET Places, NEW g \in Frames
    PROVE  \/ Held(s, X, g) = {}
           \/ \E y \in X : /\ Held(s, X, g) = {y}
                           /\ <<s, y>> \in Users(g)
                           /\ mem_map[g] >= 1
  <1> SUFFICES ASSUME NEW y \in X, At(s, y) = g
               PROVE  /\ Held(s, X, g) = {y}
                      /\ <<s, y>> \in Users(g)
                      /\ mem_map[g] >= 1
    BY DEF Held
  <1>1. Held(s, X, g) = {y}
    BY DEF OnePlacePerSlot, Held
  <1>2. <<s, y>> \in Users(g)
    BY DEF Users
  <1>3. mem_map[g] = Cardinality(Users(g)) /\ IsFiniteSet(Users(g)) /\ Cardinality(Users(g)) \in 0..255
    BY UsersFinite DEF RefCountExact
  <1>4. Cardinality(Users(g)) # 0
    BY <1>2, <1>3, FS_EmptySet
  <1> QED
    BY <1>1, <1>2, <1>3, <1>4

\* Giving up places keeps the counts exact, provided no permission appears.
LEMMA ForgetKeepsInv ==
    ASSUME MemoryInv, NEW s \in Slots, NEW X \in SUBSET Places, Forget(s, X),
           \A r \in Slots, q \in Pages : pte'[r][q].prot = "RW" =>
               pte'[r][q] = pte[r][q] /\ ~(r = s /\ q \in X)
    PROVE  OnePlacePerSlot' /\ KernelFramesExclusive' /\ RefCountExact' /\ NoWritableSharing'
  <1>1. \A r \in Slots, x \in Places : At(r, x)' = IF r = s /\ x \in X THEN NULL ELSE At(r, x)
    BY DEF Forget
  <1>2. NULL \notin Frames
    BY ConstantFacts
  <1>3. \A g \in Frames : Users(g)' = {h \in Users(g) : ~(h[1] = s /\ h[2] \in X)}
    <2> SUFFICES ASSUME NEW g \in Frames
                 PROVE  Users(g)' = {h \in Users(g) : ~(h[1] = s /\ h[2] \in X)}
      OBVIOUS
    <2>1. \A h \in Slots \X Places :
             At(h[1], h[2])' = IF h[1] = s /\ h[2] \in X THEN NULL ELSE At(h[1], h[2])
      BY <1>1
    <2> QED
      BY <2>1, <1>2 DEF Users
  <1>4. OnePlacePerSlot'
    <2> SUFFICES ASSUME NEW r \in Slots, NEW x \in Places, NEW y \in Places,
                        At(r, x)' \in Frames, At(r, x)' = At(r, y)'
                 PROVE  x = y
      BY DEF OnePlacePerSlot
    <2> QED
      BY <1>1, <1>2 DEF MemoryInv, OnePlacePerSlot
  <1>5. KernelFramesExclusive'
    <2> SUFFICES ASSUME NEW r \in Slots, NEW x \in {TASK, TABLE}, At(r, x)' \in Frames
                 PROVE  Users(At(r, x))' = {<<r, x>>}
      BY DEF KernelFramesExclusive
    <2>1. x \in Places /\ At(r, x)' = At(r, x) /\ ~(r = s /\ x \in X)
      BY <1>1, <1>2 DEF Places
    <2>2. Users(At(r, x)) = {<<r, x>>}
      BY <2>1 DEF MemoryInv, KernelFramesExclusive
    <2>3. Users(At(r, x))' = {h \in Users(At(r, x)) : ~(h[1] = s /\ h[2] \in X)}
      BY <1>3, <2>1 DEF Users
    <2> QED
      BY <2>1, <2>2, <2>3
  <1>6. RefCountExact'
    <2> SUFFICES ASSUME NEW g \in Frames
                 PROVE  mem_map'[g] = Cardinality(Users(g)')
      BY DEF RefCountExact
    <2>1. /\ mem_map'[g] = mem_map[g] - Cardinality(Held(s, X, g))
          /\ mem_map[g] = Cardinality(Users(g)) /\ IsFiniteSet(Users(g))
          /\ mem_map[g] \in Int
      BY UsersFinite DEF Forget, MemoryInv, RefCountExact
    <2>2. \A h \in Users(g) : h[1] = s => At(s, h[2]) = g /\ h = <<s, h[2]>>
      BY DEF Users
    <2>h. \A x \in X : x \in Held(s, X, g) <=> At(s, x) = g
      BY DEF Held
    <2>3. CASE Held(s, X, g) = {}
      <3>0. \A h \in Users(g) : ~(h[1] = s /\ h[2] \in X)
        BY <2>2, <2>3, <2>h
      <3>1. Users(g)' = Users(g)
        BY <1>3, <3>0
      <3>2. Cardinality(Held(s, X, g)) = 0
        BY <2>3, FS_EmptySet
      <3> QED
        BY <2>1, <3>1, <3>2
    <2>4. ASSUME NEW y \in X, Held(s, X, g) = {y}, <<s, y>> \in Users(g)
          PROVE  mem_map'[g] = Cardinality(Users(g)')
      <3>1. Users(g)' = Users(g) \ {<<s, y>>}
        BY <1>3, <2>2, <2>4, <2>h
      <3>2. Cardinality(Held(s, X, g)) = 1
        BY <2>4, FS_Singleton
      <3>3. Cardinality(Users(g) \ {<<s, y>>}) = Cardinality(Users(g)) - 1
        <4>1. IsFiniteSet(Users(g)) /\ <<s, y>> \in Users(g)
          BY <2>1, <2>4
        <4> QED
          BY <4>1, FS_RemoveElement
      <3> QED
        BY <2>1, <3>1, <3>2, <3>3
    <2> QED
      BY <2>3, <2>4, PlacesOfFrame DEF MemoryInv
  <1>7. NoWritableSharing'
    <2> SUFFICES ASSUME NEW r \in Slots, NEW q \in Pages, pte'[r][q].prot = "RW"
                 PROVE  IF (pte[r][q].page)' >= LOW_MEM
                        THEN Users(pte[r][q].page)' = {<<r, q>>} ELSE r = 0
      BY DEF NoWritableSharing
    <2>1. pte'[r][q] = pte[r][q] /\ ~(r = s /\ q \in X) /\ pte[r][q].page \in Memory
      BY DEF MemoryInv, TypeOK, Entry
    <2>2. IF pte[r][q].page >= LOW_MEM THEN Users(pte[r][q].page) = {<<r, q>>} ELSE r = 0
      BY <2>1 DEF MemoryInv, NoWritableSharing
    <2>3. CASE pte[r][q].page >= LOW_MEM
      <3>1. pte[r][q].page \in Frames
        BY <2>1, <2>3, ConstantFacts
      <3>2. Users(pte[r][q].page)' = {h \in Users(pte[r][q].page) : ~(h[1] = s /\ h[2] \in X)}
        BY <3>1, <2>1, <1>3 DEF Users
      <3>3. Users(pte[r][q].page)' = {<<r, q>>}
        BY <2>1, <2>2, <2>3, <3>2
      <3> QED
        BY <2>1, <2>3, <3>3
    <2>4. CASE ~(pte[r][q].page >= LOW_MEM)
      BY <2>1, <2>2, <2>4
    <2> QED
      BY <2>3, <2>4
  <1> QED
    BY <1>4, <1>5, <1>6, <1>7

\* do_exit keeps the invariant and never frees a free page.
LEMMA ExitKeepsInv ==
    ASSUME MemoryInv, TypeOK', NEW s \in Slots, Exit(s)
    PROVE  MemoryInv'
  <1>1. PICK X \in SUBSET Places : X = Pages \cup {TABLE}
    BY DEF Places
  <1>2. s # 0 /\ s \in Live
    BY DEF Exit
  <1>3. ~FreedTooOften(TableRefs(s))
    <2> SUFFICES ASSUME NEW g \in Frames, Cardinality(Held(s, X, g)) > mem_map[g]
                 PROVE  FALSE
      BY <1>1 DEF FreedTooOften, TableRefs, Held
    <2>1. mem_map[g] \in 0..255
      BY DEF MemoryInv, TypeOK
    <2>2. CASE Held(s, X, g) = {}
      BY <2>1, <2>2, FS_EmptySet
    <2>3. ASSUME NEW y \in X, Held(s, X, g) = {y}, mem_map[g] >= 1
          PROVE  FALSE
      <3>1. Cardinality(Held(s, X, g)) = 1
        BY <2>3, FS_Singleton
      <3> QED
        BY <2>1, <2>3, <3>1
    <2>4. OnePlacePerSlot /\ RefCountExact
      BY DEF MemoryInv
    <2>5. \/ Held(s, X, g) = {}
          \/ \E y \in X : Held(s, X, g) = {y} /\ <<s, y>> \in Users(g) /\ mem_map[g] >= 1
      BY <2>4, PlacesOfFrame
    <2> QED
      BY <2>2, <2>3, <2>5
  <1>4. /\ mem_map' = [f \in Frames |-> mem_map[f] - TableRefs(s)[f]]
        /\ pg_dir' = [pg_dir EXCEPT ![s] = NULL]
        /\ pte' = [pte EXCEPT ![s] = EmptyTable]
        /\ zombie' = zombie \cup {s}
        /\ UNCHANGED <<panic, task>>
    BY <1>3 DEF Exit
  <1>5. /\ \A r \in Slots, q \in Pages : pte'[r][q] = IF r = s THEN NoEntry ELSE pte[r][q]
        /\ \A r \in Slots : pg_dir'[r] = IF r = s THEN NULL ELSE pg_dir[r]
    BY <1>4 DEF MemoryInv, TypeOK, EmptyTable
  <1>6. Forget(s, X)
    <2>1. \A r \in Slots, x \in Places : At(r, x)' = IF r = s /\ x \in X THEN NULL ELSE At(r, x)
      BY <1>1, <1>4, <1>5, ConstantFacts DEF At, Places, NoEntry
    <2>2. \A g \in Frames : mem_map'[g] = mem_map[g] - Cardinality(Held(s, X, g))
      BY <1>1, <1>4 DEF TableRefs, Held
    <2> QED
      BY <2>1, <2>2 DEF Forget
  <1>7. \A r \in Slots, q \in Pages : pte'[r][q].prot = "RW" =>
               pte'[r][q] = pte[r][q] /\ ~(r = s /\ q \in X)
    BY <1>5 DEF NoEntry
  <1>8. OnePlacePerSlot' /\ KernelFramesExclusive' /\ RefCountExact' /\ NoWritableSharing'
    BY <1>6, <1>7, ForgetKeepsInv
  <1>9. Task0Fixed'
    BY <1>2, <1>4, ConstantFacts DEF MemoryInv, Task0Fixed, TypeOK
  <1>10. SlotsConsistent'
    <2> SUFFICES ASSUME NEW r \in Slots \ {0}
                 PROVE  /\ task'[r] \in {NULL} \cup Frames
                        /\ r \in zombie' => task'[r] # NULL
                        /\ IF r \in Live' THEN pg_dir'[r] \in Frames
                                          ELSE pg_dir'[r] = NULL /\ pte'[r] = EmptyTable
      BY DEF SlotsConsistent
    <2>1. CASE r = s
      BY <2>1, <1>2, <1>4 DEF MemoryInv, SlotsConsistent, TypeOK, Live
    <2>2. CASE r # s
      <3>1. pte'[r] = pte[r] /\ pg_dir'[r] = pg_dir[r] /\ (r \in Live' <=> r \in Live)
        BY <2>2, <1>4 DEF MemoryInv, TypeOK, Live
      <3> QED
        BY <2>2, <3>1, <1>4 DEF MemoryInv, SlotsConsistent
    <2> QED
      BY <2>1, <2>2
  <1> QED
    BY <1>4, <1>8, <1>9, <1>10 DEF MemoryInv, OnlyOomPanics

\* So does the do_exit of a task that has no father left.
LEMMA ExitOrphanKeepsInv ==
    ASSUME MemoryInv, TypeOK', NEW s \in Slots, ExitOrphan(s)
    PROVE  MemoryInv'
  <1>1. PICK X \in SUBSET Places : X = Places
    OBVIOUS
  <1>2. s # 0 /\ s \in Live
    BY DEF ExitOrphan
  <1>3. ~FreedTooOften(OwnRefs(s))
    <2> SUFFICES ASSUME NEW g \in Frames, Cardinality(Held(s, X, g)) > mem_map[g]
                 PROVE  FALSE
      BY <1>1 DEF FreedTooOften, OwnRefs, Held
    <2>1. mem_map[g] \in 0..255
      BY DEF MemoryInv, TypeOK
    <2>2. CASE Held(s, X, g) = {}
      BY <2>1, <2>2, FS_EmptySet
    <2>3. ASSUME NEW y \in X, Held(s, X, g) = {y}, mem_map[g] >= 1
          PROVE  FALSE
      <3>1. Cardinality(Held(s, X, g)) = 1
        BY <2>3, FS_Singleton
      <3> QED
        BY <2>1, <2>3, <3>1
    <2>4. OnePlacePerSlot /\ RefCountExact
      BY DEF MemoryInv
    <2>5. \/ Held(s, X, g) = {}
          \/ \E y \in X : Held(s, X, g) = {y} /\ <<s, y>> \in Users(g) /\ mem_map[g] >= 1
      BY <2>4, PlacesOfFrame
    <2> QED
      BY <2>2, <2>3, <2>5
  <1>4. /\ mem_map' = [f \in Frames |-> mem_map[f] - OwnRefs(s)[f]]
        /\ pg_dir' = [pg_dir EXCEPT ![s] = NULL]
        /\ pte' = [pte EXCEPT ![s] = EmptyTable]
        /\ task' = [task EXCEPT ![s] = NULL]
        /\ UNCHANGED <<panic, zombie>>
    BY <1>3 DEF ExitOrphan
  <1>5. /\ \A r \in Slots, q \in Pages : pte'[r][q] = IF r = s THEN NoEntry ELSE pte[r][q]
        /\ \A r \in Slots : pg_dir'[r] = IF r = s THEN NULL ELSE pg_dir[r]
        /\ \A r \in Slots : task'[r] = IF r = s THEN NULL ELSE task[r]
    BY <1>4 DEF MemoryInv, TypeOK, EmptyTable
  <1>6. Forget(s, X)
    <2>1. \A r \in Slots, x \in Places : At(r, x)' = IF r = s /\ x \in X THEN NULL ELSE At(r, x)
      BY <1>1, <1>4, <1>5, ConstantFacts DEF At, Places, NoEntry
    <2>2. \A g \in Frames : mem_map'[g] = mem_map[g] - Cardinality(Held(s, X, g))
      BY <1>1, <1>4 DEF OwnRefs, Held
    <2> QED
      BY <2>1, <2>2 DEF Forget
  <1>7. \A r \in Slots, q \in Pages : pte'[r][q].prot = "RW" =>
               pte'[r][q] = pte[r][q] /\ ~(r = s /\ q \in X)
    BY <1>5 DEF NoEntry
  <1>8. OnePlacePerSlot' /\ KernelFramesExclusive' /\ RefCountExact' /\ NoWritableSharing'
    BY <1>6, <1>7, ForgetKeepsInv
  <1>9. Task0Fixed'
    BY <1>2, <1>4, ConstantFacts DEF MemoryInv, Task0Fixed, TypeOK
  <1>10. SlotsConsistent'
    <2> SUFFICES ASSUME NEW r \in Slots \ {0}
                 PROVE  /\ task'[r] \in {NULL} \cup Frames
                        /\ r \in zombie' => task'[r] # NULL
                        /\ IF r \in Live' THEN pg_dir'[r] \in Frames
                                          ELSE pg_dir'[r] = NULL /\ pte'[r] = EmptyTable
      BY DEF SlotsConsistent
    <2>1. CASE r = s
      BY <2>1, <1>2, <1>4 DEF MemoryInv, SlotsConsistent, TypeOK, Live
    <2>2. CASE r # s
      <3>1. task'[r] = task[r] /\ pte'[r] = pte[r] /\ pg_dir'[r] = pg_dir[r] /\ (r \in Live' <=> r \in Live)
        BY <2>2, <1>4 DEF MemoryInv, TypeOK, Live
      <3> QED
        BY <2>2, <3>1, <1>4 DEF MemoryInv, SlotsConsistent
    <2> QED
      BY <2>1, <2>2
  <1> QED
    BY <1>4, <1>8, <1>9, <1>10 DEF MemoryInv, OnlyOomPanics

\* release keeps the invariant and never frees a free page.
LEMMA ReleaseKeepsInv ==
    ASSUME MemoryInv, TypeOK', NEW s \in Slots, Release(s)
    PROVE  MemoryInv'
  <1>1. s \in zombie /\ s # 0 /\ task[s] \in Frames
    <2>1. s \in zombie /\ s # 0
      BY DEF Release, MemoryInv, TypeOK
    <2> QED
      BY <2>1 DEF MemoryInv, SlotsConsistent
  <1>2. TASK \in Places /\ At(s, TASK) = task[s]
    BY AtFacts DEF Places, MemoryInv
  <1>3. mem_map[task[s]] # 0
    BY <1>1, <1>2, FreeFrameUnused DEF MemoryInv
  <1>4. /\ mem_map' = [mem_map EXCEPT ![task[s]] = @ - 1]
        /\ task' = [task EXCEPT ![s] = NULL]
        /\ zombie' = zombie \ {s}
        /\ UNCHANGED <<panic, pg_dir, pte>>
    BY <1>3 DEF Release
  <1>5. \A r \in Slots : task'[r] = IF r = s THEN NULL ELSE task[r]
    BY <1>4 DEF MemoryInv, TypeOK
  <1>6. Forget(s, {TASK})
    <2>1. \A r \in Slots, x \in Places : At(r, x)' = IF r = s /\ x \in {TASK} THEN NULL ELSE At(r, x)
      BY <1>4, <1>5 DEF At
    <2>2. ASSUME NEW g \in Frames
          PROVE  mem_map'[g] = mem_map[g] - Cardinality(Held(s, {TASK}, g))
      <3>0. mem_map[g] \in Int /\ mem_map \in [Frames -> 0..255]
        BY DEF MemoryInv, TypeOK
      <3>1. CASE g = task[s]
        <4>1. Held(s, {TASK}, g) = {TASK}
          BY <3>1, <1>2 DEF Held
        <4>2. Cardinality(Held(s, {TASK}, g)) = 1
          BY <4>1, FS_Singleton
        <4> QED
          BY <3>0, <3>1, <4>2, <1>1, <1>4
      <3>2. CASE g # task[s]
        <4>1. Held(s, {TASK}, g) = {}
          BY <3>2, <1>2 DEF Held
        <4>2. Cardinality(Held(s, {TASK}, g)) = 0
          BY <4>1, FS_EmptySet
        <4> QED
          BY <3>0, <3>2, <4>2, <1>1, <1>4
      <3> QED
        BY <3>1, <3>2
    <2> QED
      BY <2>1, <2>2 DEF Forget
  <1>7. \A r \in Slots, q \in Pages : pte'[r][q].prot = "RW" =>
               pte'[r][q] = pte[r][q] /\ ~(r = s /\ q \in {TASK})
    BY <1>4, ConstantFacts
  <1>8. OnePlacePerSlot' /\ KernelFramesExclusive' /\ RefCountExact' /\ NoWritableSharing'
    <2>1. {TASK} \in SUBSET Places
      BY <1>2
    <2> QED
      BY <2>1, <1>6, <1>7, ForgetKeepsInv
  <1>9. Task0Fixed'
    BY <1>1, <1>4, <1>5, ConstantFacts DEF MemoryInv, Task0Fixed
  <1>10. SlotsConsistent'
    <2> SUFFICES ASSUME NEW r \in Slots \ {0}
                 PROVE  /\ task'[r] \in {NULL} \cup Frames
                        /\ r \in zombie' => task'[r] # NULL
                        /\ IF r \in Live' THEN pg_dir'[r] \in Frames
                                          ELSE pg_dir'[r] = NULL /\ pte'[r] = EmptyTable
      BY DEF SlotsConsistent
    <2>1. CASE r = s
      <3>1. r \notin Live /\ r \notin Live'
        BY <2>1, <1>1, <1>5 DEF Live
      <3> QED
        BY <2>1, <3>1, <1>4, <1>5 DEF MemoryInv, SlotsConsistent
    <2>2. CASE r # s
      <3>1. task'[r] = task[r] /\ (r \in Live' <=> r \in Live)
        BY <2>2, <1>4, <1>5 DEF Live
      <3> QED
        BY <2>2, <3>1, <1>4 DEF MemoryInv, SlotsConsistent
    <2> QED
      BY <2>1, <2>2
  <1> QED
    BY <1>4, <1>8, <1>9, <1>10 DEF MemoryInv, OnlyOomPanics

-----------------------------------------------------------------------------
(* fork: a task_struct, a page table and shared pages.                     *)

\* A successful fork of task s into the free slot n, with frame t for the
\* task_struct and frame g for the page table.
Forked(s, n, t, g) ==
    /\ t # g
    /\ mem_map[t] = 0 /\ mem_map[g] = 0
    /\ task' = [task EXCEPT ![n] = t]
    /\ pg_dir' = [pg_dir EXCEPT ![n] = g]
    /\ copy_page_tables(s, n)
    /\ mem_map' = SharedCount(s, [mem_map EXCEPT ![t] = 1, ![g] = 1])
    /\ UNCHANGED <<zombie, panic>>

\* fork keeps the invariant: the byte counts what is shared without wrapping,
\* and nothing shared stays writable.
LEMMA ForkedKeepsInv ==
    ASSUME MemoryInv, TypeOK', NEW s \in Live, NEW n \in Slots \ {0}, task[n] = NULL,
           NEW t \in Frames, NEW g \in Frames, Forked(s, n, t, g)
    PROVE  MemoryInv'
  <1>1. s \in Slots /\ s # n /\ n # 0 /\ n \in Slots
    BY DEF Live
  <1>2. n \notin zombie /\ n \notin Live /\ pg_dir[n] = NULL /\ pte[n] = EmptyTable
    <2>1. n \notin zombie /\ n \notin Live
      BY DEF MemoryInv, SlotsConsistent, Live
    <2> QED
      BY <2>1 DEF MemoryInv, SlotsConsistent
  <1>3. CopiedPages(s) \subseteq Pages
    BY SizeAssumption DEF CopiedPages, Visited, Pages
  <1>4. \A p \in CopiedPages(s) : At(s, p) = pte[s][p].page
    BY <1>1, <1>3, AtFacts DEF MemoryInv, CopiedPages
  <1>5. /\ \A r \in Slots : task'[r] = IF r = n THEN t ELSE task[r]
        /\ \A r \in Slots : pg_dir'[r] = IF r = n THEN g ELSE pg_dir[r]
    BY <1>1 DEF Forked, MemoryInv, TypeOK
  <1>6. \A r \in Slots, q \in Pages : pte'[r][q] =
            IF r = n THEN IF q \in CopiedPages(s) THEN ReadOnly(pte[s][q]) ELSE NoEntry
            ELSE IF r = s /\ q \in CopiedPages(s) /\ pte[s][q].page >= LOW_MEM
                 THEN ReadOnly(pte[s][q]) ELSE pte[r][q]
    BY <1>1 DEF Forked, copy_page_tables, MemoryInv, TypeOK
  <1>7. /\ At(n, TASK)' = t /\ At(n, TABLE)' = g
        /\ \A q \in Pages : At(n, q)' = IF q \in CopiedPages(s) THEN At(s, q) ELSE NULL
    <2>1. At(n, TASK)' = t /\ At(n, TABLE)' = g
      BY <1>1, <1>5, ConstantFacts DEF At
    <2>2. ASSUME NEW q \in Pages
          PROVE  At(n, q)' = IF pte'[n][q].prot = "NP" THEN NULL ELSE pte'[n][q].page
      BY ConstantFacts DEF At
    <2>3. ASSUME NEW q \in CopiedPages(s)
          PROVE  pte'[n][q].prot = "RO" /\ pte'[n][q].page = pte[s][q].page
      <3>1. pte'[n][q] = ReadOnly(pte[s][q])
        BY <1>1, <1>3, <1>6
      <3> QED
        BY <3>1 DEF ReadOnly
    <2>4. ASSUME NEW q \in Pages \ CopiedPages(s)
          PROVE  pte'[n][q].prot = "NP"
      BY <1>1, <1>6 DEF NoEntry
    <2>5. ASSUME NEW q \in Pages
          PROVE  At(n, q)' = IF q \in CopiedPages(s) THEN At(s, q) ELSE NULL
      BY <2>2, <2>3, <2>4, <1>4
    <2> QED
      BY <2>1, <2>5
  <1>8. \A r \in Slots \ {n}, x \in Places : At(r, x)' = At(r, x)
    <2> SUFFICES ASSUME NEW r \in Slots \ {n}, NEW x \in Places
                 PROVE  At(r, x)' = At(r, x)
      OBVIOUS
    <2>1. CASE x \in {TASK, TABLE}
      BY <2>1, <1>5 DEF At
    <2>2. CASE x \in Pages
      <3>1. CASE r = s /\ x \in CopiedPages(s) /\ pte[s][x].page >= LOW_MEM
        <4>1. pte[s][x].prot # "NP"
          BY <3>1 DEF CopiedPages
        <4>2. pte'[r][x].prot = "RO" /\ pte'[r][x].page = pte[r][x].page
          <5>1. pte'[r][x] = ReadOnly(pte[r][x])
            BY <2>2, <3>1, <1>1, <1>6
          <5> QED
            BY <5>1 DEF ReadOnly
        <4> QED
          BY <2>2, <3>1, <4>1, <4>2, ConstantFacts DEF At
      <3>2. CASE ~(r = s /\ x \in CopiedPages(s) /\ pte[s][x].page >= LOW_MEM)
        BY <2>2, <3>2, <1>6, ConstantFacts DEF At
      <3> QED
        BY <3>1, <3>2
    <2> QED
      BY <2>1, <2>2 DEF Places
  <1>9. \A r \in Slots, x \in Places : At(r, x) # t /\ At(r, x) # g
    BY FreeFrameUnused DEF MemoryInv, Forked
  <1>10. \A x \in Places : At(n, x) = NULL
    BY <1>1, <1>2, AtFacts DEF MemoryInv, EmptyTable, NoEntry, Places
  <1>11. NULL \notin Frames /\ Pages \subseteq Places /\ TASK \in Places /\ TABLE \in Places
         /\ TASK \notin Pages /\ TABLE \notin Pages /\ t # g /\ TASK # TABLE
    BY ConstantFacts DEF Places, Forked
  <1>12. OnePlacePerSlot'
    <2> SUFFICES ASSUME NEW r \in Slots, NEW x \in Places, NEW y \in Places,
                        At(r, x)' \in Frames, At(r, x)' = At(r, y)'
                 PROVE  x = y
      BY DEF OnePlacePerSlot
    <2>0. \A u, v \in Places : At(s, u) \in Frames /\ At(s, u) = At(s, v) => u = v
      BY <1>1 DEF MemoryInv, OnePlacePerSlot
    <2>1. CASE r # n
      BY <2>1, <1>8 DEF MemoryInv, OnePlacePerSlot
    <2>2. CASE r = n
      <3>1. x \in Pages \/ x = TASK \/ x = TABLE
        BY DEF Places
      <3>2. y \in Pages \/ y = TASK \/ y = TABLE
        BY DEF Places
      <3> QED
        BY <2>0, <2>2, <3>1, <3>2, <1>1, <1>7, <1>9, <1>11
    <2> QED
      BY <2>1, <2>2
  <1>13. ASSUME NEW h \in Frames
         PROVE  Users(h)' = Users(h) \cup {<<n, x>> : x \in {y \in Places : At(n, y)' = h}}
    <2>1. \A k \in Slots \X Places : k[1] # n => At(k[1], k[2])' = At(k[1], k[2])
      BY <1>8
    <2>2. \A k \in Slots \X Places : k[1] = n => At(k[1], k[2]) # h /\ k = <<n, k[2]>>
      BY <1>10, <1>11
    <2>3. \A k \in Slots \X Places : k \in Users(h)' <=> At(k[1], k[2])' = h
      BY DEF Users
    <2>4. \A k \in Slots \X Places : k \in Users(h) <=> At(k[1], k[2]) = h
      BY DEF Users
    <2>5. Users(h)' \subseteq Slots \X Places /\ Users(h) \subseteq Slots \X Places
      BY DEF Users
    <2> DEFINE N == {<<n, x>> : x \in {y \in Places : At(n, y)' = h}}
    <2>6. N \subseteq Slots \X Places
      BY <1>1
    <2>7. \A k \in Slots \X Places : k \in N <=> k[1] = n /\ At(k[1], k[2])' = h
      OBVIOUS
    <2> HIDE DEF N
    <2>8. \A k \in Slots \X Places : k \in Users(h)' <=> k \in Users(h) \/ k \in N
      BY <2>1, <2>2, <2>3, <2>4, <2>7
    <2>9. Users(h)' = Users(h) \cup N
      BY <2>5, <2>6, <2>8
    <2> QED
      BY <2>9 DEF N
  <1>14. /\ Users(t) = {} /\ Users(g) = {}
    BY FreeFrameUnused DEF MemoryInv, Forked
  <1>15. ASSUME NEW h \in Frames
         PROVE  \/ /\ h = t /\ Users(h)' = {<<n, TASK>>}
                \/ /\ h = g /\ Users(h)' = {<<n, TABLE>>}
                \/ /\ h # t /\ h # g
                   /\ Users(h)' = Users(h)
                   /\ {p \in CopiedPages(s) : pte[s][p].page = h} = {}
                \/ /\ h # t /\ h # g
                   /\ \E x \in Pages :
                         /\ <<s, x>> \in Users(h)
                         /\ <<n, x>> \notin Users(h)
                         /\ Users(h)' = Users(h) \cup {<<n, x>>}
                         /\ {p \in CopiedPages(s) : pte[s][p].page = h} = {x}
    <2> DEFINE Y == {y \in Places : At(n, y)' = h}
               C == {p \in CopiedPages(s) : pte[s][p].page = h}
    <2>1. CASE h = t
      <3>1. Y = {TASK}
        BY <2>1, <1>1, <1>3, <1>7, <1>9, <1>11 DEF Places
      <3> QED
        BY <2>1, <3>1, <1>13, <1>14
    <2>2. CASE h = g
      <3>1. Y = {TABLE}
        BY <2>2, <1>1, <1>3, <1>7, <1>9, <1>11 DEF Places
      <3> QED
        BY <2>2, <3>1, <1>13, <1>14
    <2>3. CASE h # t /\ h # g
      <3>1. Y = C
        BY <2>3, <1>3, <1>4, <1>7, <1>11 DEF Places
      <3>2. CASE C = {}
        BY <2>3, <3>1, <3>2, <1>13
      <3>3. ASSUME NEW x \in C
            PROVE  /\ C = {x} /\ x \in Pages
                   /\ <<s, x>> \in Users(h) /\ <<n, x>> \notin Users(h)
        <4>1. x \in Pages /\ At(s, x) = h
          BY <1>3, <1>4
        <4>2. <<s, x>> \in Users(h)
          BY <4>1, <1>1, <1>11 DEF Users
        <4>3. <<n, x>> \notin Users(h)
          BY <4>1, <1>10, <1>11 DEF Users
        <4>4. C = {x}
          BY <4>1, <1>1, <1>3, <1>4, <1>11 DEF MemoryInv, OnePlacePerSlot
        <4> QED
          BY <4>1, <4>2, <4>3, <4>4
      <3>4. ASSUME NEW x \in C
            PROVE  Users(h)' = Users(h) \cup {<<n, x>>}
        <4>1. Y = {x}
          BY <3>1, <3>3
        <4> QED
          BY <4>1, <1>13
      <3> QED
        BY <2>3, <3>2, <3>3, <3>4
    <2> QED
      BY <2>1, <2>2, <2>3
  <1>16. KernelFramesExclusive'
    <2> SUFFICES ASSUME NEW r \in Slots, NEW x \in {TASK, TABLE}, At(r, x)' \in Frames
                 PROVE  Users(At(r, x))' = {<<r, x>>}
      BY DEF KernelFramesExclusive
    <2>1. CASE r = n
      <3>1. At(r, x)' = (IF x = TASK THEN t ELSE g)
        BY <2>1, <1>7, <1>11
      <3>2. Users(t)' = {<<n, TASK>>} /\ Users(g)' = {<<n, TABLE>>}
        BY <1>11, <1>15
      <3> QED
        BY <2>1, <3>1, <3>2, <1>11 DEF Users
    <2>2. CASE r # n
      <3>1. At(r, x)' = At(r, x) /\ At(r, x) # t /\ At(r, x) # g
        BY <2>2, <1>8, <1>9, <1>11
      <3>2. Users(At(r, x)) = {<<r, x>>}
        BY <3>1 DEF MemoryInv, KernelFramesExclusive
      <3>3. \A y \in Pages : <<s, y>> \notin Users(At(r, x))
        BY <3>2, <1>11
      <3>4. PICK h \in Frames : h = At(r, x)
        BY <3>1
      <3>5. Users(h)' = Users(h)
        BY <3>1, <3>3, <3>4, <1>15
      <3> QED
        BY <3>1, <3>2, <3>4, <3>5 DEF Users
    <2> QED
      BY <2>1, <2>2
  <1>17. RefCountExact'
    <2> SUFFICES ASSUME NEW h \in Frames
                 PROVE  mem_map'[h] = Cardinality(Users(h)')
      BY DEF RefCountExact
    <2> DEFINE c == Cardinality({p \in CopiedPages(s) : pte[s][p].page = h})
               m == IF h = t \/ h = g THEN 1 ELSE mem_map[h]
    <2>1. mem_map'[h] = (m + c) % 256
      BY DEF Forked, SharedCount, MemoryInv, TypeOK
    <2>2. mem_map[h] = Cardinality(Users(h)) /\ IsFiniteSet(Users(h)) /\ mem_map[h] \in 0..255
      BY UsersFinite DEF MemoryInv, RefCountExact
    <2>3. IsFiniteSet(Users(h)') /\ Cardinality(Users(h)') \in 0..255
      <3>1. Users(h)' \in SUBSET (Slots \X Places)
        BY DEF Users
      <3>2. \A k, l \in Users(h)' : k[1] = l[1] => k[2] = l[2]
        BY <1>12 DEF Users, OnePlacePerSlot
      <3> QED
        BY <3>1, <3>2, ColumnBound
    <2>4. m + c = Cardinality(Users(h)')
      <3>1. CASE h = t \/ h = g
        <4>1. {p \in CopiedPages(s) : pte[s][p].page = h} = {}
          BY <3>1, <1>1, <1>3, <1>4, <1>9, <1>11
        <4>2. c = 0
          BY <4>1, FS_EmptySet
        <4>3. Cardinality(Users(h)') = 1
          BY <3>1, <1>15, FS_Singleton
        <4> QED
          BY <3>1, <4>2, <4>3
      <3>2. CASE Users(h)' = Users(h) /\ h # t /\ h # g
                 /\ {p \in CopiedPages(s) : pte[s][p].page = h} = {}
        <4>1. c = 0
          BY <3>2, FS_EmptySet
        <4> HIDE DEF c
        <4> QED
          BY <3>2, <4>1, <2>2
      <3>3. ASSUME h # t, h # g, NEW x \in Pages, <<n, x>> \notin Users(h),
                   Users(h)' = Users(h) \cup {<<n, x>>},
                   {p \in CopiedPages(s) : pte[s][p].page = h} = {x}
            PROVE  m + c = Cardinality(Users(h)')
        <4>1. c = 1
          BY <3>3, FS_Singleton
        <4>2. Cardinality(Users(h) \cup {<<n, x>>}) = Cardinality(Users(h)) + 1
          BY <3>3, <2>2, FS_AddElement
        <4> HIDE DEF c
        <4> QED
          BY <3>3, <4>1, <4>2, <2>2
      <3> HIDE DEF m, c
      <3> QED
        BY <3>1, <3>2, <3>3, <1>15
    <2>5. \A a \in 0..255 : a % 256 = a
      OBVIOUS
    <2> HIDE DEF m, c
    <2> QED
      BY <2>1, <2>3, <2>4, <2>5
  <1>18. NoWritableSharing'
    <2> SUFFICES ASSUME NEW r \in Slots, NEW q \in Pages, pte'[r][q].prot = "RW"
                 PROVE  IF (pte[r][q].page)' >= LOW_MEM
                        THEN Users(pte[r][q].page)' = {<<r, q>>} ELSE r = 0
      BY DEF NoWritableSharing
    <2>1. r # n /\ pte'[r][q] = pte[r][q] /\ pte[r][q].page \in Memory
      <3>1. pte[r][q].page \in Memory
        BY DEF MemoryInv, TypeOK, Entry
      <3>2. pte'[r][q] # ReadOnly(pte[s][q]) /\ pte'[r][q] # NoEntry
        BY DEF ReadOnly, NoEntry
      <3> QED
        BY <3>1, <3>2, <1>1, <1>6
    <2>2. IF pte[r][q].page >= LOW_MEM THEN Users(pte[r][q].page) = {<<r, q>>} ELSE r = 0
      BY <2>1 DEF MemoryInv, NoWritableSharing
    <2>3. CASE pte[r][q].page >= LOW_MEM
      <3>1. PICK h \in Frames : h = pte[r][q].page
        BY <2>1, <2>3, ConstantFacts
      <3>2. Users(h) = {<<r, q>>} /\ h # t /\ h # g
        BY <2>2, <2>3, <3>1, <1>14
      <3>3. \A p \in CopiedPages(s) : pte[s][p].page # h
        <4> SUFFICES ASSUME NEW p \in CopiedPages(s), pte[s][p].page = h
                     PROVE  FALSE
          OBVIOUS
        <4>1. <<s, p>> \in Users(h)
          BY <1>1, <1>3, <1>4, <1>11 DEF Users
        <4>2. r = s /\ q = p
          BY <4>1, <3>2
        <4>3. pte'[r][q] = ReadOnly(pte[s][q])
          BY <4>2, <2>1, <2>3, <3>1, <1>1, <1>6
        <4> QED
          BY <4>3 DEF ReadOnly
      <3>4. Users(h)' = Users(h)
        <4>1. {p \in CopiedPages(s) : pte[s][p].page = h} = {}
          BY <3>3
        <4> QED
          BY <3>2, <4>1, <1>15
      <3>5. Users(pte[r][q].page)' = {<<r, q>>}
        BY <2>1, <3>1, <3>2, <3>4 DEF Users
      <3> QED
        BY <2>1, <2>3, <3>5
    <2>4. CASE ~(pte[r][q].page >= LOW_MEM)
      BY <2>1, <2>2, <2>4
    <2> QED
      BY <2>3, <2>4
  <1>19. Task0Fixed'
    <2>1. \A q \in Pages : pte'[0][q] = pte[0][q]
      BY <1>1, <1>6, ConstantFacts, SizeAssumption DEF MemoryInv, Task0Fixed
    <2>2. pte'[0] = pte[0]
      <3>1. pte[0] \in [Pages -> Entry] /\ pte'[0] \in [Pages -> Entry]
        BY ConstantFacts DEF MemoryInv, TypeOK
      <3> QED
        BY <2>1, <3>1
    <2> QED
      BY <2>2, <1>1, <1>5, ConstantFacts DEF MemoryInv, Task0Fixed
  <1>20. SlotsConsistent'
    <2> SUFFICES ASSUME NEW r \in Slots \ {0}
                 PROVE  /\ task'[r] \in {NULL} \cup Frames
                        /\ r \in zombie' => task'[r] # NULL
                        /\ IF r \in Live' THEN pg_dir'[r] \in Frames
                                          ELSE pg_dir'[r] = NULL /\ pte'[r] = EmptyTable
      BY DEF SlotsConsistent
    <2>1. zombie' = zombie
      BY DEF Forked
    <2>2. CASE r = n
      BY <2>1, <2>2, <1>2, <1>5, <1>11 DEF Live
    <2>3. CASE r # n
      <3>1. task'[r] = task[r] /\ pg_dir'[r] = pg_dir[r] /\ (r \in Live' <=> r \in Live)
        BY <2>1, <2>3, <1>5 DEF Live
      <3>2. ASSUME r \notin Live
            PROVE  pte'[r] = pte[r]
        <4>1. \A q \in Pages : pte'[r][q] = pte[r][q]
          BY <2>3, <3>2, <1>6
        <4>2. pte[r] \in [Pages -> Entry] /\ pte'[r] \in [Pages -> Entry]
          BY DEF MemoryInv, TypeOK
        <4> QED
          BY <4>1, <4>2
      <3> QED
        BY <2>1, <3>1, <3>2 DEF MemoryInv, SlotsConsistent
    <2> QED
      BY <2>2, <2>3
  <1> QED
    BY <1>12, <1>16, <1>17, <1>18, <1>19, <1>20 DEF MemoryInv, OnlyOomPanics, Forked

-----------------------------------------------------------------------------
(* The invariant and what follows from it.                                 *)

\* The boot state satisfies the invariant: no managed frame is in use.
LEMMA InitMemoryInv == Init => MemoryInv
  <1> SUFFICES ASSUME Init
               PROVE  MemoryInv
    OBVIOUS
  <1>1. TypeOK
    BY InitTypeOK
  <1>2. Task0Fixed
    BY ConstantFacts DEF Init, Task0Fixed
  <1>3. SlotsConsistent
    BY ConstantFacts DEF Init, SlotsConsistent, Live
  <1>4. ASSUME NEW s \in Slots, NEW x \in Places
        PROVE  At(s, x) \notin Frames
    <2>1. CASE x \in {TASK, TABLE}
      BY <2>1, ConstantFacts DEF Init, At
    <2>2. CASE x \in Pages
      <3>1. At(s, x) = IF pte[s][x].prot = "NP" THEN NULL ELSE pte[s][x].page
        BY <1>1, <2>2, AtFacts
      <3>2. CASE s = 0
        BY <2>2, <3>1, <3>2, ConstantFacts DEF Init
      <3>3. CASE s # 0
        BY <2>2, <3>1, <3>3, ConstantFacts DEF Init, EmptyTable, NoEntry
      <3> QED
        BY <3>2, <3>3
    <2> QED
      BY <2>1, <2>2 DEF Places
  <1>5. \A f \in Frames : Users(f) = {}
    BY <1>4 DEF Users
  <1>6. RefCountExact
    BY <1>5, FS_EmptySet DEF RefCountExact, Init
  <1>7. OnePlacePerSlot
    BY <1>4 DEF OnePlacePerSlot
  <1>8. KernelFramesExclusive
    BY <1>4 DEF KernelFramesExclusive, Places
  <1>9. NoWritableSharing
    <2> SUFFICES ASSUME NEW s \in Slots, NEW p \in Pages, pte[s][p].prot = "RW"
                 PROVE  s = 0 /\ ~(pte[s][p].page >= LOW_MEM)
      BY DEF NoWritableSharing
    <2>1. CASE s = 0
      BY <2>1, ConstantFacts, SizeAssumption DEF Init, Memory
    <2>2. CASE s # 0
      BY <2>2 DEF Init, EmptyTable, NoEntry
    <2> QED
      BY <2>1, <2>2
  <1>10. OnlyOomPanics
    BY DEF Init, OnlyOomPanics
  <1> QED
    BY <1>1, <1>2, <1>3, <1>6, <1>7, <1>8, <1>9, <1>10 DEF MemoryInv

\* Every operation keeps the invariant.
LEMMA NextMemoryInv == MemoryInv /\ [Next]_vars => MemoryInv'
  <1> SUFFICES ASSUME MemoryInv, [Next]_vars
               PROVE  MemoryInv'
    OBVIOUS
  <1>t. TypeOK'
    BY NextTypeOK DEF MemoryInv
  <1>o. OnlyOomPanics
    BY DEF MemoryInv
  <1>1. ASSUME NEW s \in Slots, Fork(s)
        PROVE  MemoryInv'
    <2>1. PICK n \in find_empty_process, t \in get_free_page(mem_map) :
             IF pg_dir[n] # NULL
             THEN panic' = "already_exists"
             ELSE \E g \in get_free_page(Allocated(t)) :
                    /\ task' = [task EXCEPT ![n] = t]
                    /\ pg_dir' = [pg_dir EXCEPT ![n] = g]
                    /\ copy_page_tables(s, n)
                    /\ mem_map' = SharedCount(s, [mem_map EXCEPT ![t] = 1, ![g] = 1])
                    /\ UNCHANGED panic
      BY <1>1 DEF Fork
    <2>2. n \in Slots \ {0} /\ task[n] = NULL /\ t \in Frames /\ mem_map[t] = 0
      BY DEF find_empty_process, get_free_page
    <2>3. pg_dir[n] = NULL
      BY <2>2 DEF MemoryInv, SlotsConsistent, Live
    <2>4. PICK g \in get_free_page(Allocated(t)) :
                    /\ task' = [task EXCEPT ![n] = t]
                    /\ pg_dir' = [pg_dir EXCEPT ![n] = g]
                    /\ copy_page_tables(s, n)
                    /\ mem_map' = SharedCount(s, [mem_map EXCEPT ![t] = 1, ![g] = 1])
                    /\ UNCHANGED panic
      BY <2>1, <2>3
    <2>5. g \in Frames /\ g # t /\ mem_map[g] = 0
      BY <2>2 DEF get_free_page, Allocated, MemoryInv, TypeOK
    <2>6. s \in Live /\ UNCHANGED zombie
      BY <1>1 DEF Fork
    <2>7. Forked(s, n, t, g)
      BY <2>2, <2>4, <2>5, <2>6 DEF Forked
    <2> QED
      BY <1>t, <2>2, <2>5, <2>6, <2>7, ForkedKeepsInv
  <1>2. ASSUME NEW s \in Slots, ForkFails(s)
        PROVE  MemoryInv'
    BY <1>2, <1>t, <1>o, ForkFailsUndone, UntouchedKeepsInv DEF MemoryInv, OnlyOomPanics
  <1>3. ASSUME NEW s \in Slots, NEW p \in Pages, NEW v \in Values,
               UserWrite(s, p, v) \/ TtyStore(s, p, v)
        PROVE  MemoryInv'
    BY <1>3, <1>t, <1>o, UntouchedKeepsInv DEF UserWrite, TtyStore, OnlyOomPanics
  <1>4. ASSUME NEW s \in Slots, NEW p \in Pages, NEW v \in Values,
               VerifiedStore(s, p, v) \/ do_wp_page(s, p)
        PROVE  MemoryInv'
    <2>1. PICK f \in Frames : un_wp_page(s, p, f)
      BY <1>4 DEF VerifiedStore, do_wp_page
    <2>2. s \in Live /\ pte[s][p].prot = "RO" /\ UNCHANGED <<task, zombie, pg_dir, panic>>
      BY <1>4 DEF VerifiedStore, do_wp_page
    <2> QED
      BY <1>t, <2>1, <2>2, UnWpKeepsInv
  <1>5. ASSUME NEW s \in Slots, NEW p \in Pages, do_no_page(s, p)
        PROVE  MemoryInv'
    BY <1>5, <1>t, NoPageKeepsInv
  <1>6. ASSUME NEW s \in Slots, NEW p \in Pages, UnWpOom(s, p) \/ NoPageOom(s, p)
        PROVE  MemoryInv'
    BY <1>6, <1>t, UntouchedKeepsInv DEF UnWpOom, NoPageOom, OnlyOomPanics
  <1>7. ASSUME NEW s \in Slots, Exit(s)
        PROVE  MemoryInv'
    BY <1>7, <1>t, ExitKeepsInv
  <1>11. ASSUME NEW s \in Slots, ExitOrphan(s)
        PROVE  MemoryInv'
    BY <1>11, <1>t, ExitOrphanKeepsInv
  <1>8. ASSUME NEW s \in Slots, Release(s)
        PROVE  MemoryInv'
    BY <1>8, <1>t, ReleaseKeepsInv
  <1>9. CASE ExitOfTask0
    BY <1>9, <1>t, UntouchedKeepsInv DEF ExitOfTask0, OnlyOomPanics
  <1>10. CASE Halted \/ UNCHANGED vars
    BY <1>10, <1>t, <1>o, UntouchedKeepsInv DEF Halted, vars, OnlyOomPanics
  <1> QED
    BY <1>1, <1>2, <1>3, <1>4, <1>5, <1>6, <1>7, <1>8, <1>9, <1>10, <1>11, ValueAssumption
       DEF Next, Running, ProcessStep

\* The invariant holds in every reachable state, for all parameters.
THEOREM MemoryCorrect == Spec => []MemoryInv
  BY InitMemoryInv, NextMemoryInv, PTL DEF Spec

\* mem_map is exact: the reference count of every managed frame equals the
\* number of its users, so no frame leaks and none is freed early, and the
\* unsigned char never wraps with at most 255 tasks.
THEOREM RefCountsCorrect == Spec => []RefCountExact
  <1>1. MemoryInv => RefCountExact
    BY DEF MemoryInv
  <1> QED
    BY <1>1, MemoryCorrect, PTL

\* No process can write a frame that another process, a page table or a
\* task_struct also uses.
THEOREM WritableFramesPrivate == Spec => []NoWritableSharing
  <1>1. MemoryInv => NoWritableSharing
    BY DEF MemoryInv
  <1> QED
    BY <1>1, MemoryCorrect, PTL

\* The consistency checks of free_page and copy_page_tables never fire.
THEOREM PanicsOnlyWhenOutOfMemory == Spec => []OnlyOomPanics
  <1>1. MemoryInv => OnlyOomPanics
    BY DEF MemoryInv
  <1> QED
    BY <1>1, MemoryCorrect, PTL

=============================================================================
