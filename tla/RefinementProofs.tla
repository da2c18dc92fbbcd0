-------------------------- MODULE RefinementProofs --------------------------
(***************************************************************************)
(* Proof that Memory implements AddressSpace: for every number of tasks,   *)
(* pages and frames, what the page tables, counts and protection bits do   *)
(* is what separate memories do.                                           *)
(***************************************************************************)
EXTENDS MemoryRefinement, MemoryProofs

Views   == [s \in Slots |-> View(s)]
Sharers == [s \in Slots |-> [p \in Pages |-> Sharing(s, p)]]

\* Reading a page that is there never gives what reading a missing one gives.
LEMMA ViewFacts ==
    ASSUME TypeOK, NEW s \in Slots, NEW p \in Pages
    PROVE  /\ View(s)[p] = IF pte[s][p].prot = "NP" THEN -1 ELSE content[pte[s][p].page]
           /\ pte[s][p].page \in Memory
           /\ View(s)[p] = -1 <=> pte[s][p].prot = "NP"
  <1>1. pte[s][p] \in Entry
    BY DEF TypeOK
  <1>2. pte[s][p].page \in Memory /\ content[pte[s][p].page] \in Nat
    BY <1>1, ValueAssumption DEF TypeOK, Entry
  <1> QED
    BY <1>2 DEF View

\* A page that becomes a process's own, in a frame nobody else has.
LEMMA OwnStep ==
    ASSUME TypeOK, NEW s \in Slots, NEW p \in Pages, NEW f \in Memory, NEW v,
           pte' = [pte EXCEPT ![s][p] = [page |-> f, prot |-> "RW"]],
           content' = [content EXCEPT ![f] = v],
           \A t \in Slots, q \in Pages :
               ~(t = s /\ q = p) /\ pte[t][q].prot # "NP" => pte[t][q].page # f
    PROVE  Abstract!Own(s, p, v)
  <1>1. \A t \in Slots, q \in Pages :
           pte'[t][q] = IF t = s /\ q = p THEN [page |-> f, prot |-> "RW"] ELSE pte[t][q]
    BY DEF TypeOK
  <1>2. \A g \in Memory : content'[g] = IF g = f THEN v ELSE content[g]
    BY DEF TypeOK
  <1>3. pte'[s][p].page = f /\ pte'[s][p].prot = "RW"
    BY <1>1
  <1>4. \A t \in Slots, q \in Pages : View(t)'[q] = IF t = s /\ q = p THEN v ELSE View(t)[q]
    <2> TAKE t \in Slots, q \in Pages
    <2>1. View(t)'[q] = IF pte'[t][q].prot = "NP" THEN -1 ELSE content'[pte'[t][q].page]
      BY DEF View
    <2>2. CASE t = s /\ q = p
      BY <1>2, <1>3, <2>1, <2>2
    <2>3. CASE ~(t = s /\ q = p)
      BY <1>1, <1>2, <2>1, <2>3, ViewFacts
    <2> QED
      BY <2>2, <2>3
  <1>5. [t \in Slots |-> View(t)]' = [[t \in Slots |-> View(t)] EXCEPT ![s][p] = v]
    <2>1. \A t \in Slots : View(t)' = [q \in Pages |-> IF t = s /\ q = p THEN v ELSE View(t)[q]]
      BY <1>4 DEF View
    <2>2. View(s)' = [View(s) EXCEPT ![p] = v]
      BY <2>1 DEF View
    <2>3. \A t \in Slots \ {s} : View(t)' = View(t)
      BY <2>1 DEF View
    <2> QED
      BY <2>2, <2>3
  <1>6. \A t \in Slots, q \in Pages :
           Sharing(t, q)' = IF q = p THEN IF t = s THEN {s} ELSE Sharing(t, q) \ {s}
                                     ELSE Sharing(t, q)
    <2> TAKE t \in Slots, q \in Pages
    <2>1. CASE q # p
      <3>1. \A u \in Slots : pte'[u][q] = pte[u][q]
        BY <1>1, <2>1
      <3> QED
        BY <2>1, <3>1 DEF Sharing
    <2>2. CASE q = p /\ t = s
      BY <1>1, <1>3, <2>2 DEF Sharing
    <2>3. CASE q = p /\ t # s
      BY <1>1, <1>3, <2>3 DEF Sharing
    <2> QED
      BY <2>1, <2>2, <2>3
  <1>7. [t \in Slots |-> [q \in Pages |-> Sharing(t, q)]]' =
           [t \in Slots |-> [[t2 \in Slots |-> [q \in Pages |-> Sharing(t2, q)]][t] EXCEPT
                               ![p] = IF t = s THEN {s} ELSE @ \ {s}]]
    <2> SUFFICES ASSUME NEW t \in Slots
                 PROVE  [q \in Pages |-> Sharing(t, q)]' =
                           [[q \in Pages |-> Sharing(t, q)] EXCEPT
                               ![p] = IF t = s THEN {s} ELSE @ \ {s}]
      OBVIOUS
    <2> QED
      BY <1>6
  <1> QED
    BY <1>5, <1>7 DEF Abstract!Own

\* A store into a frame where it is: it reaches those that have the frame.
LEMMA SharedStep ==
    ASSUME TypeOK, SamePageNumber, NEW s \in Slots, NEW p \in Pages, NEW v,
           pte[s][p].prot # "NP", UNCHANGED pte,
           content' = [content EXCEPT ![pte[s][p].page] = v]
    PROVE  Abstract!Shared(s, p, v)
  <1>1. \A g \in Memory : content'[g] = IF g = pte[s][p].page THEN v ELSE content[g]
    BY ViewFacts DEF TypeOK
  <1>2. \A t \in Slots, q \in Pages :
           View(t)'[q] = IF q = p /\ t \in Sharing(s, p) THEN v ELSE View(t)[q]
    <2> TAKE t \in Slots, q \in Pages
    <2>1. View(t)'[q] = IF pte[t][q].prot = "NP" THEN -1 ELSE content'[pte[t][q].page]
      BY DEF View
    <2>2. CASE pte[t][q].prot = "NP"
      BY <2>1, <2>2, ViewFacts DEF Sharing
    <2>3. CASE pte[t][q].prot # "NP" /\ pte[t][q].page = pte[s][p].page
      <3>1. q = p /\ t \in Sharing(s, p)
        BY <2>3 DEF SamePageNumber, Sharing
      <3> QED
        BY <1>1, <2>1, <2>3, <3>1, ViewFacts
    <2>4. CASE pte[t][q].prot # "NP" /\ pte[t][q].page # pte[s][p].page
      BY <1>1, <2>1, <2>4, ViewFacts DEF Sharing
    <2> QED
      BY <2>2, <2>3, <2>4
  <1>3. [t \in Slots |-> View(t)]' =
           [t \in Slots |-> [[t2 \in Slots |-> View(t2)][t] EXCEPT
               ![p] = IF t \in [t2 \in Slots |-> [q \in Pages |-> Sharing(t2, q)]][s][p] THEN v ELSE @]]
    <2> SUFFICES ASSUME NEW t \in Slots
                 PROVE  View(t)' = [View(t) EXCEPT ![p] = IF t \in Sharing(s, p) THEN v ELSE @]
      OBVIOUS
    <2>1. View(t)' = [q \in Pages |-> View(t)'[q]] /\ View(t) = [q \in Pages |-> View(t)[q]]
      BY DEF View
    <2> DEFINE W == View(t)
               N == View(t)'
               b == t \in Sharing(s, p)
    <2>2. \A q \in Pages : N[q] = IF q = p /\ b THEN v ELSE W[q]
      BY <1>2
    <2>3. N = [q \in Pages |-> N[q]] /\ W = [q \in Pages |-> W[q]]
      BY <2>1
    <2>4. N = [W EXCEPT ![p] = IF b THEN v ELSE @]
      <3> HIDE DEF W, N, b
      <3> QED
        BY <2>2, <2>3
    <2> QED
      BY <2>4
  <1>4. [t \in Slots |-> [q \in Pages |-> Sharing(t, q)]]' = [t \in Slots |-> [q \in Pages |-> Sharing(t, q)]]
    BY DEF Sharing
  <1>5. View(s)[p] # -1
    BY ViewFacts
  <1> QED
    BY <1>3, <1>4, <1>5 DEF Abstract!Shared, Abstract!MISSING

\* The parts of the memories that a step leaves as they are.
LEMMA SameMemories ==
    ASSUME TypeOK, UNCHANGED pte,
           \A t \in Slots, q \in Pages :
               pte[t][q].prot # "NP" => content'[pte[t][q].page] = content[pte[t][q].page]
    PROVE  UNCHANGED <<Views, Sharers>>
  <1>1. \A t \in Slots : View(t)' = View(t)
    BY DEF View
  <1>2. \A t \in Slots, q \in Pages : Sharing(t, q)' = Sharing(t, q)
    BY DEF Sharing
  <1> QED
    BY <1>1, <1>2 DEF Views, Sharers

-----------------------------------------------------------------------------
(* fork and exit.                                                          *)

\* copy_page_tables gives the new slot the caller's pages, as peers.
LEMMA CopyStep ==
    ASSUME MemoryInv, NEW s \in Live, NEW n \in Slots, pte[n] = EmptyTable, s # n,
           copy_page_tables(s, n), n \notin Live, Live' = Live \cup {n}, UNCHANGED unverified,
           \A t \in Slots, q \in Pages :
               pte[t][q].prot # "NP" => content'[pte[t][q].page] = content[pte[t][q].page]
    PROVE  Abstract!Fork(s, n)
  <1> DEFINE G == CopiedPages(s)
  <1>1. TypeOK /\ pte \in [Slots -> [Pages -> Entry]] /\ s \in Slots
    BY DEF MemoryInv, TypeOK, Live
  <1>2. \A q \in Pages : pte[n][q].prot = "NP"
    BY DEF EmptyTable, NoEntry
  <1>3. \A t \in Slots, q \in Pages :
           /\ pte'[t][q].prot = "NP" <=> IF t = n THEN q \notin G ELSE pte[t][q].prot = "NP"
           /\ pte'[t][q].prot # "NP" =>
                 pte'[t][q].page = IF t = n THEN pte[s][q].page ELSE pte[t][q].page
    <2>1. \A q \in Pages : pte'[n][q] = IF q \in G THEN ReadOnly(pte[s][q]) ELSE NoEntry
      BY <1>1 DEF copy_page_tables
    <2>2. \A q \in Pages : pte'[s][q] = IF q \in G /\ pte[s][q].page >= LOW_MEM
                                        THEN ReadOnly(pte[s][q]) ELSE pte[s][q]
      BY <1>1 DEF copy_page_tables
    <2>3. \A t \in Slots \ {s, n} : pte'[t] = pte[t]
      BY <1>1 DEF copy_page_tables
    <2>4. \A q \in Pages : q \in G => pte[s][q].prot # "NP"
      BY DEF CopiedPages
    <2>5. \A e : ReadOnly(e).page = e.page /\ ReadOnly(e).prot = "RO"
      BY DEF ReadOnly
    <2>6. NoEntry.prot = "NP"
      BY DEF NoEntry
    <2> HIDE DEF G
    <2> QED
      BY <2>1, <2>2, <2>3, <2>4, <2>5, <2>6
  <1>4. \A q \in Pages : q \in G => pte[s][q].prot # "NP"
    BY DEF CopiedPages
  <1>5. G = {q \in IF s = 0 THEN Visited(0) ELSE Pages : View(s)[q] # -1}
    <2>1. Visited(s) \subseteq Pages
      BY SizeAssumption DEF Visited, Pages
    <2>2. Visited(s) = IF s = 0 THEN Visited(0) ELSE Pages
      BY DEF Visited
    <2>3. \A q \in Pages : View(s)[q] # -1 <=> pte[s][q].prot # "NP"
      BY <1>1, ViewFacts
    <2> QED
      BY <2>1, <2>2, <2>3 DEF CopiedPages
  <1>6. \A t \in Slots, q \in Pages :
           View(t)'[q] = IF t = n THEN IF q \in G THEN View(s)[q] ELSE -1 ELSE View(t)[q]
    <2> TAKE t \in Slots, q \in Pages
    <2>1. View(t)'[q] = IF pte'[t][q].prot = "NP" THEN -1 ELSE content'[pte'[t][q].page]
      BY DEF View
    <2> HIDE DEF G
    <2>2. CASE t = n
      BY <1>1, <1>3, <1>4, <2>1, <2>2, ViewFacts
    <2>3. CASE t # n
      BY <1>1, <1>3, <2>1, <2>3, ViewFacts
    <2> QED
      BY <2>2, <2>3
  <1>7. [t \in Slots |-> View(t)]' =
           [[t \in Slots |-> View(t)] EXCEPT ![n] =
               [q \in Pages |-> IF q \in G THEN [t \in Slots |-> View(t)][s][q] ELSE -1]]
    <2>1. View(n)' = [q \in Pages |-> IF q \in G THEN View(s)[q] ELSE -1]
      BY <1>6 DEF View
    <2>2. \A t \in Slots \ {n} : View(t)' = View(t)
      BY <1>6 DEF View
    <2> HIDE DEF G
    <2> QED
      BY <1>1, <2>1, <2>2
  <1>8. \A t \in Slots, q \in Pages :
           Sharing(t, q)' = IF q \in G /\ t \in Sharing(s, q) \cup {n}
                            THEN Sharing(s, q) \cup {n} ELSE Sharing(t, q)
    <2> TAKE t \in Slots, q \in Pages
    <2> HIDE DEF G
    <2>1. \A r \in Slots : \A u : u \in Sharing(r, q) <=>
             u \in Slots /\ pte[r][q].prot # "NP" /\ pte[u][q].prot # "NP"
                         /\ pte[u][q].page = pte[r][q].page
      BY DEF Sharing
    <2>2. \A u : u \in Sharing(t, q)' <=>
             u \in Slots /\ pte'[t][q].prot # "NP" /\ pte'[u][q].prot # "NP"
                         /\ pte'[u][q].page = pte'[t][q].page
      BY DEF Sharing
    <2> DEFINE old == Sharing(t, q)
               new == Sharing(t, q)'
               src == Sharing(s, q)
    <2>3. \A u : u \in new <=>
             u \in (IF q \in G /\ t \in src \cup {n} THEN src \cup {n} ELSE old)
      <3>1. CASE q \notin G
        BY <1>2, <1>3, <2>1, <2>2, <3>1
      <3>2. CASE q \in G
        <4>1. \A u : u \in src <=> u \in Slots /\ pte[u][q].prot # "NP"
                                             /\ pte[u][q].page = pte[s][q].page
          BY <1>1, <1>4, <2>1, <3>2
        <4>2. \A u : u \in old <=> u \in Slots /\ t # n /\ pte[t][q].prot # "NP"
                                             /\ pte[u][q].prot # "NP"
                                             /\ pte[u][q].page = pte[t][q].page
          BY <1>2, <2>1
        <4>3. \A u \in Slots :
                 /\ pte'[u][q].prot # "NP" <=> u = n \/ pte[u][q].prot # "NP"
                 /\ pte'[u][q].prot # "NP" =>
                       pte'[u][q].page = IF u = n THEN pte[s][q].page ELSE pte[u][q].page
          BY <1>3, <3>2
        <4>4. \A u : u \in new <=>
                 /\ u \in Slots
                 /\ t = n \/ pte[t][q].prot # "NP"
                 /\ u = n \/ pte[u][q].prot # "NP"
                 /\ (IF u = n THEN pte[s][q].page ELSE pte[u][q].page)
                       = (IF t = n THEN pte[s][q].page ELSE pte[t][q].page)
          BY <2>2, <4>3
        <4>5. n \notin src /\ n \notin old
          BY <1>2, <4>1, <4>2
        <4> HIDE DEF new, old, src
        <4> QED
          BY <3>2, <4>1, <4>2, <4>4, <4>5
      <3> QED
        BY <3>1, <3>2
    <2>4. new = IF q \in G /\ t \in src \cup {n} THEN src \cup {n} ELSE old
      <3> HIDE DEF new, old, src
      <3> QED
        BY <2>3
    <2> QED
      BY <2>4
  <1>9. [t \in Slots |-> [q \in Pages |-> Sharing(t, q)]]' =
           [t \in Slots |-> [q \in Pages |->
               IF q \in G /\ t \in Sharing(s, q) \cup {n}
               THEN Sharing(s, q) \cup {n} ELSE Sharing(t, q)]]
    BY <1>8
  <1> HIDE DEF G
  <1> QED
    BY <1>1, <1>5, <1>7, <1>9 DEF Abstract!Fork, Abstract!MISSING

\* free_page_tables takes a process's pages from it and from nobody else.
LEMMA DropStep ==
    ASSUME MemoryInv, NEW s \in Live \ {0}, pte' = [pte EXCEPT ![s] = EmptyTable],
           Live' = Live \ {s}, UNCHANGED <<content, unverified>>
    PROVE  Abstract!Exit(s)
  <1>1. TypeOK /\ pte \in [Slots -> [Pages -> Entry]] /\ s \in Slots
    BY DEF MemoryInv, TypeOK, Live
  <1>2. /\ \A t \in Slots \ {s} : pte'[t] = pte[t]
        /\ \A q \in Pages : pte'[s][q].prot = "NP"
    BY <1>1 DEF EmptyTable, NoEntry
  <1>3. \A t \in Slots : View(t)' = IF t = s THEN [q \in Pages |-> -1] ELSE View(t)
    BY <1>2 DEF View
  <1>4. \A t \in Slots, q \in Pages : Sharing(t, q)' = IF t = s THEN {} ELSE Sharing(t, q) \ {s}
    BY <1>2, SMTT(30) DEF Sharing
  <1>5. [t \in Slots |-> View(t)]' = [[t \in Slots |-> View(t)] EXCEPT ![s] = [q \in Pages |-> -1]]
    BY <1>3
  <1>6. [t \in Slots |-> [q \in Pages |-> Sharing(t, q)]]' =
           [t \in Slots |-> [q \in Pages |-> IF t = s THEN {} ELSE Sharing(t, q) \ {s}]]
    BY <1>4
  <1> QED
    BY <1>5, <1>6 DEF Abstract!Exit, Abstract!MISSING

-----------------------------------------------------------------------------
(* Every step.                                                             *)

\* A page that becomes writable is in a frame of its own, by the invariant of
\* the memory manager: so its process alone sees the change.
LEMMA PrivateStep ==
    ASSUME MemoryInv, MemoryInv', SamePageNumber,
           NEW s \in Slots, NEW p \in Pages, NEW f \in Frames, NEW v,
           pte' = [pte EXCEPT ![s][p] = [page |-> f, prot |-> "RW"]],
           content' = [content EXCEPT ![f] = v]
    PROVE  Abstract!Own(s, p, v) /\ SamePageNumber'
  <1>1. \A t \in Slots, q \in Pages :
           pte'[t][q] = IF t = s /\ q = p THEN [page |-> f, prot |-> "RW"] ELSE pte[t][q]
    BY DEF MemoryInv, TypeOK
  <1>2. Users(f)' = {<<s, p>>}
    <2>1. pte'[s][p].prot = "RW" /\ pte'[s][p].page = f
      BY <1>1
    <2>2. f >= LOW_MEM
      BY ConstantFacts
    <2>3. Users(pte[s][p].page)' = {<<s, p>>}
      BY <2>1, <2>2 DEF MemoryInv, NoWritableSharing
    <2> QED
      BY <2>1, <2>3 DEF Users
  <1>3. ASSUME NEW t \in Slots, NEW q \in Pages, ~(t = s /\ q = p), pte[t][q].prot # "NP"
        PROVE  pte[t][q].page # f
    <2> SUFFICES ASSUME pte[t][q].page = f
                 PROVE  FALSE
      OBVIOUS
    <2>1. pte'[t][q].page = f /\ pte'[t][q].prot # "NP"
      BY <1>1, <1>3
    <2>2. At(t, q)' = f
      BY <2>1, ConstantFacts DEF At, TASK, TABLE, Pages
    <2>3. <<t, q>> \in Users(f)'
      BY <2>2 DEF Users, Places
    <2> QED
      BY <1>2, <1>3, <2>3
  <1>4. Abstract!Own(s, p, v)
    BY <1>3, ConstantFacts, OwnStep DEF MemoryInv
  <1>5. SamePageNumber'
    BY <1>1, <1>3 DEF SamePageNumber
  <1> QED
    BY <1>4, <1>5

\* Only task 0 writes frames that are not its own, and it writes only pages
\* that are there.
LEMMA UserWriteStep ==
    ASSUME MemoryInv, MemoryInv', SamePageNumber, UNCHANGED unverified,
           NEW s \in Slots, NEW p \in Pages, NEW v \in Values, UserWrite(s, p, v)
    PROVE  Abstract!Store(s, p, v) /\ SamePageNumber'
  <1>1. /\ s \in Live /\ Live' = Live /\ pte[s][p].prot = "RW" /\ UNCHANGED pte
        /\ content' = [content EXCEPT ![pte[s][p].page] = v]
    BY DEF UserWrite, Live
  <1>2. TypeOK /\ pte \in [Slots -> [Pages -> Entry]]
    BY DEF MemoryInv, TypeOK
  <1>3. CASE s = 0
    <2>1. Abstract!Shared(s, p, v)
      BY <1>1, <1>2, SharedStep
    <2>2. SamePageNumber'
      BY <1>1 DEF SamePageNumber
    <2> QED
      BY <1>1, <1>3, <2>1, <2>2 DEF Abstract!Store
  <1>4. CASE s # 0
    <2>1. pte[s][p].page \in Frames
      BY <1>1, <1>4, <1>2, ViewFacts, ConstantFacts DEF MemoryInv, NoWritableSharing
    <2>2. pte[s][p] = [page |-> pte[s][p].page, prot |-> "RW"]
      BY <1>1, <1>2 DEF Entry
    <2>3. pte' = [pte EXCEPT ![s][p] = [page |-> pte[s][p].page, prot |-> "RW"]]
      BY <1>1, <1>2, <2>2
    <2>4. Abstract!Own(s, p, v) /\ SamePageNumber'
      BY <1>1, <2>1, <2>3, PrivateStep
    <2> QED
      BY <1>1, <1>4, <2>4 DEF Abstract!Store
  <1> QED
    BY <1>3, <1>4

\* A read-only page of a process other than task 0 is un-shared: by a fault,
\* which may clear it, or by verify_area before a store.
LEMMA UnShareStep ==
    ASSUME MemoryInv, MemoryInv', SamePageNumber, UNCHANGED unverified,
           NEW s \in Slots, NEW p \in Pages
    PROVE  /\ do_wp_page(s, p) => Abstract!Fault(s, p) /\ SamePageNumber'
           /\ do_no_page(s, p) => Abstract!Fault(s, p) /\ SamePageNumber'
           /\ \A v \in Values : VerifiedStore(s, p, v) => Abstract!Store(s, p, v) /\ SamePageNumber'
  <1>1. pte[s][p].prot # "RW" => s # 0
    BY DEF MemoryInv, Task0Fixed
  <1>2. ASSUME do_wp_page(s, p)
        PROVE  Abstract!Fault(s, p) /\ SamePageNumber'
    <2>1. PICK f \in Frames :
             /\ un_wp_page(s, p, f)
             /\ content' = [content EXCEPT ![f] = IF SoleUser(s, p) THEN @ ELSE 0]
      BY <1>2 DEF do_wp_page
    <2>2. pte' = [pte EXCEPT ![s][p] = [page |-> f, prot |-> "RW"]]
      BY <2>1 DEF un_wp_page
    <2>3. /\ s \in Live \ {0} /\ Live' = Live /\ pte[s][p].prot = "RO"
      BY <1>1, <1>2 DEF do_wp_page, Live
    <2>4. CASE SoleUser(s, p)
      <3>1. f = pte[s][p].page
        BY <2>1, <2>4 DEF un_wp_page
      <3>2. View(s)[p] = content[f] /\ View(s)[p] # -1
        BY <2>3, <3>1, ViewFacts DEF MemoryInv
      <3>3. content' = [content EXCEPT ![f] = View(s)[p]]
        BY <2>1, <2>4, <3>2
      <3>4. Abstract!Own(s, p, View(s)[p]) /\ SamePageNumber'
        BY <2>2, <3>3, PrivateStep
      <3> QED
        BY <2>3, <3>2, <3>4 DEF Abstract!Fault, Abstract!MISSING
    <2>5. CASE ~SoleUser(s, p)
      <3>1. content' = [content EXCEPT ![f] = 0]
        BY <2>1, <2>5
      <3>2. Abstract!Own(s, p, 0) /\ SamePageNumber'
        BY <2>2, <3>1, PrivateStep
      <3> QED
        BY <2>3, <3>2 DEF Abstract!Fault
    <2> QED
      BY <2>4, <2>5
  <1>3. ASSUME do_no_page(s, p)
        PROVE  Abstract!Fault(s, p) /\ SamePageNumber'
    <2>1. PICK f \in Frames :
             /\ pte' = [pte EXCEPT ![s][p] = [page |-> f, prot |-> "RW"]]
             /\ content' = [content EXCEPT ![f] = 0]
      BY <1>3 DEF do_no_page, get_free_page
    <2>2. s \in Live \ {0} /\ Live' = Live
      BY <1>1, <1>3 DEF do_no_page, Live
    <2>3. Abstract!Own(s, p, 0) /\ SamePageNumber'
      BY <2>1, PrivateStep
    <2> QED
      BY <2>2, <2>3 DEF Abstract!Fault
  <1>4. ASSUME NEW v \in Values, VerifiedStore(s, p, v)
        PROVE  Abstract!Store(s, p, v) /\ SamePageNumber'
    <2>1. PICK f \in Frames : un_wp_page(s, p, f) /\ content' = [content EXCEPT ![f] = v]
      BY <1>4 DEF VerifiedStore
    <2>2. pte' = [pte EXCEPT ![s][p] = [page |-> f, prot |-> "RW"]]
      BY <2>1 DEF un_wp_page
    <2>3. s \in Live \ {0} /\ Live' = Live
      BY <1>1, <1>4 DEF VerifiedStore, Live
    <2>4. Abstract!Own(s, p, v) /\ SamePageNumber'
      BY <2>1, <2>2, PrivateStep
    <2> QED
      BY <2>3, <2>4 DEF Abstract!Store
  <1> QED
    BY <1>2, <1>3, <1>4

\* fork: neither the new task_struct nor the new page table lies in a frame
\* some process reads.
LEMMA ForkStep ==
    ASSUME MemoryInv, MemoryInv', SamePageNumber, UNCHANGED unverified,
           NEW s \in Slots, Fork(s)
    PROVE  (\E n \in Slots : Abstract!Fork(s, n)) /\ SamePageNumber'
  <1>1. PICK n \in find_empty_process, t \in get_free_page(mem_map) :
             IF pg_dir[n] # NULL
             THEN panic' = "already_exists"
             ELSE \E g \in get_free_page(Allocated(t)) :
                    /\ task' = [task EXCEPT ![n] = t]
                    /\ copy_page_tables(s, n)
                    /\ content' = [content EXCEPT ![t] = 0, ![g] = 0]
    BY DEF Fork
  <1>2. panic' # "already_exists"
    BY DEF MemoryInv, OnlyOomPanics
  <1>3. PICK g \in get_free_page(Allocated(t)) :
                    /\ task' = [task EXCEPT ![n] = t]
                    /\ copy_page_tables(s, n)
                    /\ content' = [content EXCEPT ![t] = 0, ![g] = 0]
    BY <1>1, <1>2
  <1>4. /\ n \in Slots \ {0} /\ task[n] = NULL
        /\ t \in Frames /\ mem_map[t] = 0
    BY DEF find_empty_process, get_free_page
  <1>5. g \in Frames /\ g # t /\ mem_map[g] = 0
    BY <1>4 DEF get_free_page, Allocated, MemoryInv, TypeOK
  <1>6. /\ n \notin Live /\ n \notin zombie /\ pte[n] = EmptyTable
        /\ s \in Live /\ s # n /\ UNCHANGED zombie
    BY <1>4 DEF MemoryInv, SlotsConsistent, Live, Fork
  <1>7. Live' = Live \cup {n}
    <2>1. \A r \in Slots : task'[r] = IF r = n THEN t ELSE task[r]
      BY <1>3 DEF MemoryInv, TypeOK
    <2>2. t # NULL
      BY <1>4, ConstantFacts, SizeAssumption DEF NULL
    <2> QED
      BY <1>4, <1>6, <2>1, <2>2 DEF Live
  <1>8. \A r \in Slots, q \in Pages :
            pte[r][q].prot # "NP" => content'[pte[r][q].page] = content[pte[r][q].page]
    <2> SUFFICES ASSUME NEW r \in Slots, NEW q \in Pages, pte[r][q].prot # "NP"
                 PROVE  content'[pte[r][q].page] = content[pte[r][q].page]
      OBVIOUS
    <2>1. At(r, q) = pte[r][q].page /\ q \in Places
      BY AtFacts DEF MemoryInv, Places
    <2>2. pte[r][q].page # t /\ pte[r][q].page # g
      BY <1>4, <1>5, <2>1, FreeFrameUnused DEF MemoryInv
    <2>3. pte[r][q].page \in Memory
      BY ViewFacts DEF MemoryInv
    <2> QED
      BY <1>3, <2>2, <2>3 DEF MemoryInv, TypeOK
  <1>9. Abstract!Fork(s, n)
    BY <1>3, <1>4, <1>6, <1>7, <1>8, CopyStep
  <1>10. SamePageNumber'
    <2>1. \A r \in Slots, q \in Pages : pte'[r][q].prot # "NP" =>
             \E u \in Slots : pte[u][q].prot # "NP" /\ pte'[r][q].page = pte[u][q].page
      <3> TAKE r \in Slots, q \in Pages
      <3>1. CASE r = n
        <4>1. pte'[n][q] = IF q \in CopiedPages(s) THEN ReadOnly(pte[s][q]) ELSE NoEntry
          BY <1>3, <1>4 DEF copy_page_tables, MemoryInv, TypeOK
        <4> QED
          BY <3>1, <4>1 DEF CopiedPages, ReadOnly, NoEntry
      <3>2. CASE r = s
        <4>1. pte'[s][q] = pte[s][q] \/ (q \in CopiedPages(s) /\ pte'[s][q] = ReadOnly(pte[s][q]))
          BY <1>3, <1>6 DEF copy_page_tables, MemoryInv, TypeOK
        <4> QED
          BY <3>2, <4>1 DEF CopiedPages, ReadOnly
      <3>3. CASE r # n /\ r # s
        <4>1. pte'[r][q] = pte[r][q]
          BY <1>3, <3>3 DEF copy_page_tables, MemoryInv, TypeOK
        <4> QED
          BY <4>1
      <3> QED
        BY <3>1, <3>2, <3>3
    <2> QED
      BY <2>1 DEF SamePageNumber
  <1> QED
    BY <1>4, <1>9, <1>10

LEMMA ExitStep ==
    ASSUME MemoryInv, MemoryInv', SamePageNumber, UNCHANGED unverified,
           NEW s \in Slots, Exit(s) \/ ExitOrphan(s)
    PROVE  Abstract!Exit(s) /\ SamePageNumber'
  <1>1. panic' # "free_free_page"
    BY DEF MemoryInv, OnlyOomPanics
  <1>2. /\ s \in Live \ {0} /\ UNCHANGED content
        /\ pte' = [pte EXCEPT ![s] = EmptyTable]
        /\ \/ UNCHANGED task /\ zombie' = zombie \cup {s}
           \/ task' = [task EXCEPT ![s] = NULL] /\ UNCHANGED zombie
    BY <1>1 DEF Exit, ExitOrphan
  <1>3. Live' = Live \ {s}
    BY <1>2 DEF Live, MemoryInv, TypeOK
  <1>4. Abstract!Exit(s)
    BY <1>2, <1>3, DropStep
  <1>5. \A r \in Slots, q \in Pages : pte'[r][q].prot # "NP" => pte'[r][q] = pte[r][q]
    BY <1>2 DEF MemoryInv, TypeOK, EmptyTable, NoEntry
  <1> QED
    BY <1>4, <1>5 DEF SamePageNumber

\* The rest is invisible: a fork that fails zeroes a frame nobody has, release
\* frees the task_struct of a zombie, and a panic changes nothing but panic.
LEMMA InvisibleStep ==
    ASSUME MemoryInv, SamePageNumber, UNCHANGED unverified,
           \/ \E s \in Slots : ForkFails(s) \/ Release(s)
           \/ \E s \in Slots, p \in Pages : UnWpOom(s, p) \/ NoPageOom(s, p)
           \/ ExitOfTask0 \/ UNCHANGED vars
    PROVE  UNCHANGED Abstract!vars /\ SamePageNumber'
  <1>f. \A s \in Slots : ForkFails(s) => UNCHANGED <<task, zombie>>
    BY ForkFailsUndone DEF MemoryInv
  <1>1. UNCHANGED pte
    BY DEF ForkFails, Release, UnWpOom, NoPageOom, ExitOfTask0, vars
  <1>2. Live' = Live
    <2>1. CASE UNCHANGED <<task, zombie>>
      BY <2>1 DEF Live
    <2>2. ASSUME NEW s \in Slots, Release(s)
          PROVE  Live' = Live
      <3>1. /\ s \in zombie /\ zombie' = zombie \ {s}
            /\ task' = [task EXCEPT ![s] = NULL]
        BY <2>2 DEF Release
      <3> QED
        BY <3>1 DEF Live, MemoryInv, TypeOK
    <2> QED
      BY <1>f, <2>1, <2>2 DEF UnWpOom, NoPageOom, ExitOfTask0, vars
  <1>3. \A r \in Slots, q \in Pages :
            pte[r][q].prot # "NP" => content'[pte[r][q].page] = content[pte[r][q].page]
    <2>1. UNCHANGED content \/ \E t \in Frames : mem_map[t] = 0 /\ content' = [content EXCEPT ![t] = 0]
      BY DEF ForkFails, Release, UnWpOom, NoPageOom, ExitOfTask0, vars, get_free_page
    <2> SUFFICES ASSUME NEW t \in Frames, mem_map[t] = 0, content' = [content EXCEPT ![t] = 0],
                        NEW r \in Slots, NEW q \in Pages, pte[r][q].prot # "NP"
                 PROVE  content'[pte[r][q].page] = content[pte[r][q].page]
      BY <2>1
    <2>2. At(r, q) = pte[r][q].page /\ q \in Places /\ pte[r][q].page \in Memory
      BY AtFacts, ViewFacts DEF MemoryInv, Places
    <2>3. pte[r][q].page # t
      BY <2>2, FreeFrameUnused DEF MemoryInv
    <2> QED
      BY <2>2, <2>3 DEF MemoryInv, TypeOK
  <1>4. UNCHANGED <<Views, Sharers>>
    BY <1>1, <1>3, SameMemories DEF MemoryInv
  <1>5. SamePageNumber'
    BY <1>1 DEF SamePageNumber
  <1> QED
    BY <1>2, <1>4, <1>5 DEF Abstract!vars, Views, Sharers

-----------------------------------------------------------------------------
(* The theorem.                                                            *)

LEMMA InitAbstract == LabelledInit => Abstract!Init /\ SamePageNumber
  <1> SUFFICES ASSUME LabelledInit
               PROVE  Abstract!Init /\ SamePageNumber
    OBVIOUS
  <1>1. Live = {0}
    BY ConstantFacts DEF LabelledInit, Init, Live, init_task, NULL
  <1>2. \A s \in Slots, p \in Pages :
           pte[s][p] = IF s = 0 THEN [page |-> p, prot |-> "RW"] ELSE NoEntry
    BY DEF LabelledInit, Init, EmptyTable
  <1>3. NoEntry.prot = "NP" /\ \A p : /\ [page |-> p, prot |-> "RW"].prot = "RW"
                                      /\ [page |-> p, prot |-> "RW"].page = p
    BY DEF NoEntry
  <1>m. /\ \A p \in Pages : pte[0][p].prot # "NP" /\ pte[0][p].page = p
        /\ \A s \in Slots, p \in Pages : pte[s][p].prot # "NP" => s = 0
    BY <1>2, <1>3, ConstantFacts
  <1>4. \A s \in Slots : View(s) = [p \in Pages |-> IF s = 0 THEN 0 ELSE -1]
    BY <1>2, <1>3, ConstantFacts DEF View, LabelledInit, Init
  <1>5. \A s \in Slots, p \in Pages : Sharing(s, p) = IF s = 0 THEN {0} ELSE {}
    BY <1>m, ConstantFacts DEF Sharing
  <1>6. [s \in Slots |-> View(s)] = [s \in Slots |-> [p \in Pages |-> IF s = 0 THEN 0 ELSE -1]]
    BY <1>4
  <1>7. [s \in Slots |-> [p \in Pages |-> Sharing(s, p)]]
           = [s \in Slots |-> [p \in Pages |-> IF s = 0 THEN {0} ELSE {}]]
    BY <1>5
  <1>8. SamePageNumber
    BY <1>m DEF SamePageNumber
  <1> QED
    BY <1>1, <1>6, <1>7, <1>8 DEF LabelledInit, Abstract!Init, Abstract!MISSING

LEMMA NextAbstract ==
    MemoryInv /\ MemoryInv' /\ SamePageNumber /\ [LabelledNext]_<<vars, unverified>>
        => [Abstract!Next]_Abstract!vars /\ SamePageNumber'
  <1> SUFFICES ASSUME MemoryInv, MemoryInv', SamePageNumber,
                      [LabelledNext]_<<vars, unverified>>
               PROVE  [Abstract!Next]_Abstract!vars /\ SamePageNumber'
    OBVIOUS
  <1>1. ASSUME NEW s \in Slots, NEW p \in Pages, NEW v \in Values, TtyStore(s, p, v),
               unverified' = ~unverified
        PROVE  Abstract!Next /\ SamePageNumber'
    <2>1. /\ s \in Live /\ Live' = Live /\ pte[s][p].prot # "NP" /\ UNCHANGED pte
          /\ content' = [content EXCEPT ![pte[s][p].page] = v]
      BY <1>1 DEF TtyStore, Live
    <2>2. Abstract!Shared(s, p, v)
      BY <2>1, SharedStep DEF MemoryInv
    <2>3. Abstract!UnverifiedStore(s, p, v)
      BY <1>1, <2>1, <2>2 DEF Abstract!UnverifiedStore
    <2>4. SamePageNumber'
      BY <2>1 DEF SamePageNumber
    <2> QED
      BY <2>3, <2>4 DEF Abstract!Next
  <1>2. ASSUME NEW s \in Slots, ProcessStep(s), UNCHANGED unverified
        PROVE  [Abstract!Next]_Abstract!vars /\ SamePageNumber'
    <2>1. CASE Fork(s)
      BY <1>2, <2>1, ForkStep DEF Abstract!Next
    <2>2. CASE ForkFails(s)
      BY <1>2, <2>2, InvisibleStep
    <2>3. CASE Exit(s) \/ ExitOrphan(s)
      BY <1>2, <2>3, ExitStep DEF Abstract!Next
    <2>4. ASSUME NEW p \in Pages, NEW v \in Values, UserWrite(s, p, v) \/ VerifiedStore(s, p, v)
          PROVE  Abstract!Next /\ SamePageNumber'
      BY <1>2, <2>4, UserWriteStep, UnShareStep DEF Abstract!Next
    <2>5. ASSUME NEW p \in Pages, do_wp_page(s, p) \/ do_no_page(s, p)
          PROVE  Abstract!Next /\ SamePageNumber'
      BY <1>2, <2>5, UnShareStep DEF Abstract!Next
    <2>6. ASSUME NEW p \in Pages, UnWpOom(s, p) \/ NoPageOom(s, p)
          PROVE  UNCHANGED Abstract!vars /\ SamePageNumber'
      BY <1>2, <2>6, InvisibleStep
    <2> QED
      BY <1>2, <2>1, <2>2, <2>3, <2>4, <2>5, <2>6 DEF ProcessStep
  <1>3. CASE (\E s \in Slots : Release(s)) /\ UNCHANGED unverified
    BY <1>3, InvisibleStep
  <1>4. CASE (ExitOfTask0 \/ Halted \/ UNCHANGED vars) /\ UNCHANGED unverified
    BY <1>4, InvisibleStep DEF Halted
  <1> QED
    BY <1>1, <1>2, <1>3, <1>4 DEF LabelledNext

\* A step of Memory with its label is a step of Memory.
LEMMA LabelledIsMemory == LabelledSpec => Spec
  <1>1. LabelledInit => Init
    BY DEF LabelledInit
  <1>2. [LabelledNext]_<<vars, unverified>> => [Next]_vars
    BY DEF LabelledNext, Next, Running, Halted, vars
  <1> QED
    BY <1>1, <1>2, PTL DEF LabelledSpec, Spec

\* A frame that is mapped has the same page number in every process.
THEOREM FramesKeepTheirPage == LabelledSpec => []SamePageNumber
  <1>1. LabelledInit => SamePageNumber
    BY InitAbstract
  <1>2. MemoryInv /\ MemoryInv' /\ SamePageNumber /\ [LabelledNext]_<<vars, unverified>>
            => SamePageNumber'
    BY NextAbstract
  <1> QED
    BY <1>1, <1>2, LabelledIsMemory, MemoryCorrect, PTL DEF LabelledSpec

\* The memory manager implements separate memories: what fork, the page
\* faults, the stores and exit do with shared frames, reference counts and
\* protection bits is a behaviour of AddressSpace.
THEOREM MemoriesAreSeparate == LabelledSpec => SeparateMemories
  <1>1. LabelledInit => Abstract!Init
    BY InitAbstract
  <1>2. MemoryInv /\ MemoryInv' /\ SamePageNumber /\ [LabelledNext]_<<vars, unverified>>
            => [Abstract!Next]_Abstract!vars
    BY NextAbstract
  <1> QED
    BY <1>1, <1>2, LabelledIsMemory, MemoryCorrect, FramesKeepTheirPage, PTL
       DEF LabelledSpec, SeparateMemories, Abstract!Spec

=============================================================================
