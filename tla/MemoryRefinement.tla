-------------------------- MODULE MemoryRefinement --------------------------
(***************************************************************************)
(* Memory implements AddressSpace: page tables, reference counts and       *)
(* protection bits give processes separate memories.                       *)
(***************************************************************************)
EXTENDS Memory

VARIABLE unverified    \* history: changes with every store of tty_read

\* A store by the program that the MMU lets through is one of AddressSpace's
\* own stores, also where tty_read could have made the same store.
LabelledNext ==
    \/ /\ panic = "none"
       /\ \E s \in Slots, p \in Pages, v \in Values : TtyStore(s, p, v)
       /\ unverified' = ~unverified
    \/ /\ panic = "none"
       /\ \/ \E s \in Slots : ProcessStep(s) \/ Release(s)
          \/ ExitOfTask0
       /\ UNCHANGED unverified
    \/ Halted /\ UNCHANGED unverified

LabelledInit == Init /\ unverified = FALSE

LabelledSpec == LabelledInit /\ [][LabelledNext]_<<vars, unverified>>

\* The processes whose page p is the frame that process s has there.
Sharing(s, p) ==
    IF pte[s][p].prot = "NP" THEN {}
    ELSE {t \in Slots : pte[t][p].prot # "NP" /\ pte[t][p].page = pte[s][p].page}

Abstract == INSTANCE AddressSpace WITH
    Procs <- Slots,
    PageNos <- Pages,
    Inherited <- Visited(0),
    live <- Live,
    view <- [s \in Slots |-> View(s)],
    peers <- [s \in Slots |-> [p \in Pages |-> Sharing(s, p)]]

\* Every step of the memory manager is a step of AddressSpace or invisible to
\* processes: forked memories are equal and then separate, whatever order of
\* faults, stores, forks and exits shares and un-shares the frames below.
SeparateMemories == Abstract!Spec

-----------------------------------------------------------------------------
\* What the refinement rests on beside MemoryInv: wherever a frame is mapped it
\* is mapped as the same page, so that a store reaches one page of a process.
SamePageNumber ==
    \A s \in Slots, t \in Slots, p \in Pages, q \in Pages :
        /\ pte[s][p].prot # "NP" /\ pte[t][q].prot # "NP"
        /\ pte[s][p].page = pte[t][q].page
        => p = q

=============================================================================
