---------------------------- MODULE AddressSpace ----------------------------
(***************************************************************************)
(* What fork, exit and the page faults of neu-os promise to processes,     *)
(* without frames, counts or protection bits: a process has a memory of    *)
(* its own, a child begins with a copy of its parent's, and from then on   *)
(* what one stores the other does not see.                                 *)
(*                                                                         *)
(* Two things are promised less of.  A page that neither side has written  *)
(* since the fork is one page (they are peers): the stores of process 0,   *)
(* which has no private pages, and the unverified stores of the kernel     *)
(* (tty_read) reach all peers.  And a page that is un-shared may come out  *)
(* cleared.                                                                *)
(***************************************************************************)
EXTENDS Integers

CONSTANTS
    Procs,       \* processes; 0 is the first
    PageNos,     \* the pages of a memory
    Inherited,   \* the pages process 0 hands to its children
    Values       \* contents of a page; 0 is a cleared one

VARIABLES
    live,        \* processes that run
    view,        \* view[p][g]: what p reads in page g, MISSING if nothing
    peers,       \* peers[p][g]: the processes whose page g is the page of p
    unverified   \* changes with every unverified store, and only with one

vars == <<live, view, peers, unverified>>

MISSING == -1

Init ==
    /\ live = {0}
    /\ view = [p \in Procs |-> [g \in PageNos |-> IF p = 0 THEN 0 ELSE MISSING]]
    /\ peers = [p \in Procs |-> [g \in PageNos |-> IF p = 0 THEN {0} ELSE {}]]
    /\ unverified = FALSE

\* Page g of p is p's alone from now on and holds v.
Own(p, g, v) ==
    /\ view' = [view EXCEPT ![p][g] = v]
    /\ peers' = [q \in Procs |-> [peers[q] EXCEPT ![g] = IF q = p THEN {p} ELSE @ \ {p}]]

\* The page that p has as page g holds v, for all who have it.
Shared(p, g, v) ==
    /\ view[p][g] # MISSING
    /\ view' = [q \in Procs |-> [view[q] EXCEPT ![g] = IF q \in peers[p][g] THEN v ELSE @]]
    /\ UNCHANGED peers

Store(p, g, v) ==
    /\ p \in live
    /\ UNCHANGED <<live, unverified>>
    /\ IF p = 0 THEN Shared(p, g, v) ELSE Own(p, g, v)

\* A fault on page g of p: a missing page appears, a shared one is separated.
Fault(p, g) ==
    /\ p \in live \ {0}
    /\ UNCHANGED <<live, unverified>>
    /\ Own(p, g, 0) \/ (view[p][g] # MISSING /\ Own(p, g, view[p][g]))

UnverifiedStore(p, g, v) ==
    /\ p \in live
    /\ unverified' = ~unverified
    /\ UNCHANGED live
    /\ Shared(p, g, v)

Fork(p, c) ==
    LET G == {g \in IF p = 0 THEN Inherited ELSE PageNos : view[p][g] # MISSING} IN
    /\ p \in live /\ c \notin live
    /\ live' = live \cup {c}
    /\ view' = [view EXCEPT ![c] = [g \in PageNos |-> IF g \in G THEN view[p][g] ELSE MISSING]]
    /\ peers' = [q \in Procs |-> [g \in PageNos |->
                    IF g \in G /\ q \in peers[p][g] \cup {c}
                    THEN peers[p][g] \cup {c} ELSE peers[q][g]]]
    /\ UNCHANGED unverified

Exit(p) ==
    /\ p \in live \ {0}
    /\ live' = live \ {p}
    /\ view' = [view EXCEPT ![p] = [g \in PageNos |-> MISSING]]
    /\ peers' = [q \in Procs |-> [g \in PageNos |-> IF q = p THEN {} ELSE peers[q][g] \ {p}]]
    /\ UNCHANGED unverified

Next ==
    \E p \in Procs :
        \/ \E g \in PageNos, v \in Values : Store(p, g, v) \/ UnverifiedStore(p, g, v)
        \/ \E g \in PageNos : Fault(p, g)
        \/ \E c \in Procs : Fork(p, c)
        \/ Exit(p)

Spec == Init /\ [][Next]_vars

=============================================================================
