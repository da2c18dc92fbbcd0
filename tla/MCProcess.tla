----------------------------- MODULE MCProcess ------------------------------
(***************************************************************************)
(* Process for TLC: a few slots.                                           *)
(***************************************************************************)
EXTENDS Process

\* The slots that have the frame of page p of s.
Mates(s, p) == {t \in Slots : pte[t][p] # NoEntry /\ pte[t][p].page = pte[s][p].page}

\* The state up to the names of the managed frames: which of them a slot has
\* makes no difference to what can happen next, how many are free does.
\* mem_map is not looked at, it counts the mates (RefCountsCorrect).
UpToFrames ==
    <<Present, zombie, [s \in Slots |-> [p \in Pages |-> <<pte[s][p].prot, Mates(s, p)>>]],
      Cardinality({f \in Frames : mem_map[f] = 0}), panic, pvars>>

=============================================================================
