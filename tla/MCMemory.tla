------------------------------ MODULE MCMemory ------------------------------
(***************************************************************************)
(* Small instances of Memory for TLC.                                      *)
(***************************************************************************)
EXTENDS MemoryRefinement

\* What a frame is to the program: who uses it, how often it is counted and
\* what it holds.  What a free frame holds is left out: get_free_page clears it.
Role(f) == <<Users(f), mem_map[f], IF mem_map[f] = 0 THEN 0 ELSE content[f]>>

\* The state up to the names of the managed frames: any free frame serves as
\* well as another, so only how many frames have a role matters.  The value of
\* the history variable is left out, as no later step depends on it.
UpToFrames ==
    <<zombie, panic, [s \in Slots |-> [p \in Pages |-> pte[s][p].prot]],
      [f \in Memory \ Frames |-> <<Users(f), content[f]>>],
      LET roles == [f \in Frames |-> Role(f)]
      IN  [r \in {roles[f] : f \in Frames} |-> Cardinality({f \in Frames : roles[f] = r})]>>

=============================================================================
