-------------------------------- MODULE MCTty -------------------------------
(***************************************************************************)
(* Instances of Tty for TLC: tasks and characters are model values.        *)
(***************************************************************************)
EXTENDS Tty

\* Readers differ in nothing but their names.
ReaderSymmetry == Permutations(Readers)
=============================================================================
