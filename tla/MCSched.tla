------------------------------ MODULE MCSched ------------------------------
(***************************************************************************)
(* Instances of Sched for TLC.  The signals keep their numbers.            *)
(***************************************************************************)
EXTENDS Sched

AlarmMasks    == {{}, {SIGALRM}}
NoMask        == {{}}

=============================================================================
