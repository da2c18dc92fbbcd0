------------------------------ MODULE MCSignal ------------------------------
(***************************************************************************)
(* Instances of Signal for TLC.  The signals keep their numbers: 9 SIGKILL,*)
(* 10 SIGUSR1, 12 SIGUSR2.                                                 *)
(***************************************************************************)
EXTENDS Signal

MCMasks == {{}, {12}}

\* A handler that masks itself and SIGUSR2, one installed as signal() would,
\* and none.
MCActions ==
    {[sa_handler |-> HANDLER, sa_mask |-> {12}, nomask |-> FALSE, oneshot |-> FALSE],
     [sa_handler |-> HANDLER, sa_mask |-> {}, nomask |-> TRUE, oneshot |-> TRUE],
     [sa_handler |-> SIG_IGN, sa_mask |-> {}, nomask |-> FALSE, oneshot |-> FALSE]}

=============================================================================
