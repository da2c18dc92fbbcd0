------------------------------- MODULE MCBoot -------------------------------
(***************************************************************************)
(* The loader and the start of the kernel with the constants of the code,  *)
(* for the usual floppy formats.                                           *)
(***************************************************************************)
EXTENDS Startup

=============================================================================
