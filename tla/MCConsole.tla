----------------------------- MODULE MCConsole ------------------------------
(***************************************************************************)
(* Instances of the output path for TLC: a small screen, short formats.    *)
(* Formatting and the console share no variable, so nothing is lost by     *)
(* looking at them one at a time: printk formats while the screen is as    *)
(* video_init left it, and the console prints while nothing is formatted.  *)
(***************************************************************************)
EXTENDS Console, Format

MCSamples == {<<3, 0>>, <<-1, 17>>}

OutputInit == Init /\ FormatInit

OutputNext ==
    \/ FormatInit /\ Next /\ UNCHANGED fvars
    \/ Init /\ FormatNext /\ UNCHANGED vars

OutputSpec == OutputInit /\ [][OutputNext]_<<vars, fvars>>

\* The state with the one thing that matters of the cell stored to last, which
\* no step of the console reads: whether it is where it may be.
UpToCell == <<video_x, video_y, calls, vga, StoresNearScreen, fvars>>

=============================================================================
