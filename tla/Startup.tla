------------------------------- MODULE Startup ------------------------------
(***************************************************************************)
(* From the loader to user mode: the end of boot/setup.s programs the      *)
(* interrupt controllers, boot/head.s fills the interrupt table, main()    *)
(* calls the initialisers and opens interrupts; then programs run, and the *)
(* exceptions they cause go through the gates of kernel/traps.c and the    *)
(* entries of kernel/asm.s.                                                *)
(*                                                                         *)
(* The timer and the keyboard may request an interrupt at any time (before *)
(* the controllers are set up it is the BIOS's business); it is taken      *)
(* between any two calls, when the processor and the controller let it     *)
(* through.  Values on the stack are named for what they are the saved     *)
(* value of.                                                               *)
(***************************************************************************)
EXTENDS Boot, Sequences

CONSTANTS
    Raised       \* exceptions programs cause

VARIABLES
    stage,       \* "loader", "head", "main" or "user"
    calls,       \* what main() still has to do
    idt,         \* the handler of every vector
    imr, irr,    \* requests the 8259s hold back, and have
    isr,         \* requests whose handler has sent no end of interrupt
    IF_,         \* the processor's interrupt flag
    ready,       \* what has been initialised
    halted,      \* "no", or what the system stopped in
    context      \* whether the program's registers are what they were

kernel == <<stage, calls, idt, imr, irr, isr, IF_, ready, halted, context>>

Vectors == 0..47
Lines   == 0..15
TIMER    == 0
KEYBOARD == 1
CASCADE  == 2

\* Exceptions for which the processor pushes an error code.
ErrorCodes == {8, 10, 11, 12, 13, 14}

ASSUME StartupAssumption == Raised \subseteq 0..16

\* Mutant: the gates are filled in after the timer's.
main_calls_TrapsLate ==
    <<"video_init", "sched_init", "trap_init", "mem_init", "tty_init", "sti",
      "printk", "printk", "move_to_user_mode">>

main_calls ==
    <<"video_init", "trap_init", "sched_init", "mem_init", "tty_init", "sti",
      "printk", "printk", "move_to_user_mode">>

\* setup.s has executed cli; nothing of the kernel exists yet.
StartupInit ==
    /\ Init
    /\ stage = "loader" /\ calls = main_calls
    /\ idt = [v \in Vectors |-> "none"]
    /\ imr = {} /\ irr = {} /\ isr = {}
    /\ IF_ = FALSE
    /\ ready = {}
    /\ halted = "no"
    /\ context = "intact"

-----------------------------------------------------------------------------
\* end_move: the 8259s are reset, which drops their requests, moved to vectors
\* 0x20 to 0x2F, and hold everything back; then protected mode.
end_move ==
    /\ stage = "loader" /\ pc = "system"
    /\ irr' = {} /\ isr' = {} /\ imr' = Lines
    /\ stage' = "head"
    /\ UNCHANGED <<calls, idt, IF_, ready, halted, context>>

\* setup_idt: the same handler everywhere.  With the A20 line off, if setup.s
\* could not switch it on, the test that follows loops for ever.  Else the
\* coprocessor is set up, and setup_paging returns into main.
startup_32 ==
    /\ stage = "head" /\ halted = "no"
    /\ idt' = [v \in Vectors |-> "ignore_int"]
    /\ \/ stage' = "main" /\ UNCHANGED halted
       \/ halted' = "A20_off" /\ UNCHANGED stage
    /\ UNCHANGED <<calls, imr, irr, isr, IF_, ready, context>>

-----------------------------------------------------------------------------
(* main().                                                                 *)

TrapGates ==
    <<"divide_error", "debug", "nmi", "int3", "overflow", "bounds", "double_fault",
      "device_not_available", "double_fault", "coprocessor_segment_overrun",
      "invalid_TSS", "segment_not_present", "stack_segment", "general_protection",
      "page_fault", "reserved", "coprocessor_error">>

\* Call c is what main() does next.
Calling(c) ==
    /\ stage = "main" /\ halted = "no"
    /\ calls # <<>> /\ Head(calls) = c
    /\ calls' = Tail(calls)
    /\ UNCHANGED <<irr, isr, context>>

video_init ==
    /\ Calling("video_init")
    /\ ready' = ready \cup {"video"}
    /\ UNCHANGED <<stage, idt, imr, IF_, halted>>

\* All 48 gates, and the requests of the second 8259 and of the coprocessor.
trap_init ==
    /\ Calling("trap_init")
    /\ idt' = [v \in Vectors |-> IF v <= 16 THEN TrapGates[v + 1]
                                 ELSE IF v = 39 THEN "parallel_interrupt"
                                 ELSE IF v = 45 THEN "irq13"
                                 ELSE "reserved"]
    /\ imr' = imr \ {CASCADE, 13}
    /\ UNCHANGED <<stage, IF_, ready, halted>>

\* The task table, the clock, its gate and its request line; system calls.
sched_init ==
    /\ Calling("sched_init")
    /\ idt' = [idt EXCEPT ![32 + TIMER] = "timer_interrupt"]
    /\ imr' = imr \ {TIMER}
    /\ ready' = ready \cup {"task"}
    /\ UNCHANGED <<stage, IF_, halted>>

mem_init ==
    /\ Calling("mem_init")
    /\ ready' = ready \cup {"mem_map"}
    /\ UNCHANGED <<stage, idt, imr, IF_, halted>>

\* tty->write, then con_init: the gate, the screen, the request line.
tty_init ==
    /\ Calling("tty_init")
    /\ idt' = [idt EXCEPT ![32 + KEYBOARD] = "keyboard_interrupt"]
    /\ imr' = imr \ {KEYBOARD}
    /\ ready' = ready \cup {"tty", "video"}
    /\ UNCHANGED <<stage, IF_, halted>>

sti ==
    /\ Calling("sti")
    /\ IF_' = TRUE
    /\ UNCHANGED <<stage, idt, imr, ready, halted>>

\* printk calls tty->write, a null pointer before tty_init; the sti() of
\* sleep_if_empty on its way opens interrupts.
printk ==
    /\ Calling("printk")
    /\ IF "tty" \in ready
       THEN IF_' = TRUE /\ UNCHANGED halted
       ELSE halted' = "null_call" /\ UNCHANGED IF_
    /\ UNCHANGED <<stage, idt, imr, ready>>

move_to_user_mode ==
    /\ Calling("move_to_user_mode")
    /\ stage' = "user"
    /\ UNCHANGED <<idt, imr, IF_, ready, halted>>

main ==
    \/ video_init \/ trap_init \/ sched_init \/ mem_init \/ tty_init \/ sti \/ printk
    \/ move_to_user_mode

-----------------------------------------------------------------------------
(* Interrupts.                                                             *)

Request(i) ==
    /\ stage # "loader" /\ halted = "no"
    /\ i \in {TIMER, KEYBOARD} \ irr
    /\ irr' = irr \cup {i}
    /\ UNCHANGED <<stage, calls, idt, imr, isr, IF_, ready, halted, context>>

\* do_timer uses the task table, the keyboard's handler the terminal.
\* ignore_int prints and sends no end of interrupt; reserved ends in die.
Interrupt(i) ==
    /\ halted = "no"
    /\ IF_ /\ i \in irr \ imr
    /\ \A j \in isr : i < j
    /\ irr' = irr \ {i}
    /\ LET h == idt[32 + i]
           served == \/ h = "timer_interrupt" /\ "task" \in ready
                     \/ h = "keyboard_interrupt" /\ "tty" \in ready
                     \/ h = "ignore_int" /\ "tty" \in ready
       IN  /\ isr' = IF h = "ignore_int" THEN isr \cup {i} ELSE isr
           /\ halted' = IF served THEN "no" ELSE "interrupt"
    /\ UNCHANGED <<stage, calls, idt, imr, IF_, ready, context>>

-----------------------------------------------------------------------------
(* Exceptions of user programs.                                            *)

\* The C functions that return; all the others end in die: for(;;);
Returning == {"int3", "debug", "device_not_available", "coprocessor_error"}

\* Entries of asm.s that expect an error code on the stack.
WithErrorCode ==
    {"double_fault", "invalid_TSS", "segment_not_present", "stack_segment",
     "general_protection", "coprocessor_error", "device_not_available"}

\* What the processor pushes.
CpuFrame(v) ==
    <<"eflags", "cs", "eip">> \o (IF v \in ErrorCodes THEN <<"error">> ELSE <<>>)

\* The stack when the C function has returned and its arguments are dropped.
\* Without an error code the slot of the function's address takes eax; with
\* one, that slot takes ebx and the one below it, the error code's, eax.
Saved(v, h) ==
    IF h \in WithErrorCode
    THEN [CpuFrame(v) EXCEPT ![Len(CpuFrame(v))] = "eax"]
             \o <<"ebx", "ecx", "edx", "esi", "edi", "ebp", "ds", "es", "fs">>
    ELSE CpuFrame(v)
             \o <<"eax", "ebx", "ecx", "edx", "edi", "esi", "ebp", "ds", "es", "fs">>

\* Mutant: edi and esi come off in the order they went on.
Popped_Swapped(h) == <<"fs", "es", "ds", "ebp", "edi", "esi", "edx", "ecx", "ebx", "eax">>

Popped(h) ==
    IF h \in WithErrorCode
    THEN <<"fs", "es", "ds", "ebp", "edi", "esi", "edx", "ecx", "ebx", "eax">>
    ELSE <<"fs", "es", "ds", "ebp", "esi", "edi", "edx", "ecx", "ebx", "eax">>

\* Every register gets its own value back and iret finds its three words.
Restores(v, h) ==
    LET s == Saved(v, h)
        n == Len(Popped(h))
    IN  /\ \A i \in 1..n : s[Len(s) + 1 - i] = Popped(h)[i]
        /\ SubSeq(s, 1, Len(s) - n) = <<"eflags", "cs", "eip">>

Exception(v) ==
    /\ stage = "user" /\ halted = "no"
    /\ v \in Raised \ {14}
    /\ IF idt[v] \in Returning
       THEN /\ context' = IF Restores(v, idt[v]) THEN context ELSE "broken"
            /\ UNCHANGED halted
       ELSE /\ halted' = "die"
            /\ UNCHANGED context
    /\ UNCHANGED <<stage, calls, idt, imr, irr, isr, IF_, ready>>

-----------------------------------------------------------------------------
KernelNext ==
    \/ end_move \/ startup_32 \/ main
    \/ \E i \in Lines : Request(i) \/ Interrupt(i)
    \/ \E v \in Raised : Exception(v)

StartupNext ==
    \/ Next /\ UNCHANGED kernel
    \/ KernelNext /\ UNCHANGED vars

\* The processor goes on.  Nothing is assumed of the keyboard and the clock.
StartupSpec ==
    /\ StartupInit /\ [][StartupNext]_<<vars, kernel>>
    /\ Fairness
    /\ WF_kernel(end_move) /\ WF_kernel(startup_32) /\ WF_kernel(main)

-----------------------------------------------------------------------------
\* No interrupt finds a gate that is not its own or data that is not there
\* yet, and nothing is printed before there is a terminal: the initialisers
\* of main() overwrite each other's gates and open request lines one by one,
\* so that this hangs on their order.
InterruptsServed == halted \in {"no", "die", "A20_off"} /\ isr = {}

\* A program that traps into the debugger's exceptions goes on with all its
\* registers.
TrapsTransparent == context = "intact"

\* The loader reads the image with reads the BIOS can do, and the kernel gets
\* from there to user mode, unless the A20 line stays off.
StartupCompletes == <>(stage = "user" \/ halted = "A20_off")

-----------------------------------------------------------------------------
(* What holds throughout: the inductive invariant.                         *)

Stages == {"loader", "head", "main", "user"}
Calls  == {"video_init", "trap_init", "sched_init", "mem_init", "tty_init", "sti",
           "printk", "move_to_user_mode"}

\* main() has made its calls in their order, and made none before its time.
InOrder ==
    /\ stage \in Stages
    /\ calls \in Seq(Calls) /\ Len(calls) <= Len(main_calls)
    /\ \A i \in 1..Len(calls) : calls[i] = main_calls[Len(main_calls) - Len(calls) + i]
    /\ stage \in {"loader", "head"} => Len(calls) = Len(main_calls) /\ ~ IF_
    /\ stage = "user" => calls = <<>>

\* Call n of main() has been made.
Made(n) == Len(calls) <= Len(main_calls) - n

\* What each initialiser has put in place stays in place.
InPlace ==
    /\ DOMAIN idt = Vectors
    /\ Made(2) => \A v \in 0..16 : idt[v] = TrapGates[v + 1]
    /\ Made(3) => idt[32 + TIMER] = "timer_interrupt" /\ "task" \in ready
    /\ Made(5) => idt[32 + KEYBOARD] = "keyboard_interrupt" /\ "tty" \in ready

\* Interrupts are open only when all of it is there.
OpenLate ==
    /\ IF_ \in BOOLEAN /\ (IF_ => Made(6))
    /\ irr \subseteq {TIMER, KEYBOARD}

KernelInv == InOrder /\ InPlace /\ OpenLate /\ InterruptsServed

=============================================================================
