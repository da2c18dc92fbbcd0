------------------------------- MODULE Signal -------------------------------
(***************************************************************************)
(* Signal delivery to one process: sys_sigaction, sys_ssetmask and         *)
(* do_signal of kernel/signal.c, the signal part of ret_from_syscall in    *)
(* kernel/system_call.s, and the user-mode restorers of                    *)
(* kernel/libc_restore.s that take do_signal's frame off the user stack.   *)
(*                                                                         *)
(* The process is in user mode, where every instruction may be followed by *)
(* a timer tick, or in the kernel, on its way back through                 *)
(* ret_from_syscall.  A word of the user stack, or a register, holds what  *)
(* some context put there: <<"ctx", n>> is any value that belongs to the   *)
(* program (n = 0) or to the n-th nested handler.                          *)
(***************************************************************************)
EXTENDS Integers, Sequences, FiniteSets, SequencesExt

CONSTANTS
    Signals,     \* signal numbers
    SIGKILL,
    Masks,       \* masks the program passes to ssetmask
    Actions,     \* what the program passes to sigaction
    MAX_DEPTH    \* bound: signals pending and handlers active at one time

VARIABLES
    sigaction,   \* the table of task_struct
    signal,      \* pending signals
    blocked,     \* the mask
    mode,        \* "user" or "kernel"
    regs,        \* the user-mode registers
    stack,       \* the user stack, top first
    active       \* history: the handlers entered and not left, and what each interrupted

vars == <<sigaction, signal, blocked, mode, regs, stack, active>>

-----------------------------------------------------------------------------
Saved == {"eax", "ecx", "edx", "eflags"}       \* what a frame holds besides eip

ctx(n) == <<"ctx", n>>
level  == Len(active)                          \* number of the running context

SIG_DFL == "SIG_DFL"
SIG_IGN == "SIG_IGN"
HANDLER == "handler"

\* The restorers, one entry per instruction that moves the stack pointer.
Code == [__sig_restore     |-> <<"skip", "eax", "ecx", "edx", "eflags", "ret">>,
         __masksig_restore |-> <<"skip", "skip", "eax", "ecx", "edx", "eflags", "ret">>]

\* A program pairs each kind of frame with the restorer made for it.
restorer(nomask) == IF nomask THEN "__sig_restore" ELSE "__masksig_restore"

Action == [sa_handler : {SIG_DFL, SIG_IGN, HANDLER}, sa_mask : SUBSET Signals,
           nomask : BOOLEAN, oneshot : BOOLEAN]

ASSUME SignalAssumption ==
    /\ Signals \subseteq Nat /\ SIGKILL \in Signals
    /\ Masks \subseteq SUBSET Signals
    /\ Actions \subseteq Action
    /\ MAX_DEPTH \in Nat

Init ==
    /\ sigaction = [s \in Signals |->
          [sa_handler |-> SIG_DFL, sa_mask |-> {}, nomask |-> FALSE, oneshot |-> FALSE]]
    /\ signal = {}
    /\ blocked = {}
    /\ mode = "user"
    /\ regs = [r \in Saved \cup {"eip"} |-> ctx(0)]
    /\ stack = <<>>
    /\ active = <<>>

-----------------------------------------------------------------------------
(* User mode.                                                              *)

\* The program or a handler is executing its own code.
Executing == mode = "user" /\ regs.eip = ctx(level)

\* Compiled code uses the registers as it likes.
Compute ==
    /\ Executing
    /\ regs' = [r \in DOMAIN regs |-> ctx(level)]
    /\ UNCHANGED <<sigaction, signal, blocked, mode, stack, active>>

\* A handler ends with ret: the frame's first word is its return address.
HandlerReturns ==
    /\ Executing /\ level > 0
    /\ regs' = [regs EXCEPT !.eip = Head(stack)]
    /\ stack' = Tail(stack)
    /\ UNCHANGED <<sigaction, signal, blocked, mode, active>>

\* One instruction of a restorer.  The final ret goes to the interrupted code.
RestorerStep ==
    /\ mode = "user" /\ regs.eip[1] \in DOMAIN Code
    /\ LET r    == regs.eip[1]
           i    == regs.eip[2]
           next == <<r, i + 1>>
       IN  /\ regs' = CASE Code[r][i] = "skip" -> [regs EXCEPT !.eip = next]
                        [] Code[r][i] = "ret"  -> [regs EXCEPT !.eip = Head(stack)]
                        [] OTHER -> [regs EXCEPT ![Code[r][i]] = Head(stack), !.eip = next]
           /\ active' = IF Code[r][i] = "ret" THEN Front(active) ELSE active
    /\ stack' = Tail(stack)
    /\ UNCHANGED <<sigaction, signal, blocked, mode>>

\* A timer tick: it comes back through ret_from_syscall.
Tick ==
    /\ mode = "user"
    /\ mode' = "kernel"
    /\ UNCHANGED <<sigaction, signal, blocked, regs, stack, active>>

\* Another process sends a signal, while this one does not run.
Receive(sig) ==
    /\ mode = "user"
    /\ sig \notin signal /\ Cardinality(signal) + Len(active) < MAX_DEPTH
    /\ signal' = signal \cup {sig}
    /\ UNCHANGED <<sigaction, blocked, mode, regs, stack, active>>

-----------------------------------------------------------------------------
(* System calls.                                                           *)

\* Refused for SIGKILL.  A handler that does not ask for SA_NOMASK blocks its
\* own signal while it runs.
sys_sigaction(sig, act) ==
    /\ Executing
    /\ mode' = "kernel"
    /\ sigaction' = IF sig = SIGKILL THEN sigaction
                    ELSE [sigaction EXCEPT ![sig] =
                            [act EXCEPT !.sa_mask = IF act.nomask THEN {} ELSE @ \cup {sig}]]
    /\ UNCHANGED <<signal, blocked, regs, stack, active>>

\* The handlers that run no longer have the signals blocked which the program
\* now unblocks (history).
sys_ssetmask(mask) ==
    /\ Executing
    /\ mode' = "kernel"
    /\ blocked' = mask \ {SIGKILL}
    /\ active' = [k \in DOMAIN active |-> [active[k] EXCEPT !.masks = @ \cap blocked']]
    /\ UNCHANGED <<sigaction, signal, regs, stack>>

-----------------------------------------------------------------------------
(* ret_from_syscall and do_signal.                                         *)

\* Mutant: the mask is pushed whatever the flags say.
Frame_AlwaysMask(sig, act) ==
    << <<restorer(act.nomask), 1>>, <<"signr", sig>>, <<"blocked", blocked>>,
       regs.eax, regs.ecx, regs.edx, regs.eflags, regs.eip >>

\* The words do_signal puts on the user stack, the return address on top.
Frame(sig, act) ==
    << <<restorer(act.nomask), 1>>, <<"signr", sig>> >>
    \o (IF act.nomask THEN <<>> ELSE << <<"blocked", blocked>> >>)
    \o << regs.eax, regs.ecx, regs.edx, regs.eflags, regs.eip >>

\* Mutant: the mask is set, not extended.
Masked_Overwrites(act) == act.sa_mask

Masked(act) == blocked \cup act.sa_mask

do_signal(sig) ==
    LET act == sigaction[sig] IN
    IF act.sa_handler # HANDLER
    THEN UNCHANGED <<sigaction, blocked, regs, stack, active>>
    ELSE /\ sigaction' = [sigaction EXCEPT ![sig].sa_handler = IF act.oneshot THEN SIG_DFL ELSE @]
         /\ stack' = Frame(sig, act) \o stack
         /\ regs' = [regs EXCEPT !.eip = ctx(level + 1)]
         /\ blocked' = Masked(act)
         /\ active' = Append(active, [sig |-> sig, regs |-> regs, stack |-> stack,
                                      masks |-> act.sa_mask])

\* The lowest pending signal that is not blocked is taken.
ret_from_syscall ==
    /\ mode = "kernel"
    /\ mode' = "user"
    /\ LET ready == signal \ blocked
       IN  IF ready = {}
           THEN UNCHANGED <<sigaction, signal, blocked, regs, stack, active>>
           ELSE \E sig \in ready :
                  /\ \A s \in ready : sig <= s
                  /\ signal' = signal \ {sig}
                  /\ do_signal(sig)

-----------------------------------------------------------------------------
Next ==
    \/ Compute
    \/ HandlerReturns
    \/ RestorerStep
    \/ Tick
    \/ \E sig \in Signals : Receive(sig)
    \/ \E sig \in Signals, act \in Actions : sys_sigaction(sig, act)
    \/ \E mask \in Masks : sys_ssetmask(mask)
    \/ ret_from_syscall

Spec == Init /\ [][Next]_vars

-----------------------------------------------------------------------------
\* Types.  A frame is at most eight words.
TypeOK ==
    /\ sigaction \in [Signals -> Action]
    /\ signal \subseteq Signals
    /\ blocked \subseteq Signals
    /\ mode \in {"user", "kernel"}
    /\ DOMAIN regs = Saved \cup {"eip"}
    /\ Len(stack) <= 8 * Len(active)

\* do_signal and the restorers together: when a handler's restorer executes
\* its last ret, every register the compiler does not preserve, the flags, the
\* program counter and the stack are what they were when the signal hit,
\* though other handlers interrupted this one and its restorer meanwhile.
ContextRestored ==
    [][Len(active') < Len(active) =>
          regs' = Last(active).regs /\ stack' = Last(active).stack]_vars

\* While a handler runs, the signals its sigaction names (its own among them,
\* without SA_NOMASK) stay blocked, whatever handlers nest inside it, unless
\* the program itself unblocks them.
HandlerMasked == \A k \in DOMAIN active : active[k].masks \subseteq blocked

-----------------------------------------------------------------------------
(* The inductive invariant behind the properties.                          *)

Restorers == {"__sig_restore", "__masksig_restore"}

Word == ({"ctx"} \X Nat) \cup (Restorers \X (1..7))
        \cup ({"signr"} \X Signals) \cup ({"blocked"} \X SUBSET Signals)

Registers == [Saved \cup {"eip"} -> Word]

Types ==
    /\ sigaction \in [Signals -> Action]
    /\ signal \subseteq Signals /\ blocked \subseteq Signals
    /\ mode \in {"user", "kernel"}
    /\ regs \in Registers
    /\ stack \in Seq(Word)
    /\ active \in Seq([sig : Signals, regs : Registers, stack : Seq(Word), masks : SUBSET Signals])

\* Registers and stack of context k: of the running one, or as they were when
\* handler k + 1 interrupted it.
RegsOf(k)  == IF k = level THEN regs ELSE active[k + 1].regs
StackOf(k) == IF k = level THEN stack ELSE active[k + 1].stack

\* The register an instruction of a restorer loads; ret loads eip.
Loads(op) == IF op = "ret" THEN "eip" ELSE op

\* Handler k, with registers r and stack st, is before instruction i of its
\* restorer R, or has not returned (i = 0).  It interrupted a context with
\* registers r0 and stack st0: what the restorer has popped is in r, what it
\* has to pop lies on st, and below that lies st0.
Before(R, i, k, r, st, r0, st0) ==
    LET n == Len(Code[R]) IN
    /\ r.eip = IF i = 0 THEN ctx(k) ELSE <<R, i>>
    /\ i = 0 => st[1] = <<R, 1>>
    /\ Len(st) = n + 1 - i + Len(st0)
    /\ \A m \in 1..n : Code[R][m] # "skip" =>
          IF m >= i THEN st[m - i + 1] = r0[Loads(Code[R][m])]
                    ELSE r[Code[R][m]] = r0[Code[R][m]]
    /\ \A j \in 1..Len(st0) : st[n + 1 - i + j] = st0[j]

Nested(k, r, st, r0, st0) ==
    \E R \in Restorers : \E i \in 0..Len(Code[R]) : Before(R, i, k, r, st, r0, st0)

\* Every context, running or interrupted, will be restored: frames nest.
WellNested ==
    /\ RegsOf(0).eip = ctx(0) /\ StackOf(0) = <<>>
    /\ \A k \in 1..level :
          /\ Nested(k, RegsOf(k), StackOf(k), RegsOf(k - 1), StackOf(k - 1))
          /\ Len(StackOf(k)) <= 8 * k

SignalInv == Types /\ HandlerMasked /\ WellNested

=============================================================================
