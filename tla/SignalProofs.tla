---------------------------- MODULE SignalProofs ----------------------------
(***************************************************************************)
(* Proofs about Signal, for any signals, masks, actions and depth: frames  *)
(* nest, so that every context a handler interrupted gets its registers    *)
(* and its stack back, and handlers keep masked what they asked for.       *)
(***************************************************************************)
EXTENDS Signal, TLAPS

\* What the proofs need of a restorer's code: the last instruction, and no
\* other, is the ret, and every register of a frame is loaded before it.
Restores(C) ==
    /\ C \in Seq(Saved \cup {"skip", "ret"})
    /\ Len(C) \in 6..7
    /\ \A i \in 1..Len(C) : C[i] = "ret" <=> i = Len(C)
    /\ \A x \in Saved : \E i \in 1..(Len(C) - 1) : C[i] = x

LEMMA CodeFacts ==
    /\ DOMAIN Code = Restorers
    /\ \A R \in Restorers : Restores(Code[R])
  <1>1. DOMAIN Code = Restorers
    BY DEF Code, Restorers
  <1>2. Code["__sig_restore"] = <<"skip", "eax", "ecx", "edx", "eflags", "ret">>
    BY DEF Code
  <1>3. Code["__masksig_restore"] = <<"skip", "skip", "eax", "ecx", "edx", "eflags", "ret">>
    BY DEF Code
  <1>4. ASSUME NEW C, C = <<"skip", "eax", "ecx", "edx", "eflags", "ret">>
        PROVE  Restores(C)
    <2>1. C \in Seq(Saved \cup {"skip", "ret"}) /\ Len(C) = 6
      BY <1>4 DEF Saved
    <2>2. /\ C[1] = "skip" /\ C[2] = "eax" /\ C[3] = "ecx" /\ C[4] = "edx"
          /\ C[5] = "eflags" /\ C[6] = "ret"
      BY <1>4
    <2>3. \A i \in 1..6 : i = 1 \/ i = 2 \/ i = 3 \/ i = 4 \/ i = 5 \/ i = 6
      OBVIOUS
    <2>4. 2 \in 1..5 /\ 3 \in 1..5 /\ 4 \in 1..5 /\ 5 \in 1..5
      OBVIOUS
    <2>5. \A i \in 1..6 : C[i] = "ret" <=> i = 6
      BY <2>2, <2>3
    <2>6. \A x \in Saved : \E i \in 1..5 : C[i] = x
      BY <2>2, <2>4 DEF Saved
    <2> QED
      BY <2>1, <2>5, <2>6 DEF Restores
  <1>5. ASSUME NEW C, C = <<"skip", "skip", "eax", "ecx", "edx", "eflags", "ret">>
        PROVE  Restores(C)
    <2>1. C \in Seq(Saved \cup {"skip", "ret"}) /\ Len(C) = 7
      BY <1>5 DEF Saved
    <2>2. /\ C[1] = "skip" /\ C[2] = "skip" /\ C[3] = "eax" /\ C[4] = "ecx" /\ C[5] = "edx"
          /\ C[6] = "eflags" /\ C[7] = "ret"
      BY <1>5
    <2>3. \A i \in 1..7 : i = 1 \/ i = 2 \/ i = 3 \/ i = 4 \/ i = 5 \/ i = 6 \/ i = 7
      OBVIOUS
    <2>4. 3 \in 1..6 /\ 4 \in 1..6 /\ 5 \in 1..6 /\ 6 \in 1..6
      OBVIOUS
    <2>5. \A i \in 1..7 : C[i] = "ret" <=> i = 7
      BY <2>2, <2>3
    <2>6. \A x \in Saved : \E i \in 1..6 : C[i] = x
      BY <2>2, <2>4 DEF Saved
    <2> QED
      BY <2>1, <2>5, <2>6 DEF Restores
  <1> QED
    BY <1>1, <1>2, <1>3, <1>4, <1>5 DEF Restorers

-----------------------------------------------------------------------------
(* Where a context is.                                                     *)

\* A program counter in a restorer is none in the program or a handler.
LEMMA CountersDiffer ==
    /\ \A n : ctx(n)[1] \notin Restorers
    /\ \A m, n : ctx(m) = ctx(n) => m = n
    /\ \A R \in Restorers : \A i : <<R, i>>[1] = R /\ <<R, i>>[2] = i
  BY DEF ctx, Restorers

LEMMA LevelFacts ==
    ASSUME Types
    PROVE  /\ level \in Nat /\ DOMAIN active = 1..level
           /\ \A k \in 1..level : active[k].regs \in Registers /\ active[k].stack \in Seq(Word)
           /\ \A k \in 0..level : RegsOf(k) \in Registers /\ StackOf(k) \in Seq(Word)
           /\ RegsOf(level) = regs /\ StackOf(level) = stack
           /\ level > 0 => /\ Last(active) = active[level]
                           /\ active[level].regs = RegsOf(level - 1)
                           /\ active[level].stack = StackOf(level - 1)
  <1> DEFINE Interrupted == [sig : Signals, regs : Registers, stack : Seq(Word), masks : SUBSET Signals]
  <1>0. active \in Seq(Interrupted)
    BY DEF Types
  <1>1. level \in Nat /\ DOMAIN active = 1..level
    BY <1>0 DEF level
  <1>d. level = Len(active)
    BY DEF level
  <1>2. \A k \in 1..level : active[k].regs \in Registers /\ active[k].stack \in Seq(Word)
    <2> SUFFICES ASSUME NEW k \in 1..level
                 PROVE  active[k] \in Interrupted
      OBVIOUS
    <2> HIDE DEF Interrupted
    <2> QED
      BY <1>0, <1>d
  <1>3. \A k \in 0..level : RegsOf(k) \in Registers /\ StackOf(k) \in Seq(Word)
    <2> TAKE k \in 0..level
    <2>1. CASE k = level
      BY <2>1 DEF Types, RegsOf, StackOf
    <2>2. CASE k # level
      <3>1. level \in Nat
        BY <1>1
      <3>2. k + 1 \in 1..level
        BY <2>2, <3>1
      <3> QED
        BY <1>2, <2>2, <3>2 DEF RegsOf, StackOf
    <2> QED
      BY <2>1, <2>2
  <1>4. level > 0 => /\ active[level].regs = RegsOf(level - 1)
                     /\ active[level].stack = StackOf(level - 1)
    <2>1. level \in Nat
      BY <1>1
    <2>2. level - 1 # level /\ level - 1 + 1 = level
      BY <2>1
    <2> QED
      BY <2>2 DEF RegsOf, StackOf
  <1>5. RegsOf(level) = regs /\ StackOf(level) = stack
    BY DEF RegsOf, StackOf
  <1>6. Last(active) = active[level]
    BY DEF Last, level
  <1> QED
    BY <1>1, <1>2, <1>3, <1>4, <1>5, <1>6

\* While the program or a handler executes its own code nothing of its frame
\* has been popped; in a restorer the program counter says how much.
LEMMA RunningContext ==
    ASSUME SignalInv
    PROVE  /\ Executing /\ level > 0 =>
                 \E R \in Restorers : Before(R, 0, level, regs, stack, RegsOf(level - 1), StackOf(level - 1))
           /\ \A R \in Restorers : regs.eip[1] = R =>
                 /\ level > 0
                 /\ \E i \in 1..Len(Code[R]) :
                       /\ regs.eip = <<R, i>>
                       /\ Before(R, i, level, regs, stack, RegsOf(level - 1), StackOf(level - 1))
  <1>1. level \in Nat /\ RegsOf(level) = regs /\ StackOf(level) = stack
    BY LevelFacts DEF SignalInv
  <1>2. level = 0 => regs.eip = ctx(0)
    BY <1>1 DEF SignalInv, WellNested
  <1>3. ASSUME level > 0
        PROVE  \E R \in Restorers : \E i \in 0..Len(Code[R]) :
                  Before(R, i, level, regs, stack, RegsOf(level - 1), StackOf(level - 1))
    BY <1>1, <1>3 DEF SignalInv, WellNested, Nested
  <1>4. \A R, i : Before(R, i, level, regs, stack, RegsOf(level - 1), StackOf(level - 1))
            => regs.eip = IF i = 0 THEN ctx(level) ELSE <<R, i>>
    BY DEF Before
  <1>5. \A R \in Restorers : \A i : ctx(level) # <<R, i>>
    BY CountersDiffer
  <1>6. \A R \in Restorers : Len(Code[R]) \in Nat
    BY CodeFacts DEF Restores
  <1>7. ASSUME Executing, level > 0
        PROVE  \E R \in Restorers :
                  Before(R, 0, level, regs, stack, RegsOf(level - 1), StackOf(level - 1))
    BY <1>3, <1>4, <1>5, <1>7 DEF Executing
  <1>8. ASSUME NEW R \in Restorers, regs.eip[1] = R
        PROVE  /\ level > 0
               /\ \E i \in 1..Len(Code[R]) :
                       /\ regs.eip = <<R, i>>
                       /\ Before(R, i, level, regs, stack, RegsOf(level - 1), StackOf(level - 1))
    <2>1. level > 0
      BY <1>1, <1>2, <1>8, CountersDiffer
    <2>s. PICK S \in Restorers : \E i \in 0..Len(Code[S]) :
                  Before(S, i, level, regs, stack, RegsOf(level - 1), StackOf(level - 1))
      BY <1>3, <2>1
    <2>2. PICK i \in 0..Len(Code[S]) :
                  Before(S, i, level, regs, stack, RegsOf(level - 1), StackOf(level - 1))
      BY <2>s
    <2>3. regs.eip = <<S, i>> /\ i # 0
      BY <1>4, <1>8, <2>2, CountersDiffer
    <2>4. S = R /\ i \in 1..Len(Code[R])
      BY <1>6, <1>8, <2>3, CountersDiffer
    <2> QED
      BY <2>1, <2>2, <2>3, <2>4
  <1> QED
    BY <1>7, <1>8

\* Replacing the registers and the stack of the running context alone.
LEMMA RunningKeepsNested ==
    ASSUME SignalInv, Types', level' = level,
           \A k \in 1..level : active'[k].regs = active[k].regs /\ active'[k].stack = active[k].stack,
           level = 0 => regs'.eip = ctx(0) /\ stack' = <<>>,
           level > 0 => Nested(level, regs', stack', RegsOf(level - 1), StackOf(level - 1)),
           Len(stack') <= Len(stack)
    PROVE  WellNested'
  <1>1. /\ level \in Nat /\ RegsOf(level) = regs /\ StackOf(level) = stack
        /\ RegsOf(level)' = regs' /\ StackOf(level)' = stack'
    BY LevelFacts DEF SignalInv, RegsOf, StackOf
  <1>2. \A k \in 0..(level - 1) : RegsOf(k)' = RegsOf(k) /\ StackOf(k)' = StackOf(k)
    BY <1>1 DEF RegsOf, StackOf
  <1>3. RegsOf(0)'.eip = ctx(0) /\ StackOf(0)' = <<>>
    <2>1. CASE level = 0
      BY <1>1, <2>1
    <2>2. CASE level > 0
      BY <1>1, <1>2, <2>2 DEF SignalInv, WellNested
    <2> QED
      BY <1>1, <2>1, <2>2
  <1>4. ASSUME NEW k \in 1..level
        PROVE  /\ Nested(k, RegsOf(k)', StackOf(k)', RegsOf(k - 1)', StackOf(k - 1)')
               /\ Len(StackOf(k)') <= 8 * k
    <2>0. RegsOf(k - 1)' = RegsOf(k - 1) /\ StackOf(k - 1)' = StackOf(k - 1)
      BY <1>1, <1>2
    <2>1. CASE k = level
      <3>1. Len(stack) <= 8 * k
        BY <1>1, <2>1 DEF SignalInv, WellNested
      <3>2. Len(stack') \in Nat /\ Len(stack) \in Nat
        BY DEF Types, SignalInv
      <3> QED
        BY <1>1, <2>0, <2>1, <3>1, <3>2
    <2>2. CASE k # level
      <3>1. RegsOf(k)' = RegsOf(k) /\ StackOf(k)' = StackOf(k)
        BY <1>1, <1>2, <2>2
      <3>2. /\ Nested(k, RegsOf(k), StackOf(k), RegsOf(k - 1), StackOf(k - 1))
            /\ Len(StackOf(k)) <= 8 * k
        BY DEF SignalInv, WellNested
      <3> QED
        BY <2>0, <3>1, <3>2
    <2> QED
      BY <2>1, <2>2
  <1> QED
    BY <1>3, <1>4 DEF WellNested

-----------------------------------------------------------------------------
(* The steps of a restorer.                                                *)

\* The registers r1 a restorer R at instruction i makes of r and the stack st.
Pops(R, i, r, st, r1) ==
    /\ r1.eip = <<R, i + 1>>
    /\ \A x \in Saved : r1[x] = IF i > 0 /\ Code[R][i] = x THEN st[1] ELSE r[x]

\* The ret of the handler (i = 0) or an instruction other than the last takes
\* one word off the stack and puts it where the context below had it.
LEMMA PopStep ==
    ASSUME NEW R \in Restorers, NEW i \in 0..(Len(Code[R]) - 1), NEW k \in Nat,
           NEW r \in Registers, NEW r1 \in Registers, NEW r0 \in Registers,
           NEW st \in Seq(Word), NEW st0 \in Seq(Word),
           Before(R, i, k, r, st, r0, st0),
           Pops(R, i, r, st, r1)
    PROVE  /\ Before(R, i + 1, k, r1, Tail(st), r0, st0)
           /\ st # <<>> /\ Head(st) = st[1] /\ Len(Tail(st)) < Len(st)
  <1> DEFINE n == Len(Code[R])
             C == Code[R]
  <1>1. /\ n \in Nat /\ i \in Nat /\ i < n
        /\ \A m \in 1..n : C[m] \in Saved \cup {"skip", "ret"} /\ (C[m] = "ret" <=> m = n)
    BY CodeFacts DEF Restores
  <1>2. /\ Len(st) = n + 1 - i + Len(st0) /\ Len(st0) \in Nat
        /\ \A m \in 1..n : C[m] # "skip" =>
              IF m >= i THEN st[m - i + 1] = r0[Loads(C[m])] ELSE r[C[m]] = r0[C[m]]
        /\ \A j \in 1..Len(st0) : st[n + 1 - i + j] = st0[j]
    BY DEF Before
  <1>n. n \in Nat /\ i \in Nat /\ i < n
    BY <1>1
  <1>c. /\ C = Code[R] /\ r1.eip = <<R, i + 1>>
        /\ \A x \in Saved : r1[x] = IF i > 0 /\ Code[R][i] = x THEN st[1] ELSE r[x]
    BY DEF Pops
  <1>l. Len(st) = n + 1 - i + Len(st0) /\ Len(st0) \in Nat /\ Len(st) \in Nat
    BY <1>2
  <1>w. \A m \in 1..n : C[m] # "skip" /\ m >= i => st[m - i + 1] = r0[Loads(C[m])]
    BY <1>2
  <1> HIDE DEF n, C
  <1>3. Len(st) \in Nat /\ Len(st) > 1
    BY <1>n, <1>l
  <1>4. /\ st # <<>> /\ Head(st) = st[1] /\ Len(Tail(st)) = Len(st) - 1
        /\ \A j \in 1..(Len(st) - 1) : Tail(st)[j] = st[j + 1]
    BY <1>3
  <1>5. ASSUME NEW m \in 1..n, C[m] # "skip", m >= i + 1
        PROVE  Tail(st)[m - (i + 1) + 1] = r0[Loads(C[m])]
    <2>1. m - (i + 1) + 1 = m - i /\ m - i \in 1..(Len(st) - 1) /\ m - i + 1 = (m - i) + 1
      BY <1>n, <1>l, <1>5
    <2>2. st[m - i + 1] = r0[Loads(C[m])]
      <3>1. m >= i
        BY <1>n, <1>5
      <3> QED
        BY <1>w, <1>5, <3>1
    <2> QED
      BY <1>4, <2>1, <2>2
  <1>6. ASSUME NEW m \in 1..n, C[m] # "skip", ~(m >= i + 1)
        PROVE  r1[C[m]] = r0[C[m]]
    <2>1. C[m] \in Saved /\ Loads(C[m]) = C[m] /\ i > 0
      BY <1>1, <1>6 DEF Loads
    <2>2. CASE m = i
      <3>1. st[i - i + 1] = r0[C[m]] /\ i - i + 1 = 1
        BY <1>1, <1>2, <1>6, <2>1, <2>2
      <3> QED
        BY <1>c, <2>1, <2>2, <3>1
    <2>3. CASE m # i
      <3>1. r[C[m]] = r0[C[m]]
        BY <1>1, <1>2, <1>6, <2>3
      <3>2. CASE C[i] = C[m]
        <4>1. st[i - i + 1] = r0[Loads(C[i])] /\ i - i + 1 = 1
          BY <1>1, <1>2, <1>6, <2>1, <3>2
        <4> QED
          BY <1>c, <2>1, <3>2, <4>1
      <3>3. CASE C[i] # C[m]
        BY <1>c, <2>1, <3>1, <3>3
      <3> QED
        BY <3>2, <3>3
    <2> QED
      BY <2>2, <2>3
  <1>7. ASSUME NEW j \in 1..Len(st0)
        PROVE  Tail(st)[n + 1 - (i + 1) + j] = st0[j]
    <2>1. n + 1 - (i + 1) + j \in 1..(Len(st) - 1)
          /\ n + 1 - (i + 1) + j + 1 = n + 1 - i + j
      BY <1>n, <1>l
    <2> QED
      BY <1>2, <1>4, <2>1
  <1>8. Len(Tail(st)) = n + 1 - (i + 1) + Len(st0)
    BY <1>n, <1>l, <1>4
  <1>9. i + 1 # 0
    BY <1>n
  <1>10. Before(R, i + 1, k, r1, Tail(st), r0, st0)
    BY <1>c, <1>5, <1>6, <1>7, <1>8, <1>9 DEF Before, n, C
  <1> QED
    BY <1>3, <1>4, <1>10

\* The last instruction leaves the registers and the stack of the context below.
LEMMA RetStep ==
    ASSUME NEW R \in Restorers, NEW k \in Nat,
           NEW r \in Registers, NEW r0 \in Registers,
           NEW st \in Seq(Word), NEW st0 \in Seq(Word),
           Before(R, Len(Code[R]), k, r, st, r0, st0)
    PROVE  /\ [r EXCEPT !.eip = Head(st)] = r0
           /\ Tail(st) = st0
  <1> DEFINE n == Len(Code[R])
             C == Code[R]
  <1>1. /\ n \in Nat /\ n > 0 /\ C[n] = "ret"
        /\ \A x \in Saved : \E m \in 1..(n - 1) : C[m] = x
    BY CodeFacts DEF Restores
  <1>2. /\ Len(st) = n + 1 - n + Len(st0)
        /\ \A m \in 1..n : C[m] # "skip" =>
              IF m >= n THEN st[m - n + 1] = r0[Loads(C[m])] ELSE r[C[m]] = r0[C[m]]
        /\ \A j \in 1..Len(st0) : st[n + 1 - n + j] = st0[j]
    BY DEF Before
  <1>l. Len(st0) \in Nat
    OBVIOUS
  <1> HIDE DEF n, C
  <1>n. n \in Nat /\ n > 0 /\ n \in 1..n /\ n - n = 0 /\ \A j \in Nat : n + 1 - n + j = j + 1
    BY <1>1
  <1>3. Len(st) = Len(st0) + 1 /\ \A j \in 1..Len(st0) : st[j + 1] = st0[j]
    BY <1>n, <1>2, <1>l
  <1>4. /\ Head(st) = st[1] /\ Tail(st) \in Seq(Word) /\ Len(Tail(st)) = Len(st0)
        /\ \A j \in 1..Len(st0) : Tail(st)[j] = st[j + 1]
    BY <1>l, <1>3
  <1>5. Tail(st) = st0
    BY <1>3, <1>4
  <1>6. Head(st) = r0.eip
    <2>1. st[n - n + 1] = r0[Loads(C[n])]
      BY <1>1, <1>n, <1>2
    <2>2. n - n + 1 = 1 /\ Loads(C[n]) = "eip"
      BY <1>1 DEF Loads
    <2> QED
      BY <1>4, <2>1, <2>2
  <1>7. \A x \in Saved : r[x] = r0[x]
    <2> TAKE x \in Saved
    <2>1. PICK m \in 1..(n - 1) : C[m] = x
      BY <1>1
    <2>2. m \in 1..n /\ ~(m >= n)
      BY <1>n
    <2>3. C[m] # "skip"
      BY <2>1 DEF Saved
    <2> QED
      BY <1>2, <2>1, <2>2, <2>3
  <1>8. [r EXCEPT !.eip = Head(st)] = r0
    BY <1>6, <1>7 DEF Registers, Saved
  <1> QED
    BY <1>5, <1>8

-----------------------------------------------------------------------------
(* do_signal's frame.                                                      *)

LEMMA Words ==
    /\ \A n \in Nat : ctx(n) \in Word
    /\ \A R \in Restorers : <<R, 1>> \in Word
    /\ \A sig \in Signals : <<"signr", sig>> \in Word
    /\ \A m \in SUBSET Signals : <<"blocked", m>> \in Word
    /\ \A R \in Restorers : \A i \in 1..Len(Code[R]) : <<R, i>> \in Word
  <1>1. \A R \in Restorers : \A i \in 1..7 : <<R, i>> \in Word
    BY DEF Word
  <1>2. \A R \in Restorers : \A i \in 1..Len(Code[R]) : i \in 1..7
    BY CodeFacts, SMTT(30) DEF Restores
  <1>3. 1 \in 1..7
    OBVIOUS
  <1>4. \A n \in Nat : ctx(n) \in Word
    BY DEF ctx, Word
  <1>5. /\ \A sig \in Signals : <<"signr", sig>> \in Word
        /\ \A m \in SUBSET Signals : <<"blocked", m>> \in Word
    BY DEF Word
  <1> QED
    BY <1>1, <1>2, <1>3, <1>4, <1>5

LEMMA Concatenation ==
    ASSUME NEW a \in Seq(Word), NEW b \in Seq(Word)
    PROVE  /\ a \o b \in Seq(Word) /\ Len(a \o b) = Len(a) + Len(b)
           /\ \A j \in 1..Len(a) : (a \o b)[j] = a[j]
           /\ \A j \in 1..Len(b) : (a \o b)[Len(a) + j] = b[j]
  OBVIOUS

\* The frame lies on the stack as the restorer that belongs to it takes it off.
LEMMA FrameFits ==
    ASSUME Types, NEW sig \in Signals, NEW act \in Action, NEW R, R = restorer(act.nomask)
    PROVE  /\ R \in Restorers
           /\ Frame(sig, act) \in Seq(Word) /\ Len(Frame(sig, act)) = Len(Code[R]) + 1
           /\ Frame(sig, act)[1] = <<R, 1>>
           /\ \A m \in 1..Len(Code[R]) : Code[R][m] # "skip" =>
                 Frame(sig, act)[m + 1] = regs[Loads(Code[R][m])]
  <1>1. R \in Restorers
    BY DEF restorer, Restorers
  <1>2. /\ regs.eax \in Word /\ regs.ecx \in Word /\ regs.edx \in Word
        /\ regs.eflags \in Word /\ regs.eip \in Word
    BY DEF Types, Registers, Saved
  <1>3. <<R, 1>> \in Word /\ <<"signr", sig>> \in Word /\ <<"blocked", blocked>> \in Word
    BY <1>1, Words DEF Types
  <1>4. CASE act.nomask
    <2> DEFINE P == << <<R, 1>>, <<"signr", sig>> >>
               Q == << >>
               T == << regs.eax, regs.ecx, regs.edx, regs.eflags, regs.eip >>
               F == (P \o Q) \o T
    <2>1. Frame(sig, act) = F
      BY <1>4 DEF Frame
    <2>a. P \in Seq(Word) /\ Len(P) = 2 /\ P[1] = <<R, 1>>
      BY <1>3
    <2>b. Q \in Seq(Word) /\ Len(Q) = 0
      BY <1>3
    <2>c. T \in Seq(Word) /\ Len(T) = 5
      BY <1>2
    <2>d. /\ T[1] = regs.eax /\ T[2] = regs.ecx /\ T[3] = regs.edx
          /\ T[4] = regs.eflags /\ T[5] = regs.eip
      OBVIOUS
    <2> HIDE DEF P, Q, T
    <2>e. P \o Q \in Seq(Word) /\ Len(P \o Q) = 2 /\ (P \o Q)[1] = P[1]
      <3>1. /\ P \o Q \in Seq(Word) /\ Len(P \o Q) = Len(P) + Len(Q)
            /\ \A j \in 1..Len(P) : (P \o Q)[j] = P[j]
        BY <2>a, <2>b, Concatenation
      <3> QED
        BY <2>a, <2>b, <3>1
    <2> DEFINE PQ == P \o Q
    <2> HIDE DEF PQ
    <2>i. /\ F \in Seq(Word) /\ Len(F) = Len(PQ) + Len(T)
          /\ \A j \in 1..Len(PQ) : F[j] = PQ[j]
          /\ \A j \in 1..Len(T) : F[Len(PQ) + j] = T[j]
      BY <2>c, <2>e, Concatenation DEF PQ
    <2>j. Len(PQ) = 2 /\ PQ[1] = P[1]
      BY <2>e DEF PQ
    <2> HIDE DEF F
    <2>2. F \in Seq(Word) /\ Len(F) = 7
      BY <2>c, <2>i, <2>j
    <2>f. \A j \in 1..5 : F[2 + j] = T[j]
      BY <2>c, <2>i, <2>j
    <2>g. F[1] = <<R, 1>>
      BY <2>a, <2>i, <2>j
    <2>h. F[2 + 1] = T[1] /\ F[2 + 2] = T[2] /\ F[2 + 3] = T[3] /\ F[2 + 4] = T[4] /\ F[2 + 5] = T[5]
      BY <2>f
    <2>3. /\ F[1] = <<R, 1>> /\ F[3] = regs.eax /\ F[4] = regs.ecx /\ F[5] = regs.edx
          /\ F[6] = regs.eflags /\ F[7] = regs.eip
      BY <2>d, <2>g, <2>h
    <2>4. Code[R] = <<"skip", "eax", "ecx", "edx", "eflags", "ret">>
      BY <1>4 DEF Code, restorer
    <2>5. Len(Code[R]) = 6
      BY <2>4
    <2>6. ASSUME NEW m \in 1..6, Code[R][m] # "skip"
          PROVE  F[m + 1] = regs[Loads(Code[R][m])]
      <3>1. m = 2 \/ m = 3 \/ m = 4 \/ m = 5 \/ m = 6
        BY <2>4, <2>6
      <3>2. CASE m = 2
        BY <2>3, <2>4, <3>2 DEF Loads
      <3>3. CASE m = 3
        BY <2>3, <2>4, <3>3 DEF Loads
      <3>4. CASE m = 4
        BY <2>3, <2>4, <3>4 DEF Loads
      <3>5. CASE m = 5
        BY <2>3, <2>4, <3>5 DEF Loads
      <3>6. CASE m = 6
        BY <2>3, <2>4, <3>6 DEF Loads
      <3> QED
        BY <3>1, <3>2, <3>3, <3>4, <3>5, <3>6
    <2> QED
      BY <1>1, <2>1, <2>2, <2>3, <2>5, <2>6
  <1>5. CASE ~act.nomask
    <2> DEFINE P == << <<R, 1>>, <<"signr", sig>> >>
               Q == << <<"blocked", blocked>> >>
               T == << regs.eax, regs.ecx, regs.edx, regs.eflags, regs.eip >>
               F == (P \o Q) \o T
    <2>1. Frame(sig, act) = F
      BY <1>5 DEF Frame
    <2>a. P \in Seq(Word) /\ Len(P) = 2 /\ P[1] = <<R, 1>>
      BY <1>3
    <2>b. Q \in Seq(Word) /\ Len(Q) = 1
      BY <1>3
    <2>c. T \in Seq(Word) /\ Len(T) = 5
      BY <1>2
    <2>d. /\ T[1] = regs.eax /\ T[2] = regs.ecx /\ T[3] = regs.edx
          /\ T[4] = regs.eflags /\ T[5] = regs.eip
      OBVIOUS
    <2> HIDE DEF P, Q, T
    <2>e. P \o Q \in Seq(Word) /\ Len(P \o Q) = 3 /\ (P \o Q)[1] = P[1]
      <3>1. /\ P \o Q \in Seq(Word) /\ Len(P \o Q) = Len(P) + Len(Q)
            /\ \A j \in 1..Len(P) : (P \o Q)[j] = P[j]
        BY <2>a, <2>b, Concatenation
      <3> QED
        BY <2>a, <2>b, <3>1
    <2> DEFINE PQ == P \o Q
    <2> HIDE DEF PQ
    <2>i. /\ F \in Seq(Word) /\ Len(F) = Len(PQ) + Len(T)
          /\ \A j \in 1..Len(PQ) : F[j] = PQ[j]
          /\ \A j \in 1..Len(T) : F[Len(PQ) + j] = T[j]
      BY <2>c, <2>e, Concatenation DEF PQ
    <2>j. Len(PQ) = 3 /\ PQ[1] = P[1]
      BY <2>e DEF PQ
    <2> HIDE DEF F
    <2>2. F \in Seq(Word) /\ Len(F) = 8
      BY <2>c, <2>i, <2>j
    <2>f. \A j \in 1..5 : F[3 + j] = T[j]
      BY <2>c, <2>i, <2>j
    <2>g. F[1] = <<R, 1>>
      BY <2>a, <2>i, <2>j
    <2>h. F[3 + 1] = T[1] /\ F[3 + 2] = T[2] /\ F[3 + 3] = T[3] /\ F[3 + 4] = T[4] /\ F[3 + 5] = T[5]
      BY <2>f
    <2>3. /\ F[1] = <<R, 1>> /\ F[4] = regs.eax /\ F[5] = regs.ecx /\ F[6] = regs.edx
          /\ F[7] = regs.eflags /\ F[8] = regs.eip
      BY <2>d, <2>g, <2>h
    <2>4. Code[R] = <<"skip", "skip", "eax", "ecx", "edx", "eflags", "ret">>
      BY <1>5 DEF Code, restorer
    <2>5. Len(Code[R]) = 7
      BY <2>4
    <2>6. ASSUME NEW m \in 1..7, Code[R][m] # "skip"
          PROVE  F[m + 1] = regs[Loads(Code[R][m])]
      <3>1. m = 3 \/ m = 4 \/ m = 5 \/ m = 6 \/ m = 7
        BY <2>4, <2>6
      <3>2. CASE m = 3
        BY <2>3, <2>4, <3>2 DEF Loads
      <3>3. CASE m = 4
        BY <2>3, <2>4, <3>3 DEF Loads
      <3>4. CASE m = 5
        BY <2>3, <2>4, <3>4 DEF Loads
      <3>5. CASE m = 6
        BY <2>3, <2>4, <3>5 DEF Loads
      <3>6. CASE m = 7
        BY <2>3, <2>4, <3>6 DEF Loads
      <3> QED
        BY <3>1, <3>2, <3>3, <3>4, <3>5, <3>6
    <2> QED
      BY <1>1, <2>1, <2>2, <2>3, <2>5, <2>6
  <1> QED
    BY <1>4, <1>5

\* A new frame and the program counter of the handler: the context below is
\* the interrupted one.
LEMMA FrameNests ==
    ASSUME Types, NEW sig \in Signals, NEW act \in Action, NEW r \in Registers, NEW k \in Nat,
           r.eip = ctx(k)
    PROVE  /\ Nested(k, r, Frame(sig, act) \o stack, regs, stack)
           /\ Frame(sig, act) \o stack \in Seq(Word)
           /\ Len(Frame(sig, act) \o stack) <= 8 + Len(stack)
  <1>1. PICK R : R = restorer(act.nomask)
    OBVIOUS
  <1> DEFINE F == Frame(sig, act)
             C == Code[R]
             n == Len(C)
             st == F \o stack
  <1>2. /\ R \in Restorers /\ F \in Seq(Word) /\ Len(F) = n + 1
        /\ F[1] = <<R, 1>>
        /\ \A m \in 1..n : C[m] # "skip" => F[m + 1] = regs[Loads(C[m])]
    BY <1>1, FrameFits
  <1>c. C = Code[R] /\ n = Len(Code[R])
    OBVIOUS
  <1>d. Len(Code[R]) \in 6..7
    BY <1>2, CodeFacts DEF Restores
  <1>3. n \in Nat /\ n <= 7 /\ 0 \in 0..n
    <2>1. n \in 6..7
      BY <1>c, <1>d
    <2> HIDE DEF n
    <2> QED
      BY <2>1
  <1>4. stack \in Seq(Word) /\ Len(stack) \in Nat
    BY DEF Types
  <1> HIDE DEF F, C, n
  <1>5. /\ st \in Seq(Word) /\ Len(st) = n + 1 + Len(stack)
        /\ \A j \in 1..(n + 1) : st[j] = F[j]
        /\ \A j \in 1..Len(stack) : st[n + 1 + j] = stack[j]
    <2>1. /\ st \in Seq(Word) /\ Len(st) = Len(F) + Len(stack)
          /\ \A j \in 1..Len(F) : st[j] = F[j]
          /\ \A j \in 1..Len(stack) : st[Len(F) + j] = stack[j]
      BY <1>2, <1>4, Concatenation
    <2> QED
      BY <1>2, <2>1
  <1> HIDE DEF st
  <1>6. ASSUME NEW m \in 1..n, C[m] # "skip"
        PROVE  m >= 0 /\ st[m - 0 + 1] = regs[Loads(C[m])]
    <2>1. m - 0 + 1 = m + 1 /\ m + 1 \in 1..(n + 1) /\ m >= 0
      BY <1>3
    <2> QED
      BY <1>2, <1>5, <1>6, <2>1
  <1>7. ASSUME NEW j \in 1..Len(stack)
        PROVE  st[n + 1 - 0 + j] = stack[j]
    <2>1. n + 1 - 0 + j = n + 1 + j
      BY <1>3, <1>4
    <2> QED
      BY <1>5, <2>1
  <1>8. Len(st) = n + 1 - 0 + Len(stack)
    BY <1>3, <1>4, <1>5
  <1>9. st[1] = <<R, 1>>
    <2>1. 1 \in 1..(n + 1)
      BY <1>3
    <2> QED
      BY <1>2, <1>5, <2>1
  <1>10. Before(R, 0, k, r, st, regs, stack)
    BY <1>6, <1>7, <1>8, <1>9 DEF Before, n, C
  <1>11. Nested(k, r, st, regs, stack)
    BY <1>2, <1>3, <1>c, <1>10 DEF Nested
  <1>12. Len(st) <= 8 + Len(stack)
    BY <1>3, <1>4, <1>5
  <1> QED
    BY <1>5, <1>11, <1>12 DEF st, F

-----------------------------------------------------------------------------
(* The steps.                                                              *)

\* Steps that move neither registers nor stack.
LEMMA SameContexts ==
    ASSUME WellNested, UNCHANGED <<regs, stack>>, level' = level,
           \A k \in 1..level : active'[k].regs = active[k].regs /\ active'[k].stack = active[k].stack,
           level \in Nat
    PROVE  WellNested'
  <1>1. \A k \in 0..level : RegsOf(k)' = RegsOf(k) /\ StackOf(k)' = StackOf(k)
    <2> TAKE k \in 0..level
    <2>1. CASE k = level
      BY <2>1 DEF RegsOf, StackOf
    <2>2. CASE k # level
      <3>1. k + 1 \in 1..level
        BY <2>2
      <3> QED
        BY <2>2, <3>1 DEF RegsOf, StackOf
    <2> QED
      BY <2>1, <2>2
  <1>2. \A k \in 1..level : k \in 0..level /\ k - 1 \in 0..level
    OBVIOUS
  <1>3. 0 \in 0..level
    OBVIOUS
  <1>4. RegsOf(0)'.eip = ctx(0) /\ StackOf(0)' = <<>>
    BY <1>1, <1>3 DEF WellNested
  <1>5. ASSUME NEW k \in 1..level
        PROVE  /\ Nested(k, RegsOf(k)', StackOf(k)', RegsOf(k - 1)', StackOf(k - 1)')
               /\ Len(StackOf(k)') <= 8 * k
    <2>1. /\ Nested(k, RegsOf(k), StackOf(k), RegsOf(k - 1), StackOf(k - 1))
          /\ Len(StackOf(k)) <= 8 * k
      BY DEF WellNested
    <2> QED
      BY <1>1, <1>2, <2>1
  <1> QED
    BY <1>4, <1>5 DEF WellNested

LEMMA ComputeKeepsInv ==
    ASSUME SignalInv, Compute
    PROVE  SignalInv'
  <1>1. /\ Executing /\ regs' = [r \in Saved \cup {"eip"} |-> ctx(level)]
        /\ UNCHANGED <<sigaction, signal, blocked, mode, stack, active>>
    BY DEF Compute, SignalInv, Types, Registers
  <1>2. level \in Nat /\ ctx(level) \in Word /\ level' = level
    BY <1>1, LevelFacts, Words DEF SignalInv, level
  <1>3. Types'
    BY <1>1, <1>2 DEF SignalInv, Types, Registers
  <1>4. HandlerMasked'
    BY <1>1 DEF SignalInv, HandlerMasked
  <1>5. regs'.eip = ctx(level)
    BY <1>1
  <1>6. ASSUME level > 0
        PROVE  Nested(level, regs', stack', RegsOf(level - 1), StackOf(level - 1))
    <2>1. PICK R \in Restorers :
             Before(R, 0, level, regs, stack, RegsOf(level - 1), StackOf(level - 1))
      BY <1>1, <1>6, RunningContext
    <2>2. \A m \in 1..Len(Code[R]) : m >= 0
      OBVIOUS
    <2>3. Before(R, 0, level, regs', stack', RegsOf(level - 1), StackOf(level - 1))
      BY <1>1, <1>5, <2>1, <2>2 DEF Before
    <2>4. 0 \in 0..Len(Code[R])
      BY <2>1, CodeFacts DEF Restores
    <2> QED
      BY <2>3, <2>4 DEF Nested
  <1>7. level = 0 => stack' = <<>>
    BY <1>1, LevelFacts DEF SignalInv, WellNested
  <1>8. Len(stack') <= Len(stack)
    BY <1>1 DEF SignalInv, Types
  <1>9. WellNested'
    BY <1>1, <1>2, <1>3, <1>5, <1>6, <1>7, <1>8, RunningKeepsNested
  <1> QED
    BY <1>3, <1>4, <1>9 DEF SignalInv

\* The running context takes one word off, as PopStep has it.
LEMMA PopKeepsInv ==
    ASSUME SignalInv, level > 0,
           NEW R \in Restorers, NEW i \in 0..(Len(Code[R]) - 1),
           Before(R, i, level, regs, stack, RegsOf(level - 1), StackOf(level - 1)),
           regs' \in Registers, Pops(R, i, regs, stack, regs'),
           stack' = Tail(stack),
           UNCHANGED <<sigaction, signal, blocked, mode, active>>
    PROVE  SignalInv'
  <1>1. level \in Nat /\ level' = level /\ regs \in Registers /\ stack \in Seq(Word)
    BY LevelFacts DEF SignalInv, Types, level
  <1>2. RegsOf(level - 1) \in Registers /\ StackOf(level - 1) \in Seq(Word)
    <2>1. level - 1 \in 0..level
      BY <1>1
    <2> QED
      BY <2>1, LevelFacts DEF SignalInv
  <1>3. PICK r0 \in Registers, st0 \in Seq(Word) : r0 = RegsOf(level - 1) /\ st0 = StackOf(level - 1)
    BY <1>2
  <1>4. PICK r1 \in Registers : r1 = regs'
    OBVIOUS
  <1>5. /\ Before(R, i + 1, level, r1, Tail(stack), r0, st0)
        /\ stack # <<>> /\ Len(Tail(stack)) < Len(stack)
    <2>1. Before(R, i, level, regs, stack, r0, st0)
      BY <1>3
    <2>2. Pops(R, i, regs, stack, r1)
      BY <1>4
    <2> QED
      BY <1>1, <2>1, <2>2, PopStep
  <1>6. stack' \in Seq(Word) /\ Len(stack') <= Len(stack)
    BY <1>1, <1>5
  <1>7. Types'
    BY <1>6 DEF SignalInv, Types
  <1>8. HandlerMasked'
    BY DEF SignalInv, HandlerMasked
  <1>9. i + 1 \in 0..Len(Code[R])
    BY CodeFacts DEF Restores
  <1>10. Nested(level, regs', stack', RegsOf(level - 1), StackOf(level - 1))
    BY <1>3, <1>4, <1>5, <1>9 DEF Nested
  <1>11. WellNested'
    BY <1>1, <1>6, <1>7, <1>10, RunningKeepsNested
  <1> QED
    BY <1>7, <1>8, <1>11 DEF SignalInv

LEMMA HandlerReturnsKeepsInv ==
    ASSUME SignalInv, HandlerReturns
    PROVE  SignalInv'
  <1>1. /\ Executing /\ level > 0
        /\ regs' = [regs EXCEPT !.eip = Head(stack)]
        /\ stack' = Tail(stack)
        /\ UNCHANGED <<sigaction, signal, blocked, mode, active>>
    BY DEF HandlerReturns
  <1>2. regs \in Registers /\ stack \in Seq(Word)
    BY DEF SignalInv, Types
  <1>3. PICK R \in Restorers :
           Before(R, 0, level, regs, stack, RegsOf(level - 1), StackOf(level - 1))
    BY <1>1, RunningContext
  <1>4. Head(stack) = <<R, 1>> /\ <<R, 1>> \in Word
    <2>1. stack[1] = <<R, 1>>
      BY <1>3 DEF Before
    <2> QED
      BY <1>2, <2>1, Words
  <1>5. regs' \in Registers /\ regs'.eip = <<R, 1>> /\ \A x \in Saved : regs'[x] = regs[x]
    <2> SUFFICES ASSUME NEW r1, r1 = [regs EXCEPT !.eip = <<R, 1>>]
                 PROVE  r1 \in Registers /\ r1.eip = <<R, 1>> /\ \A x \in Saved : r1[x] = regs[x]
      BY <1>1, <1>4
    <2> QED
      BY <1>2, <1>4 DEF Registers, Saved
  <1>6. PICK i \in 0..(Len(Code[R]) - 1) : i = 0
    BY <1>3, CodeFacts DEF Restores
  <1>7. /\ Before(R, i, level, regs, stack, RegsOf(level - 1), StackOf(level - 1))
        /\ Pops(R, i, regs, stack, regs')
    BY <1>3, <1>5, <1>6 DEF Pops
  <1> QED
    BY <1>1, <1>5, <1>7, PopKeepsInv

\* A restorer is left by its ret alone, and then everything is as it was.
LEMMA RestorerRet ==
    ASSUME SignalInv, RestorerStep
    PROVE  LET R == regs.eip[1]
               i == regs.eip[2]
           IN  /\ level > 0 /\ R \in Restorers /\ i \in 1..Len(Code[R]) /\ regs.eip = <<R, i>>
               /\ Before(R, i, level, regs, stack, RegsOf(level - 1), StackOf(level - 1))
               /\ stack' = Tail(stack)
               /\ UNCHANGED <<sigaction, signal, blocked, mode>>
               /\ IF i = Len(Code[R])
                  THEN /\ active' = Front(active)
                       /\ regs' = RegsOf(level - 1) /\ stack' = StackOf(level - 1)
                  ELSE /\ active' = active
                       /\ Pops(R, i, regs, stack, regs') /\ regs' \in Registers
  <1>1. PICK R \in Restorers : regs.eip[1] = R
    BY CodeFacts DEF RestorerStep
  <1>2. level > 0
    BY <1>1, RunningContext
  <1>3. PICK i \in 1..Len(Code[R]) :
           /\ regs.eip = <<R, i>>
           /\ Before(R, i, level, regs, stack, RegsOf(level - 1), StackOf(level - 1))
    BY <1>1, RunningContext
  <1>4. regs.eip[1] = R /\ regs.eip[2] = i
    BY <1>3
  <1>5. /\ regs' = CASE Code[R][i] = "skip" -> [regs EXCEPT !.eip = <<R, i + 1>>]
                     [] Code[R][i] = "ret"  -> [regs EXCEPT !.eip = Head(stack)]
                     [] OTHER -> [regs EXCEPT ![Code[R][i]] = Head(stack), !.eip = <<R, i + 1>>]
        /\ active' = IF Code[R][i] = "ret" THEN Front(active) ELSE active
        /\ stack' = Tail(stack)
        /\ UNCHANGED <<sigaction, signal, blocked, mode>>
    BY <1>4 DEF RestorerStep
  <1>6. /\ Code[R][i] \in Saved \cup {"skip", "ret"}
        /\ Code[R][i] = "ret" <=> i = Len(Code[R])
    BY <1>3, CodeFacts DEF Restores
  <1>7. /\ regs \in Registers /\ stack \in Seq(Word) /\ level \in Nat
        /\ RegsOf(level - 1) \in Registers /\ StackOf(level - 1) \in Seq(Word)
    <2>1. level \in Nat
      BY LevelFacts DEF SignalInv
    <2>2. level - 1 \in 0..level
      BY <1>2, <2>1
    <2> QED
      BY <2>1, <2>2, LevelFacts DEF SignalInv, Types
  <1>8. CASE i = Len(Code[R])
    <2>1. PICK r0 \in Registers, st0 \in Seq(Word) : r0 = RegsOf(level - 1) /\ st0 = StackOf(level - 1)
      BY <1>7
    <2>2. Before(R, Len(Code[R]), level, regs, stack, r0, st0)
      BY <1>3, <1>8, <2>1
    <2>3. [regs EXCEPT !.eip = Head(stack)] = r0 /\ Tail(stack) = st0
      BY <1>7, <2>2, RetStep
    <2>4. regs' = [regs EXCEPT !.eip = Head(stack)] /\ active' = Front(active)
      BY <1>5, <1>6, <1>8
    <2> QED
      BY <1>2, <1>3, <1>4, <1>5, <1>8, <2>1, <2>3, <2>4
  <1>9. CASE i # Len(Code[R])
    <2>1. Len(stack) > 0
      <3> DEFINE n == Len(Code[R])
      <3>1. Len(stack) = n + 1 - i + Len(StackOf(level - 1))
        BY <1>3 DEF Before
      <3>2. n \in Nat
        BY CodeFacts DEF Restores
      <3>3. Len(StackOf(level - 1)) \in Nat /\ i \in 1..n
        BY <1>7
      <3> HIDE DEF n
      <3> QED
        BY <3>1, <3>2, <3>3
    <2>2. stack[1] \in Word /\ Head(stack) = stack[1]
      BY <1>7, <2>1
    <2>3. <<R, i + 1>> \in Word
      <3>1. i + 1 \in 1..Len(Code[R])
        BY <1>9, CodeFacts DEF Restores
      <3> QED
        BY <3>1, Words
    <2>4. PICK r1 : r1 = regs'
      OBVIOUS
    <2>5. ASSUME Code[R][i] = "skip"
          PROVE  Pops(R, i, regs, stack, r1) /\ r1 \in Registers
      <3>1. r1 = [regs EXCEPT !.eip = <<R, i + 1>>]
        BY <1>5, <2>4, <2>5
      <3>2. "skip" \notin Saved
        BY DEF Saved
      <3>3. r1 \in Registers
        BY <1>7, <2>3, <3>1 DEF Registers, Saved
      <3>4. r1.eip = <<R, i + 1>> /\ \A x \in Saved : r1[x] = regs[x]
        BY <1>7, <3>1 DEF Registers, Saved
      <3> QED
        BY <2>5, <3>2, <3>3, <3>4 DEF Pops
    <2>6. ASSUME Code[R][i] # "skip"
          PROVE  Pops(R, i, regs, stack, r1) /\ r1 \in Registers
      <3>1. Code[R][i] # "ret"
        BY <1>6, <1>9
      <3>2. PICK op \in Saved : op = Code[R][i]
        BY <1>6, <2>6, <3>1
      <3>3. r1 = [regs EXCEPT ![op] = stack[1], !.eip = <<R, i + 1>>]
        BY <1>5, <2>2, <2>4, <2>6, <3>1, <3>2
      <3>4. r1 \in Registers
        BY <1>7, <2>2, <2>3, <3>3 DEF Registers, Saved
      <3>5. r1.eip = <<R, i + 1>> /\ \A x \in Saved : r1[x] = IF op = x THEN stack[1] ELSE regs[x]
        BY <1>7, <3>3 DEF Registers, Saved
      <3>6. i > 0
        OBVIOUS
      <3> QED
        BY <3>2, <3>4, <3>5, <3>6 DEF Pops
    <2>7. Pops(R, i, regs, stack, regs') /\ regs' \in Registers
      BY <2>4, <2>5, <2>6
    <2>8. active' = active
      BY <1>5, <1>6, <1>9
    <2> QED
      BY <1>2, <1>3, <1>4, <1>5, <1>9, <2>7, <2>8
  <1> QED
    BY <1>8, <1>9

LEMMA RestorerStepKeepsInv ==
    ASSUME SignalInv, RestorerStep
    PROVE  SignalInv'
  <1>1. PICK R, i :
           /\ level > 0 /\ R \in Restorers /\ i \in 1..Len(Code[R])
           /\ Before(R, i, level, regs, stack, RegsOf(level - 1), StackOf(level - 1))
           /\ stack' = Tail(stack)
           /\ UNCHANGED <<sigaction, signal, blocked, mode>>
           /\ IF i = Len(Code[R])
              THEN /\ active' = Front(active)
                   /\ regs' = RegsOf(level - 1) /\ stack' = StackOf(level - 1)
              ELSE /\ active' = active
                   /\ Pops(R, i, regs, stack, regs') /\ regs' \in Registers
    BY RestorerRet
  <1>2. CASE i # Len(Code[R])
    <2>1. i \in 0..(Len(Code[R]) - 1)
      BY <1>1, <1>2, CodeFacts DEF Restores
    <2> QED
      BY <1>1, <1>2, <2>1, PopKeepsInv
  <1>3. CASE i = Len(Code[R])
    <2> DEFINE Interrupted == [sig : Signals, regs : Registers, stack : Seq(Word), masks : SUBSET Signals]
    <2>1. level \in Nat /\ level > 0 /\ Len(active) = level
      BY <1>1, LevelFacts DEF SignalInv, level
    <2>2. active \in Seq(Interrupted)
      BY DEF SignalInv, Types
    <2>3. active' = SubSeq(active, 1, level - 1)
      BY <1>1, <1>3, <2>1 DEF Front
    <2> HIDE DEF Interrupted
    <2>l. level - 1 \in Nat /\ level - 1 <= Len(active)
      BY <2>1
    <2>4. /\ active' \in Seq(Interrupted) /\ Len(active') = level - 1
          /\ \A k \in 1..(level - 1) : active'[k] = active[k]
      BY <2>2, <2>3, <2>l
    <2>5. regs' = RegsOf(level - 1) /\ stack' = StackOf(level - 1)
      BY <1>1, <1>3
    <2>6. regs' \in Registers /\ stack' \in Seq(Word)
      <3>1. level - 1 \in 0..level
        BY <2>1
      <3> QED
        BY <2>5, <3>1, LevelFacts DEF SignalInv
    <2>7. Types'
      BY <1>1, <2>4, <2>6 DEF SignalInv, Types, Interrupted
    <2>8. HandlerMasked'
      <3>1. DOMAIN active' = 1..(level - 1) /\ DOMAIN active = 1..level
        BY <2>1, <2>2, <2>4
      <3> QED
        BY <1>1, <2>1, <2>4, <3>1 DEF SignalInv, HandlerMasked
    <2>9. level' = level - 1
      BY <2>4 DEF level
    <2>10. \A k \in 0..(level - 1) : RegsOf(k)' = RegsOf(k) /\ StackOf(k)' = StackOf(k)
      <3> TAKE k \in 0..(level - 1)
      <3>1. CASE k = level - 1
        BY <2>5, <2>9, <3>1 DEF RegsOf, StackOf
      <3>2. CASE k # level - 1
        <4>1. k + 1 \in 1..(level - 1) /\ k # level
          BY <2>1, <3>2
        <4> QED
          BY <2>4, <2>9, <3>2, <4>1 DEF RegsOf, StackOf
      <3> QED
        BY <3>1, <3>2
    <2>11. RegsOf(0)'.eip = ctx(0) /\ StackOf(0)' = <<>>
      <3>1. 0 \in 0..(level - 1)
        BY <2>1
      <3> QED
        BY <2>10, <3>1 DEF SignalInv, WellNested
    <2>12. ASSUME NEW k \in 1..(level - 1)
           PROVE  /\ Nested(k, RegsOf(k)', StackOf(k)', RegsOf(k - 1)', StackOf(k - 1)')
                  /\ Len(StackOf(k)') <= 8 * k
      <3>1. k \in 1..level /\ k \in 0..(level - 1) /\ k - 1 \in 0..(level - 1)
        BY <2>1
      <3>2. /\ Nested(k, RegsOf(k), StackOf(k), RegsOf(k - 1), StackOf(k - 1))
            /\ Len(StackOf(k)) <= 8 * k
        BY <3>1 DEF SignalInv, WellNested
      <3> QED
        BY <2>10, <3>1, <3>2
    <2>13. WellNested'
      BY <2>9, <2>11, <2>12 DEF WellNested
    <2> QED
      BY <2>7, <2>8, <2>13 DEF SignalInv
  <1> QED
    BY <1>2, <1>3

\* Tick, Receive and sigaction touch no context and no mask.
LEMMA OtherStepsKeepInv ==
    ASSUME SignalInv,
           \/ Tick
           \/ \E sig \in Signals : Receive(sig)
           \/ \E sig \in Signals, act \in Actions : sys_sigaction(sig, act)
    PROVE  SignalInv'
  <1>1. UNCHANGED <<blocked, regs, stack, active>>
    BY DEF Tick, Receive, sys_sigaction
  <1>2. sigaction' \in [Signals -> Action] /\ signal' \subseteq Signals /\ mode' \in {"user", "kernel"}
    <2>1. CASE Tick
      BY <2>1 DEF Tick, SignalInv, Types
    <2>2. ASSUME NEW sig \in Signals, Receive(sig)
          PROVE  /\ sigaction' \in [Signals -> Action] /\ signal' \subseteq Signals
                 /\ mode' \in {"user", "kernel"}
      BY <2>2 DEF Receive, SignalInv, Types
    <2>3. ASSUME NEW sig \in Signals, NEW act \in Actions, sys_sigaction(sig, act)
          PROVE  /\ sigaction' \in [Signals -> Action] /\ signal' \subseteq Signals
                 /\ mode' \in {"user", "kernel"}
      <3>1. [act EXCEPT !.sa_mask = IF act.nomask THEN {} ELSE @ \cup {sig}] \in Action
        BY SignalAssumption DEF Action
      <3> QED
        BY <2>3, <3>1 DEF sys_sigaction, SignalInv, Types
    <2> QED
      BY <2>1, <2>2, <2>3
  <1>3. Types'
    BY <1>1, <1>2 DEF SignalInv, Types
  <1>4. HandlerMasked'
    BY <1>1 DEF SignalInv, HandlerMasked
  <1>5. level' = level /\ level \in Nat
    BY <1>1, LevelFacts DEF level, SignalInv
  <1>6. WellNested'
    BY <1>1, <1>5, SameContexts DEF SignalInv
  <1> QED
    BY <1>3, <1>4, <1>6 DEF SignalInv

LEMMA SsetmaskKeepsInv ==
    ASSUME SignalInv, NEW mask \in Masks, sys_ssetmask(mask)
    PROVE  SignalInv'
  <1>1. /\ mode' = "kernel" /\ blocked' = mask \ {SIGKILL}
        /\ active' = [k \in DOMAIN active |-> [active[k] EXCEPT !.masks = @ \cap blocked']]
        /\ UNCHANGED <<sigaction, signal, regs, stack>>
    BY DEF sys_ssetmask
  <1> DEFINE Interrupted == [sig : Signals, regs : Registers, stack : Seq(Word), masks : SUBSET Signals]
  <1>2. /\ level \in Nat /\ Len(active) = level /\ DOMAIN active = 1..level
        /\ active \in Seq(Interrupted)
    BY LevelFacts DEF SignalInv, Types, level
  <1>3. \A k \in 1..level : active[k] \in Interrupted
    <2> HIDE DEF Interrupted
    <2> QED
      BY <1>2
  <1>4. \A k \in 1..level :
           /\ active'[k] \in Interrupted
           /\ active'[k].regs = active[k].regs /\ active'[k].stack = active[k].stack
           /\ active'[k].masks = active[k].masks \cap blocked'
    <2> TAKE k \in 1..level
    <2>1. active'[k] = [active[k] EXCEPT !.masks = @ \cap blocked']
      BY <1>1, <1>2
    <2>2. active[k] \in Interrupted
      BY <1>3
    <2> QED
      BY <2>1, <2>2
  <1>5. active' \in Seq(Interrupted) /\ Len(active') = level /\ DOMAIN active' = 1..level
    <2> HIDE DEF Interrupted
    <2>1. active' = [k \in 1..level |-> active'[k]]
      BY <1>1, <1>2
    <2> QED
      BY <1>2, <1>4, <2>1
  <1>6. blocked' \subseteq Signals
    BY <1>1, SignalAssumption
  <1>7. Types'
    BY <1>1, <1>5, <1>6 DEF SignalInv, Types
  <1>8. HandlerMasked'
    BY <1>4, <1>5 DEF HandlerMasked
  <1>9. level' = level
    BY <1>5 DEF level
  <1>10. WellNested'
    BY <1>1, <1>2, <1>4, <1>9, SameContexts DEF SignalInv
  <1> QED
    BY <1>7, <1>8, <1>10 DEF SignalInv

\* A handler is entered: the new frame goes on top of the others.
LEMMA EnterKeepsInv ==
    ASSUME SignalInv, NEW sig \in Signals, signal' \subseteq Signals, mode' = "user",
           do_signal(sig), sigaction[sig].sa_handler = HANDLER
    PROVE  SignalInv'
  <1> DEFINE act == sigaction[sig]
             Interrupted == [sig : Signals, regs : Registers, stack : Seq(Word), masks : SUBSET Signals]
             e == [sig |-> sig, regs |-> regs, stack |-> stack, masks |-> act.sa_mask]
  <1>1. /\ sigaction' = [sigaction EXCEPT ![sig].sa_handler = IF act.oneshot THEN SIG_DFL ELSE @]
        /\ stack' = Frame(sig, act) \o stack
        /\ regs' = [regs EXCEPT !.eip = ctx(level + 1)]
        /\ blocked' = blocked \cup act.sa_mask
        /\ active' = Append(active, e)
    BY DEF do_signal, Masked
  <1>2. Types /\ act \in Action /\ act.sa_mask \subseteq Signals
    BY DEF SignalInv, Types, Action
  <1>3. level \in Nat /\ Len(active) = level /\ active \in Seq(Interrupted)
    BY LevelFacts DEF SignalInv, Types, level
  <1>4. regs' \in Registers /\ regs'.eip = ctx(level + 1)
    <2>1. ctx(level + 1) \in Word
      BY <1>3, Words
    <2> QED
      BY <1>1, <1>2, <2>1 DEF Types, Registers, Saved
  <1>5. e \in Interrupted
    BY <1>2 DEF Types
  <1>6. sigaction' \in [Signals -> Action]
    <2>1. [act EXCEPT !.sa_handler = IF act.oneshot THEN SIG_DFL ELSE @] \in Action
      BY <1>2 DEF Action
    <2>2. sigaction' = [sigaction EXCEPT ![sig] = [act EXCEPT !.sa_handler = IF act.oneshot THEN SIG_DFL ELSE @]]
      BY <1>1
    <2> QED
      BY <1>2, <2>1, <2>2 DEF Types
  <1>7. /\ active' \in Seq(Interrupted) /\ Len(active') = level + 1
        /\ active'[level + 1] = e
        /\ \A k \in 1..level : active'[k] = active[k]
    <2> HIDE DEF Interrupted, e
    <2> QED
      BY <1>1, <1>3, <1>5
  <1>8. PICK r1 \in Registers : r1 = regs'
    BY <1>4
  <1>9. /\ Nested(level + 1, r1, stack', regs, stack)
        /\ stack' \in Seq(Word)
        /\ Len(stack') <= 8 + Len(stack)
    <2>1. r1.eip = ctx(level + 1) /\ level + 1 \in Nat
      BY <1>3, <1>4, <1>8
    <2> HIDE DEF act
    <2>2. /\ Nested(level + 1, r1, Frame(sig, act) \o stack, regs, stack)
          /\ Frame(sig, act) \o stack \in Seq(Word)
          /\ Len(Frame(sig, act) \o stack) <= 8 + Len(stack)
      BY <1>2, <2>1, FrameNests
    <2> QED
      BY <1>1, <2>2
  <1>10. Types'
    BY <1>1, <1>2, <1>4, <1>6, <1>7, <1>9 DEF Types
  <1>11. HandlerMasked'
    <2>1. DOMAIN active' = 1..(level + 1) /\ DOMAIN active = 1..level
      BY <1>3, <1>7
    <2>2. active'[level + 1].masks \subseteq blocked'
      BY <1>1, <1>7
    <2>3. ASSUME NEW k \in 1..(level + 1), k # level + 1
          PROVE  active'[k].masks \subseteq blocked'
      <3>1. k \in 1..level
        BY <1>3, <2>3
      <3> QED
        BY <1>1, <1>7, <2>1, <3>1 DEF SignalInv, HandlerMasked
    <2> QED
      BY <2>1, <2>2, <2>3 DEF HandlerMasked
  <1>12. level' = level + 1
    BY <1>7 DEF level
  <1>13. \A k : k = level + 1 => RegsOf(k)' = regs' /\ StackOf(k)' = stack'
    BY <1>12 DEF RegsOf, StackOf
  <1>14. \A k \in 0..level : RegsOf(k)' = RegsOf(k) /\ StackOf(k)' = StackOf(k)
    <2> TAKE k \in 0..level
    <2>0. k # level + 1
      BY <1>3
    <2>1. CASE k = level
      BY <1>7, <1>12, <2>0, <2>1 DEF RegsOf, StackOf
    <2>2. CASE k # level
      <3>1. k + 1 \in 1..level
        BY <1>3, <2>2
      <3> QED
        BY <1>7, <1>12, <2>0, <2>2, <3>1 DEF RegsOf, StackOf
    <2> QED
      BY <2>1, <2>2
  <1>15. RegsOf(0)'.eip = ctx(0) /\ StackOf(0)' = <<>>
    <2>1. 0 \in 0..level
      BY <1>3
    <2> QED
      BY <1>14, <2>1 DEF SignalInv, WellNested
  <1>16. ASSUME NEW k \in 1..(level + 1)
         PROVE  /\ Nested(k, RegsOf(k)', StackOf(k)', RegsOf(k - 1)', StackOf(k - 1)')
                /\ Len(StackOf(k)') <= 8 * k
    <2>0. k - 1 \in 0..level
      BY <1>3
    <2>1. CASE k = level + 1
      <3>1. k - 1 = level /\ RegsOf(level) = regs /\ StackOf(level) = stack
        BY <1>2, <1>3, <2>1, LevelFacts
      <3>2. Nested(k, RegsOf(k)', StackOf(k)', RegsOf(k - 1)', StackOf(k - 1)')
        <4>1. RegsOf(k)' = r1 /\ StackOf(k)' = stack'
          BY <1>8, <1>13, <2>1
        <4>2. RegsOf(k - 1)' = regs /\ StackOf(k - 1)' = stack
          <5>1. \A j \in 0..level : j = level => RegsOf(j)' = regs /\ StackOf(j)' = stack
            BY <1>14, <3>1
          <5> QED
            BY <2>0, <3>1, <5>1
        <4> QED
          BY <1>9, <2>1, <4>1, <4>2
      <3>3. Len(stack) <= 8 * level
        <4>1. CASE level = 0
          BY <3>1, <4>1 DEF SignalInv, WellNested
        <4>2. CASE level # 0
          <5>1. level \in 1..level
            BY <1>3, <4>2
          <5> QED
            BY <3>1, <5>1 DEF SignalInv, WellNested
        <4> QED
          BY <4>1, <4>2
      <3>4. Len(stack) \in Nat /\ Len(stack') \in Nat
        BY <1>2, <1>9 DEF Types
      <3>5. Len(stack') <= 8 * (level + 1)
        BY <1>3, <1>9, <3>3, <3>4
      <3> QED
        BY <1>13, <2>1, <3>2, <3>5
    <2>2. CASE k # level + 1
      <3>1. k \in 1..level /\ k \in 0..level
        BY <1>3, <2>2
      <3>2. /\ Nested(k, RegsOf(k), StackOf(k), RegsOf(k - 1), StackOf(k - 1))
            /\ Len(StackOf(k)) <= 8 * k
        BY <3>1 DEF SignalInv, WellNested
      <3> QED
        BY <1>14, <2>0, <3>1, <3>2
    <2> QED
      BY <2>1, <2>2
  <1>17. WellNested'
    BY <1>12, <1>15, <1>16 DEF WellNested
  <1> QED
    BY <1>10, <1>11, <1>17 DEF SignalInv

LEMMA RetFromSyscallKeepsInv ==
    ASSUME SignalInv, ret_from_syscall
    PROVE  SignalInv'
  <1>1. mode' = "user"
    BY DEF ret_from_syscall
  <1>2. \/ UNCHANGED <<sigaction, signal, blocked, regs, stack, active>>
        \/ \E sig \in signal \ blocked : signal' = signal \ {sig} /\ do_signal(sig)
    BY DEF ret_from_syscall
  <1>3. ASSUME UNCHANGED <<sigaction, blocked, regs, stack, active>>, signal' \subseteq Signals
        PROVE  SignalInv'
    <2>1. level' = level /\ level \in Nat
      BY <1>3, LevelFacts DEF level, SignalInv
    <2>2. WellNested'
      BY <1>3, <2>1, SameContexts DEF SignalInv
    <2>3. Types' /\ HandlerMasked'
      BY <1>1, <1>3 DEF SignalInv, Types, HandlerMasked
    <2> QED
      BY <2>2, <2>3 DEF SignalInv
  <1>4. CASE UNCHANGED <<sigaction, signal, blocked, regs, stack, active>>
    BY <1>3, <1>4 DEF SignalInv, Types
  <1>5. ASSUME NEW sig \in signal \ blocked, signal' = signal \ {sig}, do_signal(sig)
        PROVE  SignalInv'
    <2>1. signal' \subseteq Signals /\ sig \in Signals
      BY <1>5 DEF SignalInv, Types
    <2>2. CASE sigaction[sig].sa_handler = HANDLER
      BY <1>1, <1>5, <2>1, <2>2, EnterKeepsInv
    <2>3. CASE sigaction[sig].sa_handler # HANDLER
      BY <1>3, <1>5, <2>1, <2>3 DEF do_signal
    <2> QED
      BY <2>2, <2>3
  <1> QED
    BY <1>2, <1>4, <1>5

-----------------------------------------------------------------------------
(* The theorems.                                                           *)

LEMMA InitSignalInv ==
    ASSUME Init
    PROVE  SignalInv
  <1>1. level = 0 /\ stack = <<>> /\ active = <<>> /\ RegsOf(0) = regs /\ StackOf(0) = stack
    BY DEF Init, level, RegsOf, StackOf
  <1>2. regs \in Registers /\ regs.eip = ctx(0)
    <2>1. ctx(0) \in Word
      BY Words
    <2> QED
      BY <2>1 DEF Init, Registers
  <1>3. sigaction \in [Signals -> Action]
    BY DEF Init, Action
  <1>4. stack \in Seq(Word) /\ active \in Seq([sig : Signals, regs : Registers, stack : Seq(Word), masks : SUBSET Signals])
    BY <1>1
  <1>5. Types
    BY <1>2, <1>3, <1>4 DEF Init, Types
  <1>6. HandlerMasked
    BY <1>1 DEF HandlerMasked
  <1>7. WellNested
    BY <1>1, <1>2 DEF WellNested
  <1> QED
    BY <1>5, <1>6, <1>7 DEF SignalInv

LEMMA NextSignalInv ==
    ASSUME SignalInv, [Next]_vars
    PROVE  SignalInv'
  <1>1. CASE Compute
    BY <1>1, ComputeKeepsInv
  <1>2. CASE HandlerReturns
    BY <1>2, HandlerReturnsKeepsInv
  <1>3. CASE RestorerStep
    BY <1>3, RestorerStepKeepsInv
  <1>4. CASE \/ Tick
             \/ \E sig \in Signals : Receive(sig)
             \/ \E sig \in Signals, act \in Actions : sys_sigaction(sig, act)
    BY <1>4, OtherStepsKeepInv
  <1>5. CASE \E mask \in Masks : sys_ssetmask(mask)
    BY <1>5, SsetmaskKeepsInv
  <1>6. CASE ret_from_syscall
    BY <1>6, RetFromSyscallKeepsInv
  <1>7. CASE UNCHANGED vars
    <2>1. level' = level /\ level \in Nat
      BY <1>7, LevelFacts DEF level, SignalInv, vars
    <2>2. WellNested'
      BY <1>7, <2>1, SameContexts DEF SignalInv, vars
    <2>3. Types' /\ HandlerMasked'
      BY <1>7 DEF SignalInv, Types, HandlerMasked, vars
    <2> QED
      BY <2>2, <2>3 DEF SignalInv
  <1> QED
    BY <1>1, <1>2, <1>3, <1>4, <1>5, <1>6, <1>7 DEF Next

\* In every reachable state frames nest: each context, running or interrupted,
\* will get back the registers and the stack of the one below it.
THEOREM SignalCorrect == Spec => []SignalInv
  <1>1. Init => SignalInv
    BY InitSignalInv
  <1>2. SignalInv /\ [Next]_vars => SignalInv'
    BY NextSignalInv
  <1> QED
    BY <1>1, <1>2, PTL DEF Spec

\* Types, and no frame is larger than eight words: the user stack grows by at
\* most that for each handler that do_signal lets in.
THEOREM SignalTypeCorrect == Spec => []TypeOK
  <1>1. SignalInv => TypeOK
    <2> SUFFICES ASSUME SignalInv
                 PROVE  TypeOK
      OBVIOUS
    <2>1. Types /\ level \in Nat /\ StackOf(level) = stack /\ level = Len(active)
      BY LevelFacts DEF SignalInv, level
    <2>2. Len(stack) <= 8 * Len(active)
      <3>1. CASE level = 0
        <4>1. stack = <<>>
          BY <2>1, <3>1 DEF SignalInv, WellNested
        <4> QED
          BY <2>1, <3>1, <4>1
      <3>2. CASE level # 0
        <4>1. level \in 1..level
          BY <2>1, <3>2
        <4> QED
          BY <2>1, <4>1 DEF SignalInv, WellNested
      <3> QED
        BY <3>1, <3>2
    <2> QED
      BY <2>1, <2>2 DEF Types, TypeOK, Registers
  <1> QED
    BY <1>1, SignalCorrect, PTL

\* While a handler runs, what its sigaction masks stays masked, whatever nests
\* inside it, unless the program unblocks it.
THEOREM HandlersStayMasked == Spec => []HandlerMasked
  <1>1. SignalInv => HandlerMasked
    BY DEF SignalInv
  <1> QED
    BY <1>1, SignalCorrect, PTL

\* do_signal and the restorers together give the interrupted code its registers
\* and its stack back, however handlers nest and wherever they interrupt.
THEOREM ContextsRestored == Spec => ContextRestored
  <1>1. SignalInv /\ [Next]_vars =>
           [Len(active') < Len(active) =>
              regs' = Last(active).regs /\ stack' = Last(active).stack]_vars
    <2> SUFFICES ASSUME SignalInv, Next, Len(active') < Len(active)
                 PROVE  regs' = Last(active).regs /\ stack' = Last(active).stack
      OBVIOUS
    <2>1. Len(active) \in Nat /\ level = Len(active) /\ DOMAIN active = 1..level
      BY LevelFacts DEF SignalInv, level
    <2>2. CASE UNCHANGED active
      BY <2>1, <2>2
    <2>3. CASE \E mask \in Masks : sys_ssetmask(mask)
      <3>1. DOMAIN active' = DOMAIN active /\ active' = [k \in 1..Len(active) |-> active'[k]]
        BY <2>1, <2>3 DEF sys_ssetmask
      <3>2. Len(active') = Len(active)
        BY <2>1, <3>1
      <3> QED
        BY <2>1, <3>2
    <2>4. CASE ret_from_syscall
      <3>1. \/ UNCHANGED active
            \/ \E x : active' = Append(active, x)
        BY <2>4 DEF ret_from_syscall, do_signal
      <3>2. active \in Seq([sig : Signals, regs : Registers, stack : Seq(Word), masks : SUBSET Signals])
        BY DEF SignalInv, Types
      <3>3. \A x : Len(Append(active, x)) = Len(active) + 1
        BY <3>2
      <3> QED
        BY <2>1, <3>1, <3>3
    <2>5. CASE RestorerStep
      <3>1. CASE active' = active
        BY <2>1, <3>1
      <3>2. CASE active' # active
        <4>1. level > 0 /\ regs' = RegsOf(level - 1) /\ stack' = StackOf(level - 1)
          BY <2>5, <3>2, RestorerRet
        <4> QED
          BY <4>1, LevelFacts DEF SignalInv
      <3> QED
        BY <3>1, <3>2
    <2> QED
      BY <2>2, <2>3, <2>4, <2>5
         DEF Next, Compute, HandlerReturns, Tick, Receive, sys_sigaction
  <1> QED
    BY <1>1, SignalCorrect, PTL DEF Spec, ContextRestored

=============================================================================
