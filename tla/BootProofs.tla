----------------------------- MODULE BootProofs -----------------------------
(***************************************************************************)
(* Proofs about Boot and Startup, for any sizes and floppy geometries: the *)
(* image arrives whole whatever reads fail, the kernel reaches user mode   *)
(* without an interrupt it cannot serve, and the gates of the debugging    *)
(* exceptions give a program all its registers back.                       *)
(***************************************************************************)
EXTENDS Startup, SequenceTheorems, TLAPS

-----------------------------------------------------------------------------
(* Arithmetic of segments and tracks.                                      *)

\* What the assumption says, in the form the proofs use.
LEMMA Sizes ==
    /\ SEG \in Nat /\ SEG >= 2 /\ SETUPLEN \in Nat /\ SETUPLEN >= 1
    /\ SYSSEG = 1 /\ ENDSEG \in Nat /\ ENDSEG >= 2
    /\ INITSEG \in Nat /\ ENDSEG <= INITSEG
    /\ BOOTBLOCK \in 0..(SEG - 1)
    /\ \A g \in Geometries : g \in Nat /\ SETUPLEN + 2 <= g
  BY BootAssumption

LEMMA Monotone ==
    ASSUME NEW a \in Nat, NEW b \in Nat, NEW c \in Nat, a <= b
    PROVE  a * c <= b * c /\ a * c \in Nat /\ b * c \in Nat
  <1>1. PICK d \in Nat : b = a + d
    <2>1. b - a \in Nat /\ b = a + (b - a)
      OBVIOUS
    <2> QED
      BY <2>1
  <1>2. b * c = a * c + d * c
    BY <1>1
  <1>3. d * c \in Nat /\ a * c \in Nat
    OBVIOUS
  <1> QED
    BY <1>2, <1>3

LEMMA NextSegment ==
    ASSUME NEW a \in Nat
    PROVE  (a + 1) * SEG = a * SEG + SEG /\ a * SEG \in Nat
  BY Sizes

\* The segment es, its successor, the end of the image and the boot sector's
\* new place follow each other.
LEMMA SegmentsInOrder ==
    /\ SYSSEG * SEG = SEG
    /\ ENDSEG * SEG \in Nat /\ INITSEG * SEG \in Nat
    /\ ENDSEG * SEG <= INITSEG * SEG
    /\ SEG <= ENDSEG * SEG
    /\ 2 * SEG <= INITSEG * SEG
    /\ ImageSize = ENDSEG * SEG - SEG
    /\ \A a \in Nat : a < ENDSEG => a * SEG + SEG <= ENDSEG * SEG /\ a * SEG \in Nat
    /\ \A a \in Nat : a + 1 < INITSEG => a * SEG + 2 * SEG <= INITSEG * SEG /\ a * SEG \in Nat
  <1>1. SYSSEG * SEG = SEG
    BY Sizes
  <1>2. ENDSEG * SEG \in Nat /\ INITSEG * SEG \in Nat /\ ENDSEG * SEG <= INITSEG * SEG
    BY Sizes, Monotone
  <1>3. 2 * SEG <= ENDSEG * SEG
    BY Sizes, Monotone
  <1>4. ImageSize = ENDSEG * SEG - SEG
    BY Sizes DEF ImageSize
  <1>5. ASSUME NEW a \in Nat, a < ENDSEG
        PROVE  a * SEG + SEG <= ENDSEG * SEG /\ a * SEG \in Nat
    <2>1. (a + 1) * SEG <= ENDSEG * SEG
      BY <1>5, Sizes, Monotone
    <2> QED
      BY <2>1, NextSegment
  <1>6. ASSUME NEW a \in Nat, a + 1 < INITSEG
        PROVE  a * SEG + 2 * SEG <= INITSEG * SEG /\ a * SEG \in Nat
    <2>1. (a + 2) * SEG <= INITSEG * SEG
      BY <1>6, Sizes, Monotone
    <2>2. (a + 2) * SEG = a * SEG + 2 * SEG /\ a * SEG \in Nat
      BY Sizes
    <2> QED
      BY <2>1, <2>2
  <1>7. 2 * SEG \in Nat /\ SEG <= 2 * SEG
    BY Sizes
  <1> QED
    BY <1>1, <1>2, <1>3, <1>4, <1>5, <1>6, <1>7, Sizes

\* The disk sector of the next head or track follows the last of this one.
LEMMA NextTrack ==
    ASSUME NEW t \in Nat, NEW h \in {0, 1}, NEW s \in Nat
    PROVE  /\ (2 * t + h) * s \in Nat
           /\ h = 0 => (2 * t + 1) * s = (2 * t + h) * s + s
           /\ h = 1 => (2 * (t + 1) + 0) * s = (2 * t + h) * s + s
  OBVIOUS

-----------------------------------------------------------------------------
(* The loader.                                                             *)

\* What a read puts into memory.
LEMMA LoadedFacts ==
    ASSUME TypeOK, NEW b \in Nat, NEW n \in Int, NEW d \in Nat
    PROVE  /\ Loaded(b, n, d) \in [Blocks -> {EMPTY} \cup Nat]
           /\ \A k \in Blocks : k \in b..(b + n - 1) => Loaded(b, n, d)[k] = d + (k - b)
           /\ \A k \in Blocks : k \notin b..(b + n - 1) => Loaded(b, n, d)[k] = mem[k]
  <1>1. \A k \in Blocks : k \in b..(b + n - 1) => d + (k - b) \in Nat
    BY Sizes, SegmentsInOrder DEF Blocks
  <1>2. \A k \in Blocks : mem[k] \in {EMPTY} \cup Nat
    BY DEF TypeOK
  <1> QED
    BY <1>1, <1>2 DEF Loaded

\* A block of the image, or of setup, is one.
LEMMA BlockFacts ==
    /\ \A k \in Nat : k <= INITSEG * SEG + SETUPLEN => k \in Blocks
    /\ \A k \in 1..SETUPLEN : INITSEG * SEG + k \in Blocks
    /\ BOOTBLOCK \in Blocks
    /\ INITSEG * SEG \in Blocks
  <1>1. INITSEG * SEG \in Nat /\ 2 * SEG <= INITSEG * SEG
    BY SegmentsInOrder
  <1> QED
    BY <1>1, Sizes DEF Blocks

\* Where the next sector goes, and that the BIOS can always do the read.
LEMMA ReadingFacts ==
    ASSUME BootInv, Reading
    PROVE  /\ Count \in Nat /\ Count >= 1 /\ Readable
           /\ sread \in Nat /\ sectors \in Nat /\ sread < sectors
           /\ sread + Count <= sectors /\ bx + Count <= SEG
           /\ es \in Nat /\ bx \in Nat /\ es * SEG \in Nat
           /\ SEG <= es * SEG + bx
           /\ es * SEG + SEG <= ENDSEG * SEG
           /\ Disk(track, head, sread) = 1 + SETUPLEN + Read
           /\ Read = es * SEG + bx - SEG
  <1>1. /\ es \in SYSSEG..ENDSEG /\ es < ENDSEG /\ bx \in 0..(SEG - 1)
        /\ sectors \in Geometries /\ sread \in 0..(sectors - 1) \cup {1 + SETUPLEN}
    BY DEF BootInv, TypeOK, Reading
  <1>2. es \in Nat /\ 1 <= es /\ bx \in Nat /\ bx < SEG
    BY <1>1, Sizes
  <1>3. sectors \in Nat /\ sread \in Nat /\ sread < sectors
    BY <1>1, Sizes
  <1>4. Count \in Nat /\ Count >= 1 /\ sread + Count <= sectors /\ bx + Count <= SEG
    BY <1>2, <1>3, Sizes DEF Count
  <1>5. 1 * SEG <= es * SEG /\ es * SEG \in Nat
    BY <1>2, Sizes, Monotone
  <1>6. es * SEG + SEG <= ENDSEG * SEG
    BY <1>1, <1>2, SegmentsInOrder
  <1>7. Read = es * SEG + bx - SEG
    BY SegmentsInOrder DEF Read
  <1>8. SEG <= es * SEG + bx
    BY <1>2, <1>5, Sizes
  <1> QED
    BY <1>2, <1>3, <1>4, <1>5, <1>6, <1>7, <1>8 DEF BootInv, InStep, Readable

LEMMA BootInit == Init => BootInv
  <1> SUFFICES ASSUME Init
               PROVE  BootInv
    OBVIOUS
  <1>1. mem = [b \in Blocks |-> IF b = BOOTBLOCK THEN 0 ELSE EMPTY]
    BY DEF Init
  <1>2. mem \in [Blocks -> {EMPTY} \cup Nat]
    BY <1>1
  <1>3. TypeOK
    BY <1>2, Sizes DEF Init, TypeOK
  <1>4. Read = 0
    BY Sizes, SegmentsInOrder DEF Init, Read
  <1>5. sectors \in Nat
    BY Sizes DEF Init
  <1>6. InStep
    BY <1>4, <1>5, Sizes DEF Init, InStep, Disk
  <1>7. Loading
    BY <1>4 DEF Init, Loading
  <1> QED
    BY <1>3, <1>6, <1>7 DEF Init, BootInv, SetupInPlace, Moving

\* What is in memory below es:bx and in the place of the boot sector is all
\* that counts before the move.
LEMMA LoadingKept ==
    ASSUME BootInv, TypeOK', UNCHANGED <<sectors, sread, head, track, es, bx, ax>>,
           pc \in {"_start", "load_setup", "read_it"},
           pc' \in {"_start", "load_setup", "read_it"},
           \A k \in Nat : k < SEG + Read => mem'[k] = mem[k],
           SetupInPlace'
    PROVE  BootInv'
  <1>1. Read' = Read
    BY DEF Read
  <1>2. InStep'
    BY <1>1 DEF BootInv, InStep, Disk
  <1>3. Read \in Int /\ SYSSEG * SEG = SEG
    BY Sizes, SegmentsInOrder DEF BootInv, TypeOK, Read
  <1>4. \A k \in 0..(Read - 1) : SYSSEG * SEG + k \in Nat /\ SYSSEG * SEG + k < SEG + Read
    BY <1>3, Sizes
  <1>5. \A k \in 0..(Read - 1) : mem[SYSSEG * SEG + k] = 1 + SETUPLEN + k
    BY DEF BootInv, Loading, Holds
  <1>6. \A k \in 0..(Read - 1) : mem'[SYSSEG * SEG + k] = 1 + SETUPLEN + k
    BY <1>4, <1>5
  <1>7. Loading'
    BY <1>1, <1>6 DEF BootInv, Loading, Holds
  <1> QED
    BY <1>2, <1>7 DEF BootInv, Moving

\* Blocks below a read that starts at es:bx keep their sectors, and so do
\* those of the boot sector's new place.
LEMMA ReadKeeps ==
    ASSUME BootInv, Reading, NEW n \in Int, n <= Count,
           mem' = Loaded(es * SEG + bx, n, Disk(track, head, sread))
    PROVE  /\ mem' \in [Blocks -> {EMPTY} \cup Nat]
           /\ \A k \in Nat : k < SEG + Read => mem'[k] = mem[k]
           /\ \A k \in 1..SETUPLEN : mem'[INITSEG * SEG + k] = k
           /\ \A k \in Nat : Read <= k /\ k < Read + n => mem'[SEG + k] = 1 + SETUPLEN + k
  <1>1. PICK b \in Nat : b = es * SEG + bx
    BY ReadingFacts
  <1>2. Read = b - SEG /\ SEG <= b /\ b + Count <= INITSEG * SEG
    BY <1>1, ReadingFacts, SegmentsInOrder, Sizes
  <1>3. PICK d \in Nat : d = Disk(track, head, sread) /\ d = 1 + SETUPLEN + Read
    BY <1>2, ReadingFacts, Sizes
  <1>4. mem' = Loaded(b, n, d)
    BY <1>1, <1>3
  <1>5. TypeOK
    BY DEF BootInv
  <1>6. PICK top \in Nat : top = INITSEG * SEG
    BY SegmentsInOrder
  <1>7. PICK c \in Nat : c = Count
    BY ReadingFacts
  <1>8. /\ mem' \in [Blocks -> {EMPTY} \cup Nat]
        /\ \A k \in Blocks : k \in b..(b + n - 1) => mem'[k] = d + (k - b)
        /\ \A k \in Blocks : k \notin b..(b + n - 1) => mem'[k] = mem[k]
    <2> DEFINE m == Loaded(b, n, d)
    <2>1. /\ m \in [Blocks -> {EMPTY} \cup Nat]
          /\ \A k \in Blocks : k \in b..(b + n - 1) => m[k] = d + (k - b)
          /\ \A k \in Blocks : k \notin b..(b + n - 1) => m[k] = mem[k]
      BY <1>5, LoadedFacts
    <2>2. mem' = m
      BY <1>4
    <2> HIDE DEF m
    <2> QED
      BY <2>1, <2>2
  <1>9. ASSUME NEW k \in Nat, k < SEG + Read
        PROVE  mem'[k] = mem[k]
    <2>1. k < b
      BY <1>2, <1>9, Sizes
    <2>2. k \in Blocks
      BY <2>1, <1>2, <1>6, <1>7, BlockFacts, Sizes
    <2> QED
      BY <2>1, <2>2, <1>8
  <1>10. ASSUME NEW k \in 1..SETUPLEN
         PROVE  mem'[INITSEG * SEG + k] = k
    <2>1. mem[top + k] = k
      BY <1>6 DEF BootInv, SetupInPlace, Reading
    <2>2. top + k \in Blocks
      BY <1>6, BlockFacts
    <2>3. top + k \notin b..(b + n - 1)
      BY <1>2, <1>6, <1>7, Sizes
    <2> QED
      BY <2>1, <2>2, <2>3, <1>6, <1>8
  <1>11. ASSUME NEW k \in Nat, Read <= k, k < Read + n
         PROVE  mem'[SEG + k] = 1 + SETUPLEN + k
    <2>1. SEG + k \in b..(b + n - 1)
      BY <1>2, <1>11, Sizes
    <2>2. SEG + k \in Nat /\ SEG + k <= top + SETUPLEN
      BY <1>2, <1>6, <1>7, <1>11, Sizes
    <2>3. SEG + k \in Blocks
      BY <2>2, <1>6, BlockFacts
    <2>4. PICK j \in Blocks : j = SEG + k
      BY <2>3
    <2>5. mem'[j] = d + (j - b)
      BY <2>1, <2>4, <1>8
    <2> QED
      BY <2>2, <2>4, <2>5, <1>2, <1>3, Sizes
  <1> QED
    BY <1>8, <1>9, <1>10, <1>11

\* After a read the position is that of the sector that follows.
LEMMA ReadAdvances ==
    ASSUME BootInv, read_track
    PROVE  /\ Read' = Read + Count
           /\ InStep'
           /\ sread' \in 0..(sectors' - 1) \cup {1 + SETUPLEN}
           /\ head' \in {0, 1} /\ track' \in Nat
           /\ es' \in SYSSEG..ENDSEG /\ bx' \in 0..(SEG - 1)
  <1>1. Reading
    BY DEF read_track
  <1>0. PICK n \in Nat : n = Count
    BY <1>1, ReadingFacts
  <1>2. /\ n \in Nat /\ n >= 1
        /\ sread \in Nat /\ sectors \in Nat /\ sread + n <= sectors /\ bx + n <= SEG
        /\ es \in Nat /\ bx \in Nat /\ es * SEG \in Nat
        /\ Disk(track, head, sread) = 1 + SETUPLEN + Read
        /\ Read = es * SEG + bx - SEG
    BY <1>0, <1>1, ReadingFacts
  <1>3. head \in {0, 1} /\ track \in Nat /\ es >= 1 /\ es < ENDSEG
    BY <1>1, Sizes DEF BootInv, TypeOK, Reading
  <1>4. sectors' = sectors
    BY DEF read_track
  <1>5. /\ sread' = IF sread + n = sectors THEN 0 ELSE sread + n
        /\ head' = IF sread + n = sectors THEN 1 - head ELSE head
        /\ track' = IF sread + n = sectors /\ head = 1 THEN track + 1 ELSE track
        /\ bx' = (bx + n) % SEG
        /\ es' = IF bx + n >= SEG THEN es + 1 ELSE es
    BY <1>0 DEF read_track, Position
  <1>6. /\ es' * SEG + bx' = es * SEG + bx + n
        /\ es' \in 1..ENDSEG /\ bx' \in 0..(SEG - 1)
        /\ es' = ENDSEG => bx' = 0
    <2>1. CASE bx + n = SEG
      <3>1. bx' = 0 /\ es' = es + 1
        BY <2>1, <1>5, Sizes
      <3>2. (es + 1) * SEG = es * SEG + SEG
        BY <1>2, NextSegment
      <3>3. es' * SEG + bx' = es * SEG + SEG
        BY <3>1, <3>2, <1>2, Sizes
      <3>4. es' \in 1..ENDSEG /\ bx' \in 0..(SEG - 1)
        BY <3>1, <1>2, <1>3, Sizes
      <3>5. es * SEG + bx + n = es * SEG + SEG
        BY <2>1, <1>2, Sizes
      <3> QED
        BY <3>1, <3>3, <3>4, <3>5
    <2>2. CASE bx + n < SEG
      <3>1. bx' = bx + n
        BY <2>2, <1>2, <1>5, Sizes
      <3>2. es' = es
        BY <2>2, <1>2, <1>5, Sizes
      <3>3. es' \in 1..ENDSEG /\ bx' \in 0..(SEG - 1) /\ es' # ENDSEG
        BY <3>1, <3>2, <2>2, <1>2, <1>3, Sizes
      <3> QED
        BY <3>1, <3>2, <3>3, <1>2
    <2> QED
      BY <2>1, <2>2, <1>2, Sizes
  <1>7. Read' = Read + n
    <2>1. PICK a \in Int : a = es * SEG /\ a \in Nat
      BY <1>2
    <2>2. PICK c \in Int : c = es' * SEG
      <3>1. es' \in Int /\ SEG \in Int
        BY <1>6, Sizes
      <3>2. es' * SEG \in Int
        BY <3>1
      <3> QED
        BY <3>2
    <2>3. PICK x \in Int : x = bx' /\ c + x = a + bx + n
      BY <2>1, <2>2, <1>6, Sizes
    <2>4. Read' = c + x - SEG
      BY <2>2, <2>3, SegmentsInOrder DEF Read
    <2>5. Read = a + bx - SEG
      BY <2>1, <1>2
    <2>6. bx \in Int
      BY <1>2
    <2>7. SEG \in Int
      BY Sizes
    <2>8. c + x = a + bx + n
      BY <2>3
    <2>9. c + x - SEG = a + bx + n - SEG
      BY <2>6, <2>7, <2>8
    <2> QED
      BY <2>4, <2>5, <2>6, <2>7, <2>9
  <1>8. /\ Disk(track, head, sread)' = Disk(track, head, sread) + n
        /\ sread' \in 0..(sectors - 1)
        /\ head' \in {0, 1} /\ track' \in Nat
    <2>1. CASE sread + n < sectors
      <3>1. sread' = sread + n /\ head' = head /\ track' = track
        BY <2>1, <1>2, <1>5
      <3>2. (2 * track + head) * sectors \in Nat
        BY <1>2, <1>3, NextTrack
      <3>3. Disk(track, head, sread)' = (2 * track + head) * sectors + (sread + n)
        BY <3>1, <1>4 DEF Disk
      <3> QED
        BY <3>1, <3>2, <3>3, <2>1, <1>2, <1>3 DEF Disk
    <2>2. CASE sread + n = sectors
      <3>1. PICK x \in Nat : x = (2 * track + head) * sectors
        BY <1>2, <1>3, NextTrack
      <3>2. sread' = 0 /\ head' = 1 - head
        BY <2>2, <1>5
      <3>3. Disk(track, head, sread)' = x + sectors
        <4>1. CASE head = 0
          <5>1. head' = 1 /\ track' = track
            BY <4>1, <3>2, <1>5
          <5>2. (2 * track + 1) * sectors = x + sectors
            BY <4>1, <3>1, <1>2, <1>3, NextTrack
          <5>3. Disk(track, head, sread)' = (2 * track + 1) * sectors + 0
            BY <5>1, <3>2, <1>4 DEF Disk
          <5> QED
            BY <5>2, <5>3, <1>2, <3>1
        <4>2. CASE head = 1
          <5>1. head' = 0 /\ track' = track + 1
            BY <4>2, <3>2, <2>2, <1>5
          <5>2. (2 * (track + 1) + 0) * sectors = x + sectors
            BY <4>2, <3>1, <1>2, <1>3, NextTrack
          <5>3. Disk(track, head, sread)' = (2 * (track + 1) + 0) * sectors + 0
            BY <5>1, <3>2, <1>4 DEF Disk
          <5> QED
            BY <5>2, <5>3, <1>2, <3>1
        <4> QED
          BY <4>1, <4>2, <1>3
      <3>4. Disk(track, head, sread) = x + sread
        BY <3>1 DEF Disk
      <3>5. head' \in {0, 1} /\ track' \in Nat /\ sread' \in 0..(sectors - 1)
        BY <3>2, <2>2, <1>2, <1>3, <1>5
      <3> QED
        BY <3>3, <3>4, <3>5, <2>2, <1>2
    <2> QED
      BY <2>1, <2>2, <1>2
  <1>9. Read \in Int
    BY <1>2, Sizes
  <1>10. Disk(track, head, sread)' = 1 + SETUPLEN + Read'
    BY <1>2, <1>7, <1>8, <1>9, Sizes
  <1>11. InStep'
    BY <1>6, <1>10 DEF InStep
  <1> QED
    BY <1>4, <1>6, <1>7, <1>8, <1>11, <1>0, Sizes

\* The loader's steps that do not read the image.
LEMMA OtherStepsKeep ==
    ASSUME BootInv, _start \/ load_setup \/ LoadSetupFails \/ Setup
    PROVE  /\ mem' \in [Blocks -> {EMPTY} \cup Nat]
           /\ UNCHANGED <<sectors, sread, head, track, es, bx, ax>>
           /\ \A k \in Nat : k < INITSEG * SEG => mem'[k] = mem[k]
           /\ load_setup => \A k \in 1..SETUPLEN : mem'[INITSEG * SEG + k] = k
           /\ Setup => \A k \in 1..SETUPLEN : mem'[INITSEG * SEG + k] = mem[INITSEG * SEG + k]
  <1>1. PICK top \in Nat : top = INITSEG * SEG
    BY SegmentsInOrder
  <1>2. mem \in [Blocks -> {EMPTY} \cup Nat] /\ TypeOK
    BY DEF BootInv, TypeOK
  <1>3. \A k \in Nat : k <= top + SETUPLEN => k \in Blocks
    BY <1>1, BlockFacts
  <1>4. top \in Blocks /\ BOOTBLOCK \in Blocks
    BY <1>1, BlockFacts
  <1>5. ASSUME NEW n \in Int, mem' = Loaded(top + 1, n, 1)
        PROVE  /\ mem' \in [Blocks -> {EMPTY} \cup Nat]
               /\ \A k \in Nat : k < top => mem'[k] = mem[k]
               /\ \A k \in 1..SETUPLEN : k <= n => mem'[top + k] = k
    <2>1. PICK b \in Nat : b = top + 1
      OBVIOUS
    <2>0. PICK d \in Nat : d = 1
      OBVIOUS
    <2> DEFINE m == Loaded(b, n, d)
    <2>2. /\ m \in [Blocks -> {EMPTY} \cup Nat]
          /\ \A k \in Blocks : k \in b..(b + n - 1) => m[k] = d + (k - b)
          /\ \A k \in Blocks : k \notin b..(b + n - 1) => m[k] = mem[k]
      BY <1>2, LoadedFacts
    <2>3. mem' = m
      BY <2>0, <2>1, <1>5
    <2> HIDE DEF m
    <2>4. ASSUME NEW k \in Nat, k < top
          PROVE  mem'[k] = mem[k]
      <3>1. k \in Blocks /\ k \notin b..(b + n - 1)
        BY <2>1, <2>4, <1>3, Sizes
      <3> QED
        BY <3>1, <2>2, <2>3
    <2>5. ASSUME NEW k \in 1..SETUPLEN, k <= n
          PROVE  mem'[top + k] = k
      <3>1. PICK j \in Nat : j = top + k
        BY Sizes
      <3>2. j \in Blocks /\ j \in b..(b + n - 1)
        BY <3>1, <2>1, <2>5, <1>3, Sizes
      <3>3. mem'[j] = d + (j - b)
        BY <3>2, <2>2, <2>3
      <3>4. d + (j - b) = k
        BY <2>0, <3>1, <2>1, Sizes
      <3> QED
        BY <3>1, <3>3, <3>4
    <2> QED
      BY <2>2, <2>3, <2>4, <2>5
  <1>6. ASSUME NEW v \in {EMPTY} \cup Nat, mem' = [mem EXCEPT ![top] = v]
        PROVE  /\ mem' \in [Blocks -> {EMPTY} \cup Nat]
               /\ \A k \in Nat : k < top => mem'[k] = mem[k]
               /\ \A k \in 1..SETUPLEN : mem'[top + k] = mem[top + k]
    <2>1. \A k \in Blocks : k # top => mem'[k] = mem[k]
      BY <1>2, <1>6
    <2>2. \A k \in Nat : k < top => k \in Blocks /\ k # top
      BY <1>3, Sizes
    <2>3. \A k \in 1..SETUPLEN : top + k \in Blocks /\ top + k # top
      BY <1>3, Sizes
    <2> QED
      BY <1>2, <1>4, <1>6, <2>1, <2>2, <2>3
  <1>7. CASE _start
    <2>1. mem[BOOTBLOCK] \in {EMPTY} \cup Nat
      BY <1>2, <1>4
    <2> QED
      BY <2>1, <1>1, <1>6, <1>7 DEF _start, load_setup, Setup
  <1>8. CASE load_setup
    <2>1. mem' = Loaded(top + 1, SETUPLEN, 1)
      BY <1>1, <1>8 DEF load_setup
    <2> QED
      BY <2>1, <1>1, <1>5, <1>8, Sizes DEF load_setup, Setup
  <1>9. CASE LoadSetupFails
    <2>1. PICK n \in 0..(SETUPLEN - 1) : mem' = Loaded(top + 1, n, 1)
      BY <1>1, <1>9 DEF LoadSetupFails
    <2>2. pc' = "load_setup"
      BY <1>9 DEF LoadSetupFails
    <2> QED
      BY <2>1, <2>2, <1>1, <1>5, <1>9, Sizes DEF LoadSetupFails, load_setup, Setup
  <1>10. CASE Setup
    <2>1. mem' = [mem EXCEPT ![top] = EMPTY]
      BY <1>1, <1>10 DEF Setup
    <2> QED
      BY <2>1, <1>1, <1>6, <1>10 DEF load_setup, Setup
  <1> QED
    BY <1>7, <1>8, <1>9, <1>10

\* A move of 64KB takes segment ax + 1 to segment ax and nothing else.
LEMMA MoveFacts ==
    ASSUME BootInv, do_move, ax + 1 # INITSEG
    PROVE  /\ mem' \in [Blocks -> {EMPTY} \cup Nat]
           /\ ax \in Nat /\ ax + 1 < INITSEG /\ ax * SEG \in Nat
           /\ ax * SEG + 2 * SEG <= INITSEG * SEG
           /\ \A k \in Blocks : ax * SEG <= k /\ k < ax * SEG + SEG => mem'[k] = mem[k + SEG]
           /\ \A k \in Blocks : ~ (ax * SEG <= k /\ k < ax * SEG + SEG) => mem'[k] = mem[k]
  <1>1. ax \in Nat /\ ax + 1 < INITSEG
    BY Sizes DEF BootInv, TypeOK
  <1>2. PICK p \in Nat : p = ax * SEG /\ p + 2 * SEG <= INITSEG * SEG
    BY <1>1, SegmentsInOrder
  <1>3. PICK top \in Nat : top = INITSEG * SEG
    BY SegmentsInOrder
  <1>4. mem' = [b \in Blocks |-> IF b \in p..(p + SEG - 1) THEN mem[b + SEG] ELSE mem[b]]
    BY <1>2 DEF do_move
  <1>5. \A b \in Blocks : b \in Nat
    BY <1>3, Sizes DEF Blocks
  <1>6. \A b \in Blocks : b \in p..(p + SEG - 1) <=> p <= b /\ b < p + SEG
    BY <1>5, Sizes
  <1>7. \A b \in Blocks : b \in p..(p + SEG - 1) => b + SEG \in Blocks
    <2> SUFFICES ASSUME NEW b \in Blocks, b \in p..(p + SEG - 1)
                 PROVE  b + SEG \in Blocks
      OBVIOUS
    <2>1. b + SEG \in Nat /\ b + SEG <= top
      BY <1>2, <1>3, <1>5, Sizes
    <2> QED
      BY <2>1, <1>3, BlockFacts, Sizes
  <1>8. mem \in [Blocks -> {EMPTY} \cup Nat]
    BY DEF BootInv, TypeOK
  <1>9. mem' \in [Blocks -> {EMPTY} \cup Nat]
    BY <1>4, <1>7, <1>8
  <1>10. \A k \in Blocks : p <= k /\ k < p + SEG => mem'[k] = mem[k + SEG]
    BY <1>4, <1>6
  <1>11. \A k \in Blocks : ~ (p <= k /\ k < p + SEG) => mem'[k] = mem[k]
    BY <1>4, <1>6
  <1> QED
    BY <1>1, <1>2, <1>9, <1>10, <1>11

\* Where sector k of the image is, when p blocks have been moved down.
Place(k, p) == IF k < p THEN k ELSE k + SEG

LEMMA MoveKeeps ==
    ASSUME BootInv, do_move
    PROVE  BootInv'
  <1>1. pc = "do_move" /\ UNCHANGED <<sectors, sread, head, track, es, bx>>
    BY DEF do_move
  <1>2. Read' = Read /\ InStep'
    BY <1>1 DEF BootInv, InStep, Read, Disk
  <1>3. CASE ax + 1 = INITSEG
    <2>1. pc' = "system" /\ UNCHANGED <<mem, ax>>
      BY <1>3 DEF do_move
    <2>2. TypeOK'
      BY <2>1, <1>1 DEF BootInv, TypeOK
    <2>3. Loading' /\ SetupInPlace'
      BY <2>1, <1>1 DEF BootInv, Loading, SetupInPlace
    <2>4. Moving'
      BY <2>1, <1>1, <1>3 DEF BootInv, Moving, Holds
    <2> QED
      BY <1>2, <2>2, <2>3, <2>4 DEF BootInv
  <1>4. CASE ax + 1 # INITSEG
    <2>1. pc' = pc /\ ax' = ax + 1
      BY <1>4 DEF do_move
    <2>2. TypeOK'
      BY <2>1, <1>1, <1>4, MoveFacts, Sizes DEF BootInv, TypeOK
    <2>3. PICK p \in Nat : p = ax * SEG
      BY <1>4, MoveFacts
    <2>4. PICK top \in Nat : top = INITSEG * SEG
      BY SegmentsInOrder
    <2>5. /\ p + 2 * SEG <= top
          /\ \A k \in Blocks : p <= k /\ k < p + SEG => mem'[k] = mem[k + SEG]
          /\ \A k \in Blocks : ~ (p <= k /\ k < p + SEG) => mem'[k] = mem[k]
      BY <1>4, <2>3, <2>4, MoveFacts
    <2>6. ax' * SEG = p + SEG
      BY <1>4, <2>1, <2>3, MoveFacts, NextSegment
    <2>7. PICK size \in Nat : size = ImageSize /\ size + SEG <= top
      BY <2>4, SegmentsInOrder, Sizes
    <2>8. \A k \in Nat : k <= top + SETUPLEN => k \in Blocks
      BY <2>4, BlockFacts
    <2>9. SetupInPlace'
      <3> SUFFICES ASSUME NEW k \in 1..SETUPLEN
                   PROVE  mem'[top + k] = k
        BY <2>4 DEF SetupInPlace
      <3>1. mem[top + k] = k
        BY <1>1, <2>4 DEF BootInv, SetupInPlace
      <3>2. PICK j \in Nat : j = top + k
        BY Sizes
      <3>3. j \in Blocks /\ ~ (j < p + SEG)
        BY <3>2, <2>5, <2>8, Sizes
      <3> QED
        BY <3>1, <3>2, <3>3, <2>5
    <2>10. \A k \in 0..(size - 1) : mem[Place(k, p)] = 1 + SETUPLEN + k
      BY <1>1, <2>3, <2>7 DEF BootInv, Moving, Holds, Place
    <2>11. ASSUME NEW k \in 0..(size - 1)
           PROVE  mem'[Place(k, p + SEG)] = 1 + SETUPLEN + k
      <3>1. k \in Nat /\ k < size
        BY <2>7
      <3>2. k \in Blocks /\ k + SEG \in Blocks
        BY <3>1, <2>7, <2>8, Sizes
      <3>3. mem[Place(k, p)] = 1 + SETUPLEN + k
        BY <2>10
      <3>4. CASE k < p
        <4>1. Place(k, p) = k /\ Place(k, p + SEG) = k
          BY <3>1, <3>4, Sizes DEF Place
        <4>2. mem'[k] = mem[k]
          BY <3>1, <3>2, <3>4, <2>5
        <4> QED
          BY <3>3, <4>1, <4>2
      <3>5. CASE p <= k /\ k < p + SEG
        <4>1. Place(k, p) = k + SEG /\ Place(k, p + SEG) = k
          BY <3>1, <3>5, Sizes DEF Place
        <4>2. mem'[k] = mem[k + SEG]
          BY <3>2, <3>5, <2>5
        <4> QED
          BY <3>3, <4>1, <4>2
      <3>6. CASE p + SEG <= k
        <4>1. PICK j \in Blocks : j = k + SEG
          BY <3>2
        <4>2. Place(k, p) = j /\ Place(k, p + SEG) = j
          BY <3>1, <3>6, <4>1, Sizes DEF Place
        <4>3. ~ (j < p + SEG)
          BY <3>1, <3>6, <4>1, Sizes
        <4>4. mem'[j] = mem[j]
          BY <4>3, <2>5
        <4> QED
          BY <3>3, <4>2, <4>4
      <3> QED
        BY <3>1, <3>4, <3>5, <3>6, Sizes
    <2>12. PICK q \in Nat : q = p + SEG
      BY Sizes
    <2>13. Moving'
      BY <2>1, <2>6, <2>7, <2>11, <2>12, <1>1 DEF Moving, Holds, Place
    <2>14. Loading'
      BY <2>1, <1>1 DEF Loading
    <2> QED
      BY <1>2, <2>2, <2>9, <2>13, <2>14 DEF BootInv
  <1> QED
    BY <1>3, <1>4

LEMMA ReadTrackKeeps ==
    ASSUME BootInv, read_track
    PROVE  BootInv'
  <1>1. Reading /\ mem' = Loaded(es * SEG + bx, Count, Disk(track, head, sread))
        /\ pc = "read_it" /\ pc' = pc /\ sectors' = sectors /\ ax' = ax
    BY DEF read_track, Reading
  <1>2. PICK n \in Nat : n = Count
    BY <1>1, ReadingFacts
  <1>3. PICK r \in Nat : r = Read
    BY <1>1, ReadingFacts, Sizes
  <1>4. Read' = r + n /\ InStep'
    BY <1>2, <1>3, ReadAdvances
  <1>5. TypeOK'
    <2>1. mem' \in [Blocks -> {EMPTY} \cup Nat]
      BY <1>1, <1>2, ReadKeeps
    <2> QED
      BY <2>1, <1>1, ReadAdvances DEF BootInv, TypeOK
  <1>6. /\ \A k \in Nat : k < SEG + r => mem'[k] = mem[k]
        /\ \A k \in 1..SETUPLEN : mem'[INITSEG * SEG + k] = k
        /\ \A k \in Nat : r <= k /\ k < r + n => mem'[SEG + k] = 1 + SETUPLEN + k
    BY <1>1, <1>2, <1>3, ReadKeeps
  <1>7. \A k \in 0..(r - 1) : mem[SEG + k] = 1 + SETUPLEN + k
    BY <1>1, <1>3, SegmentsInOrder DEF BootInv, Loading, Holds
  <1>8. \A k \in 0..(r + n - 1) : mem'[SEG + k] = 1 + SETUPLEN + k
    <2> SUFFICES ASSUME NEW k \in 0..(r + n - 1)
                 PROVE  mem'[SEG + k] = 1 + SETUPLEN + k
      OBVIOUS
    <2>1. CASE k < r
      <3>1. PICK j \in Nat : j = SEG + k
        BY Sizes
      <3>2. j < SEG + r
        BY <3>1, <2>1, Sizes
      <3>3. mem'[j] = mem[j]
        BY <3>2, <1>6
      <3>4. k \in 0..(r - 1)
        BY <2>1
      <3> QED
        BY <3>1, <3>3, <3>4, <1>7
    <2>2. CASE r <= k
      <3>1. k \in Nat /\ k < r + n
        OBVIOUS
      <3> QED
        BY <3>1, <2>2, <1>6
    <2> QED
      BY <2>1, <2>2
  <1>9. Loading'
    BY <1>1, <1>4, <1>8, SegmentsInOrder DEF BootInv, Loading, Holds
  <1>10. SetupInPlace' /\ Moving'
    BY <1>1, <1>6 DEF SetupInPlace, Moving
  <1> QED
    BY <1>4, <1>5, <1>9, <1>10 DEF BootInv

LEMMA FailedReadKeeps ==
    ASSUME BootInv, bad_rt
    PROVE  BootInv'
  <1>1. Reading /\ pc = "read_it"
        /\ UNCHANGED <<pc, sectors, sread, head, track, es, bx, ax>>
    BY DEF bad_rt, Reading
  <1>2. PICK n \in Int : n <= Count /\ mem' = Loaded(es * SEG + bx, n, Disk(track, head, sread))
    <2>1. Readable /\ Count \in Nat
      BY <1>1, ReadingFacts
    <2>2. PICK n \in 0..(Count - 1) : mem' = Loaded(es * SEG + bx, n, Disk(track, head, sread))
      BY <2>1 DEF bad_rt
    <2>3. n \in Int /\ n <= Count
      BY <2>1
    <2> QED
      BY <2>2, <2>3
  <1>3. /\ mem' \in [Blocks -> {EMPTY} \cup Nat]
        /\ \A k \in Nat : k < SEG + Read => mem'[k] = mem[k]
        /\ \A k \in 1..SETUPLEN : mem'[INITSEG * SEG + k] = k
    BY <1>1, <1>2, ReadKeeps
  <1>4. TypeOK'
    BY <1>1, <1>3 DEF BootInv, TypeOK
  <1>5. SetupInPlace'
    BY <1>3 DEF SetupInPlace
  <1> QED
    BY <1>1, <1>3, <1>4, <1>5, LoadingKept

LEMMA BootNext == BootInv /\ [Next]_vars => BootInv'
  <1> SUFFICES ASSUME BootInv, [Next]_vars
               PROVE  BootInv'
    OBVIOUS
  <1>1. TypeOK /\ Read \in Int /\ SEG + Read <= INITSEG * SEG
    <2>1. es \in Nat /\ es <= ENDSEG /\ bx \in Nat /\ bx < SEG /\ (es = ENDSEG => bx = 0)
      BY Sizes DEF BootInv, TypeOK, InStep
    <2>2. PICK x \in Nat : x = es * SEG
      BY <2>1, Sizes, Monotone
    <2>3. PICK top \in Nat : top = INITSEG * SEG
      BY SegmentsInOrder
    <2>4. x + bx <= top
      <3>1. CASE es = ENDSEG
        BY <3>1, <2>1, <2>2, <2>3, SegmentsInOrder
      <3>2. CASE es # ENDSEG
        <4>1. es < ENDSEG
          BY <3>2, <2>1, Sizes
        <4>2. x + SEG <= ENDSEG * SEG
          BY <4>1, <2>1, <2>2, SegmentsInOrder
        <4>3. PICK e \in Nat : e = ENDSEG * SEG /\ e <= top
          BY <2>3, SegmentsInOrder
        <4> QED
          BY <4>2, <4>3, <2>1, Sizes
      <3> QED
        BY <3>1, <3>2
    <2>5. Read = x + bx - SEG
      BY <2>2, SegmentsInOrder DEF Read
    <2> QED
      BY <2>1, <2>2, <2>3, <2>4, <2>5, Sizes DEF BootInv
  <1>2. \A k \in Nat : k < SEG + Read => k < INITSEG * SEG
    BY <1>1, SegmentsInOrder, Sizes
  <1>3. CASE _start \/ load_setup \/ LoadSetupFails
    <2>1. /\ pc \in {"_start", "load_setup"}
          /\ pc' \in {"load_setup", "read_it"}
          /\ pc' = "read_it" => load_setup
      BY <1>3 DEF _start, load_setup, LoadSetupFails
    <2>2. TypeOK'
      BY <2>1, <1>1, <1>3, OtherStepsKeep DEF TypeOK
    <2>3. SetupInPlace'
      BY <2>1, <1>3, OtherStepsKeep DEF SetupInPlace
    <2>4. \A k \in Nat : k < SEG + Read => mem'[k] = mem[k]
      BY <1>2, <1>3, OtherStepsKeep
    <2> QED
      BY <2>1, <2>2, <2>3, <2>4, <1>3, OtherStepsKeep, LoadingKept
  <1>4. CASE Setup
    <2>1. pc = "read_it" /\ es >= ENDSEG /\ pc' = "do_move"
      BY <1>4 DEF Setup
    <2>2. /\ mem' \in [Blocks -> {EMPTY} \cup Nat]
          /\ UNCHANGED <<sectors, sread, head, track, es, bx, ax>>
          /\ \A k \in Nat : k < INITSEG * SEG => mem'[k] = mem[k]
          /\ \A k \in 1..SETUPLEN : mem'[INITSEG * SEG + k] = mem[INITSEG * SEG + k]
      BY <1>4, OtherStepsKeep
    <2>3. TypeOK'
      BY <2>1, <2>2, <1>1 DEF TypeOK
    <2>4. InStep'
      BY <2>2 DEF BootInv, InStep, Disk, Read
    <2>5. SetupInPlace'
      BY <2>1, <2>2 DEF BootInv, SetupInPlace
    <2>6. es = ENDSEG /\ bx = 0
      BY <2>1, Sizes DEF BootInv, TypeOK, InStep
    <2>7. Read = ImageSize
      <3>1. PICK e \in Nat : e = ENDSEG * SEG /\ ImageSize = e - SEG
        BY SegmentsInOrder
      <3>2. Read = e + 0 - SEG
        BY <3>1, <2>6, SegmentsInOrder DEF Read
      <3> QED
        BY <3>1, <3>2, Sizes
    <2>8. PICK size \in Nat : size = ImageSize /\ SEG + size <= INITSEG * SEG
      BY SegmentsInOrder, Sizes
    <2>9. ASSUME NEW k \in 0..(size - 1)
          PROVE  mem'[k + SEG] = 1 + SETUPLEN + k
      <3>1. PICK j \in Nat : j = k + SEG
        BY Sizes
      <3>2. j < INITSEG * SEG
        BY <3>1, <2>8, SegmentsInOrder, Sizes
      <3>3. mem'[j] = mem[j]
        BY <3>2, <2>2
      <3>4. SYSSEG * SEG + k = j
        BY <3>1, SegmentsInOrder, Sizes
      <3>5. mem[SYSSEG * SEG + k] = 1 + SETUPLEN + k
        BY <2>1, <2>7, <2>8 DEF BootInv, Loading, Holds
      <3> QED
        BY <3>1, <3>3, <3>4, <3>5
    <2>10. ax' * SEG = 0
      BY <2>1, <2>2, Sizes DEF BootInv, Loading
    <2>11. Moving'
      BY <2>1, <2>8, <2>9, <2>10 DEF Moving, Holds
    <2>12. Loading'
      BY <2>1 DEF Loading
    <2> QED
      BY <2>3, <2>4, <2>5, <2>11, <2>12 DEF BootInv
  <1>5. CASE UNCHANGED vars
    BY <1>5 DEF vars, BootInv, TypeOK, InStep, Disk, Read, Loading, Holds, SetupInPlace, Moving
  <1> QED
    BY <1>3, <1>4, <1>5, ReadTrackKeeps, FailedReadKeeps, MoveKeeps DEF Next

\* The inductive invariant holds in every state of the loader.
THEOREM BootCorrect == Spec => []BootInv
  BY BootInit, BootNext, PTL DEF Spec

\* The loader's registers stay in range; the position on the disk is always
\* one the floppy has.
THEOREM BootTypeCorrect == Spec => []TypeOK
  <1>1. BootInv => TypeOK
    BY DEF BootInv
  <1> QED
    BY <1>1, BootCorrect, PTL

\* bootsect.s and setup.s leave the whole image at address 0, sector after
\* sector, for any number of sectors per track and whatever reads fail.
THEOREM ImageArrives == Spec => []SystemInPlace
  <1>1. BootInv => SystemInPlace
    <2> SUFFICES ASSUME BootInv, pc = "system"
                 PROVE  /\ \A k \in 0..((ENDSEG - SYSSEG) * SEG - 1) : mem[k] = 1 + SETUPLEN + k
                        /\ \A k \in 1..SETUPLEN : mem[INITSEG * SEG + k] = k
      BY DEF SystemInPlace
    <2>1. ax \in Nat /\ ENDSEG <= ax + 1 /\ ax + 1 = INITSEG
      BY Sizes DEF BootInv, TypeOK, Moving
    <2>2. PICK p \in Nat : p = ax * SEG
      BY <2>1, Sizes
    <2>3. p + SEG = INITSEG * SEG
      BY <2>1, <2>2, NextSegment
    <2>4. PICK size \in Nat : size = ImageSize /\ size <= p
      BY <2>2, <2>3, SegmentsInOrder, Sizes
    <2>5. \A k \in 0..(size - 1) : k < p
      BY <2>4
    <2>6. \A k \in 0..(size - 1) : mem[k] = 1 + SETUPLEN + k
      BY <2>2, <2>4, <2>5 DEF BootInv, Moving, Holds
    <2> QED
      BY <2>4, <2>6 DEF ImageSize, BootInv, SetupInPlace
  <1> QED
    BY <1>1, BootCorrect, PTL

-----------------------------------------------------------------------------
(* The kernel's start.                                                     *)

\* The start of the kernel leaves the loader's work alone: composed with it,
\* the loader is the one specified on its own.
THEOREM StartupBoots == StartupSpec => Spec
  <1>1. StartupInit => Init
    BY DEF StartupInit
  <1>2. [StartupNext]_<<vars, kernel>> => [Next]_vars
    BY DEF StartupNext, vars
  <1> QED
    BY <1>1, <1>2, PTL DEF StartupSpec, Spec

LEMMA CallsFacts ==
    /\ main_calls \in Seq(Calls) /\ Len(main_calls) = 9
    /\ main_calls[1] = "video_init" /\ main_calls[2] = "trap_init"
    /\ main_calls[3] = "sched_init" /\ main_calls[4] = "mem_init"
    /\ main_calls[5] = "tty_init" /\ main_calls[6] = "sti"
    /\ main_calls[7] = "printk" /\ main_calls[8] = "printk"
    /\ main_calls[9] = "move_to_user_mode"
  <1>1. ASSUME NEW C, C = <<"video_init", "trap_init", "sched_init", "mem_init", "tty_init",
                            "sti", "printk", "printk", "move_to_user_mode">>
        PROVE  /\ C \in Seq(Calls) /\ Len(C) = 9
               /\ C[1] = "video_init" /\ C[2] = "trap_init" /\ C[3] = "sched_init"
               /\ C[4] = "mem_init" /\ C[5] = "tty_init" /\ C[6] = "sti"
               /\ C[7] = "printk" /\ C[8] = "printk" /\ C[9] = "move_to_user_mode"
    <2>1. Len(C) = 9
      BY <1>1
    <2>2. /\ C[1] = "video_init" /\ C[2] = "trap_init" /\ C[3] = "sched_init"
          /\ C[4] = "mem_init" /\ C[5] = "tty_init"
      BY <1>1
    <2>3. C[6] = "sti" /\ C[7] = "printk" /\ C[8] = "printk" /\ C[9] = "move_to_user_mode"
      BY <1>1
    <2>4. C \in Seq(Calls)
      BY <1>1 DEF Calls
    <2> QED
      BY <2>1, <2>2, <2>3, <2>4
  <1> QED
    BY <1>1 DEF main_calls

\* Which call of main() is next says which ones have been made.
LEMMA CallingFacts ==
    ASSUME InOrder, NEW c, Calling(c)
    PROVE  /\ stage = "main" /\ halted = "no"
           /\ calls' \in Seq(Calls) /\ Len(calls) \in 1..9
           /\ Len(calls') = Len(calls) - 1
           /\ \A i \in 1..Len(calls') : calls'[i] = main_calls[9 - Len(calls') + i]
           /\ main_calls[10 - Len(calls)] = c
           /\ UNCHANGED <<irr, isr, context>>
  <1>1. /\ calls \in Seq(Calls) /\ Len(calls) <= 9 /\ calls # <<>>
        /\ \A i \in 1..Len(calls) : calls[i] = main_calls[9 - Len(calls) + i]
        /\ calls' = Tail(calls) /\ Head(calls) = c
    BY CallsFacts DEF InOrder, Calling
  <1>2. Len(calls) \in 1..9
    <2>1. Len(calls) \in Nat
      BY <1>1
    <2>2. Len(calls) # 0
      BY <1>1
    <2>3. PICK n \in Nat : n = Len(calls)
      BY <2>1
    <2>4. n <= 9 /\ n # 0
      BY <1>1, <2>2, <2>3
    <2>5. n \in 1..9
      BY <2>4
    <2> QED
      BY <2>3, <2>5
  <1>3. /\ calls' \in Seq(Calls) /\ Len(calls') = Len(calls) - 1
        /\ \A i \in 1..Len(calls') : calls'[i] = calls[i + 1]
    BY <1>1
  <1>4. calls[1] = c
    <2>1. Head(calls) = calls[1]
      BY <1>1
    <2> QED
      BY <2>1, <1>1
  <1>5. main_calls[10 - Len(calls)] = c
    <2>1. PICK n \in 1..9 : n = Len(calls)
      BY <1>2
    <2>2. 9 - n + 1 = 10 - n /\ 1 \in 1..n
      OBVIOUS
    <2>3. calls[1] = main_calls[9 - n + 1]
      BY <2>1, <2>2, <1>1
    <2> QED
      BY <2>1, <2>2, <2>3, <1>4
  <1>6. ASSUME NEW i \in 1..Len(calls')
        PROVE  calls'[i] = main_calls[9 - Len(calls') + i]
    <2>1. PICK n \in 1..9 : n = Len(calls) /\ Len(calls') = n - 1
      BY <1>2, <1>3
    <2>2. i \in 1..(n - 1)
      BY <2>1
    <2>3. i + 1 \in 1..n /\ 9 - n + (i + 1) = 9 - (n - 1) + i
      BY <2>2
    <2>4. calls[i + 1] = main_calls[9 - n + (i + 1)] /\ calls'[i] = calls[i + 1]
      BY <2>1, <2>3, <1>1, <1>3
    <2> QED
      BY <2>1, <2>3, <2>4
  <1> QED
    BY <1>2, <1>3, <1>5, <1>6 DEF Calling

LEMMA StartupInitially == StartupInit => KernelInv /\ context = "intact"
  <1> SUFFICES ASSUME StartupInit
               PROVE  KernelInv /\ context = "intact"
    OBVIOUS
  <1>1. calls = main_calls /\ Len(calls) = 9 /\ Len(main_calls) = 9
    BY CallsFacts DEF StartupInit
  <1>2. InOrder
    BY <1>1, CallsFacts DEF StartupInit, InOrder, Stages
  <1>3. InPlace
    BY <1>1 DEF StartupInit, InPlace, Made
  <1> QED
    BY <1>1, <1>2, <1>3 DEF StartupInit, KernelInv, OpenLate, InterruptsServed

\* The parts of the invariant that a step of main() may disturb.
LEMMA MainInOrder == InOrder /\ main => InOrder'
  <1> SUFFICES ASSUME InOrder, main
               PROVE  InOrder'
    OBVIOUS
  <1>1. PICK c : Calling(c)
    BY Zenon DEF main, video_init, trap_init, sched_init, mem_init, tty_init, sti, printk,
                 move_to_user_mode
  <1>2. /\ stage = "main" /\ calls' \in Seq(Calls) /\ Len(calls) \in 1..9
        /\ Len(calls') = Len(calls) - 1
        /\ \A i \in 1..Len(calls') : calls'[i] = main_calls[9 - Len(calls') + i]
        /\ main_calls[10 - Len(calls)] = c
    BY <1>1, CallingFacts
  <1>3. stage' = "main" \/ (stage' = "user" /\ calls' = <<>>)
    <2>1. CASE move_to_user_mode
      <3>1. /\ stage' = "user"
            /\ Calling("move_to_user_mode")
        BY <2>1 DEF move_to_user_mode
      <3>2. main_calls[10 - Len(calls)] = "move_to_user_mode"
        BY <3>1, CallingFacts
      <3>3. 10 - Len(calls) = 9
        <4>1. PICK n \in 1..9 : n = Len(calls)
          BY <1>2
        <4>3. 10 - n \in 1..9
          OBVIOUS
        <4>2. \A i \in 1..9 : i = 1 \/ i = 2 \/ i = 3 \/ i = 4 \/ i = 5 \/ i = 6 \/ i = 7 \/ i = 8 \/ i = 9
          OBVIOUS
        <4> QED
          BY <4>1, <4>2, <4>3, <3>2, CallsFacts
      <3>4. Len(calls') = 0
        BY <3>3, <1>2
      <3> QED
        BY <3>1, <3>4, <1>2
    <2>2. CASE ~ move_to_user_mode
      BY <2>2, <1>2 DEF main, video_init, trap_init, sched_init, mem_init, tty_init, sti, printk
    <2> QED
      BY <2>1, <2>2
  <1> QED
    BY <1>2, <1>3, CallsFacts DEF InOrder, Stages

\* The number of every call.
LEMMA CallNumber ==
    ASSUME InOrder, NEW c, Calling(c)
    PROVE  /\ c = "video_init" => Len(calls) = 9 /\ Len(calls') = 8
           /\ c = "trap_init" => Len(calls) = 8 /\ Len(calls') = 7
           /\ c = "sched_init" => Len(calls) = 7 /\ Len(calls') = 6
           /\ c = "mem_init" => Len(calls) = 6 /\ Len(calls') = 5
           /\ c = "tty_init" => Len(calls) = 5 /\ Len(calls') = 4
           /\ c = "sti" => Len(calls) = 4 /\ Len(calls') = 3
           /\ c = "printk" => Len(calls) \in {2, 3} /\ Len(calls') \in {1, 2}
           /\ c = "move_to_user_mode" => Len(calls) = 1 /\ Len(calls') = 0
  <1>1. PICK n \in 1..9 : n = Len(calls) /\ Len(calls') = n - 1 /\ main_calls[10 - n] = c
    BY CallingFacts
  <1>2. PICK m \in 1..9 : m = 10 - n
    <2>1. 10 - n \in 1..9
      OBVIOUS
    <2> QED
      BY <2>1
  <1>3. main_calls[m] = c /\ n = 10 - m /\ Len(calls') = 9 - m
    BY <1>1, <1>2
  <1>4. m = 1 \/ m = 2 \/ m = 3 \/ m = 4 \/ m = 5 \/ m = 6 \/ m = 7 \/ m = 8 \/ m = 9
    OBVIOUS
  <1>5. /\ c = "video_init" => m = 1
        /\ c = "trap_init" => m = 2
        /\ c = "sched_init" => m = 3
        /\ c = "mem_init" => m = 4
        /\ c = "tty_init" => m = 5
        /\ c = "sti" => m = 6
        /\ c = "printk" => m = 7 \/ m = 8
        /\ c = "move_to_user_mode" => m = 9
    BY <1>3, <1>4, CallsFacts
  <1> QED
    BY <1>1, <1>3, <1>5

\* What a call that leaves the gates alone, and takes nothing from what is
\* ready, must show: that it is not the one that puts something in place.
LEMMA GatesKept ==
    ASSUME InPlace, idt' = idt, ready \subseteq ready',
           Made(2)' => Made(2), Made(3)' => Made(3), Made(5)' => Made(5)
    PROVE  InPlace'
  BY DEF InPlace

LEMMA MadeFacts ==
    ASSUME NEW n \in 1..9
    PROVE  Made(n) <=> Len(calls) <= 9 - n
  BY CallsFacts DEF Made

LEMMA MadeNextFacts ==
    ASSUME NEW n \in 1..9
    PROVE  Made(n)' <=> Len(calls') <= 9 - n
  BY CallsFacts DEF Made, main_calls

LEMMA MainInPlace == InOrder /\ InPlace /\ main => InPlace'
  <1> SUFFICES ASSUME InOrder, InPlace, main
               PROVE  InPlace'
    OBVIOUS
  <1>1. /\ Made(2) <=> Len(calls) <= 7
        /\ Made(3) <=> Len(calls) <= 6
        /\ Made(5) <=> Len(calls) <= 4
    BY MadeFacts
  <1>2. /\ Made(2)' <=> Len(calls') <= 7
        /\ Made(3)' <=> Len(calls') <= 6
        /\ Made(5)' <=> Len(calls') <= 4
    BY MadeNextFacts
  <1>3. DOMAIN idt = Vectors /\ 32 + TIMER \in Vectors /\ 32 + KEYBOARD \in Vectors
        /\ \A v \in 0..16 : v \in Vectors /\ v # 32 + TIMER /\ v # 32 + KEYBOARD
        /\ 32 + TIMER # 32 + KEYBOARD
    BY DEF InPlace, Vectors, TIMER, KEYBOARD
  <1>4. CASE video_init
    <2>1. Len(calls') = 8
      BY <1>4, CallNumber DEF video_init
    <2>2. ~ Made(2)' /\ ~ Made(3)' /\ ~ Made(5)'
      BY <2>1, <1>2
    <2> QED
      BY <2>2, <1>4 DEF InPlace, video_init
  <1>5. CASE trap_init
    <2>1. Len(calls') = 7
      BY <1>5, CallNumber DEF trap_init
    <2>2. ~ Made(3)' /\ ~ Made(5)'
      BY <2>1, <1>2
    <2>3. /\ DOMAIN idt' = Vectors
          /\ \A v \in Vectors : v <= 16 => idt'[v] = TrapGates[v + 1]
      BY <1>5 DEF trap_init
    <2>4. \A v \in 0..16 : v \in Vectors /\ v <= 16
      BY DEF Vectors
    <2> QED
      BY <2>2, <2>3, <2>4 DEF InPlace
  <1>6. CASE sched_init
    <2>1. Len(calls) = 7 /\ Len(calls') = 6
      BY <1>6, CallNumber DEF sched_init
    <2>2. Made(2) /\ ~ Made(5)'
      BY <2>1, <1>1, <1>2
    <2>3. idt' = [idt EXCEPT ![32 + TIMER] = "timer_interrupt"] /\ "task" \in ready'
      BY <1>6 DEF sched_init
    <2>4. /\ DOMAIN idt' = Vectors /\ idt'[32 + TIMER] = "timer_interrupt"
          /\ \A v \in Vectors : v # 32 + TIMER => idt'[v] = idt[v]
      BY <2>3, <1>3
    <2> QED
      BY <2>2, <2>3, <2>4, <1>3 DEF InPlace
  <1>7. CASE mem_init
    <2>1. Len(calls) = 6 /\ Len(calls') = 5
      BY <1>7, CallNumber DEF mem_init
    <2>2. Made(2) /\ Made(3) /\ ~ Made(5)'
      BY <2>1, <1>1, <1>2
    <2>3. idt' = idt /\ ready \subseteq ready'
      BY <1>7 DEF mem_init
    <2> QED
      BY <2>2, <2>3, GatesKept
  <1>8. CASE tty_init
    <2>1. Len(calls) = 5 /\ Len(calls') = 4
      BY <1>8, CallNumber DEF tty_init
    <2>2. Made(2) /\ Made(3)
      BY <2>1, <1>1
    <2>3. idt' = [idt EXCEPT ![32 + KEYBOARD] = "keyboard_interrupt"]
          /\ ready \subseteq ready' /\ "tty" \in ready'
      BY <1>8 DEF tty_init
    <2>4. /\ DOMAIN idt' = Vectors /\ idt'[32 + KEYBOARD] = "keyboard_interrupt"
          /\ \A v \in Vectors : v # 32 + KEYBOARD => idt'[v] = idt[v]
      BY <2>3, <1>3
    <2> QED
      BY <2>2, <2>3, <2>4, <1>3 DEF InPlace
  <1>9. CASE sti \/ printk \/ move_to_user_mode
    <2>1. Len(calls) \in {1, 2, 3, 4}
      BY <1>9, CallNumber DEF sti, printk, move_to_user_mode
    <2>2. Made(2) /\ Made(3) /\ Made(5)
      BY <2>1, <1>1
    <2>3. idt' = idt /\ ready \subseteq ready'
      BY <1>9 DEF sti, printk, move_to_user_mode
    <2> QED
      BY <2>2, <2>3, GatesKept
  <1> QED
    BY <1>4, <1>5, <1>6, <1>7, <1>8, <1>9 DEF main

LEMMA MainOpensLate ==
    InOrder /\ InPlace /\ OpenLate /\ InterruptsServed /\ main => OpenLate' /\ InterruptsServed'
  <1> SUFFICES ASSUME InOrder, InPlace, OpenLate, InterruptsServed, main
               PROVE  OpenLate' /\ InterruptsServed'
    OBVIOUS
  <1>1. /\ Made(5) <=> Len(calls) <= 4
        /\ Made(6) <=> Len(calls) <= 3
        /\ Made(6)' <=> Len(calls') <= 3
    <2>1. Made(5) <=> Len(calls) <= 4
      BY MadeFacts
    <2>2. Made(6) <=> Len(calls) <= 3
      BY MadeFacts
    <2>3. Made(6)' <=> Len(calls') <= 3
      BY MadeNextFacts
    <2> QED
      BY <2>1, <2>2, <2>3
  <1>2. PICK c : Calling(c)
    BY Zenon DEF main, video_init, trap_init, sched_init, mem_init, tty_init, sti, printk,
                 move_to_user_mode
  <1>3. PICK n \in 1..9 : n = Len(calls) /\ Len(calls') = n - 1
    BY <1>2, CallingFacts
  <1>4. Made(6) => Made(6)'
    BY <1>1, <1>3
  <1>5. irr' = irr /\ isr' = isr
    BY <1>2, CallingFacts
  <1>6. CASE sti
    <2>1. Len(calls') = 3
      BY <1>6, CallNumber DEF sti
    <2> QED
      BY <2>1, <1>1, <1>5, <1>6 DEF sti, OpenLate, InterruptsServed
  <1>7. CASE printk
    <2>1. Len(calls) \in {2, 3} /\ Len(calls') \in {1, 2}
      BY <1>7, CallNumber DEF printk
    <2>2. Made(5) /\ Made(6)'
      <3>1. n \in {2, 3} /\ n - 1 \in {1, 2}
        BY <2>1, <1>3
      <3>2. n <= 4 /\ n - 1 <= 3
        BY <3>1
      <3> QED
        BY <3>2, <1>1, <1>3
    <2>3. "tty" \in ready
      BY <2>2 DEF InPlace
    <2> QED
      BY <2>2, <2>3, <1>5, <1>7 DEF printk, OpenLate, InterruptsServed
  <1>8. CASE video_init \/ trap_init \/ sched_init \/ mem_init \/ tty_init \/ move_to_user_mode
    <2>1. IF_' = IF_ /\ halted' = halted
      BY <1>8 DEF video_init, trap_init, sched_init, mem_init, tty_init, move_to_user_mode
    <2> QED
      BY <2>1, <1>4, <1>5 DEF OpenLate, InterruptsServed
  <1> QED
    BY <1>6, <1>7, <1>8 DEF main

\* An interrupt that gets through finds its own handler and its data.
LEMMA InterruptServed ==
    ASSUME KernelInv, NEW i \in Lines, Interrupt(i)
    PROVE  /\ halted' = "no" /\ isr' = isr /\ irr' = irr \ {i}
           /\ UNCHANGED <<stage, calls, idt, imr, IF_, ready, context>>
  <1>1. Made(6) /\ i \in {TIMER, KEYBOARD}
    BY DEF KernelInv, OpenLate, Interrupt
  <1>2. Made(3) /\ Made(5)
    <2>1. PICK n \in Nat : n = Len(calls)
      BY DEF KernelInv, InOrder
    <2>2. n <= 3
      BY <1>1, <2>1, MadeFacts
    <2> QED
      BY <2>1, <2>2, MadeFacts
  <1>3. CASE i = TIMER
    <2>1. idt[32 + i] = "timer_interrupt" /\ "task" \in ready
      BY <1>2, <1>3 DEF KernelInv, InPlace
    <2> QED
      BY <2>1 DEF Interrupt
  <1>4. CASE i = KEYBOARD
    <2>1. idt[32 + i] = "keyboard_interrupt" /\ "tty" \in ready
      BY <1>2, <1>4 DEF KernelInv, InPlace
    <2> QED
      BY <2>1 DEF Interrupt
  <1> QED
    BY <1>1, <1>3, <1>4

\* What the processor and the entries push and pop.
Words == {"eflags", "cs", "eip", "eax", "ebx", "ecx", "edx", "edi", "esi", "ebp", "ds",
          "es", "fs"}

LEMMA CpuFrameFacts ==
    ASSUME NEW v, v \notin ErrorCodes
    PROVE  /\ CpuFrame(v) = <<"eflags", "cs", "eip">>
           /\ CpuFrame(v) \in Seq(Words) /\ Len(CpuFrame(v)) = 3
  <1>1. ASSUME NEW s, s = <<"eflags", "cs", "eip">>
        PROVE  s \in Seq(Words) /\ Len(s) = 3
    BY <1>1 DEF Words
  <1>2. PICK s : s = <<"eflags", "cs", "eip">>
    OBVIOUS
  <1>3. CpuFrame(v) = s \o <<>>
    BY <1>2 DEF CpuFrame
  <1>4. s \o <<>> = s
    BY <1>1, <1>2, ConcatEmptySeq
  <1> QED
    BY <1>1, <1>2, <1>3, <1>4

\* Ten words that come off in the opposite order leave what was below them.
LEMMA ComesOff ==
    ASSUME NEW f \in Seq(Words), NEW r \in Seq(Words), NEW p, Len(f) = 3, Len(r) = 10,
           \A i \in 1..10 : r[11 - i] = p[i]
    PROVE  /\ Len(f \o r) = 13
           /\ \A i \in 1..10 : (f \o r)[13 + 1 - i] = p[i]
           /\ SubSeq(f \o r, 1, 3) = f
  <1>1. /\ Len(f \o r) = 13
        /\ \A j \in 1..13 : (f \o r)[j] = IF j <= 3 THEN f[j] ELSE r[j - 3]
    <2>1. /\ Len(f \o r) = Len(f) + Len(r)
          /\ \A j \in 1..(Len(f) + Len(r)) :
                (f \o r)[j] = IF j <= Len(f) THEN f[j] ELSE r[j - Len(f)]
      BY ConcatProperties
    <2>2. 3 + 10 = 13
      OBVIOUS
    <2> QED
      BY <2>1, <2>2
  <1>2. ASSUME NEW i \in 1..10
        PROVE  (f \o r)[13 + 1 - i] = p[i]
    <2>1. PICK j \in 1..13 : j = 13 + 1 - i /\ ~ (j <= 3) /\ j - 3 = 11 - i
      <3>1. 13 + 1 - i \in 1..13 /\ ~ (13 + 1 - i <= 3) /\ (13 + 1 - i) - 3 = 11 - i
        OBVIOUS
      <3> QED
        BY <3>1
    <2>2. (f \o r)[j] = r[j - 3]
      BY <2>1, <1>1
    <2> QED
      BY <2>1, <2>2
  <1>3. SubSeq(f \o r, 1, 3) = SubSeq(f, 1, 3)
    <2>1. 1 \in 1..Len(f) /\ 3 \in 1..Len(f)
      OBVIOUS
    <2> QED
      BY <2>1, SubSeqOfConcat1
  <1>4. SubSeq(f, 1, 3) = f
    BY SubSeqFull
  <1> QED
    BY <1>1, <1>2, <1>3, <1>4

LEMMA PlainRestores ==
    ASSUME NEW v, v \notin ErrorCodes, NEW h, h \notin WithErrorCode
    PROVE  Restores(v, h)
  <1>1. PICK r : r = <<"eax", "ebx", "ecx", "edx", "edi", "esi", "ebp", "ds", "es", "fs">>
    OBVIOUS
  <1>2. PICK p : p = <<"fs", "es", "ds", "ebp", "esi", "edi", "edx", "ecx", "ebx", "eax">>
    OBVIOUS
  <1>3. r \in Seq(Words) /\ Len(r) = 10
    BY <1>1 DEF Words
  <1>4. Len(p) = 10
    BY <1>2
  <1>5. \A i \in 1..10 : r[11 - i] = p[i]
    <2>1. /\ r[1] = "eax" /\ r[2] = "ebx" /\ r[3] = "ecx" /\ r[4] = "edx" /\ r[5] = "edi"
          /\ r[6] = "esi" /\ r[7] = "ebp" /\ r[8] = "ds" /\ r[9] = "es" /\ r[10] = "fs"
      BY <1>1
    <2>2. /\ p[1] = "fs" /\ p[2] = "es" /\ p[3] = "ds" /\ p[4] = "ebp" /\ p[5] = "esi"
          /\ p[6] = "edi" /\ p[7] = "edx" /\ p[8] = "ecx" /\ p[9] = "ebx" /\ p[10] = "eax"
      BY <1>2
    <2>3. \A i \in 1..10 : i = 1 \/ i = 2 \/ i = 3 \/ i = 4 \/ i = 5 \/ i = 6 \/ i = 7 \/ i = 8
                             \/ i = 9 \/ i = 10
      OBVIOUS
    <2> QED
      BY <2>1, <2>2, <2>3
  <1>6. PICK f \in Seq(Words) :
           f = CpuFrame(v) /\ Len(f) = 3 /\ f = <<"eflags", "cs", "eip">>
    BY CpuFrameFacts
  <1>7. /\ Len(f \o r) = 13
        /\ \A i \in 1..10 : (f \o r)[13 + 1 - i] = p[i]
        /\ SubSeq(f \o r, 1, 3) = f
    BY <1>3, <1>5, <1>6, ComesOff
  <1>8. Saved(v, h) = f \o r
    BY <1>1, <1>6 DEF Saved
  <1>9. Popped(h) = p
    BY <1>2 DEF Popped
  <1>10. 13 - 10 = 3
    OBVIOUS
  <1> QED
    BY <1>4, <1>6, <1>7, <1>8, <1>9, <1>10 DEF Restores

\* Of the exceptions whose handlers return, those of the debugger go through an
\* entry without an error code.
LEMMA GateFacts ==
    \A v \in (0..16) \ {7, 14, 16} :
        TrapGates[v + 1] \in Returning =>
            v \notin ErrorCodes /\ TrapGates[v + 1] \notin WithErrorCode
  <1> SUFFICES ASSUME NEW v \in (0..16) \ {7, 14, 16}, TrapGates[v + 1] \in Returning
               PROVE  v \notin ErrorCodes /\ TrapGates[v + 1] \notin WithErrorCode
    OBVIOUS
  <1>1. \/ v = 0 \/ v = 1 \/ v = 2 \/ v = 3 \/ v = 4 \/ v = 5 \/ v = 6 \/ v = 8
        \/ v = 9 \/ v = 10 \/ v = 11 \/ v = 12 \/ v = 13 \/ v = 15
    OBVIOUS
  <1>2. ASSUME NEW n \in 1..17, n \notin {2, 4, 8, 15, 17}
        PROVE  TrapGates[n] \notin Returning
    <2>1. n = 1 \/ n = 3 \/ n = 5 \/ n = 6 \/ n = 7
            \/ n = 9 \/ n = 10 \/ n = 11 \/ n = 12 \/ n = 13 \/ n = 14 \/ n = 16
      BY <1>2
    <2>2. CASE n = 1 \/ n = 3 \/ n = 5 \/ n = 6 \/ n = 7 \/ n = 9
      BY <2>2 DEF TrapGates, Returning
    <2>3. CASE n = 10 \/ n = 11 \/ n = 12 \/ n = 13 \/ n = 14 \/ n = 16
      BY <2>3 DEF TrapGates, Returning
    <2> QED
      BY <2>1, <2>2, <2>3
  <1>3. v = 1 \/ v = 3
    <2>1. PICK n \in 1..17 : n = v + 1
      OBVIOUS
    <2>2. n \in {2, 4, 8, 15, 17}
      BY <2>1, <1>2
    <2> QED
      BY <2>1, <2>2
  <1>4. TrapGates[2] = "debug" /\ TrapGates[4] = "int3"
    BY DEF TrapGates
  <1> QED
    BY <1>3, <1>4 DEF ErrorCodes, WithErrorCode

\* The frames of exceptions 7 and 16 are off by a word, so that the theorem on
\* traps below has to leave them out.
LEMMA FpuTrapsBreak ==
    \A v \in {7, 16} : TrapGates[v + 1] \in Returning /\ ~ Restores(v, TrapGates[v + 1])
  <1> SUFFICES ASSUME NEW v \in {7, 16}
               PROVE  TrapGates[v + 1] \in Returning /\ ~ Restores(v, TrapGates[v + 1])
    OBVIOUS
  <1>1. PICK h : h = TrapGates[v + 1]
    OBVIOUS
  <1>2. h \in Returning /\ h \in WithErrorCode
    <2>1. TrapGates[8] = "device_not_available" /\ TrapGates[17] = "coprocessor_error"
      BY DEF TrapGates
    <2> QED
      BY <2>1, <1>1 DEF Returning, WithErrorCode
  <1>3. CpuFrame(v) \in Seq(Words) /\ Len(CpuFrame(v)) = 3
    <2>1. v \notin ErrorCodes
      BY DEF ErrorCodes
    <2> QED
      BY <2>1, CpuFrameFacts
  <1>4. PICK f \in Seq(Words) : f = [CpuFrame(v) EXCEPT ![3] = "eax"] /\ Len(f) = 3
    <2>1. PICK g \in Seq(Words) : g = CpuFrame(v) /\ Len(g) = 3
      BY <1>3
    <2>2. [g EXCEPT ![3] = "eax"] \in Seq(Words) /\ Len([g EXCEPT ![3] = "eax"]) = 3
      BY <2>1 DEF Words
    <2> QED
      BY <2>1, <2>2
  <1>5. PICK r : r = <<"ebx", "ecx", "edx", "esi", "edi", "ebp", "ds", "es", "fs">>
    OBVIOUS
  <1>6. r \in Seq(Words) /\ Len(r) = 9
    BY <1>5 DEF Words
  <1>7. Saved(v, h) = f \o r
    BY <1>2, <1>3, <1>4, <1>5 DEF Saved
  <1>8. Len(f \o r) = 12 /\ f \o r \in Seq(Words)
    <2>1. Len(f \o r) = Len(f) + Len(r) /\ f \o r \in Seq(Words)
      BY <1>6, ConcatProperties
    <2>2. 3 + 9 = 12
      OBVIOUS
    <2> QED
      BY <2>1, <2>2, <1>4, <1>6
  <1>9. Len(Popped(h)) = 10
    BY DEF Popped
  <1>10. Len(SubSeq(f \o r, 1, 2)) = 2
    BY <1>8
  <1>11. Len(<<"eflags", "cs", "eip">>) = 3
    OBVIOUS
  <1>12. 12 - 10 = 2
    OBVIOUS
  <1>13. ~ Restores(v, h)
    <2> SUFFICES ASSUME Restores(v, h)
                 PROVE  FALSE
      OBVIOUS
    <2>1. SubSeq(Saved(v, h), 1, Len(Saved(v, h)) - Len(Popped(h))) = <<"eflags", "cs", "eip">>
      BY DEF Restores
    <2>2. SubSeq(f \o r, 1, 2) = <<"eflags", "cs", "eip">>
      BY <2>1, <1>7, <1>8, <1>9, <1>12
    <2> QED
      BY <2>2, <1>10, <1>11
  <1> QED
    BY <1>1, <1>2, <1>13

LEMMA KernelNextKeeps == KernelInv /\ KernelNext => KernelInv'
  <1> SUFFICES ASSUME KernelInv, KernelNext
               PROVE  KernelInv'
    OBVIOUS
  <1>1. InOrder /\ InPlace /\ OpenLate /\ InterruptsServed
    BY DEF KernelInv
  <1>2. CASE end_move
    <2>1. InOrder'
      BY <1>1, <1>2 DEF end_move, InOrder, Stages, main_calls
    <2>2. InPlace'
      BY <1>1, <1>2 DEF end_move, InPlace, Made, main_calls
    <2>3. OpenLate' /\ InterruptsServed'
      BY <1>1, <1>2 DEF end_move, OpenLate, InterruptsServed, Made, main_calls
    <2> QED
      BY <2>1, <2>2, <2>3 DEF KernelInv
  <1>3. CASE startup_32
    <2>1. Len(calls) = 9 /\ calls' = calls
      BY <1>1, <1>3, CallsFacts DEF startup_32, InOrder
    <2>2. InOrder'
      BY <1>1, <1>3 DEF startup_32, InOrder, Stages, main_calls
    <2>3. ~ Made(2)' /\ ~ Made(3)' /\ ~ Made(5)'
      <3>1. ~ (9 <= 9 - 2) /\ ~ (9 <= 9 - 3) /\ ~ (9 <= 9 - 5)
        OBVIOUS
      <3>2. Len(calls') = 9
        BY <2>1
      <3> QED
        BY <3>1, <3>2, MadeNextFacts
    <2>4. InPlace'
      BY <2>3, <1>3 DEF startup_32, InPlace
    <2>5. OpenLate' /\ InterruptsServed'
      BY <1>1, <1>3 DEF startup_32, OpenLate, InterruptsServed, Made, main_calls
    <2> QED
      BY <2>2, <2>4, <2>5 DEF KernelInv
  <1>4. CASE main
    BY <1>1, <1>4, MainInOrder, MainInPlace, MainOpensLate DEF KernelInv
  <1>5. ASSUME NEW i \in Lines, Request(i)
        PROVE  KernelInv'
    <2>1. irr' = irr \cup {i} /\ i \in {TIMER, KEYBOARD}
          /\ UNCHANGED <<stage, calls, idt, IF_, ready, halted, isr>>
      BY <1>5 DEF Request
    <2>2. InOrder' /\ InPlace'
      BY <2>1, <1>1 DEF InOrder, InPlace, Made, main_calls
    <2> QED
      BY <2>1, <2>2, <1>1 DEF KernelInv, OpenLate, InterruptsServed, Made, main_calls
  <1>6. ASSUME NEW i \in Lines, Interrupt(i)
        PROVE  KernelInv'
    <2>1. /\ halted' = "no" /\ isr' = isr /\ irr' \subseteq irr
          /\ UNCHANGED <<stage, calls, idt, IF_, ready>>
      BY <1>6, InterruptServed
    <2>2. InOrder' /\ InPlace'
      BY <2>1, <1>1 DEF InOrder, InPlace, Made, main_calls
    <2> QED
      BY <2>1, <2>2, <1>1 DEF KernelInv, OpenLate, InterruptsServed, Made, main_calls
  <1>7. ASSUME NEW v \in Raised, Exception(v)
        PROVE  KernelInv'
    <2>1. /\ UNCHANGED <<stage, calls, idt, irr, isr, IF_, ready>>
          /\ halted' \in {halted, "die"}
      BY <1>7 DEF Exception
    <2>2. InOrder' /\ InPlace'
      BY <2>1, <1>1 DEF InOrder, InPlace, Made, main_calls
    <2> QED
      BY <2>1, <2>2, <1>1 DEF KernelInv, OpenLate, InterruptsServed, Made, main_calls
  <1> QED
    BY <1>2, <1>3, <1>4, <1>5, <1>6, <1>7 DEF KernelNext

LEMMA KernelKept == KernelInv /\ [StartupNext]_<<vars, kernel>> => KernelInv'
  <1> SUFFICES ASSUME KernelInv, [StartupNext]_<<vars, kernel>>
               PROVE  KernelInv'
    OBVIOUS
  <1>1. CASE KernelNext
    BY <1>1, KernelNextKeeps
  <1>2. CASE UNCHANGED kernel
    BY <1>2 DEF kernel, KernelInv, InOrder, InPlace, OpenLate, InterruptsServed, Made, main_calls
  <1> QED
    BY <1>1, <1>2 DEF StartupNext

\* The inductive invariant holds in every state of the start.
THEOREM StartupCorrect == StartupSpec => []KernelInv
  BY StartupInitially, KernelKept, PTL DEF StartupSpec

\* main() opens interrupts only after everything they need is in place: none is
\* lost in ignore_int or ends in die, and nothing is printed too early.
THEOREM InterruptsAreServed == StartupSpec => []InterruptsServed
  <1>1. KernelInv => InterruptsServed
    BY DEF KernelInv
  <1> QED
    BY <1>1, StartupCorrect, PTL

\* A program that traps into the debugger goes on with all its registers.  The
\* exceptions of the coprocessor are left out: FpuTrapsBreak.
THEOREM TrapsAreTransparent ==
    ASSUME Raised \cap {7, 16} = {}
    PROVE  StartupSpec => []TrapsTransparent
  <1>1. StartupInit => TrapsTransparent
    BY DEF StartupInit, TrapsTransparent
  <1>2. TrapsTransparent /\ KernelInv /\ [StartupNext]_<<vars, kernel>> => TrapsTransparent'
    <2> SUFFICES ASSUME TrapsTransparent, KernelInv, [StartupNext]_<<vars, kernel>>
                 PROVE  TrapsTransparent'
      OBVIOUS
    <2>1. CASE context' = context
      BY <2>1 DEF TrapsTransparent
    <2>2. ASSUME NEW v \in Raised, Exception(v)
          PROVE  TrapsTransparent'
      <3>1. v \in (0..16) \ {7, 14, 16}
        BY <2>2, StartupAssumption DEF Exception
      <3>2. idt[v] = TrapGates[v + 1]
        <4>1. stage = "user"
          BY <2>2 DEF Exception
        <4>2. Len(calls) = 0
          BY <4>1 DEF KernelInv, InOrder
        <4>3. 0 <= 9 - 2
          OBVIOUS
        <4>4. Made(2)
          BY <4>2, <4>3, MadeFacts
        <4> QED
          BY <4>4, <3>1 DEF KernelInv, InPlace
      <3>3. idt[v] \in Returning => Restores(v, idt[v])
        BY <3>1, <3>2, GateFacts, PlainRestores
      <3> QED
        BY <2>2, <3>3 DEF Exception, TrapsTransparent
    <2>3. CASE main
      BY <2>1, <2>3 DEF main, video_init, trap_init, sched_init, mem_init, tty_init, sti, printk,
                        move_to_user_mode, Calling
    <2>4. CASE KernelNext
      BY <2>1, <2>2, <2>3, <2>4 DEF KernelNext, end_move, startup_32, Request, Interrupt
    <2>5. CASE UNCHANGED kernel
      BY <2>1, <2>5 DEF kernel
    <2> QED
      BY <2>4, <2>5 DEF StartupNext
  <1> QED
    BY <1>1, <1>2, StartupCorrect, PTL DEF StartupSpec

\* The kernel that starts finds its image whole.
THEOREM ImageArrivesAtKernel == StartupSpec => [](stage # "loader" => pc = "system") /\ []SystemInPlace
  <1>1. StartupInit => (stage # "loader" => pc = "system")
    BY DEF StartupInit
  <1>2. (stage # "loader" => pc = "system") /\ [StartupNext]_<<vars, kernel>>
           => (stage # "loader" => pc = "system")'
    <2> SUFFICES ASSUME stage # "loader" => pc = "system", [StartupNext]_<<vars, kernel>>,
                        stage' # "loader"
                 PROVE  pc' = "system"
      OBVIOUS
    <2>1. CASE Next /\ UNCHANGED kernel
      BY <2>1 DEF kernel, Next, _start, load_setup, LoadSetupFails, read_track, bad_rt,
                  Reading, Setup, do_move
    <2>2. CASE KernelNext /\ UNCHANGED vars
      <3>1. pc' = pc
        BY <2>2 DEF vars
      <3>2. stage = stage' \/ stage # "loader" \/ pc = "system"
        BY <2>2 DEF KernelNext, end_move, startup_32, main, video_init, trap_init, sched_init,
                    mem_init, tty_init, sti, printk, move_to_user_mode, Calling, Request,
                    Interrupt, Exception
      <3> QED
        BY <3>1, <3>2
    <2>3. CASE UNCHANGED <<vars, kernel>>
      BY <2>3 DEF vars, kernel
    <2> QED
      BY <2>1, <2>2, <2>3 DEF StartupNext
  <1> QED
    BY <1>1, <1>2, ImageArrives, StartupBoots, PTL DEF StartupSpec

=============================================================================
