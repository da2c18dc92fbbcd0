-------------------------------- MODULE Boot --------------------------------
(***************************************************************************)
(* From the BIOS to the kernel: boot/bootsect.s moves itself away, reads   *)
(* setup and then the system image from the floppy with BIOS calls, whole  *)
(* tracks where it can; boot/setup.s moves the image to address 0.         *)
(*                                                                         *)
(* Memory is counted in sectors of 512 bytes and a segment register in     *)
(* units of 0x1000, the 64KB step the code moves it by: es = 1 stands for  *)
(* 0x1000, and address es:bx is block es * SEG + bx.  A block holds the    *)
(* number of the disk sector it was read from.  bx is a 16-bit register:   *)
(* it overflows at SEG.                                                    *)
(***************************************************************************)
EXTENDS Integers

CONSTANTS
    SEG,         \* sectors in 64KB (128)
    SETUPLEN,    \* sectors of setup (4)
    SYSSEG,      \* where the system is loaded (1)
    ENDSEG,      \* SYSSEG + SYSSIZE (4)
    INITSEG,     \* where the boot sector moves to (9)
    BOOTBLOCK,   \* the block of 0x7c00 (62)
    Geometries   \* sectors per track the BIOS may report

ASSUME BootAssumption ==
    /\ SEG \in Nat /\ SETUPLEN \in 1..(SEG - 1)
    /\ SYSSEG = 1 /\ ENDSEG \in (SYSSEG + 1)..INITSEG
    /\ INITSEG \in Nat
    /\ BOOTBLOCK \in 0..(SEG - 1)
    /\ Geometries \subseteq (SETUPLEN + 2)..63

VARIABLES
    pc,                   \* the routine
    mem,                  \* mem[b]: the disk sector in block b, EMPTY if other data
    sectors,              \* sectors per track
    sread, head, track,   \* sectors read of the track; head and track to read from
    es, bx,               \* where the next sector goes
    ax                    \* do_move: the next segment to move

vars == <<pc, mem, sectors, sread, head, track, es, bx, ax>>

-----------------------------------------------------------------------------
EMPTY  == -1
Blocks == 0..(INITSEG * SEG + SETUPLEN)

\* Sector number on the disk, counted from 0; the floppy has two heads.
Disk(t, h, s) == (2 * t + h) * sectors + s

\* mem with n sectors, starting with sector d of the disk, from block b on.
Loaded(b, n, d) ==
    [k \in Blocks |-> IF k \in b..(b + n - 1) THEN d + (k - b) ELSE mem[k]]

Init ==
    /\ pc = "_start"
    /\ mem = [b \in Blocks |-> IF b = BOOTBLOCK THEN 0 ELSE EMPTY]
    /\ sectors \in Geometries
    /\ sread = 1 + SETUPLEN /\ head = 0 /\ track = 0
    /\ es = SYSSEG /\ bx = 0
    /\ ax = 0

\* The boot sector copies itself to INITSEG:0 and jumps there.
_start ==
    /\ pc = "_start"
    /\ mem' = [mem EXCEPT ![INITSEG * SEG] = mem[BOOTBLOCK]]
    /\ pc' = "load_setup"
    /\ UNCHANGED <<sectors, sread, head, track, es, bx, ax>>

-----------------------------------------------------------------------------
(* BIOS reads.  A read fails at any time, after some of its sectors have   *)
(* been transferred; the disk is reset and the read is tried again.        *)

load_setup ==
    /\ pc = "load_setup"
    /\ mem' = Loaded(INITSEG * SEG + 1, SETUPLEN, 1)
    /\ pc' = "read_it"
    /\ UNCHANGED <<sectors, sread, head, track, es, bx, ax>>

LoadSetupFails ==
    /\ pc = "load_setup"
    /\ \E n \in 0..(SETUPLEN - 1) : mem' = Loaded(INITSEG * SEG + 1, n, 1)
    /\ UNCHANGED <<pc, sectors, sread, head, track, es, bx, ax>>

\* Mutant: the segment's end is not looked at.
Count_WholeTrack == sectors - sread

\* ok1_read: the rest of the track, or what still fits into the segment.
Count ==
    IF bx + (sectors - sread) > SEG THEN SEG - bx ELSE sectors - sread

\* The BIOS reads within one track, and its DMA within one segment.
Readable == Count > 0 /\ sread + Count <= sectors /\ bx + Count <= SEG

Reading == pc = "read_it" /\ es < ENDSEG

\* Mutant: the head is switched and the track is not.
Position_SameTrack ==
    /\ sread' = IF sread + Count = sectors THEN 0 ELSE sread + Count
    /\ head' = IF sread + Count = sectors THEN 1 - head ELSE head
    /\ UNCHANGED track

\* Mutant: the count of sectors read is not reset on a new track.
Position_NotReset ==
    /\ sread' = sread + Count
    /\ head' = IF sread + Count = sectors THEN 1 - head ELSE head
    /\ track' = IF sread + Count = sectors /\ head = 1 THEN track + 1 ELSE track

\* ok2_read to ok3_read: after the last sector of a track, the other head or
\* the next track.
Position ==
    /\ sread' = IF sread + Count = sectors THEN 0 ELSE sread + Count
    /\ head' = IF sread + Count = sectors THEN 1 - head ELSE head
    /\ track' = IF sread + Count = sectors /\ head = 1 THEN track + 1 ELSE track

\* One turn of rp_read with a read that succeeds.
read_track ==
    /\ Reading /\ Readable
    /\ mem' = Loaded(es * SEG + bx, Count, Disk(track, head, sread))
    /\ Position
    /\ bx' = (bx + Count) % SEG
    /\ es' = IF bx + Count >= SEG THEN es + 1 ELSE es
    /\ UNCHANGED <<pc, sectors, ax>>

\* bad_rt.
bad_rt ==
    /\ Reading
    /\ \E n \in 0..(IF Readable THEN Count - 1 ELSE 0) :
          mem' = Loaded(es * SEG + bx, n, Disk(track, head, sread))
    /\ UNCHANGED <<pc, sectors, sread, head, track, es, bx, ax>>

\* read_it returns, the motor is stopped and setup takes over: it saves what
\* the BIOS knows of the hardware over the boot sector, now done with.
Setup ==
    /\ pc = "read_it" /\ es >= ENDSEG
    /\ mem' = [mem EXCEPT ![INITSEG * SEG] = EMPTY]
    /\ pc' = "do_move"
    /\ UNCHANGED <<sectors, sread, head, track, es, bx, ax>>

-----------------------------------------------------------------------------
\* setup.s: 64KB at a time, segment ax + 1 down to segment ax.
do_move ==
    /\ pc = "do_move"
    /\ IF ax + 1 = INITSEG
       THEN pc' = "system" /\ UNCHANGED <<mem, ax>>
       ELSE /\ mem' = [b \in Blocks |-> IF b \in (ax * SEG)..(ax * SEG + SEG - 1)
                                        THEN mem[b + SEG] ELSE mem[b]]
            /\ ax' = ax + 1
            /\ UNCHANGED pc
    /\ UNCHANGED <<sectors, sread, head, track, es, bx>>

Next ==
    \/ _start
    \/ load_setup \/ LoadSetupFails
    \/ read_track \/ bad_rt \/ Setup
    \/ do_move

(***************************************************************************)
(* The processor goes on, and a read that is tried again and again         *)
(* succeeds in the end, if it is one the BIOS can do.                      *)
(***************************************************************************)
Fairness ==
    WF_vars(_start) /\ WF_vars(load_setup) /\ WF_vars(read_track)
        /\ WF_vars(Setup) /\ WF_vars(do_move)

Spec == Init /\ [][Next]_vars /\ Fairness

-----------------------------------------------------------------------------
\* Types: the position on the disk is always one the floppy has.
TypeOK ==
    /\ pc \in {"_start", "load_setup", "read_it", "do_move", "system"}
    /\ mem \in [Blocks -> {EMPTY} \cup Nat]
    /\ sectors \in Geometries
    /\ sread \in 0..(sectors - 1) \cup {1 + SETUPLEN}
    /\ head \in {0, 1} /\ track \in Nat
    /\ es \in SYSSEG..ENDSEG /\ bx \in 0..(SEG - 1)
    /\ ax \in 0..(INITSEG - 1)

\* When the kernel is entered the whole image lies at address 0, sector after
\* sector, and setup, which has just run, is whole: reads cut at segment
\* ends, heads and tracks, and reads repeated after a failure, neither skip
\* nor repeat a sector.
SystemInPlace ==
    pc = "system" =>
        /\ \A k \in 0..((ENDSEG - SYSSEG) * SEG - 1) : mem[k] = 1 + SETUPLEN + k
        /\ \A k \in 1..SETUPLEN : mem[INITSEG * SEG + k] = k

-----------------------------------------------------------------------------
(* What holds throughout: the inductive invariant.                         *)

\* How many sectors of the image have been read.
Read == es * SEG + bx - SYSSEG * SEG

ImageSize == (ENDSEG - SYSSEG) * SEG

\* Sector k of the image is in block b.
Holds(b, k) == mem[b] = 1 + SETUPLEN + k

\* The position on the disk and the position in memory go together.
InStep ==
    /\ Disk(track, head, sread) = 1 + SETUPLEN + Read
    /\ es = ENDSEG => bx = 0

\* What has been read is where it belongs, and stays there while the rest is.
Loading ==
    pc \in {"_start", "load_setup", "read_it"} =>
        /\ ax = 0
        /\ \A k \in 0..(Read - 1) : Holds(SYSSEG * SEG + k, k)

SetupInPlace ==
    pc \in {"read_it", "do_move", "system"} =>
        \A k \in 1..SETUPLEN : mem[INITSEG * SEG + k] = k

\* The segments below ax have been moved, the others have not.
Moving ==
    pc \in {"do_move", "system"} =>
        /\ \A k \in 0..(ImageSize - 1) : Holds(IF k < ax * SEG THEN k ELSE k + SEG, k)
        /\ pc = "system" => ax + 1 = INITSEG

BootInv == TypeOK /\ InStep /\ Loading /\ SetupInPlace /\ Moving

=============================================================================
