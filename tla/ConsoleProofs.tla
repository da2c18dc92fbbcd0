---------------------------- MODULE ConsoleProofs ----------------------------
(***************************************************************************)
(* Proofs about the output path.                                           *)
(*                                                                         *)
(* Console, for a screen and tab stops of any size and any number of       *)
(* interrupts in progress: whatever the interleaving of the loads and      *)
(* stores of nested calls of video_putchar, the coordinates are back on    *)
(* the screen when the last of them returns.                               *)
(*                                                                         *)
(* Format, for ints of any width and formats of any length: vsprintf takes *)
(* the arguments its format asks for, and what _sprintnum writes can be    *)
(* read back.                                                              *)
(***************************************************************************)
EXTENDS Console, Format, FiniteSetTheorems, TLAPS

Calls == [at : Labels, tmp : Int]

-----------------------------------------------------------------------------
(* Sequences of calls.                                                     *)

LEMMA PendingFacts ==
    ASSUME NEW cs, NEW places, NEW j \in Nat
    PROVE  /\ Pending(cs, places, j) \in Nat /\ Pending(cs, places, j) <= j
           /\ Pending(cs, places, 0) = 0
           /\ Pending(cs, places, j + 1) =
                 Pending(cs, places, j) + (IF cs[j + 1].at \in places THEN 1 ELSE 0)
  <1> DEFINE S(i) == {k \in 1..i : cs[k].at \in places}
  <1>1. \A i \in Nat : IsFiniteSet(1..i) /\ Cardinality(1..i) = i
    <2> TAKE i \in Nat
    <2>1. 1 \in Int /\ i \in Int
      OBVIOUS
    <2> QED
      BY <2>1, FS_Interval
  <1>2. \A i \in Nat : IsFiniteSet(S(i)) /\ Cardinality(S(i)) \in Nat /\ Cardinality(S(i)) <= i
    <2> TAKE i \in Nat
    <2>1. S(i) \subseteq 1..i
      OBVIOUS
    <2> QED
      BY <1>1, <2>1, FS_Subset, FS_CardinalityType
  <1>3. S(0) = {}
    OBVIOUS
  <1>4. S(j + 1) = IF cs[j + 1].at \in places THEN S(j) \cup {j + 1} ELSE S(j)
    <2>1. 1..(j + 1) = (1..j) \cup {j + 1}
      OBVIOUS
    <2> QED
      BY <2>1
  <1>5. j + 1 \notin S(j)
    OBVIOUS
  <1>6. Cardinality(S(j) \cup {j + 1}) = Cardinality(S(j)) + 1
    BY <1>2, <1>5, FS_AddElement
  <1>7. Cardinality({}) = 0
    BY FS_EmptySet
  <1>8. \A i : Pending(cs, places, i) = Cardinality(S(i))
    BY DEF Pending
  <1> HIDE DEF S
  <1>9. Pending(cs, places, j + 1) = Pending(cs, places, j) + (IF cs[j + 1].at \in places THEN 1 ELSE 0)
    <2>1. CASE cs[j + 1].at \in places
      BY <1>4, <1>6, <1>8, <2>1
    <2>2. CASE cs[j + 1].at \notin places
      BY <1>2, <1>4, <1>8, <2>2
    <2> QED
      BY <2>1, <2>2
  <1> QED
    BY <1>2, <1>3, <1>7, <1>8, <1>9

\* What lies below is counted alike in both sequences.
LEMMA SamePending ==
    ASSUME NEW cs, NEW ds, NEW j \in Nat, \A i \in 1..j : cs[i] = ds[i]
    PROVE  LowX(cs, j) = LowX(ds, j) /\ LowY(cs, j) = LowY(ds, j)
  <1>1. \A places : {i \in 1..j : cs[i].at \in places} = {i \in 1..j : ds[i].at \in places}
    OBVIOUS
  <1> QED
    BY <1>1 DEF LowX, LowY, Pending

LEMMA NextLow ==
    ASSUME NEW cs, NEW j \in Nat
    PROVE  /\ LowX(cs, j) \in Int /\ LowX(cs, j) >= -j /\ LowX(cs, j) <= 0 /\ LowX(cs, 0) = 0
           /\ LowY(cs, j) \in Int /\ LowY(cs, j) >= -j /\ LowY(cs, j) <= 0 /\ LowY(cs, 0) = 0
           /\ LowX(cs, j + 1) = IF cs[j + 1].at \in MinusX THEN LowX(cs, j) - 1 ELSE LowX(cs, j)
           /\ LowY(cs, j + 1) = IF cs[j + 1].at \in MinusY THEN LowY(cs, j) - 1 ELSE LowY(cs, j)
  <1>1. ASSUME NEW places
        PROVE  /\ Pending(cs, places, j) \in Nat /\ Pending(cs, places, j) <= j
               /\ Pending(cs, places, 0) = 0
               /\ Pending(cs, places, j + 1) =
                     Pending(cs, places, j) + (IF cs[j + 1].at \in places THEN 1 ELSE 0)
    BY PendingFacts
  <1>2. PICK k : k = j + 1
    OBVIOUS
  <1>3. /\ Pending(cs, MinusX, k) =
                     Pending(cs, MinusX, j) + (IF cs[k].at \in MinusX THEN 1 ELSE 0)
        /\ Pending(cs, MinusY, k) =
                     Pending(cs, MinusY, j) + (IF cs[k].at \in MinusY THEN 1 ELSE 0)
    BY <1>1, <1>2
  <1>4. /\ LowX(cs, k) = IF cs[k].at \in MinusX THEN LowX(cs, j) - 1 ELSE LowX(cs, j)
        /\ LowY(cs, k) = IF cs[k].at \in MinusY THEN LowY(cs, j) - 1 ELSE LowY(cs, j)
    BY <1>1, <1>3 DEF LowX, LowY
  <1>5. /\ LowX(cs, j) \in Int /\ LowX(cs, j) >= -j /\ LowX(cs, j) <= 0 /\ LowX(cs, 0) = 0
        /\ LowY(cs, j) \in Int /\ LowY(cs, j) >= -j /\ LowY(cs, j) <= 0 /\ LowY(cs, 0) = 0
    BY <1>1 DEF LowX, LowY
  <1> QED
    BY <1>2, <1>4, <1>5

LEMMA HighFacts ==
    ASSUME NEW j \in Nat
    PROVE  /\ HighX(j) \in Int /\ HighX(j) >= VIDEO_X_SZ - 1 /\ HighX(j + 1) = HighX(j) + TAB_LEN
           /\ HighY(j) \in Int /\ HighY(j) >= VIDEO_Y_SZ - 1 /\ HighY(j + 1) = HighY(j) + 1
  <1>1. TAB_LEN \in Nat /\ VIDEO_X_SZ \in Nat /\ VIDEO_Y_SZ \in Nat
    BY ConsoleAssumption
  <1>2. TAB_LEN * j \in Nat /\ TAB_LEN * (j + 1) = TAB_LEN * j + TAB_LEN
    BY <1>1
  <1> QED
    BY <1>1, <1>2 DEF HighX, HighY

-----------------------------------------------------------------------------
(* The running call and those it interrupts.                               *)

others == Len(calls) - 1
lowx   == LowX(calls, others)
lowy   == LowY(calls, others)

LEMMA Running ==
    ASSUME ConsoleInv, calls # <<>>
    PROVE  /\ others \in Nat /\ others <= MAX_NEST /\ Len(calls) = others + 1
           /\ calls \in Seq(Calls) /\ Last(calls) = calls[others + 1] /\ Last(calls) \in Calls
           /\ lowx \in Int /\ lowx <= 0 /\ lowx >= -others
           /\ lowy \in Int /\ lowy <= 0 /\ lowy >= -others
           /\ Held(Last(calls), others, lowx, lowy)
           /\ Within(Last(calls), others, lowx, lowy, video_x, video_y)
           /\ video_x \in Int /\ video_y \in Int
  <1>1. calls \in Seq(Calls) /\ Len(calls) <= MAX_NEST + 1 /\ video_x \in Int /\ video_y \in Int
    BY DEF ConsoleInv, TypeOK, Calls, Drift
  <1>2. others \in Nat /\ others <= MAX_NEST /\ Len(calls) = others + 1
    <2>1. Len(calls) \in Nat /\ Len(calls) # 0
      BY <1>1
    <2> QED
      BY <1>1, <2>1, ConsoleAssumption DEF others
  <1>3. Last(calls) = calls[others + 1]
    BY <1>2 DEF Last
  <1>4. calls[others + 1] \in Calls
    <2>1. others + 1 \in 1..Len(calls)
      BY <1>2
    <2> QED
      BY <1>1, <2>1
  <1>5. /\ lowx \in Int /\ lowx <= 0 /\ lowx >= -others
        /\ lowy \in Int /\ lowy <= 0 /\ lowy >= -others
    <2> QED
      BY <1>2, NextLow DEF lowx, lowy
  <1>6. Held(Last(calls), others, lowx, lowy)
    <2>1. PICK j \in 1..Len(calls) : j = others + 1 /\ j - 1 = others
      BY <1>2
    <2>2. Held(calls[j], others, lowx, lowy)
      BY <2>1 DEF ConsoleInv, lowx, lowy
    <2> QED
      BY <1>3, <2>1, <2>2
  <1>7. Within(Last(calls), others, lowx, lowy, video_x, video_y)
    BY DEF ConsoleInv, InRange, lowx, lowy, others
  <1> QED
    BY <1>1, <1>2, <1>3, <1>4, <1>5, <1>6, <1>7

\* The running call goes on to c.
LEMMA GotoFacts ==
    ASSUME ConsoleInv, calls # <<>>, NEW c \in Calls, Goto(c)
    PROVE  /\ calls' \in Seq(Calls) /\ Len(calls') = Len(calls) /\ calls' # <<>>
           /\ Last(calls') = c /\ calls'[others + 1] = c
           /\ \A j \in 1..others : calls'[j] = calls[j]
  <1> DEFINE L == Len(calls)
             F == SubSeq(calls, 1, L - 1)
  <1>1. others \in Nat /\ L = others + 1 /\ calls \in Seq(Calls)
    BY Running
  <1>2. calls' = Append(F, c)
    BY DEF Goto, Front
  <1>3. F \in Seq(Calls) /\ Len(F) = others /\ \A j \in 1..others : F[j] = calls[j]
    <2>1. L - 1 = others /\ others <= Len(calls)
      BY <1>1
    <2> HIDE DEF L
    <2>2. F = SubSeq(calls, 1, others)
      BY <2>1
    <2> HIDE DEF F
    <2> QED
      BY <1>1, <2>1, <2>2
  <1> HIDE DEF F, L
  <1>4. /\ calls' \in Seq(Calls) /\ Len(calls') = others + 1 /\ calls'[others + 1] = c
        /\ \A j \in 1..others : calls'[j] = calls[j]
    BY <1>1, <1>2, <1>3
  <1>5. Last(calls') = c
    BY <1>4 DEF Last
  <1>6. calls' # <<>>
    BY <1>1, <1>4
  <1> QED
    BY <1>1, <1>4, <1>5, <1>6 DEF L

LEMMA GotoKeepsInv ==
    ASSUME ConsoleInv, calls # <<>>, NEW c \in Calls, Goto(c),
           video_x' \in Int, video_y' \in Int,
           Held(c, others, lowx, lowy), Within(c, others, lowx, lowy, video_x', video_y'),
           cell' \in Int, StoresNearScreen', index' \in {"low", "high"},
           cursor' \in [{"low", "high"} -> 0..(BYTE - 1)], quiet' \in BOOLEAN, Cursor'
    PROVE  ConsoleInv'
  <1>1. /\ others \in Nat /\ others <= MAX_NEST /\ Len(calls) = others + 1
        /\ lowx \in Int /\ lowx >= -others /\ lowy \in Int /\ lowy >= -others
    BY Running
  <1>2. /\ calls' \in Seq(Calls) /\ Len(calls') = Len(calls) /\ calls' # <<>>
        /\ Last(calls') = c /\ calls'[others + 1] = c
        /\ \A j \in 1..others : calls'[j] = calls[j]
    BY GotoFacts
  <1>3. \A j \in 0..others : LowX(calls', j) = LowX(calls, j) /\ LowY(calls', j) = LowY(calls, j)
    <2> TAKE j \in 0..others
    <2>1. PICK cs : cs = calls'
      OBVIOUS
    <2>2. \A i \in 1..j : cs[i] = calls[i]
      BY <1>1, <1>2, <2>1
    <2>3. LowX(cs, j) = LowX(calls, j) /\ LowY(cs, j) = LowY(calls, j)
      BY <2>2, SamePending
    <2> QED
      BY <2>1, <2>3
  <1>4. LowX(calls', others) = lowx /\ LowY(calls', others) = lowy
    BY <1>1, <1>3 DEF lowx, lowy
  <1>5. Len(calls') - 1 = others
    BY <1>1, <1>2
  <1>6. InRange'
    BY <1>2, <1>4, <1>5 DEF InRange
  <1>7. ASSUME NEW j \in 1..(others + 1)
        PROVE  Held(calls'[j], j - 1, LowX(calls', j - 1), LowY(calls', j - 1))
    <2>1. CASE j = others + 1
      <3>1. j - 1 = others
        BY <1>1, <2>1
      <3> QED
        BY <1>2, <1>4, <2>1, <3>1
    <2>2. CASE j # others + 1
      <3>1. j \in 1..others /\ j - 1 \in 0..others /\ j \in 1..Len(calls)
        BY <1>1, <2>2
      <3>2. Held(calls[j], j - 1, LowX(calls, j - 1), LowY(calls, j - 1))
        BY <3>1 DEF ConsoleInv
      <3> QED
        BY <1>2, <1>3, <3>1, <3>2
    <2> QED
      BY <2>1, <2>2
  <1>8. (\A j \in 1..Len(calls) : Held(calls[j], j - 1, LowX(calls, j - 1), LowY(calls, j - 1)))'
    BY <1>1, <1>2, <1>7
  <1>9. /\ video_x' >= -(others + 1) /\ video_x' <= HighX(others + 1)
        /\ video_y' >= -(others + 1) /\ video_y' <= HighY(others + 1)
    <2>1. /\ HighX(others) \in Int /\ HighX(others) >= VIDEO_X_SZ - 1
          /\ HighX(others + 1) = HighX(others) + TAB_LEN
          /\ HighY(others) \in Int /\ HighY(others) >= VIDEO_Y_SZ - 1
          /\ HighY(others + 1) = HighY(others) + 1
      BY <1>1, HighFacts
    <2>2. TAB_LEN \in Nat /\ TAB_LEN >= 1 /\ VIDEO_X_SZ \in Nat /\ VIDEO_Y_SZ \in Nat
      BY ConsoleAssumption
    <2>3. video_x' >= lowx - 1 /\ video_y' >= lowy - 1
      BY <1>1 DEF Within
    <2>4. video_x' <= HighX(others + 1)
      BY <2>1, <2>2, SMTT(30) DEF Within
    <2>5. video_y' <= HighY(others + 1)
      BY <2>1, <2>2, SMTT(30) DEF Within
    <2> QED
      BY <1>1, <2>3, <2>4, <2>5
  <1>10. Drift(video_x, VIDEO_X_SZ, TAB_LEN)' /\ Drift(video_y, VIDEO_Y_SZ, 1)'
    <2>1. TAB_LEN \in Nat /\ VIDEO_X_SZ \in Nat /\ VIDEO_Y_SZ \in Nat
      BY ConsoleAssumption
    <2>2. TAB_LEN * (others + 1) \in Nat /\ 1 * (others + 1) = others + 1
      BY <1>1, <2>1
    <2>3. Len(calls') = others + 1
      BY <1>1, <1>2
    <2> QED
      BY <1>1, <1>9, <2>1, <2>2, <2>3 DEF Drift, HighX, HighY
  <1>11. TypeOK'
    BY <1>1, <1>2, <1>10, ConsoleAssumption DEF TypeOK, Calls
  <1> QED
    BY <1>6, <1>8, <1>11 DEF ConsoleInv

-----------------------------------------------------------------------------
(* Kinds of steps.                                                         *)

CursorLabels == {"end", "index_low", "low", "index_high", "high", "return"}

\* Any call may be under way here.
LEMMA CallIsCall ==
    \A at \in Labels : Call(at) \in Calls /\ Call(at).at = at /\ Call(at).tmp = NOTHING
  BY ConsoleAssumption DEF Call, Calls, NOTHING

LEMMA Numbers ==
    ASSUME ConsoleInv, calls # <<>>
    PROVE  /\ lowx \in Int /\ lowx <= 0 /\ lowy \in Int /\ lowy <= 0
           /\ HighX(others) \in Int /\ HighX(others) >= VIDEO_X_SZ - 1
           /\ HighX(others + 1) = HighX(others) + TAB_LEN
           /\ HighY(others) \in Int /\ HighY(others) >= VIDEO_Y_SZ - 1
           /\ HighY(others + 1) = HighY(others) + 1
           /\ TAB_LEN \in Nat /\ TAB_LEN >= 1
           /\ VIDEO_X_SZ \in Nat /\ VIDEO_X_SZ >= 1
           /\ VIDEO_Y_SZ \in Nat /\ VIDEO_Y_SZ >= 1
           /\ video_x \in Int /\ video_y \in Int
  <1>1. others \in Nat
    BY Running
  <1> QED
    BY <1>1, Running, HighFacts, ConsoleAssumption

\* A step of video_putchar before update_cursor.
LEMMA BodyStep ==
    ASSUME ConsoleInv, calls # <<>>, Last(calls).at \notin CursorLabels,
           NEW c \in Calls, Goto(c), video_x' \in Int, video_y' \in Int,
           Held(c, others, lowx, lowy), Within(c, others, lowx, lowy, video_x', video_y'),
           cell' \in Int, StoresNearScreen', UNCHANGED vga
    PROVE  ConsoleInv'
  <1>1. ~quiet
    <2>1. Last(calls) = calls[others + 1] /\ Len(calls) = others + 1 /\ others \in Nat
      BY Running
    <2>2. Len(calls) = 1 => Last(calls) = calls[1]
      BY <2>1
    <2> QED
      BY <2>2 DEF ConsoleInv, Cursor, CursorLabels
  <1>2. quiet' = quiet /\ Cursor'
    BY <1>1 DEF Cursor, vga
  <1> QED
    BY <1>2, GotoKeepsInv DEF ConsoleInv, TypeOK, vga

LEMMA AssignXKeeps ==
    ASSUME ConsoleInv, NEW at \in Labels \ CursorLabels, NEW val \in Int, NEW next \in Labels,
           AssignX(at, val, next),
           calls # <<>> => Within(Call(next), others, lowx, lowy, val, video_y)
    PROVE  ConsoleInv'
  BY BodyStep, CallIsCall, Numbers
     DEF AssignX, At, Held, ConsoleInv, TypeOK, StoresNearScreen

LEMMA AssignYKeeps ==
    ASSUME ConsoleInv, NEW at \in Labels \ CursorLabels, NEW val \in Int, NEW next \in Labels,
           AssignY(at, val, next),
           calls # <<>> => Within(Call(next), others, lowx, lowy, video_x, val)
    PROVE  ConsoleInv'
  BY BodyStep, CallIsCall, Numbers
     DEF AssignY, At, Held, ConsoleInv, TypeOK, StoresNearScreen

LEMMA BranchKeeps ==
    ASSUME ConsoleInv, NEW at \in Labels \ CursorLabels, NEW cond,
           NEW yes \in Labels, NEW no \in Labels, Branch(at, cond, yes, no),
           At(at) => Within(Call(IF cond THEN yes ELSE no), others, lowx, lowy, video_x, video_y)
    PROVE  ConsoleInv'
  <1>1. PICK next \in Labels : next = IF cond THEN yes ELSE no
    OBVIOUS
  <1>2. /\ calls # <<>> /\ Last(calls).at = at /\ Goto(Call(next))
        /\ UNCHANGED <<video_x, video_y, cell, vga>>
        /\ Within(Call(next), others, lowx, lowy, video_x, video_y)
    BY <1>1 DEF Branch, At
  <1> QED
    BY <1>2, BodyStep, CallIsCall, Numbers DEF Held, ConsoleInv, TypeOK, StoresNearScreen

\* The places where video_x or video_y is loaded.
LEMMA LoadX ==
    ASSUME ConsoleInv, calls # <<>>, Last(calls).at \in {"right", "tab1", "backspace"}
    PROVE  video_x \in lowx..HighX(others)
  <1>1. PICK c, j : c = Last(calls) /\ j = others
    OBVIOUS
  <1>2. Within(c, j, lowx, lowy, video_x, video_y) /\ c.at = Last(calls).at
    BY <1>1, Running
  <1>3. video_x >= lowx /\ video_x <= HighX(j)
    BY <1>2 DEF Within, MinusX
  <1>4. video_x \in Int /\ lowx \in Int /\ HighX(others) \in Int
    BY Numbers
  <1> QED
    BY <1>1, <1>3, <1>4

LEMMA LoadY ==
    ASSUME ConsoleInv, calls # <<>>, Last(calls).at \in {"nl1", "bs3", "wx2", "erase", "char"}
    PROVE  video_y \in lowy..HighY(others)
  <1>1. PICK c, j : c = Last(calls) /\ j = others
    OBVIOUS
  <1>2. Within(c, j, lowx, lowy, video_x, video_y) /\ c.at = Last(calls).at
    BY <1>1, Running
  <1>3. video_y >= lowy /\ video_y <= HighY(j)
    BY <1>2 DEF Within, MinusY
  <1>4. video_y \in Int /\ lowy \in Int /\ HighY(others) \in Int
    BY Numbers
  <1> QED
    BY <1>1, <1>3, <1>4

LEMMA AddXKeeps ==
    ASSUME ConsoleInv, NEW at \in {"right", "tab1", "backspace"}, NEW d \in Int, NEW next \in Labels,
           AddX(at, d, next),
           calls # <<>> => \A t \in lowx..HighX(others) :
                              Within(Call(next), others, lowx, lowy, t + d, video_y)
    PROVE  ConsoleInv'
  <1>1. /\ calls # <<>> /\ Last(calls).at = at /\ at \in Labels \ CursorLabels
        /\ UNCHANGED <<video_y, cell, vga>>
    BY DEF AddX, At, Labels, CursorLabels
  <1>2. cell' \in Int /\ StoresNearScreen'
    BY <1>1 DEF ConsoleInv, TypeOK, StoresNearScreen
  <1>3. CASE Last(calls).tmp = NOTHING
    <2> DEFINE c == [at |-> at, tmp |-> video_x]
    <2>1. Goto(c) /\ UNCHANGED video_x
      BY <1>3 DEF AddX
    <2>2. c \in Calls /\ c.at = Last(calls).at /\ c.tmp \in lowx..HighX(others)
      BY <1>1, LoadX, Numbers DEF Calls
    <2>3. Within(c, others, lowx, lowy, video_x', video_y')
      BY <1>1, <2>1, <2>2, Running DEF Within
    <2>4. Held(c, others, lowx, lowy)
      BY <1>1, <2>2 DEF Held
    <2> QED
      BY <1>1, <1>2, <2>1, <2>2, <2>3, <2>4, BodyStep, Numbers
  <1>4. CASE Last(calls).tmp # NOTHING
    <2>1. Goto(Call(next)) /\ video_x' = Last(calls).tmp + d
      BY <1>4 DEF AddX
    <2>2. PICK t \in lowx..HighX(others) : t = Last(calls).tmp
      BY <1>1, <1>4, Running DEF Held
    <2>3. video_x' = t + d /\ t \in Int /\ t + d \in Int
      BY <2>1, <2>2, Numbers
    <2>4. Within(Call(next), others, lowx, lowy, t + d, video_y)
      BY <1>1, <2>2
    <2>5. Within(Call(next), others, lowx, lowy, video_x', video_y') /\ video_x' \in Int
      BY <1>1, <2>3, <2>4
    <2> QED
      BY <1>1, <1>2, <2>1, <2>5, BodyStep, CallIsCall, Numbers DEF Held
  <1> QED
    BY <1>3, <1>4

LEMMA AddYKeeps ==
    ASSUME ConsoleInv, NEW at \in {"nl1", "bs3", "wx2"}, NEW d \in Int, NEW next \in Labels,
           AddY(at, d, next),
           At(at) => \A t \in lowy..HighY(others) :
                        Within(Call(next), others, lowx, lowy, video_x, t + d)
    PROVE  ConsoleInv'
  <1>1. /\ calls # <<>> /\ Last(calls).at = at /\ at \in Labels \ CursorLabels
        /\ UNCHANGED <<video_x, cell, vga>>
    BY DEF AddY, At, Labels, CursorLabels
  <1>2. cell' \in Int /\ StoresNearScreen'
    BY <1>1 DEF ConsoleInv, TypeOK, StoresNearScreen
  <1>3. CASE Last(calls).tmp = NOTHING
    <2> DEFINE c == [at |-> at, tmp |-> video_y]
    <2>1. Goto(c) /\ UNCHANGED video_y
      BY <1>3 DEF AddY
    <2>2. c \in Calls /\ c.at = Last(calls).at /\ c.tmp \in lowy..HighY(others)
      BY <1>1, LoadY, Numbers DEF Calls
    <2>3. Within(c, others, lowx, lowy, video_x', video_y')
      BY <1>1, <2>1, <2>2, Running DEF Within
    <2>4. Held(c, others, lowx, lowy)
      BY <1>1, <2>2 DEF Held
    <2> QED
      BY <1>1, <1>2, <2>1, <2>2, <2>3, <2>4, BodyStep, Numbers
  <1>4. CASE Last(calls).tmp # NOTHING
    <2>1. Goto(Call(next)) /\ video_y' = Last(calls).tmp + d
      BY <1>4 DEF AddY
    <2>2. PICK t \in lowy..HighY(others) : t = Last(calls).tmp
      BY <1>1, <1>4, Running DEF Held
    <2>3. video_y' = t + d /\ t \in Int /\ t + d \in Int
      BY <2>1, <2>2, Numbers
    <2>4. Within(Call(next), others, lowx, lowy, video_x, t + d)
      BY <1>1, <2>2 DEF At
    <2>5. Within(Call(next), others, lowx, lowy, video_x', video_y') /\ video_y' \in Int
      BY <1>1, <2>3, <2>4
    <2> QED
      BY <1>1, <1>2, <2>1, <2>5, BodyStep, CallIsCall, Numbers DEF Held
  <1> QED
    BY <1>3, <1>4

\* A store is near the screen, video_x and the row loaded being what they can be.
LEMMA CellNear ==
    ASSUME NEW x \in Int, NEW y \in Int, x >= -MAX_NEST, y >= -MAX_NEST
    PROVE  Cell(x, y) \in -(MAX_NEST * (VIDEO_X_SZ + 1))..(VIDEO_X_SZ * (VIDEO_Y_SZ + 1))
  <1> DEFINE a == IF x >= VIDEO_X_SZ THEN VIDEO_X_SZ ELSE x
             b == IF y >= VIDEO_Y_SZ THEN VIDEO_Y_SZ ELSE y
  <1>1. VIDEO_X_SZ \in Nat /\ VIDEO_Y_SZ \in Nat /\ MAX_NEST \in Nat
    BY ConsoleAssumption
  <1>2. /\ a \in Int /\ a >= -MAX_NEST /\ a <= VIDEO_X_SZ
        /\ b \in Int /\ b >= -MAX_NEST /\ b <= VIDEO_Y_SZ
    BY <1>1
  <1>3. Cell(x, y) = a + VIDEO_X_SZ * b
    BY DEF Cell
  <1> HIDE DEF a, b
  <1>4. VIDEO_X_SZ * b \in Int /\ VIDEO_X_SZ * VIDEO_Y_SZ \in Int /\ MAX_NEST * VIDEO_X_SZ \in Int
    BY <1>1, <1>2
  <1>5. VIDEO_X_SZ * b <= VIDEO_X_SZ * VIDEO_Y_SZ
    BY <1>1, <1>2
  <1>6. VIDEO_X_SZ * b >= -(MAX_NEST * VIDEO_X_SZ)
    BY <1>1, <1>2
  <1>7. /\ MAX_NEST * (VIDEO_X_SZ + 1) = MAX_NEST * VIDEO_X_SZ + MAX_NEST
        /\ VIDEO_X_SZ * (VIDEO_Y_SZ + 1) = VIDEO_X_SZ * VIDEO_Y_SZ + VIDEO_X_SZ
    BY <1>1
  <1> QED
    BY <1>1, <1>2, <1>3, <1>4, <1>5, <1>6, <1>7

LEMMA PutcharAtKeeps ==
    ASSUME ConsoleInv, NEW at \in {"erase", "char"}, NEW next \in Labels,
           video_putchar_at(at, next),
           At(at) => Within(Call(next), others, lowx, lowy, video_x, video_y)
    PROVE  ConsoleInv'
  <1>1. /\ calls # <<>> /\ Last(calls).at = at /\ at \in Labels \ CursorLabels
        /\ UNCHANGED <<video_x, video_y, vga>>
    BY DEF video_putchar_at, At, Labels, CursorLabels
  <1>2. CASE Last(calls).tmp = NOTHING
    <2> DEFINE c == [at |-> at, tmp |-> video_y]
    <2>1. Goto(c) /\ cell' \in Int /\ StoresNearScreen'
      BY <1>2 DEF video_putchar_at, ConsoleInv, TypeOK, StoresNearScreen
    <2>2. c \in Calls /\ c.at = Last(calls).at /\ c.tmp \in lowy..HighY(others)
      BY <1>1, LoadY, Numbers DEF Calls
    <2>3. Within(c, others, lowx, lowy, video_x', video_y')
      BY <1>1, <2>2, Running DEF Within
    <2>4. Held(c, others, lowx, lowy)
      BY <1>1, <2>2 DEF Held
    <2> QED
      BY <1>1, <2>1, <2>2, <2>3, <2>4, BodyStep, Numbers
  <1>3. CASE Last(calls).tmp # NOTHING
    <2>1. Goto(Call(next)) /\ cell' = Cell(video_x, Last(calls).tmp)
      BY <1>3 DEF video_putchar_at
    <2>2. Last(calls).tmp \in lowy..HighY(others)
      BY <1>1, <1>3, Running DEF Held
    <2>3. video_x >= lowx
      BY <1>1, Running DEF Within, MinusX
    <2>4. video_x >= -MAX_NEST /\ Last(calls).tmp >= -MAX_NEST
          /\ video_x \in Int /\ Last(calls).tmp \in Int
      <3>1. /\ others \in Nat /\ others <= MAX_NEST /\ MAX_NEST \in Nat
            /\ lowx >= -others /\ lowy >= -others
        BY <1>1, Running, ConsoleAssumption
      <3>2. lowx \in Int /\ lowy \in Int /\ HighY(others) \in Int /\ video_x \in Int
        BY <1>1, Numbers
      <3>3. Last(calls).tmp \in Int /\ Last(calls).tmp >= lowy
        BY <2>2, <3>2
      <3> QED
        BY <2>3, <3>1, <3>2, <3>3
    <2>5. cell' \in -(MAX_NEST * (VIDEO_X_SZ + 1))..(VIDEO_X_SZ * (VIDEO_Y_SZ + 1))
      BY <2>1, <2>4, CellNear
    <2>6. cell' \in Int /\ StoresNearScreen'
      BY <2>5 DEF StoresNearScreen
    <2>7. Within(Call(next), others, lowx, lowy, video_x', video_y')
      BY <1>1 DEF At
    <2>8. Call(next) \in Calls /\ Held(Call(next), others, lowx, lowy)
      BY CallIsCall DEF Held
    <2> QED
      BY <1>1, <2>1, <2>6, <2>7, <2>8, BodyStep, Numbers
  <1> QED
    BY <1>2, <1>3

\* What the additions make of a value that was loaded.
LEMMA Additions ==
    ASSUME NEW j \in Nat, NEW lx \in Int, NEW ly \in Int, NEW x \in Int, NEW y \in Int,
           NEW c, Within(c, j, lx, ly, x, y), lx <= 0, ly <= 0
    PROVE  /\ \A t \in lx..HighX(j) :
                 /\ c.at = "right" => Within(Call("wrap_x"), j, lx, ly, t + 1, y)
                 /\ c.at = "tab1" => Within(Call("tab"), j, lx, ly, t + 1, y)
                 /\ c.at = "backspace" => Within(Call("bs1"), j, lx, ly, t + (-1), y)
           /\ \A t \in ly..HighY(j) :
                 /\ c.at = "nl1" => Within(Call("wrap_x"), j, lx, ly, x, t + 1)
                 /\ c.at = "wx2" => Within(Call("wrap_y"), j, lx, ly, x, t + 1)
                 /\ c.at = "bs3" => Within(Call("bs4"), j, lx, ly, x, t + (-1))
  <1> DEFINE hx == HighX(j)
             hy == HighY(j)
             hx1 == HighX(j + 1)
             hy1 == HighY(j + 1)
  <1>1. /\ hx \in Int /\ hx >= VIDEO_X_SZ - 1 /\ hx1 = hx + TAB_LEN
        /\ hy \in Int /\ hy >= VIDEO_Y_SZ - 1 /\ hy1 = hy + 1
        /\ TAB_LEN \in Nat /\ TAB_LEN >= 1 /\ VIDEO_X_SZ \in Nat /\ VIDEO_Y_SZ \in Nat
    BY HighFacts, ConsoleAssumption
  <1>2. ASSUME NEW t \in lx..HighX(j)
        PROVE  t \in Int /\ t >= lx /\ t <= hx
    BY <1>1
  <1>3. ASSUME NEW t \in ly..HighY(j)
        PROVE  t \in Int /\ t >= ly /\ t <= hy
    BY <1>1
  <1>4. ASSUME NEW t \in lx..HighX(j)
        PROVE  /\ c.at = "right" => Within(Call("wrap_x"), j, lx, ly, t + 1, y)
               /\ c.at = "tab1" => Within(Call("tab"), j, lx, ly, t + 1, y)
               /\ c.at = "backspace" => Within(Call("bs1"), j, lx, ly, t + (-1), y)
    <2>1. t \in Int /\ t >= lx /\ t + 1 <= hx + 1 /\ t + 1 <= hx1 /\ t + 1 \in Int
          /\ t + (-1) \in Int /\ t + (-1) >= lx - 1 /\ t + (-1) <= hx /\ t + 1 >= lx
      BY <1>1, <1>2
    <2>2. c.at \in {"right", "tab1", "backspace"} => y >= ly /\ y <= hy
      BY DEF Within, MinusY
    <2>3. y <= hy => y <= hy1
      BY <1>1
    <2> QED
      BY <2>1, <2>2, <2>3 DEF Within, Call, MinusX, MinusY
  <1>5. ASSUME NEW t \in ly..HighY(j)
        PROVE  /\ c.at = "nl1" => Within(Call("wrap_x"), j, lx, ly, x, t + 1)
               /\ c.at = "wx2" => Within(Call("wrap_y"), j, lx, ly, x, t + 1)
               /\ c.at = "bs3" => Within(Call("bs4"), j, lx, ly, x, t + (-1))
    <2>1. t \in Int /\ t >= ly /\ t + 1 <= hy1 /\ t + 1 \in Int /\ t + 1 >= ly
          /\ t + (-1) \in Int /\ t + (-1) >= ly - 1 /\ t + (-1) <= hy
      BY <1>1, <1>3
    <2>2. c.at \in {"nl1", "wx2", "bs3"} => x >= lx
      BY DEF Within, MinusX
    <2>3. c.at \in {"nl1", "wx2"} => x <= VIDEO_X_SZ - 1
      BY DEF Within
    <2>4. c.at = "bs3" => x <= hx1
      BY DEF Within
    <2>5. x <= VIDEO_X_SZ - 1 => x < VIDEO_X_SZ /\ x <= hx1
      BY <1>1
    <2>6. c.at = "nl1" => Within(Call("wrap_x"), j, lx, ly, x, t + 1)
      BY <2>1, <2>2, <2>3, <2>5 DEF Within, Call, MinusX, MinusY
    <2>7. c.at = "wx2" => Within(Call("wrap_y"), j, lx, ly, x, t + 1)
      BY <2>1, <2>2, <2>3, <2>5 DEF Within, Call, MinusX, MinusY
    <2>8. c.at = "bs3" => Within(Call("bs4"), j, lx, ly, x, t + (-1))
      BY <2>1, <2>2, <2>4 DEF Within, Call, MinusX, MinusY
    <2> QED
      BY <2>6, <2>7, <2>8
  <1> QED
    BY <1>4, <1>5

-----------------------------------------------------------------------------
(* The branches of video_putchar.                                          *)

LEMMA NewLineKeeps == ASSUME ConsoleInv, NewLine PROVE ConsoleInv'
  <1>0. "newline" \in Labels \ CursorLabels /\ "nl1" \in Labels /\ "wrap_x" \in Labels
    BY DEF Labels, CursorLabels
  <1>1. CASE AssignX("newline", 0, "nl1")
    <2>1. calls # <<>> /\ Last(calls).at = "newline"
      BY <1>1 DEF AssignX, At
    <2>2. Within(Call("nl1"), others, lowx, lowy, 0, video_y)
      BY <2>1, Running, Numbers DEF Within, Call, MinusX, MinusY
    <2> QED
      BY <1>0, <1>1, <2>2, AssignXKeeps
  <1>2. CASE AddY("nl1", 1, "wrap_x")
    <2>1. ASSUME At("nl1"), NEW t \in lowy..HighY(others)
          PROVE  Within(Call("wrap_x"), others, lowx, lowy, video_x, t + 1)
      BY <2>1, Running, Additions DEF At
    <2> QED
      BY <1>0, <1>2, <2>1, AddYKeeps
  <1> QED
    BY <1>1, <1>2 DEF NewLine

\* The edge behind the screen and what interrupted calls add to it is a tab stop.
LEMMA TabStops ==
    ASSUME NEW j \in Nat
    PROVE  (HighX(j) + 1) % TAB_LEN = 0
  <1> DEFINE T == TAB_LEN
             q == VIDEO_X_SZ \div TAB_LEN
  <1>1. T \in Nat /\ T >= 1 /\ VIDEO_X_SZ \in Nat /\ VIDEO_X_SZ % T = 0
    BY ConsoleAssumption
  <1>2. q \in Int /\ VIDEO_X_SZ = T * q
    BY <1>1
  <1> HIDE DEF q, T
  <1>3. HighX(j) + 1 = T * (q + j)
    <2>1. HighX(j) = VIDEO_X_SZ - 1 + T * j
      BY DEF HighX, T
    <2>2. T * j \in Int /\ T * q \in Int /\ T * (q + j) = T * q + T * j
      BY <1>1, <1>2
    <2> QED
      BY <1>1, <1>2, <2>1, <2>2
  <1>4. \A k \in Int : (T * k) % T = 0
    BY <1>1
  <1> QED
    BY <1>2, <1>3, <1>4 DEF T

LEMMA TabKeeps == ASSUME ConsoleInv, Tab PROVE ConsoleInv'
  <1>0. /\ "tab" \in Labels \ CursorLabels /\ "tab1" \in Labels /\ "wrap_x" \in Labels
    BY DEF Labels, CursorLabels
  <1>1. CASE Branch("tab", video_x % TAB_LEN # 0, "tab1", "wrap_x")
    <2>1. calls # <<>> /\ Last(calls).at = "tab"
      BY <1>1 DEF Branch, At
    <2>2. Within(Call("wrap_x"), others, lowx, lowy, video_x, video_y)
      BY <2>1, Running, Numbers, SMTT(30) DEF Within, Call, MinusX, MinusY
    <2>3. video_x <= HighX(others) + 1
      BY <2>1, Running DEF Within
    <2>4. ASSUME video_x % TAB_LEN # 0
          PROVE  Within(Call("tab1"), others, lowx, lowy, video_x, video_y)
      <3>1. video_x # HighX(others) + 1
        BY <2>1, <2>4, Running, TabStops
      <3>2. video_x <= HighX(others)
        <4>1. video_x \in Int /\ HighX(others) \in Int
          BY <2>1, Numbers
        <4> QED
          BY <2>3, <3>1, <4>1
      <3> QED
        BY <2>1, <3>2, Running, Numbers DEF Within, Call, MinusX, MinusY
    <2>5. Within(Call(IF video_x % TAB_LEN # 0 THEN "tab1" ELSE "wrap_x"), others, lowx, lowy, video_x, video_y)
      BY <2>2, <2>4
    <2> QED
      BY <1>0, <1>1, <2>5, BranchKeeps
  <1>2. CASE AddX("tab1", 1, "tab")
    <2>1. ASSUME calls # <<>>, NEW t \in lowx..HighX(others)
          PROVE  Within(Call("tab"), others, lowx, lowy, t + 1, video_y)
      <3>1. Last(calls).at = "tab1"
        BY <1>2 DEF AddX, At
      <3> QED
        BY <2>1, <3>1, Running, Additions
    <2> QED
      BY <1>0, <1>2, <2>1, AddXKeeps
  <1> QED
    BY <1>1, <1>2 DEF Tab

LEMMA BackspaceKeeps == ASSUME ConsoleInv, Backspace PROVE ConsoleInv'
  <1>0. /\ {"backspace", "bs1", "bs2", "bs3", "bs4", "bs5", "erase"} \subseteq Labels \ CursorLabels
        /\ "wrap_x" \in Labels
    BY DEF Labels, CursorLabels
  <1>1. CASE AddX("backspace", -1, "bs1")
    <2>1. ASSUME calls # <<>>, NEW t \in lowx..HighX(others)
          PROVE  Within(Call("bs1"), others, lowx, lowy, t + (-1), video_y)
      <3>1. Last(calls).at = "backspace"
        BY <1>1 DEF AddX, At
      <3> QED
        BY <2>1, <3>1, Running, Additions
    <2> QED
      BY <1>0, <1>1, <2>1, AddXKeeps
  <1>2. CASE Branch("bs1", video_x < 0, "bs2", "erase")
    <2>1. calls # <<>> /\ Last(calls).at = "bs1"
      BY <1>2 DEF Branch, At
    <2>2. Within(Call(IF video_x < 0 THEN "bs2" ELSE "erase"), others, lowx, lowy, video_x, video_y)
      <3>1. CASE video_x < 0
        <4>1. Within(Call("bs2"), others, lowx, lowy, video_x, video_y)
          BY <2>1, Running, Numbers DEF Within, Call, MinusX, MinusY
        <4> QED
          BY <3>1, <4>1
      <3>2. CASE ~(video_x < 0)
        <4>1. Within(Call("erase"), others, lowx, lowy, video_x, video_y)
          BY <2>1, <3>2, Running, Numbers, SMTT(30) DEF Within, Call, MinusX, MinusY
        <4> QED
          BY <3>2, <4>1
      <3> QED
        BY <3>1, <3>2
    <2> QED
      BY <1>0, <1>2, <2>2, BranchKeeps
  <1>3. CASE AssignX("bs2", VIDEO_X_SZ, "bs3")
    <2>1. calls # <<>> /\ Last(calls).at = "bs2"
      BY <1>3 DEF AssignX, At
    <2>2. Within(Call("bs3"), others, lowx, lowy, VIDEO_X_SZ, video_y)
      BY <2>1, Running, Numbers, SMTT(30) DEF Within, Call, MinusX, MinusY
    <2> QED
      BY <1>0, <1>3, <2>1, <2>2, Numbers, AssignXKeeps
  <1>4. CASE AddY("bs3", -1, "bs4")
    <2>1. ASSUME At("bs3"), NEW t \in lowy..HighY(others)
          PROVE  Within(Call("bs4"), others, lowx, lowy, video_x, t + (-1))
      BY <2>1, Running, Additions DEF At
    <2> QED
      BY <1>0, <1>4, <2>1, AddYKeeps
  <1>5. CASE Branch("bs4", video_y < 0, "bs5", "erase")
    <2>1. calls # <<>> /\ Last(calls).at = "bs4"
      BY <1>5 DEF Branch, At
    <2>2. Within(Call(IF video_y < 0 THEN "bs5" ELSE "erase"), others, lowx, lowy, video_x, video_y)
      <3>1. CASE video_y < 0
        <4>1. Within(Call("bs5"), others, lowx, lowy, video_x, video_y)
          BY <2>1, Running, Numbers, SMTT(30) DEF Within, Call, MinusX, MinusY
        <4> QED
          BY <3>1, <4>1
      <3>2. CASE ~(video_y < 0)
        <4>1. Within(Call("erase"), others, lowx, lowy, video_x, video_y)
          BY <2>1, <3>2, Running, Numbers DEF Within, Call, MinusX, MinusY
        <4> QED
          BY <3>2, <4>1
      <3> QED
        BY <3>1, <3>2
    <2> QED
      BY <1>0, <1>5, <2>2, BranchKeeps
  <1>6. CASE AssignY("bs5", 0, "erase")
    <2>1. calls # <<>> /\ Last(calls).at = "bs5"
      BY <1>6 DEF AssignY, At
    <2>2. Within(Call("erase"), others, lowx, lowy, video_x, 0)
      <3>1. 0 >= lowy /\ 0 <= HighY(others)
        BY <2>1, Numbers
      <3>2. video_x >= lowx /\ video_x <= HighX(others + 1)
        BY <2>1, Running DEF Within, MinusX
      <3> QED
        BY <3>1, <3>2 DEF Within, Call, MinusX, MinusY
    <2> QED
      BY <1>0, <1>6, <2>2, AssignYKeeps
  <1>7. CASE video_putchar_at("erase", "wrap_x")
    <2>1. ASSUME At("erase")
          PROVE  Within(Call("wrap_x"), others, lowx, lowy, video_x, video_y)
      BY <2>1, Running, Numbers DEF At, Within, Call, MinusX, MinusY
    <2> QED
      BY <1>0, <1>7, <2>1, PutcharAtKeeps
  <1> QED
    BY <1>1, <1>2, <1>3, <1>4, <1>5, <1>6, <1>7 DEF Backspace

LEMMA PrintedKeeps == ASSUME ConsoleInv, Printed PROVE ConsoleInv'
  <1>0. "right" \in Labels /\ "wrap_x" \in Labels
    BY DEF Labels
  <1>1. CASE video_putchar_at("char", "right")
    <2>1. ASSUME At("char")
          PROVE  Within(Call("right"), others, lowx, lowy, video_x, video_y)
      BY <2>1, Running, Numbers DEF At, Within, Call, MinusX, MinusY
    <2> QED
      BY <1>0, <1>1, <2>1, PutcharAtKeeps
  <1>2. CASE AddX("right", 1, "wrap_x")
    <2>1. ASSUME calls # <<>>, NEW t \in lowx..HighX(others)
          PROVE  Within(Call("wrap_x"), others, lowx, lowy, t + 1, video_y)
      <3>1. Last(calls).at = "right"
        BY <1>2 DEF AddX, At
      <3> QED
        BY <2>1, <3>1, Running, Additions
    <2> QED
      BY <1>0, <1>2, <2>1, AddXKeeps
  <1> QED
    BY <1>1, <1>2 DEF Printed

LEMMA WrapXKeeps == ASSUME ConsoleInv, WrapX PROVE ConsoleInv'
  <1>0. {"wrap_x", "wx1", "wx2", "wrap_y"} \subseteq Labels \ CursorLabels
    BY DEF Labels, CursorLabels
  <1>1. CASE Branch("wrap_x", video_x >= VIDEO_X_SZ, "wx1", "wrap_y")
    <2>1. calls # <<>> /\ Last(calls).at = "wrap_x"
      BY <1>1 DEF Branch, At
    <2>2. Within(Call(IF video_x >= VIDEO_X_SZ THEN "wx1" ELSE "wrap_y"), others, lowx, lowy, video_x, video_y)
      BY <2>1, Running, Numbers, SMTT(30) DEF Within, Call, MinusX, MinusY
    <2> QED
      BY <1>0, <1>1, <2>2, BranchKeeps
  <1>2. CASE AssignX("wx1", 0, "wx2")
    <2>1. calls # <<>> /\ Last(calls).at = "wx1"
      BY <1>2 DEF AssignX, At
    <2>2. Within(Call("wx2"), others, lowx, lowy, 0, video_y)
      BY <2>1, Running, Numbers DEF Within, Call, MinusX, MinusY
    <2> QED
      BY <1>0, <1>2, <2>2, AssignXKeeps
  <1>3. CASE AddY("wx2", 1, "wrap_y")
    <2>1. ASSUME At("wx2"), NEW t \in lowy..HighY(others)
          PROVE  Within(Call("wrap_y"), others, lowx, lowy, video_x, t + 1)
      BY <2>1, Running, Additions DEF At
    <2> QED
      BY <1>0, <1>3, <2>1, AddYKeeps
  <1> QED
    BY <1>1, <1>2, <1>3 DEF WrapX

LEMMA WrapYKeeps == ASSUME ConsoleInv, WrapY PROVE ConsoleInv'
  <1>0. {"wrap_y", "roll", "wy1"} \subseteq Labels \ CursorLabels /\ "end" \in Labels
    BY DEF Labels, CursorLabels
  <1>1. CASE Branch("wrap_y", video_y >= VIDEO_Y_SZ, "roll", "end")
    <2>1. calls # <<>> /\ Last(calls).at = "wrap_y"
      BY <1>1 DEF Branch, At
    <2>2. Within(Call(IF video_y >= VIDEO_Y_SZ THEN "roll" ELSE "end"), others, lowx, lowy, video_x, video_y)
      BY <2>1, Running, Numbers DEF Within, Call, MinusX, MinusY
    <2> QED
      BY <1>0, <1>1, <2>2, BranchKeeps
  <1>2. CASE AssignX("roll", 0, "wy1")
    <2>1. calls # <<>> /\ Last(calls).at = "roll"
      BY <1>2 DEF AssignX, At
    <2>2. Within(Call("wy1"), others, lowx, lowy, 0, video_y)
      BY <2>1, Running, Numbers DEF Within, Call, MinusX, MinusY
    <2> QED
      BY <1>0, <1>2, <2>2, AssignXKeeps
  <1>3. CASE AssignY("wy1", VIDEO_Y_SZ - 1, "end")
    <2>1. calls # <<>> /\ Last(calls).at = "wy1"
      BY <1>3 DEF AssignY, At
    <2>2. Within(Call("end"), others, lowx, lowy, video_x, VIDEO_Y_SZ - 1)
      BY <2>1, Running, Numbers, SMTT(30) DEF Within, Call, MinusX, MinusY
    <2>3. VIDEO_Y_SZ - 1 \in Int
      BY <2>1, Numbers
    <2> QED
      BY <1>0, <1>3, <2>2, <2>3, AssignYKeeps
  <1> QED
    BY <1>1, <1>2, <1>3 DEF WrapY

-----------------------------------------------------------------------------
(* update_cursor.                                                          *)

LEMMA Digits ==
    ASSUME NEW B \in Nat, B > 0, NEW n \in Nat, n < B * B
    PROVE  /\ n % B \in 0..(B - 1) /\ (n \div B) % B \in 0..(B - 1)
           /\ ((n \div B) % B) * B + (n % B) = n
  <1>1. PICK q \in Nat, r \in 0..(B - 1) : q = n \div B /\ r = n % B /\ n = B * q + r
    OBVIOUS
  <1>2. q < B
    <2> SUFFICES ASSUME NEW d \in Nat, q = B + d PROVE FALSE
      <3>1. q >= B => q - B \in Nat /\ q = B + (q - B)
        BY <1>1
      <3> QED
        BY <1>1, <3>1
    <2>1. B * q = B * B + B * d /\ B * d \in Nat /\ B * B \in Nat
      OBVIOUS
    <2> QED
      BY <1>1, <2>1
  <1>3. \A k \in Nat : k < B => k % B = k
    OBVIOUS
  <1>4. q % B = q /\ q * B = B * q
    BY <1>1, <1>2, <1>3
  <1> QED
    BY <1>1, <1>2, <1>4

\* The position of a cursor on the screen fits the two bytes.
LEMMA TwoBytes ==
    ASSUME NEW x \in 0..(VIDEO_X_SZ - 1), NEW y \in 0..(VIDEO_Y_SZ - 1)
    PROVE  LET n == VIDEO_X_SZ * y + x IN
           /\ n \in Nat /\ n % BYTE \in 0..(BYTE - 1) /\ (n \div BYTE) % BYTE \in 0..(BYTE - 1)
           /\ ((n \div BYTE) % BYTE) * BYTE + (n % BYTE) = n
  <1> DEFINE n == VIDEO_X_SZ * y + x
             B == BYTE
  <1>1. VIDEO_X_SZ \in Nat /\ VIDEO_Y_SZ \in Nat /\ B \in Nat /\ B > 0
        /\ VIDEO_X_SZ * VIDEO_Y_SZ <= B * B
    BY ConsoleAssumption
  <1>2. VIDEO_X_SZ * y \in Nat /\ VIDEO_X_SZ * y <= VIDEO_X_SZ * (VIDEO_Y_SZ - 1)
        /\ VIDEO_X_SZ * (VIDEO_Y_SZ - 1) = VIDEO_X_SZ * VIDEO_Y_SZ - VIDEO_X_SZ
    BY <1>1
  <1>3. n \in Nat /\ n < B * B
    BY <1>1, <1>2
  <1> HIDE DEF n, B
  <1> QED
    BY <1>1, <1>3, Digits DEF n, B

\* Between update_cursor's steps nothing moves.
LEMMA CursorStep ==
    ASSUME ConsoleInv, calls # <<>>, Last(calls).at \in CursorLabels,
           NEW c \in Calls, Goto(c), c.at \in CursorLabels,
           c.at = "end" => c.tmp = NOTHING \/ c.tmp = video_x,
           UNCHANGED <<video_x, video_y, cell>>,
           index' \in {"low", "high"}, cursor' \in [{"low", "high"} -> 0..(BYTE - 1)],
           quiet' \in BOOLEAN, Cursor'
    PROVE  ConsoleInv'
  <1>1. Within(c, others, lowx, lowy, video_x', video_y')
    BY Running DEF Within, MinusX, MinusY, CursorLabels
  <1>2. Held(c, others, lowx, lowy)
    BY DEF Held, CursorLabels
  <1> QED
    BY <1>1, <1>2, GotoKeepsInv DEF ConsoleInv, TypeOK, StoresNearScreen, Drift


\* While quiet, the one call is where Cursor says.
LEMMA QuietCall ==
    ASSUME ConsoleInv, calls # <<>>, quiet
    PROVE  LET c == Last(calls)
               here == VIDEO_X_SZ * video_y + video_x
           IN  /\ others = 0
               /\ c.at \in CursorLabels
               /\ c.at = "end" => c.tmp = video_x
               /\ c.at \in {"index_low", "low", "index_high", "high"} => c.tmp = here
               /\ c.at \in {"low", "high"} => index = c.at
               /\ c.at \in {"index_high", "high"} => cursor.low = here % BYTE
               /\ c.at = "return" => cursor = [low |-> here % BYTE, high |-> (here \div BYTE) % BYTE]
  <1>1. Len(calls) = 1 /\ others = 0 /\ Last(calls) = calls[1]
    BY Running DEF ConsoleInv, Cursor
  <1>2. PICK c : c = calls[1]
    OBVIOUS
  <1>3. LET here == VIDEO_X_SZ * video_y + video_x
        IN  \/ c = [at |-> "end", tmp |-> video_x]
            \/ c = [at |-> "index_low", tmp |-> here]
            \/ c = [at |-> "low", tmp |-> here] /\ index = "low"
            \/ c = [at |-> "index_high", tmp |-> here] /\ cursor.low = here % BYTE
            \/ c = [at |-> "high", tmp |-> here] /\ cursor.low = here % BYTE /\ index = "high"
            \/ c.at = "return" /\ cursor = [low |-> here % BYTE, high |-> (here \div BYTE) % BYTE]
    BY <1>2 DEF ConsoleInv, Cursor
  <1> QED
    BY <1>1, <1>2, <1>3 DEF CursorLabels

LEMMA PositionKeeps == ASSUME ConsoleInv, Position PROVE ConsoleInv'
  <1>0. {"end", "index_low"} \subseteq Labels \cap CursorLabels
    BY DEF Labels, CursorLabels
  <1>1. /\ calls # <<>> /\ Last(calls).at = "end"
        /\ quiet' = (quiet \/ (Len(calls) = 1 /\ Last(calls).tmp = NOTHING))
        /\ UNCHANGED <<video_x, video_y, cell, index, cursor>>
    BY DEF Position, At
  <1>2. /\ Len(calls) = others + 1 /\ others \in Nat /\ Last(calls).tmp \in Int
        /\ video_x \in Int /\ video_y \in Int /\ VIDEO_X_SZ * video_y \in Int
    BY <1>1, Running, ConsoleAssumption DEF Calls
  <1>3. /\ index' \in {"low", "high"} /\ cursor' \in [{"low", "high"} -> 0..(BYTE - 1)]
        /\ quiet' \in BOOLEAN
    BY <1>1 DEF ConsoleInv, TypeOK
  <1>4. ASSUME NEW c \in Calls, c.at \in CursorLabels, Goto(c), quiet' => others = 0,
               quiet' => \/ c = [at |-> "end", tmp |-> video_x]
                         \/ c = [at |-> "index_low", tmp |-> VIDEO_X_SZ * video_y + video_x],
               c.at = "end" => c.tmp = video_x
        PROVE  ConsoleInv'
    <2>1. Len(calls') = Len(calls) /\ calls'[others + 1] = c
      BY <1>1, <1>4, GotoFacts
    <2>2. quiet' => Len(calls') = 1 /\ calls'[1] = c
      BY <1>2, <1>4, <2>1
    <2>3. Cursor'
      BY <1>1, <1>4, <2>2 DEF Cursor
    <2> QED
      BY <1>0, <1>1, <1>3, <1>4, <2>3, CursorStep
  <1>5. CASE Last(calls).tmp = NOTHING
    <2> DEFINE c == [at |-> "end", tmp |-> video_x]
    <2>1. Goto(c) /\ c \in Calls
      BY <1>0, <1>1, <1>2, <1>5 DEF Position, Calls
    <2>2. quiet' => others = 0
      <3>1. quiet => others = 0
        BY <1>1, QuietCall
      <3>2. PICK o \in Nat : o = others /\ Len(calls) = o + 1
        BY <1>1, Running
      <3>3. Len(calls) = 1 => others = 0
        BY <3>2
      <3> QED
        BY <1>1, <3>1, <3>3
    <2> QED
      BY <1>0, <1>4, <2>1, <2>2
  <1>6. CASE Last(calls).tmp # NOTHING
    <2> DEFINE c == [at |-> "index_low", tmp |-> VIDEO_X_SZ * video_y + Last(calls).tmp]
    <2>1. Goto(c)
      BY <1>1, <1>6 DEF Position
    <2>2. c \in Calls
      BY <1>0, <1>2 DEF Calls
    <2>3. quiet' => others = 0 /\ Last(calls).tmp = video_x
      BY <1>1, <1>6, QuietCall
    <2> QED
      BY <1>0, <1>4, <2>1, <2>2, <2>3
  <1> QED
    BY <1>5, <1>6

\* The steps that write a port.
LEMMA PortKeeps ==
    ASSUME ConsoleInv, update_cursor, ~Position
    PROVE  ConsoleInv'
  <1> DEFINE t == Last(calls).tmp
             n == VIDEO_X_SZ * video_y + video_x
  <1>1. PICK at \in {"index_low", "low", "index_high", "high"} :
           /\ calls # <<>> /\ Last(calls).at = at
           /\ UNCHANGED <<video_x, video_y, cell, quiet>>
           /\ at = "index_low" => index' = "low" /\ cursor' = cursor
           /\ at = "low" => index' = index /\ cursor' = [cursor EXCEPT ![index] = t % BYTE]
           /\ at = "index_high" => index' = "high" /\ cursor' = cursor
           /\ at = "high" => index' = index /\ cursor' = [cursor EXCEPT ![index] = (t \div BYTE) % BYTE]
           /\ Goto(CASE at = "index_low" -> [Last(calls) EXCEPT !.at = "low"]
                     [] at = "low" -> [Last(calls) EXCEPT !.at = "index_high"]
                     [] at = "index_high" -> [Last(calls) EXCEPT !.at = "high"]
                     [] at = "high" -> Call("return"))
    BY DEF update_cursor, Select, Data, At
  <1>2. Last(calls) \in Calls /\ t \in Int /\ Last(calls) = [at |-> at, tmp |-> t]
    BY <1>1, Running DEF Calls
  <1>3. PICK c : c = CASE at = "index_low" -> [at |-> "low", tmp |-> t]
                       [] at = "low" -> [at |-> "index_high", tmp |-> t]
                       [] at = "index_high" -> [at |-> "high", tmp |-> t]
                       [] at = "high" -> Call("return")
    OBVIOUS
  <1>4. Goto(c)
    BY <1>1, <1>2, <1>3
  <1>5. c \in Calls /\ c.at \in CursorLabels /\ c.at # "end"
    BY <1>2, <1>3, CallIsCall DEF Calls, Labels, CursorLabels
  <1>6. t % BYTE \in 0..(BYTE - 1) /\ (t \div BYTE) % BYTE \in 0..(BYTE - 1)
    BY <1>2, ConsoleAssumption
  <1>7. /\ index \in {"low", "high"} /\ cursor \in [{"low", "high"} -> 0..(BYTE - 1)] /\ quiet \in BOOLEAN
    BY DEF ConsoleInv, TypeOK
  <1>8. /\ index' \in {"low", "high"} /\ cursor' \in [{"low", "high"} -> 0..(BYTE - 1)] /\ quiet' \in BOOLEAN
    BY <1>1, <1>6, <1>7
  <1>9. calls'[others + 1] = c /\ Len(calls') = others + 1 /\ others \in Nat
    BY <1>1, <1>4, <1>5, GotoFacts, Running
  <1>10. ASSUME quiet
         PROVE  /\ Len(calls') = 1 /\ calls'[1] = c /\ t = n
                /\ at \in {"low", "high"} => index = at
                /\ at \in {"index_high", "high"} => cursor.low = n % BYTE
    BY <1>1, <1>9, <1>10, QuietCall
  <1>11. Cursor'
    <2> SUFFICES ASSUME quiet
                 PROVE  \/ c = [at |-> "low", tmp |-> n] /\ index' = "low"
                        \/ c = [at |-> "index_high", tmp |-> n] /\ cursor'.low = n % BYTE
                        \/ c = [at |-> "high", tmp |-> n] /\ cursor'.low = n % BYTE /\ index' = "high"
                        \/ c.at = "return" /\ cursor' = [low |-> n % BYTE, high |-> (n \div BYTE) % BYTE]
      <3>1. quiet' = quiet /\ VIDEO_X_SZ * video_y' + video_x' = n
        BY <1>1
      <3> QED
        BY <1>10, <3>1 DEF Cursor
    <2> HIDE DEF n, t
    <2>1. CASE at = "index_low"
      BY <1>1, <1>3, <1>10, <2>1
    <2>2. CASE at = "low"
      BY <1>1, <1>3, <1>7, <1>10, <2>2
    <2>3. CASE at = "index_high"
      BY <1>1, <1>3, <1>10, <2>3
    <2>4. CASE at = "high"
      <3>1. c.at = "return"
        BY <1>3, <2>4 DEF Call
      <3>2. cursor' = [cursor EXCEPT !["high"] = (n \div BYTE) % BYTE] /\ cursor.low = n % BYTE
        BY <1>1, <1>10, <2>4
      <3>3. cursor' = [low |-> n % BYTE, high |-> (n \div BYTE) % BYTE]
        BY <1>7, <3>2
      <3> QED
        BY <3>1, <3>3
    <2> QED
      BY <2>1, <2>2, <2>3, <2>4
  <1> QED
    BY <1>1, <1>4, <1>5, <1>8, <1>11, CursorStep DEF CursorLabels

-----------------------------------------------------------------------------
(* Calls and returns.                                                      *)

\* A call begins on top of those in progress.
LEMMA PushKeeps ==
    ASSUME ConsoleInv, Len(calls) <= MAX_NEST,
           NEW ch \in {"char", "newline", "tab", "backspace"}, calls' = Append(calls, Call(ch)),
           quiet' = FALSE, UNCHANGED <<video_x, video_y, cell, index, cursor>>
    PROVE  ConsoleInv'
  <1> DEFINE c == Call(ch)
  <1>1. PICK n \in Nat : n = Len(calls)
    BY DEF ConsoleInv, TypeOK
  <1>2. ch \in Labels /\ c \in Calls /\ c.at = ch /\ c.tmp = NOTHING
    BY CallIsCall DEF Labels
  <1>3. calls \in Seq(Calls) /\ video_x \in Int /\ video_y \in Int
    BY DEF ConsoleInv, TypeOK, Calls, Drift
  <1> HIDE DEF c
  <1>4. /\ calls' \in Seq(Calls) /\ Len(calls') = n + 1 /\ calls' # <<>> /\ calls'[n + 1] = c
        /\ \A j \in 1..n : calls'[j] = calls[j]
    BY <1>1, <1>2, <1>3 DEF c
  <1>5. Last(calls') = c /\ Len(calls') - 1 = n
    BY <1>1, <1>4 DEF Last
  <1>6. \A j \in 0..n : LowX(calls', j) = LowX(calls, j) /\ LowY(calls', j) = LowY(calls, j)
    <2> TAKE j \in 0..n
    <2>1. PICK cs : cs = calls'
      OBVIOUS
    <2>2. \A i \in 1..j : cs[i] = calls[i]
      BY <1>1, <1>4, <2>1
    <2>3. LowX(cs, j) = LowX(calls, j) /\ LowY(cs, j) = LowY(calls, j)
      BY <2>2, SamePending
    <2> QED
      BY <2>1, <2>3
  <1>7. /\ video_x >= LowX(calls, n) /\ video_x <= HighX(n)
        /\ video_y >= LowY(calls, n) /\ video_y <= HighY(n)
        /\ LowX(calls, n) \in Int /\ LowX(calls, n) >= -n
        /\ LowY(calls, n) \in Int /\ LowY(calls, n) >= -n
    <2>1. /\ LowX(calls, n) \in Int /\ LowX(calls, n) >= -n /\ LowX(calls, n) <= 0
          /\ LowY(calls, n) \in Int /\ LowY(calls, n) >= -n /\ LowY(calls, n) <= 0
      BY NextLow
    <2>2. CASE n = 0
      <3>1. calls = <<>>
        BY <1>1, <2>2, Running
      <3>2. video_x \in 0..(VIDEO_X_SZ - 1) /\ video_y \in 0..(VIDEO_Y_SZ - 1)
        BY <3>1 DEF ConsoleInv, InRange, CursorOnScreen
      <3>4. /\ HighX(n) \in Int /\ HighX(n) >= VIDEO_X_SZ - 1 /\ HighY(n) \in Int /\ HighY(n) >= VIDEO_Y_SZ - 1
            /\ VIDEO_X_SZ \in Nat /\ VIDEO_Y_SZ \in Nat
        BY HighFacts, ConsoleAssumption
      <3> QED
        BY <2>1, <3>2, <3>4
    <2>3. CASE n # 0
      <3>1. calls # <<>>
        BY <1>1, <2>3
      <3>2. others \in Nat /\ n = others + 1 /\ Last(calls) = calls[n]
        BY <1>1, <3>1, Running
      <3>3. Within(calls[n], others, lowx, lowy, video_x, video_y)
        BY <3>1, <3>2, Running
      <3>4. /\ LowX(calls, n) = IF calls[n].at \in MinusX THEN lowx - 1 ELSE lowx
            /\ LowY(calls, n) = IF calls[n].at \in MinusY THEN lowy - 1 ELSE lowy
        <4>1. PICK k \in Nat : k = others
          BY <3>2
        <4>2. /\ LowX(calls, k + 1) = IF calls[k + 1].at \in MinusX THEN LowX(calls, k) - 1 ELSE LowX(calls, k)
              /\ LowY(calls, k + 1) = IF calls[k + 1].at \in MinusY THEN LowY(calls, k) - 1 ELSE LowY(calls, k)
          BY NextLow
        <4>5. n = k + 1 /\ lowx = LowX(calls, k) /\ lowy = LowY(calls, k)
          BY <3>2, <4>1 DEF lowx, lowy
        <4> HIDE DEF lowx, lowy
        <4> QED
          BY <4>2, <4>5
      <3>5. /\ HighX(others) \in Int /\ HighX(others) >= VIDEO_X_SZ - 1
            /\ HighX(n) = HighX(others) + TAB_LEN /\ TAB_LEN \in Nat /\ TAB_LEN >= 1
            /\ HighY(others) \in Int /\ HighY(others) >= VIDEO_Y_SZ - 1
            /\ HighY(n) = HighY(others) + 1 /\ VIDEO_X_SZ \in Nat /\ VIDEO_Y_SZ \in Nat
        BY <3>1, <3>2, Numbers
      <3>6. video_x >= LowX(calls, n) /\ video_y >= LowY(calls, n)
        BY <3>3, <3>4 DEF Within
      <3>7. video_x <= HighX(n)
        BY <1>3, <3>2, <3>3, <3>5, SMTT(30) DEF Within
      <3>8. video_y <= HighY(n)
        BY <1>3, <3>2, <3>3, <3>5, SMTT(30) DEF Within
      <3> QED
        BY <2>1, <3>6, <3>7, <3>8
    <2> QED
      BY <2>2, <2>3
  <1>8. Within(c, n, LowX(calls, n), LowY(calls, n), video_x, video_y)
    <2>1. HighX(n) \in Int
      BY HighFacts
    <2>2. video_x <= HighX(n) + 1
      BY <1>3, <1>7, <2>1
    <2> QED
      BY <1>2, <1>7, <2>2 DEF Within, MinusX, MinusY
  <1>9. InRange'
    <2>1. LowX(calls', n) = LowX(calls, n) /\ LowY(calls', n) = LowY(calls, n)
      BY <1>6
    <2> QED
      BY <1>4, <1>5, <1>8, <2>1 DEF InRange
  <1>10. ASSUME NEW j \in 1..(n + 1)
         PROVE  Held(calls'[j], j - 1, LowX(calls', j - 1), LowY(calls', j - 1))
    <2>1. CASE j = n + 1
      BY <1>2, <1>4, <2>1 DEF Held
    <2>2. CASE j # n + 1
      <3>1. j \in 1..n /\ j - 1 \in 0..n
        BY <2>2
      <3>2. Held(calls[j], j - 1, LowX(calls, j - 1), LowY(calls, j - 1))
        BY <1>1, <3>1 DEF ConsoleInv
      <3> QED
        BY <1>4, <1>6, <3>1, <3>2
    <2> QED
      BY <2>1, <2>2
  <1>11. Drift(video_x, VIDEO_X_SZ, TAB_LEN)' /\ Drift(video_y, VIDEO_Y_SZ, 1)'
    <2>1. TAB_LEN \in Nat /\ VIDEO_X_SZ \in Nat /\ VIDEO_Y_SZ \in Nat
      BY ConsoleAssumption
    <2>2. /\ TAB_LEN * n \in Nat /\ TAB_LEN * (n + 1) = TAB_LEN * n + TAB_LEN /\ TAB_LEN * (n + 1) \in Nat
          /\ 1 * (n + 1) = n + 1
      BY <2>1
    <2>3. HighX(n) = VIDEO_X_SZ - 1 + TAB_LEN * n /\ HighY(n) = VIDEO_Y_SZ - 1 + n
      BY DEF HighX, HighY
    <2>4. video_x >= -(n + 1) /\ video_x <= VIDEO_X_SZ - 1 + TAB_LEN * (n + 1)
      BY <1>3, <1>7, <2>1, <2>2, <2>3
    <2>5. video_y >= -(n + 1) /\ video_y <= VIDEO_Y_SZ - 1 + 1 * (n + 1)
      BY <1>3, <1>7, <2>1, <2>2, <2>3
    <2> QED
      BY <1>3, <1>4, <2>1, <2>2, <2>4, <2>5 DEF Drift
  <1>12. TypeOK'
    <2>1. n + 1 <= MAX_NEST + 1 /\ Len(calls') = n + 1
      BY <1>1, <1>4, ConsoleAssumption
    <2>2. Len(calls') <= MAX_NEST + 1
      BY <2>1
    <2> QED
      BY <1>4, <1>11, <2>2 DEF ConsoleInv, TypeOK, Calls
  <1>13. StoresNearScreen' /\ Cursor'
    BY DEF ConsoleInv, StoresNearScreen, Cursor
  <1> QED
    BY <1>4, <1>9, <1>10, <1>12, <1>13 DEF ConsoleInv

LEMMA ReturnKeeps == ASSUME ConsoleInv, Return PROVE ConsoleInv'
  <1>1. /\ calls # <<>> /\ Last(calls).at = "return" /\ calls' = Front(calls)
        /\ UNCHANGED <<video_x, video_y, cell, index, cursor, quiet>>
    BY DEF Return, At, vga
  <1>2. /\ others \in Nat /\ others <= MAX_NEST /\ Len(calls) = others + 1 /\ calls \in Seq(Calls)
        /\ lowx \in Int /\ lowx >= -others /\ lowy \in Int /\ lowy >= -others
        /\ Within(Last(calls), others, lowx, lowy, video_x, video_y)
        /\ video_x \in Int /\ video_y \in Int
    BY <1>1, Running
  <1>3. /\ video_x >= lowx /\ video_y >= lowy
        /\ video_x <= VIDEO_X_SZ - 1 /\ video_y <= VIDEO_Y_SZ - 1
    BY <1>1, <1>2 DEF Within, MinusX, MinusY
  <1>4. PICK n \in Nat : n = others
    BY <1>2
  <1>5. /\ calls' \in Seq(Calls) /\ Len(calls') = n
        /\ \A j \in 1..n : calls'[j] = calls[j]
    <2>1. Len(calls) - 1 = n /\ n <= Len(calls)
      BY <1>2, <1>4
    <2>2. calls' = SubSeq(calls, 1, n)
      BY <1>1, <2>1 DEF Front
    <2> QED
      BY <1>2, <2>1, <2>2
  <1>6. \A j \in 0..n : LowX(calls', j) = LowX(calls, j) /\ LowY(calls', j) = LowY(calls, j)
    <2> TAKE j \in 0..n
    <2>1. PICK cs : cs = calls'
      OBVIOUS
    <2>2. \A i \in 1..j : cs[i] = calls[i]
      BY <1>4, <1>5, <2>1
    <2>3. LowX(cs, j) = LowX(calls, j) /\ LowY(cs, j) = LowY(calls, j)
      BY <2>2, SamePending
    <2> QED
      BY <2>1, <2>3
  <1>7. lowx = LowX(calls, n) /\ lowy = LowY(calls, n)
    BY <1>4 DEF lowx, lowy
  <1>8. VIDEO_X_SZ \in Nat /\ VIDEO_Y_SZ \in Nat /\ TAB_LEN \in Nat /\ TAB_LEN >= 1
    BY ConsoleAssumption
  <1>9. CASE n = 0
    <2>1. calls' = <<>>
      BY <1>5, <1>9
    <2>3. lowx = 0 /\ lowy = 0
      BY <1>7, <1>9, NextLow
    <2>4. CursorOnScreen'
      BY <1>1, <1>2, <1>3, <1>8, <2>3 DEF CursorOnScreen
    <2>5. Cursor'
      <3> SUFFICES ASSUME quiet
                   PROVE  LET here == VIDEO_X_SZ * video_y + video_x
                          IN  cursor = [low |-> here % BYTE, high |-> (here \div BYTE) % BYTE]
        BY <1>1, <2>1 DEF Cursor
      <3> QED
        BY <1>1, QuietCall
    <2>6. Drift(video_x, VIDEO_X_SZ, TAB_LEN)' /\ Drift(video_y, VIDEO_Y_SZ, 1)'
      <3>1. TAB_LEN * 0 = 0 /\ Len(calls') = 0
        BY <1>5, <1>8, <1>9
      <3> QED
        BY <1>1, <1>2, <1>3, <1>8, <2>3, <3>1 DEF Drift
    <2>7. TypeOK'
      BY <1>1, <1>5, <1>9, <2>6, ConsoleAssumption DEF ConsoleInv, TypeOK, Calls
    <2>8. StoresNearScreen'
      BY <1>1 DEF ConsoleInv, StoresNearScreen
    <2>9. InRange' /\ (\A j \in 1..Len(calls') : Held(calls'[j], j - 1, LowX(calls', j - 1), LowY(calls', j - 1)))
      BY <1>5, <1>9, <2>1, <2>4 DEF InRange
    <2> QED
      BY <2>5, <2>7, <2>8, <2>9 DEF ConsoleInv
  <1>10. CASE n # 0
    <2>1. PICK k \in Nat : n = k + 1
      <3>1. n - 1 \in Nat /\ n = (n - 1) + 1
        BY <1>10
      <3> QED
        BY <3>1
    <2> DEFINE c == calls[n]
               lx == LowX(calls, k)
               ly == LowY(calls, k)
    <2>2. calls' # <<>> /\ Last(calls') = c /\ Len(calls') - 1 = k
      BY <1>5, <1>10, <2>1 DEF Last
    <2>3. /\ lowx = IF c.at \in MinusX THEN lx - 1 ELSE lx
          /\ lowy = IF c.at \in MinusY THEN ly - 1 ELSE ly
          /\ lx \in Int /\ ly \in Int
      <3>1. /\ LowX(calls, k + 1) = IF calls[k + 1].at \in MinusX THEN LowX(calls, k) - 1 ELSE LowX(calls, k)
            /\ LowY(calls, k + 1) = IF calls[k + 1].at \in MinusY THEN LowY(calls, k) - 1 ELSE LowY(calls, k)
            /\ lx \in Int /\ ly \in Int
        BY NextLow
      <3>2. /\ LowX(calls, n) = IF c.at \in MinusX THEN lx - 1 ELSE lx
            /\ LowY(calls, n) = IF c.at \in MinusY THEN ly - 1 ELSE ly
        BY <2>1, <3>1
      <3> QED
        BY <1>7, <3>1, <3>2
    <2>4. /\ HighX(k) \in Int /\ HighX(k) >= VIDEO_X_SZ - 1 /\ HighX(k + 1) = HighX(k) + TAB_LEN
          /\ HighY(k) \in Int /\ HighY(k) >= VIDEO_Y_SZ - 1 /\ HighY(k + 1) = HighY(k) + 1
      BY HighFacts
    <2>5. /\ video_x <= HighX(k) /\ video_x <= HighX(k) + 1 /\ video_x <= HighX(k + 1)
          /\ video_y <= HighY(k) /\ video_y <= HighY(k + 1)
      BY <1>2, <1>3, <1>8, <2>4, SMTT(30)
    <2>6. Within(c, k, lx, ly, video_x, video_y)
      <3> HIDE DEF c, lx, ly
      <3>1. video_x >= (IF c.at \in MinusX THEN lx - 1 ELSE lx) /\ video_y >= (IF c.at \in MinusY THEN ly - 1 ELSE ly)
        BY <1>3, <2>3
      <3> QED
        BY <1>3, <2>5, <3>1 DEF Within
    <2>7. InRange'
      <3>1. LowX(calls', k) = lx /\ LowY(calls', k) = ly
        BY <1>6, <2>1
      <3> QED
        BY <1>1, <2>2, <2>6, <3>1 DEF InRange
    <2>8. ASSUME NEW j \in 1..n
          PROVE  Held(calls'[j], j - 1, LowX(calls', j - 1), LowY(calls', j - 1))
      <3>1. j \in 1..Len(calls) /\ j - 1 \in 0..n
        BY <1>2, <1>4
      <3>2. Held(calls[j], j - 1, LowX(calls, j - 1), LowY(calls, j - 1))
        BY <3>1 DEF ConsoleInv
      <3> QED
        BY <1>5, <1>6, <3>1, <3>2
    <2>9. Drift(video_x, VIDEO_X_SZ, TAB_LEN)' /\ Drift(video_y, VIDEO_Y_SZ, 1)'
      <3>1. TAB_LEN * n \in Nat
        BY <1>8
      <3>2. video_x >= -n /\ video_y >= -n
        BY <1>2, <1>3, <1>4
      <3>3. video_x <= VIDEO_X_SZ - 1 + TAB_LEN * n /\ video_y <= VIDEO_Y_SZ - 1 + 1 * n
        BY <1>2, <1>3, <1>8, <3>1
      <3> QED
        BY <1>1, <1>2, <1>5, <1>8, <3>1, <3>2, <3>3 DEF Drift
    <2>10. TypeOK'
      <3>1. n <= MAX_NEST + 1
        BY <1>2, <1>4, ConsoleAssumption
      <3> QED
        BY <1>1, <1>5, <2>9, <3>1 DEF ConsoleInv, TypeOK, Calls
    <2>11. StoresNearScreen'
      BY <1>1 DEF ConsoleInv, StoresNearScreen
    <2>12. Cursor'
      <3>1. ~quiet
        BY <1>1, <1>4, <1>10, QuietCall
      <3> QED
        BY <1>1, <3>1 DEF Cursor
    <2> QED
      BY <1>5, <2>7, <2>8, <2>10, <2>11, <2>12 DEF ConsoleInv
  <1> QED
    BY <1>9, <1>10

-----------------------------------------------------------------------------
(* The theorems.                                                           *)

LEMMA InitConsoleInv == ASSUME Init PROVE ConsoleInv
  <1>1. /\ VIDEO_X_SZ \in Nat /\ VIDEO_X_SZ > 0 /\ VIDEO_Y_SZ \in Nat /\ VIDEO_Y_SZ > 0
        /\ BYTE \in Nat /\ BYTE > 0 /\ MAX_NEST \in Nat /\ TAB_LEN \in Nat
    BY ConsoleAssumption
  <1>2. Len(calls) = 0 /\ calls = <<>> /\ calls \in Seq(Calls)
    BY DEF Init
  <1>3. TypeOK
    <2>1. TAB_LEN * 0 = 0 /\ 0 \in 0..(BYTE - 1)
      BY <1>1
    <2>2. Drift(video_x, VIDEO_X_SZ, TAB_LEN) /\ Drift(video_y, VIDEO_Y_SZ, 1)
      BY <1>1, <1>2, <2>1 DEF Init, Drift
    <2> QED
      BY <1>1, <1>2, <2>1, <2>2 DEF Init, TypeOK, Calls
  <1>4. InRange
    BY <1>1, <1>2 DEF Init, InRange, CursorOnScreen
  <1>5. StoresNearScreen
    <2>1. MAX_NEST * (VIDEO_X_SZ + 1) \in Nat /\ VIDEO_X_SZ * (VIDEO_Y_SZ + 1) \in Nat
      BY <1>1
    <2> QED
      BY <2>1 DEF Init, StoresNearScreen
  <1>6. Cursor
    <2>1. VIDEO_X_SZ * 0 + 0 = 0 /\ 0 % BYTE = 0 /\ (0 \div BYTE) % BYTE = 0
      BY <1>1
    <2> QED
      BY <1>2, <2>1 DEF Init, Cursor
  <1> QED
    BY <1>2, <1>3, <1>4, <1>5, <1>6 DEF ConsoleInv

LEMMA NextConsoleInv == ASSUME ConsoleInv, [Next]_vars PROVE ConsoleInv'
  <1>1. CASE con_write
    <2>1. PICK ch \in {"char", "newline", "tab", "backspace"} : calls' = <<Call(ch)>>
      BY <1>1 DEF con_write
    <2>2. calls' = Append(calls, Call(ch)) /\ Len(calls) <= MAX_NEST
      BY <1>1, <2>1, ConsoleAssumption DEF con_write
    <2> QED
      BY <1>1, <2>2, PushKeeps DEF con_write
  <1>2. CASE keyboard_interrupt
    BY <1>2, PushKeeps DEF keyboard_interrupt
  <1>3. CASE NewLine \/ Tab \/ Backspace \/ Printed \/ WrapX \/ WrapY
    BY <1>3, NewLineKeeps, TabKeeps, BackspaceKeeps, PrintedKeeps, WrapXKeeps, WrapYKeeps
  <1>4. CASE update_cursor
    BY <1>4, PositionKeeps, PortKeeps
  <1>5. CASE Return
    BY <1>5, ReturnKeeps
  <1>6. CASE UNCHANGED vars
    BY <1>6 DEF vars, vga, ConsoleInv, TypeOK, Drift, InRange, CursorOnScreen, StoresNearScreen, Cursor
  <1> QED
    BY <1>1, <1>2, <1>3, <1>4, <1>5, <1>6 DEF Next

\* In every reachable state each call of video_putchar in progress finds the
\* coordinates within what the calls it interrupts may leave, and puts them
\* back below the end of the screen before it returns.
THEOREM ConsoleCorrect == Spec => []ConsoleInv
  <1>1. Init => ConsoleInv
    BY InitConsoleInv
  <1>2. ConsoleInv /\ [Next]_vars => ConsoleInv'
    BY NextConsoleInv
  <1> QED
    BY <1>1, <1>2, PTL DEF Spec

\* The types, and how far interrupts can push the coordinates off the screen.
THEOREM ConsoleTypeCorrect == Spec => []TypeOK
  <1>1. ConsoleInv => TypeOK
    BY DEF ConsoleInv
  <1> QED
    BY <1>1, ConsoleCorrect, PTL

\* However keyboard interrupts nest inside video_putchar, the cursor is on the
\* screen when no call of it is in progress.
THEOREM CursorStaysOnScreen == Spec => []CursorOnScreen
  <1>1. ConsoleInv => CursorOnScreen
    BY DEF ConsoleInv, InRange, CursorOnScreen
  <1> QED
    BY <1>1, ConsoleCorrect, PTL

\* Every store to video memory is within a row and a column per interrupt in
\* progress of the screen.
THEOREM StoresStayNear == Spec => []StoresNearScreen
  <1>1. ConsoleInv => StoresNearScreen
    BY DEF ConsoleInv
  <1> QED
    BY <1>1, ConsoleCorrect, PTL

\* A character printed without an interrupt leaves the VGA's cursor where the
\* next one will go, whatever interrupts did to its registers before.
THEOREM CursorIsShown == Spec => []CursorShown
  <1>1. ConsoleInv => CursorShown
    <2> SUFFICES ASSUME ConsoleInv, calls = <<>>, quiet
                 PROVE  cursor.high * BYTE + cursor.low = VIDEO_X_SZ * video_y + video_x
      BY DEF CursorShown
    <2> DEFINE n == VIDEO_X_SZ * video_y + video_x
    <2>1. Len(calls) # 1
      OBVIOUS
    <2>2. cursor = [low |-> n % BYTE, high |-> (n \div BYTE) % BYTE]
      BY <2>1 DEF ConsoleInv, Cursor
    <2>3. video_x \in 0..(VIDEO_X_SZ - 1) /\ video_y \in 0..(VIDEO_Y_SZ - 1)
      BY DEF ConsoleInv, InRange, CursorOnScreen
    <2>4. ((n \div BYTE) % BYTE) * BYTE + (n % BYTE) = n
      BY <2>3, TwoBytes
    <2> QED
      BY <2>2, <2>4
  <1> QED
    BY <1>1, ConsoleCorrect, PTL

-----------------------------------------------------------------------------
(* Formatting: recursive functions.                                        *)

Below == {ss \in Nat \X Nat : ss[1] < ss[2]}

\* A set of naturals that is not empty has a least member: every proof about a
\* recursive function below looks at the least number at which it would fail.
LEMMA LeastMember ==
    ASSUME NEW T, T \subseteq Nat, T # {}
    PROVE  \E m \in T : \A k \in T : m <= k
  <1>1. IsWellFoundedOn(Below, Nat)
    BY NatLessThanWellFounded DEF OpToRel, Below
  <1>2. PICK m \in T : \A k \in T : <<k, m>> \notin Below
    BY <1>1, WFMin
  <1>3. \A k \in T : ~(k < m)
    BY <1>2 DEF Below
  <1> QED
    BY <1>3

LEMMA WidthFacts ==
    /\ INT_MIN \in Int /\ INT_MIN <= -1
    /\ INT_MAX \in Nat /\ INT_MIN = -INT_MAX - 1
  <1> DEFINE P == 2^(INT_BITS - 1)
             S == 1..(INT_BITS - 1)
  <1>1. IsFiniteSet(S) /\ Cardinality(S) = INT_BITS - 1
    <2>1. 1 \in Int /\ INT_BITS - 1 \in Nat
      BY FormatAssumption
    <2> QED
      BY <2>1, FS_Interval
  <1>2. IsFiniteSet(SUBSET S) /\ Cardinality(SUBSET S) = P
    BY <1>1, FS_SUBSET
  <1>3. P \in Nat
    BY <1>2, FS_CardinalityType
  <1>4. P # 0
    <2>1. {} \in SUBSET S
      OBVIOUS
    <2>2. SUBSET S # {}
      BY <2>1
    <2> HIDE DEF S
    <2> QED
      BY <1>2, <2>2, FS_EmptySet
  <1>5. INT_MIN = -P /\ INT_MAX = P - 1
    BY DEF INT_MIN, INT_MAX
  <1> HIDE DEF P
  <1> QED
    BY <1>3, <1>4, <1>5

\* C's division brings a number nearer to zero, and stays on its side.
LEMMA QuotientFacts ==
    ASSUME NEW base \in Nat, base > 1, NEW n \in Int
    PROVE  /\ Quotient(n, base) \in Int
           /\ n >= 0 => Quotient(n, base) >= 0 /\ Quotient(n, base) <= n
           /\ n > 0 => Quotient(n, base) < n
           /\ n < 0 => Quotient(n, base) <= 0 /\ Quotient(n, base) > n
           /\ Remainder(n, base) \in Int
           /\ n >= 0 => /\ Remainder(n, base) \in 0..(base - 1)
                        /\ n = Quotient(n, base) * base + Remainder(n, base)
  <1>1. CASE n >= 0
    <2>1. Quotient(n, base) = n \div base
      BY <1>1 DEF Quotient
    <2>2. /\ n \div base \in Int /\ n \div base >= 0 /\ n \div base <= n
          /\ n > 0 => n \div base < n
      BY <1>1
    <2>3. n - base * (n \div base) \in 0..(base - 1)
      BY <1>1
    <2>4. Remainder(n, base) = n - base * (n \div base)
      BY <2>1 DEF Remainder
    <2>5. n = (n \div base) * base + Remainder(n, base)
      BY <1>1, <2>4
    <2> QED
      BY <1>1, <2>1, <2>2, <2>3, <2>4, <2>5
  <1>2. CASE n < 0
    <2> DEFINE m == -n
    <2>1. m \in Nat /\ m > 0
      BY <1>2
    <2> HIDE DEF m
    <2>2. m \div base \in Nat /\ m \div base < m
      BY <2>1
    <2>3. Quotient(n, base) = -(m \div base)
      BY <1>2 DEF Quotient, m
    <2>4. n = -m
      BY DEF m
    <2>5. base * Quotient(n, base) \in Int
      BY <2>2, <2>3
    <2>6. Remainder(n, base) \in Int
      BY <2>5 DEF Remainder
    <2> QED
      BY <1>2, <2>1, <2>2, <2>3, <2>4, <2>6
  <1> QED
    BY <1>1, <1>2

LEMMA QuotientIsInt ==
    ASSUME NEW base \in Nat, base > 1, NEW n \in Ints
    PROVE  Quotient(n, base) \in Ints
  <1>1. n \in Int /\ n >= INT_MIN /\ n <= INT_MAX /\ INT_MIN \in Int /\ INT_MAX \in Nat /\ INT_MIN <= -1
    BY WidthFacts DEF Ints
  <1>2. /\ Quotient(n, base) \in Int
        /\ n >= 0 => Quotient(n, base) >= 0 /\ Quotient(n, base) <= n
        /\ n < 0 => Quotient(n, base) <= 0 /\ Quotient(n, base) > n
    BY <1>1, QuotientFacts
  <1> QED
    BY <1>1, <1>2 DEF Ints

\* The ints up to m in size.
UpTo(m) == {n \in Ints : n <= m /\ -n <= m}

LEMMA QuotientUpTo ==
    ASSUME NEW base \in Nat, base > 1, NEW m \in Nat, NEW n \in UpTo(m), n # 0
    PROVE  m >= 1 /\ Quotient(n, base) \in UpTo(m - 1)
  <1>1. n \in Ints /\ n \in Int /\ n <= m /\ -n <= m
    BY WidthFacts DEF UpTo, Ints
  <1>2. Quotient(n, base) \in Ints /\ Quotient(n, base) \in Int
    BY <1>1, QuotientIsInt, QuotientFacts
  <1>3. /\ n > 0 => Quotient(n, base) >= 0 /\ Quotient(n, base) < n
        /\ n < 0 => Quotient(n, base) <= 0 /\ Quotient(n, base) > n
    BY <1>1, QuotientFacts
  <1>4. Quotient(n, base) <= m - 1 /\ -Quotient(n, base) <= m - 1
    BY <1>1, <1>2, <1>3
  <1> QED
    BY <1>1, <1>2, <1>4 DEF UpTo

\* The digits of the ints up to m, lowest first.
Fills(f, m, base) ==
    f = [n \in UpTo(m) |->
            IF n = 0 THEN <<>> ELSE <<Digit(Remainder(n, base))>> \o f[Quotient(n, base)]]

LEMMA FillsExists ==
    ASSUME NEW base \in Nat, base > 1
    PROVE  \A m \in Nat : \E f : Fills(f, m, base)
  <1> DEFINE T == {m \in Nat : ~ \E f : Fills(f, m, base)}
  <1> SUFFICES ASSUME T # {}
               PROVE  FALSE
    OBVIOUS
  <1>1. PICK m \in T : \A k \in T : m <= k
    <2>1. T \subseteq Nat
      OBVIOUS
    <2> HIDE DEF T
    <2> QED
      BY <2>1, LeastMember
  <1>2. m \in Nat
    OBVIOUS
  <1>3. CASE m = 0
    <2> DEFINE f == [n \in UpTo(0) |-> <<>>]
    <2>1. \A n \in UpTo(0) : n = 0
      BY WidthFacts DEF UpTo, Ints
    <2>2. f = [n \in UpTo(0) |->
                  IF n = 0 THEN <<>> ELSE <<Digit(Remainder(n, base))>> \o f[Quotient(n, base)]]
      BY <2>1
    <2> QED
      BY <1>3, <2>2 DEF Fills
  <1>4. CASE m # 0
    <2>1. m - 1 \in Nat /\ m - 1 \notin T
      BY <1>1, <1>2, <1>4
    <2>2. PICK g : Fills(g, m - 1, base)
      BY <2>1
    <2> DEFINE Turn(h, n) ==
                  IF n = 0 THEN <<>> ELSE <<Digit(Remainder(n, base))>> \o h[Quotient(n, base)]
    <2> DEFINE f == [n \in UpTo(m) |-> Turn(g, n)]
    <2>3. g = [n \in UpTo(m - 1) |-> Turn(g, n)]
      BY <2>2 DEF Fills
    <2>4. \A n \in UpTo(m - 1) : n \in UpTo(m) /\ f[n] = g[n]
      <3>1. \A n \in UpTo(m - 1) : n \in UpTo(m)
        BY <1>2, WidthFacts DEF UpTo, Ints
      <3> HIDE DEF Turn
      <3> QED
        BY <2>3, <3>1
    <2>5. \A n \in UpTo(m) : Turn(g, n) = Turn(f, n)
      <3> TAKE n \in UpTo(m)
      <3>1. CASE n = 0
        BY <3>1
      <3>2. CASE n # 0
        <4>1. Quotient(n, base) \in UpTo(m - 1)
          BY <1>2, <3>2, QuotientUpTo
        <4>2. f[Quotient(n, base)] = g[Quotient(n, base)]
          BY <2>4, <4>1
        <4> HIDE DEF f
        <4> QED
          BY <4>2
      <3> QED
        BY <3>1, <3>2
    <2>6. f = [n \in UpTo(m) |-> Turn(f, n)]
      <3> HIDE DEF Turn
      <3> QED
        BY <2>5
    <2>7. Fills(f, m, base)
      BY <2>6 DEF Fills
    <2> QED
      BY <2>7
  <1> QED
    BY <1>3, <1>4

\* LowestFirst satisfies the equation that defines it (the while loop of
\* _sprintnum).
LEMMA LowestFirstEquation ==
    ASSUME NEW base \in Nat, base > 1, NEW n \in Ints
    PROVE  LowestFirst(n, base) =
              IF n = 0 THEN <<>>
              ELSE <<Digit(Remainder(n, base))>> \o LowestFirst(Quotient(n, base), base)
  <1> DEFINE D(f) == f = [i \in INT_MIN..INT_MAX |->
                 IF i = 0 THEN <<>> ELSE <<Digit(Remainder(i, base))>> \o f[Quotient(i, base)]]
             buf == CHOOSE f : D(f)
  <1>1. \E f : D(f)
    <2>1. INT_MAX + 1 \in Nat /\ UpTo(INT_MAX + 1) = INT_MIN..INT_MAX
      BY WidthFacts DEF UpTo, Ints
    <2>2. PICK f : Fills(f, INT_MAX + 1, base)
      BY <2>1, FillsExists
    <2> QED
      BY <2>1, <2>2 DEF Fills
  <1>2. D(buf)
    <2> HIDE DEF D
    <2> QED
      BY <1>1
  <1>3. \A i : LowestFirst(i, base) = buf[i]
    BY DEF LowestFirst
  <1>4. n \in INT_MIN..INT_MAX
    BY DEF Ints
  <1>5. buf[n] = IF n = 0 THEN <<>> ELSE <<Digit(Remainder(n, base))>> \o buf[Quotient(n, base)]
    <2> HIDE DEF buf
    <2> QED
      BY <1>2, <1>4
  <1> HIDE DEF buf
  <1> QED
    BY <1>3, <1>5

-----------------------------------------------------------------------------
(* The value of a text.                                                    *)

\* The values of the first m digits of a text.
Reads(v, text, base, m) == v = [i \in 0..m |-> IF i = 0 THEN 0 ELSE v[i - 1] * base + text[i]]

LEMMA ReadsExists ==
    ASSUME NEW base, NEW text
    PROVE  \A m \in Nat : \E v : Reads(v, text, base, m)
  <1> DEFINE T == {m \in Nat : ~ \E v : Reads(v, text, base, m)}
  <1> SUFFICES ASSUME T # {}
               PROVE  FALSE
    OBVIOUS
  <1>1. PICK m \in T : \A k \in T : m <= k
    <2>1. T \subseteq Nat
      OBVIOUS
    <2> HIDE DEF T
    <2> QED
      BY <2>1, LeastMember
  <1>2. m \in Nat
    OBVIOUS
  <1>3. CASE m = 0
    <2> DEFINE v == [i \in 0..0 |-> 0]
    <2>1. v = [i \in 0..0 |-> IF i = 0 THEN 0 ELSE v[i - 1] * base + text[i]]
      OBVIOUS
    <2>2. Reads(v, text, base, m)
      BY <1>3, <2>1 DEF Reads
    <2> QED
      BY <2>2
  <1>4. CASE m # 0
    <2>1. m - 1 \in Nat /\ m - 1 \notin T
      BY <1>1, <1>2, <1>4
    <2>2. PICK u : Reads(u, text, base, m - 1)
      BY <2>1
    <2> DEFINE Turn(h, i) == IF i = 0 THEN 0 ELSE h[i - 1] * base + text[i]
               v == [i \in 0..m |-> Turn(u, i)]
    <2>3. u = [i \in 0..(m - 1) |-> Turn(u, i)]
      BY <2>2 DEF Reads
    <2>4. \A i \in 0..(m - 1) : i \in 0..m /\ v[i] = u[i]
      <3>1. \A i \in 0..(m - 1) : i \in 0..m
        BY <1>2
      <3> HIDE DEF Turn
      <3> QED
        BY <2>3, <3>1
    <2>5. \A i \in 0..m : Turn(u, i) = Turn(v, i)
      <3> TAKE i \in 0..m
      <3>1. CASE i = 0
        BY <3>1
      <3>2. CASE i # 0
        <4>1. i - 1 \in 0..(m - 1)
          BY <1>2, <3>2
        <4>2. v[i - 1] = u[i - 1]
          BY <2>4, <4>1
        <4> HIDE DEF v
        <4> QED
          BY <4>2
      <3> QED
        BY <3>1, <3>2
    <2>6. v = [i \in 0..m |-> Turn(v, i)]
      <3> HIDE DEF Turn
      <3> QED
        BY <2>5
    <2>7. Reads(v, text, base, m)
      BY <2>6 DEF Reads
    <2> QED
      BY <2>7
  <1> QED
    BY <1>3, <1>4

LEMMA ValueReads ==
    ASSUME NEW base, NEW text, Len(text) \in Nat
    PROVE  \E v : Reads(v, text, base, Len(text)) /\ Value(text, base) = v[Len(text)]
  <1> DEFINE D(v) == v = [i \in 0..Len(text) |-> IF i = 0 THEN 0 ELSE v[i - 1] * base + text[i]]
             val == CHOOSE v : D(v)
  <1>1. \E v : D(v)
    <2>1. PICK v : Reads(v, text, base, Len(text))
      BY ReadsExists
    <2>2. D(v)
      BY <2>1 DEF Reads
    <2> HIDE DEF D
    <2> QED
      BY <2>2
  <1>2. D(val)
    <2> HIDE DEF D
    <2> QED
      BY <1>1
  <1>3. Value(text, base) = val[Len(text)]
    BY DEF Value
  <1>4. Reads(val, text, base, Len(text))
    BY <1>2 DEF Reads
  <1> HIDE DEF val
  <1> QED
    BY <1>3, <1>4

LEMMA ValueEmpty ==
    ASSUME NEW base
    PROVE  Value(<<>>, base) = 0
  <1>1. Len(<<>>) = 0
    OBVIOUS
  <1>2. PICK u : Reads(u, <<>>, base, 0) /\ Value(<<>>, base) = u[0]
    BY <1>1, ValueReads
  <1> QED
    BY <1>2 DEF Reads

LEMMA ValueAppend ==
    ASSUME NEW base, NEW text \in Seq(Int), NEW d \in Int
    PROVE  Value(Append(text, d), base) = Value(text, base) * base + d
  <1> DEFINE n == Len(text)
             longer == Append(text, d)
  <1>1. n \in Nat /\ Len(longer) = n + 1 /\ longer[n + 1] = d /\ \A i \in 1..n : longer[i] = text[i]
    OBVIOUS
  <1>2. PICK v : Reads(v, text, base, n) /\ Value(text, base) = v[n]
    BY <1>1, ValueReads
  <1>3. PICK w : Reads(w, longer, base, n + 1) /\ Value(longer, base) = w[n + 1]
    <2>1. Len(longer) \in Nat
      BY <1>1
    <2> HIDE DEF longer
    <2> QED
      BY <1>1, <2>1, ValueReads
  <1> HIDE DEF n, longer
  <1>4. \A i \in 0..n : v[i] = IF i = 0 THEN 0 ELSE v[i - 1] * base + text[i]
    BY <1>2 DEF Reads
  <1>5. \A i \in 0..(n + 1) : w[i] = IF i = 0 THEN 0 ELSE w[i - 1] * base + longer[i]
    BY <1>3 DEF Reads
  <1>6. \A i \in 0..n : w[i] = v[i]
    <2> DEFINE T == {i \in 0..n : w[i] # v[i]}
    <2> SUFFICES ASSUME T # {}
                 PROVE  FALSE
      OBVIOUS
    <2>1. PICK m \in T : \A k \in T : m <= k
      <3>1. T \subseteq Nat
        OBVIOUS
      <3> HIDE DEF T
      <3> QED
        BY <3>1, LeastMember
    <2>2. m \in 0..n /\ w[m] # v[m]
      OBVIOUS
    <2>3. m # 0
      BY <1>1, <1>4, <1>5, <2>2
    <2>4. m - 1 \in 0..n /\ m - 1 \notin T
      BY <1>1, <2>1, <2>2, <2>3
    <2>5. w[m - 1] = v[m - 1]
      BY <2>4
    <2>6. m \in 0..(n + 1) /\ m \in 1..n
      BY <1>1, <2>2, <2>3
    <2>7. w[m] = w[m - 1] * base + longer[m] /\ v[m] = v[m - 1] * base + text[m]
      BY <1>4, <1>5, <2>2, <2>3, <2>6
    <2>8. longer[m] = text[m]
      BY <1>1, <2>6
    <2> QED
      BY <2>2, <2>5, <2>7, <2>8
  <1>7. Value(longer, base) = Value(text, base) * base + d
    <2>1. n + 1 \in 0..(n + 1) /\ n + 1 # 0 /\ n \in 0..n /\ n + 1 - 1 = n
      BY <1>1
    <2>2. w[n + 1] = w[n] * base + longer[n + 1]
      BY <1>5, <2>1
    <2> QED
      BY <1>1, <1>2, <1>3, <1>6, <2>1, <2>2
  <1> QED
    BY <1>7 DEF longer

LEMMA ReverseFacts ==
    ASSUME NEW V, NEW d \in V, NEW t \in Seq(V)
    PROVE  /\ <<d>> \o t \in Seq(V) /\ Len(<<d>> \o t) = Len(t) + 1
           /\ Reverse(t) \in Seq(V) /\ Len(Reverse(t)) = Len(t)
           /\ \A i \in 1..Len(t) : Reverse(t)[i] = t[Len(t) - i + 1]
           /\ Reverse(<<d>> \o t) = Append(Reverse(t), d)
  <1>1. /\ Reverse(t) \in Seq(V) /\ Len(Reverse(t)) = Len(t)
        /\ \A i \in 1..Len(t) : Reverse(t)[i] = t[Len(t) - i + 1]
    BY DEF Reverse
  <1> DEFINE s == <<d>> \o t
             n == Len(t)
  <1>2. /\ s \in Seq(V) /\ n \in Nat /\ Len(s) = n + 1 /\ s[1] = d
        /\ \A i \in 1..n : s[i + 1] = t[i]
    OBVIOUS
  <1> HIDE DEF s, n
  <1>3. Reverse(s) \in Seq(V) /\ Len(Reverse(s)) = n + 1 /\ \A i \in 1..(n + 1) : Reverse(s)[i] = s[(n + 1) - i + 1]
    BY <1>2 DEF Reverse
  <1>4. Append(Reverse(t), d) \in Seq(V) /\ Len(Append(Reverse(t), d)) = n + 1
    BY <1>1, <1>2 DEF n
  <1>5. ASSUME NEW i \in 1..(n + 1)
        PROVE  Reverse(s)[i] = Append(Reverse(t), d)[i]
    <2>1. CASE i = n + 1
      <3>1. (n + 1) - i + 1 = 1
        BY <1>2, <2>1
      <3>2. Append(Reverse(t), d)[n + 1] = d
        BY <1>1, <1>2 DEF n
      <3> QED
        BY <1>2, <1>3, <2>1, <3>1, <3>2
    <2>2. CASE i # n + 1
      <3>1. i \in 1..n /\ n - i + 1 \in 1..n /\ (n + 1) - i + 1 = (n - i + 1) + 1
        BY <1>2, <2>2
      <3>2. Append(Reverse(t), d)[i] = Reverse(t)[i]
        BY <1>1, <1>2, <3>1 DEF n
      <3>3. Reverse(t)[i] = t[n - i + 1]
        BY <1>1, <3>1 DEF n
      <3>4. Reverse(s)[i] = s[(n - i + 1) + 1]
        BY <1>3, <3>1
      <3>5. s[(n - i + 1) + 1] = t[n - i + 1]
        BY <1>2, <3>1
      <3> QED
        BY <3>2, <3>3, <3>4, <3>5
    <2> QED
      BY <2>1, <2>2
  <1>6. Reverse(s) = Append(Reverse(t), d)
    BY <1>2, <1>3, <1>4, <1>5
  <1> QED
    BY <1>1, <1>2, <1>6 DEF s, n

-----------------------------------------------------------------------------
(* _sprintnum.                                                             *)

LEMMA LowestFirstType ==
    ASSUME NEW base \in Nat, base > 1
    PROVE  \A n \in Ints : LowestFirst(n, base) \in Seq(Int)
  <1> DEFINE T == {m \in Nat : \E n \in UpTo(m) : LowestFirst(n, base) \notin Seq(Int)}
  <1>1. T = {}
    <2> SUFFICES ASSUME T # {}
                 PROVE  FALSE
      OBVIOUS
    <2>1. PICK m \in T : \A k \in T : m <= k
      <3>1. T \subseteq Nat
        OBVIOUS
      <3> HIDE DEF T
      <3> QED
        BY <3>1, LeastMember
    <2>2. m \in Nat
      OBVIOUS
    <2>3. PICK n \in UpTo(m) : LowestFirst(n, base) \notin Seq(Int)
      OBVIOUS
    <2>4. n \in Ints /\ n \in Int
      BY WidthFacts DEF UpTo, Ints
    <2>5. CASE n = 0
      <3>1. LowestFirst(n, base) = <<>>
        BY <2>4, <2>5, LowestFirstEquation
      <3> QED
        BY <2>3, <3>1
    <2>6. CASE n # 0
      <3> DEFINE q == Quotient(n, base)
      <3>1. m - 1 \in Nat /\ q \in UpTo(m - 1) /\ m - 1 \notin T
        BY <2>1, <2>2, <2>6, QuotientUpTo
      <3>2. LowestFirst(q, base) \in Seq(Int)
        BY <3>1
      <3>3. Digit(Remainder(n, base)) \in Int
        BY <2>4, QuotientFacts DEF Digit, GARBAGE
      <3>4. LowestFirst(n, base) = <<Digit(Remainder(n, base))>> \o LowestFirst(q, base)
        BY <2>4, <2>6, LowestFirstEquation
      <3> QED
        BY <2>3, <3>2, <3>3, <3>4
    <2> QED
      BY <2>5, <2>6
  <1>2. INT_MAX + 1 \in Nat /\ \A n \in Ints : n \in UpTo(INT_MAX + 1)
    BY WidthFacts DEF UpTo, Ints
  <1> QED
    BY <1>1, <1>2

LEMMA LowestFirstDigits ==
    ASSUME NEW base \in Nat, base > 1
    PROVE  \A n \in 0..INT_MAX :
              /\ LowestFirst(n, base) \in Seq(0..(base - 1))
              /\ Value(Reverse(LowestFirst(n, base)), base) = n
              /\ n # 0 => /\ Len(LowestFirst(n, base)) > 0
                          /\ LowestFirst(n, base)[Len(LowestFirst(n, base))] # 0
  <1> DEFINE P(n) ==
                /\ LowestFirst(n, base) \in Seq(0..(base - 1))
                /\ Value(Reverse(LowestFirst(n, base)), base) = n
                /\ n # 0 => /\ Len(LowestFirst(n, base)) > 0
                            /\ LowestFirst(n, base)[Len(LowestFirst(n, base))] # 0
             T == {n \in 0..INT_MAX : ~P(n)}
  <1> SUFFICES ASSUME T # {}
               PROVE  FALSE
    OBVIOUS
  <1>1. PICK n \in T : \A k \in T : n <= k
    <2>1. T \subseteq Nat
      BY WidthFacts
    <2> HIDE DEF T
    <2> QED
      BY <2>1, LeastMember
  <1>2. n \in 0..INT_MAX /\ n \in Nat /\ n \in Ints /\ ~P(n)
    BY WidthFacts DEF Ints
  <1>3. CASE n = 0
    <2>1. LowestFirst(n, base) = <<>>
      BY <1>2, <1>3, LowestFirstEquation
    <2>2. Reverse(<<>>) = <<>>
      BY DEF Reverse
    <2>3. Value(<<>>, base) = 0
      BY ValueEmpty
    <2>4. <<>> \in Seq(0..(base - 1))
      OBVIOUS
    <2>5. P(n)
      BY <1>3, <2>1, <2>2, <2>3, <2>4
    <2> QED
      BY <1>2, <2>5
  <1>4. CASE n # 0
    <2> DEFINE q == Quotient(n, base)
               r == Remainder(n, base)
    <2>1. /\ q \in Int /\ q >= 0 /\ q < n
          /\ r \in 0..(base - 1) /\ n = q * base + r
      BY <1>2, <1>4, QuotientFacts
    <2>2. q \in 0..INT_MAX /\ q \in Nat /\ q \in Ints
      BY <1>2, <2>1, WidthFacts DEF Ints
    <2>3. q \notin T
      BY <1>1, <1>2, <2>1
    <2>4. P(q)
      BY <2>2, <2>3
    <2>5. LowestFirst(n, base) = <<r>> \o LowestFirst(q, base)
      <3>1. Digit(r) = r
        BY <2>1 DEF Digit
      <3> QED
        BY <1>2, <1>4, <3>1, LowestFirstEquation
    <2> HIDE DEF q, r, T
    <2>6. r \in Int /\ Reverse(LowestFirst(q, base)) \in Seq(Int)
      <3>1. Reverse(LowestFirst(q, base)) \in Seq(0..(base - 1))
        BY <2>1, <2>4, ReverseFacts
      <3>2. 0..(base - 1) \subseteq Int
        OBVIOUS
      <3> QED
        BY <2>1, <3>1, <3>2
    <2>7. Reverse(LowestFirst(n, base)) = Append(Reverse(LowestFirst(q, base)), r)
      BY <2>1, <2>4, <2>5, ReverseFacts
    <2>8. Value(Reverse(LowestFirst(n, base)), base) = n
      <3>1. Value(Append(Reverse(LowestFirst(q, base)), r), base)
                = Value(Reverse(LowestFirst(q, base)), base) * base + r
        BY <2>6, ValueAppend
      <3> QED
        BY <2>1, <2>4, <2>7, <3>1
    <2>9. LowestFirst(n, base) \in Seq(0..(base - 1)) /\ Len(LowestFirst(n, base)) > 0
      <3>1. /\ <<r>> \o LowestFirst(q, base) \in Seq(0..(base - 1))
            /\ Len(<<r>> \o LowestFirst(q, base)) = Len(LowestFirst(q, base)) + 1
        BY <2>1, <2>4, ReverseFacts
      <3>2. Len(LowestFirst(q, base)) \in Nat
        BY <2>4
      <3> QED
        BY <2>5, <3>1, <3>2
    <2>10. LowestFirst(n, base)[Len(LowestFirst(n, base))] # 0
      <3>1. CASE q = 0
        <4>1. LowestFirst(q, base) = <<>>
          BY <2>2, <3>1, LowestFirstEquation
        <4>2. LowestFirst(n, base) = <<r>>
          BY <2>5, <4>1
        <4>3. r # 0
          BY <1>4, <2>1, <3>1
        <4> QED
          BY <4>2, <4>3
      <3>2. CASE q # 0
        <4> DEFINE s == LowestFirst(q, base)
                   l == Len(s)
        <4>1. s \in Seq(0..(base - 1)) /\ l \in Nat /\ l > 0 /\ s[l] # 0
          BY <2>4, <3>2
        <4> HIDE DEF s
        <4>2. Len(<<r>> \o s) = l + 1 /\ (<<r>> \o s)[l + 1] = s[l]
          BY <2>1, <4>1
        <4> QED
          BY <2>5, <4>1, <4>2 DEF s
      <3> QED
        BY <3>1, <3>2
    <2>11. P(n)
      BY <2>8, <2>9, <2>10
    <2> QED
      BY <1>2, <2>11
  <1> QED
    BY <1>3, <1>4

\* The text of a number that is not negative.
TextOf(m, base) == IF m = 0 THEN <<0>> ELSE Reverse(LowestFirst(m, base))

LEMMA TextFacts ==
    ASSUME NEW base \in Nat, base > 1, NEW m \in 0..INT_MAX
    PROVE  /\ TextOf(m, base) \in Seq(0..(base - 1))
           /\ Len(TextOf(m, base)) >= 1
           /\ TextOf(m, base)[1] = 0 => TextOf(m, base) = <<0>>
           /\ Value(TextOf(m, base), base) = m
  <1>1. CASE m = 0
    <2>1. TextOf(m, base) = <<0>>
      BY <1>1 DEF TextOf
    <2>2. Value(<<0>>, base) = 0
      <3>1. <<>> \in Seq(Int) /\ Append(<<>>, 0) = <<0>>
        OBVIOUS
      <3>2. 0 \in Int /\ Value(<<>>, base) = 0
        BY ValueEmpty
      <3>3. Value(Append(<<>>, 0), base) = Value(<<>>, base) * base + 0
        BY <3>1, <3>2, ValueAppend
      <3> QED
        BY <3>1, <3>2, <3>3
    <2>3. <<0>> \in Seq(0..(base - 1)) /\ Len(<<0>>) = 1
      <3>1. 0 \in 0..(base - 1)
        OBVIOUS
      <3> QED
        BY <3>1
    <2>4. TextOf(m, base) \in Seq(0..(base - 1)) /\ Len(TextOf(m, base)) >= 1
      BY <2>1, <2>3
    <2>5. Value(TextOf(m, base), base) = m
      BY <1>1, <2>1, <2>2
    <2> QED
      BY <2>1, <2>4, <2>5
  <1>2. CASE m # 0
    <2> DEFINE s == LowestFirst(m, base)
    <2>1. /\ s \in Seq(0..(base - 1)) /\ Value(Reverse(s), base) = m
          /\ Len(s) > 0 /\ s[Len(s)] # 0
      BY <1>2, LowestFirstDigits
    <2>2. TextOf(m, base) = Reverse(s)
      BY <1>2 DEF TextOf
    <2> HIDE DEF s
    <2>3. /\ Reverse(s) \in Seq(0..(base - 1)) /\ Len(Reverse(s)) = Len(s)
          /\ Reverse(s)[1] = s[Len(s)]
      <3>1. /\ Reverse(s) \in Seq(0..(base - 1)) /\ Len(Reverse(s)) = Len(s)
            /\ \A i \in 1..Len(s) : Reverse(s)[i] = s[Len(s) - i + 1]
        <4>1. 0 \in 0..(base - 1)
          OBVIOUS
        <4> QED
          BY <2>1, <4>1, ReverseFacts
      <3>2. 1 \in 1..Len(s) /\ Len(s) - 1 + 1 = Len(s)
        BY <2>1
      <3> QED
        BY <3>1, <3>2
    <2> QED
      BY <2>1, <2>2, <2>3
  <1> QED
    BY <1>1, <1>2

\* What _sprintnum writes.
LEMMA SprintnumFacts ==
    ASSUME NEW base \in Nat, base > 1, NEW num \in Ints, NEW sign \in BOOLEAN
    PROVE  /\ _sprintnum(num, base, sign) \in Seq(Int)
           /\ num >= 0 => _sprintnum(num, base, sign) = TextOf(num, base)
           /\ num < 0 /\ sign /\ num # INT_MIN
                 => _sprintnum(num, base, sign) = <<MINUS>> \o TextOf(-num, base)
  <1>1. num \in Int /\ num >= INT_MIN /\ num <= INT_MAX
    BY WidthFacts DEF Ints
  <1> DEFINE m == IF sign /\ num < 0 THEN Negated(num) ELSE num
             digits == IF m = 0 THEN <<0>> ELSE Reverse(LowestFirst(m, base))
  <1>2. m \in Ints
    BY <1>1, WidthFacts DEF Negated, Ints
  <1>3. digits \in Seq(Int)
    <2>1. LowestFirst(m, base) \in Seq(Int)
      BY <1>2, LowestFirstType
    <2>2. 0 \in Int
      OBVIOUS
    <2> HIDE DEF m
    <2>3. Reverse(LowestFirst(m, base)) \in Seq(Int)
      BY <2>1, <2>2, ReverseFacts
    <2> QED
      BY <2>3
  <1>4. _sprintnum(num, base, sign) = (IF sign /\ num < 0 THEN <<MINUS>> ELSE <<>>) \o digits
    BY DEF _sprintnum
  <1>5. digits = TextOf(m, base)
    BY DEF TextOf
  <1>6. _sprintnum(num, base, sign) \in Seq(Int)
    <2> HIDE DEF digits
    <2> QED
      BY <1>3, <1>4 DEF MINUS
  <1>7. num >= 0 => _sprintnum(num, base, sign) = TextOf(num, base)
    <2> HAVE num >= 0
    <2>1. m = num /\ ~(sign /\ num < 0)
      BY <1>1
    <2> HIDE DEF digits, m
    <2>2. <<>> \o digits = digits
      BY <1>3
    <2> QED
      BY <1>4, <1>5, <2>1, <2>2
  <1>8. num < 0 /\ sign /\ num # INT_MIN => m = -num
    BY DEF Negated
  <1> HIDE DEF digits, m
  <1> QED
    BY <1>4, <1>5, <1>6, <1>7, <1>8

-----------------------------------------------------------------------------
(* The directives of a format.                                             *)

\* A directive starts at a '%' with an even run of '%' in front of it and a
\* letter behind it.
LEMMA StartsHere ==
    ASSUME NEW p \in Nat
    PROVE  StartsDirective(p + 1) <=> fmt[p + 1] = "%" /\ p + 1 < Len(fmt) /\ EvenRun(p)
  <1>1. ASSUME StartsDirective(p + 1)
        PROVE  EvenRun(p)
    <2>1. PICK n \in 0..((p + 1) - 1) :
              /\ n % 2 = 0
              /\ \A k \in ((p + 1) - n)..((p + 1) - 1) : fmt[k] = "%"
              /\ (p + 1) - n = 1 \/ fmt[(p + 1) - n - 1] # "%"
      BY <1>1 DEF StartsDirective
    <2>2. n \in 0..p /\ (p + 1) - n = p - n + 1 /\ (p + 1) - 1 = p /\ (p + 1) - n - 1 = p - n
      OBVIOUS
    <2>3. (p + 1) - n = 1 => n = p
      BY <2>2
    <2> QED
      BY <2>1, <2>2, <2>3 DEF EvenRun
  <1>2. ASSUME fmt[p + 1] = "%", p + 1 < Len(fmt), EvenRun(p)
        PROVE  StartsDirective(p + 1)
    <2>1. PICK n \in 0..p :
              /\ n % 2 = 0
              /\ \A k \in (p - n + 1)..p : fmt[k] = "%"
              /\ n = p \/ fmt[p - n] # "%"
      BY <1>2 DEF EvenRun
    <2>2. n \in 0..((p + 1) - 1) /\ (p + 1) - n = p - n + 1 /\ (p + 1) - 1 = p /\ (p + 1) - n - 1 = p - n
      OBVIOUS
    <2>3. n = p => (p + 1) - n = 1
      OBVIOUS
    <2> QED
      BY <1>2, <2>1, <2>2, <2>3 DEF StartsDirective
  <1> QED
    BY <1>1, <1>2 DEF StartsDirective

\* A character that is not '%' ends the run, and a pair of '%' keeps it even.
LEMMA EvenRunSteps ==
    ASSUME NEW p \in Nat
    PROVE  /\ EvenRun(0)
           /\ fmt[p + 1] # "%" => EvenRun(p + 1)
           /\ EvenRun(p) /\ fmt[p + 1] = "%" /\ fmt[p + 2] = "%" => EvenRun(p + 2)
  <1>1. EvenRun(0)
    <2>1. 0 \in 0..0 /\ 0 % 2 = 0 /\ \A k \in (0 - 0 + 1)..0 : fmt[k] = "%"
      OBVIOUS
    <2> QED
      BY <2>1 DEF EvenRun
  <1>2. ASSUME fmt[p + 1] # "%"
        PROVE  EvenRun(p + 1)
    <2>1. /\ 0 \in 0..(p + 1) /\ 0 % 2 = 0 /\ (p + 1) - 0 = p + 1
          /\ \A k \in ((p + 1) - 0 + 1)..(p + 1) : fmt[k] = "%"
      OBVIOUS
    <2> QED
      BY <1>2, <2>1 DEF EvenRun
  <1>3. ASSUME EvenRun(p), fmt[p + 1] = "%", fmt[p + 2] = "%"
        PROVE  EvenRun(p + 2)
    <2>1. PICK n \in 0..p :
              /\ n % 2 = 0
              /\ \A k \in (p - n + 1)..p : fmt[k] = "%"
              /\ n = p \/ fmt[p - n] # "%"
      BY <1>3 DEF EvenRun
    <2>2. n + 2 \in 0..(p + 2) /\ (n + 2) % 2 = 0 /\ (p + 2) - (n + 2) = p - n
      BY <2>1
    <2>3. \A k \in (p - n + 1)..(p + 2) : k \in (p - n + 1)..p \/ k = p + 1 \/ k = p + 2
      OBVIOUS
    <2>4. \A k \in ((p + 2) - (n + 2) + 1)..(p + 2) : fmt[k] = "%"
      BY <1>3, <2>1, <2>2, <2>3
    <2>5. n + 2 = p + 2 \/ fmt[(p + 2) - (n + 2)] # "%"
      BY <2>1, <2>2
    <2> QED
      BY <2>2, <2>4, <2>5 DEF EvenRun
  <1> QED
    BY <1>1, <1>2, <1>3

\* A '%' behind an even run makes it odd: the '%' that follows it starts nothing.
LEMMA OddRun ==
    ASSUME NEW p \in Nat, EvenRun(p), fmt[p + 1] = "%"
    PROVE  ~EvenRun(p + 1)
  <1> SUFFICES ASSUME EvenRun(p + 1)
               PROVE  FALSE
    OBVIOUS
  <1>1. PICK n \in 0..p :
            /\ n % 2 = 0
            /\ \A k \in (p - n + 1)..p : fmt[k] = "%"
            /\ n = p \/ fmt[p - n] # "%"
    BY DEF EvenRun
  <1>2. PICK m \in 0..(p + 1) :
            /\ m % 2 = 0
            /\ \A k \in ((p + 1) - m + 1)..(p + 1) : fmt[k] = "%"
            /\ m = p + 1 \/ fmt[(p + 1) - m] # "%"
    BY DEF EvenRun
  <1>3. m # 0
    <2>1. m = 0 => (p + 1) - m = p + 1 /\ m # p + 1
      OBVIOUS
    <2> QED
      BY <1>2, <2>1
  <1>4. m # n + 1
    BY <1>1, <1>2
  <1>5. CASE n < m - 1
    <2>1. p - n \in ((p + 1) - m + 1)..(p + 1) /\ n # p
      BY <1>5
    <2> QED
      BY <1>1, <1>2, <2>1
  <1>6. CASE n > m - 1
    <2>1. (p + 1) - m \in (p - n + 1)..p /\ m # p + 1
      BY <1>3, <1>6
    <2> QED
      BY <1>1, <1>2, <2>1
  <1> QED
    BY <1>4, <1>5, <1>6

LEMMA WantedFacts ==
    ASSUME NEW p \in Nat
    PROVE  /\ Wanted(0) = {} /\ Cardinality(Wanted(0)) = 0
           /\ Cardinality(Wanted(p)) \in Nat
           /\ \A q \in 0..p : Cardinality(Wanted(q)) <= Cardinality(Wanted(p))
           /\ ~(StartsDirective(p + 1) /\ fmt[p + 2] \in Conversions) => Wanted(p + 1) = Wanted(p)
           /\ StartsDirective(p + 1) /\ fmt[p + 2] \in Conversions
                 => Cardinality(Wanted(p + 1)) = Cardinality(Wanted(p)) + 1
  <1>1. Wanted(0) = {}
    BY DEF Wanted
  <1>2. IsFiniteSet(Wanted(p)) /\ Cardinality(Wanted(p)) \in Nat
    <2>1. 1 \in Int /\ p \in Int
      OBVIOUS
    <2>2. IsFiniteSet(1..p)
      BY <2>1, FS_Interval
    <2>3. Wanted(p) \subseteq 1..p
      BY DEF Wanted
    <2> QED
      BY <2>2, <2>3, FS_Subset, FS_CardinalityType
  <1>3. \A q \in 0..p : Cardinality(Wanted(q)) <= Cardinality(Wanted(p))
    <2> TAKE q \in 0..p
    <2>1. Wanted(q) \subseteq Wanted(p)
      BY DEF Wanted
    <2> QED
      BY <1>2, <2>1, FS_Subset
  <1>4. Wanted(p + 1) = IF StartsDirective(p + 1) /\ fmt[p + 2] \in Conversions
                        THEN Wanted(p) \cup {p + 1} ELSE Wanted(p)
    <2>1. 1..(p + 1) = (1..p) \cup {p + 1} /\ (p + 1) + 1 = p + 2
      OBVIOUS
    <2> QED
      BY <2>1 DEF Wanted
  <1>5. p + 1 \notin Wanted(p)
    BY DEF Wanted
  <1>6. Cardinality(Wanted(p) \cup {p + 1}) = Cardinality(Wanted(p)) + 1
    BY <1>2, <1>5, FS_AddElement
  <1>7. Cardinality(Wanted(0)) = 0
    BY <1>1, FS_EmptySet
  <1> QED
    BY <1>1, <1>2, <1>3, <1>4, <1>6, <1>7

\* Behind the directive at p + 1, with the letter at p + 2.
LEMMA BehindDirective ==
    ASSUME NEW p \in Nat, EvenRun(p), fmt[p + 1] = "%", p + 1 < Len(fmt), Len(fmt) \in Nat
    PROVE  /\ EvenRun(p + 2)
           /\ Cardinality(Wanted(p + 2)) =
                 Cardinality(Wanted(p)) + (IF fmt[p + 2] \in Conversions THEN 1 ELSE 0)
  <1>1. StartsDirective(p + 1)
    BY StartsHere
  <1>2. p + 1 \in Nat /\ (p + 1) + 1 = p + 2 /\ Cardinality(Wanted(p)) \in Nat
    BY WantedFacts
  <1>3. ~StartsDirective(p + 2)
    <2>1. ~EvenRun(p + 1)
      BY OddRun
    <2>2. StartsDirective((p + 1) + 1) => EvenRun(p + 1)
      BY <1>2, StartsHere
    <2> QED
      BY <1>2, <2>1, <2>2
  <1>4. Wanted((p + 1) + 1) = Wanted(p + 1)
    BY <1>2, <1>3, WantedFacts
  <1>5. Cardinality(Wanted(p + 1)) =
            Cardinality(Wanted(p)) + (IF fmt[p + 2] \in Conversions THEN 1 ELSE 0)
    <2>1. CASE fmt[p + 2] \in Conversions
      <3>1. Cardinality(Wanted(p + 1)) = Cardinality(Wanted(p)) + 1
        BY <1>1, <2>1, WantedFacts
      <3> QED
        BY <2>1, <3>1
    <2>2. CASE fmt[p + 2] \notin Conversions
      <3>1. Wanted(p + 1) = Wanted(p)
        BY <2>2, WantedFacts
      <3> QED
        BY <1>2, <2>2, <3>1
    <2> QED
      BY <2>1, <2>2
  <1>6. EvenRun(p + 2)
    <2>1. CASE fmt[p + 2] = "%"
      BY <2>1, EvenRunSteps
    <2>2. CASE fmt[p + 2] # "%"
      <3>1. fmt[(p + 1) + 1] # "%" => EvenRun((p + 1) + 1)
        BY <1>2, EvenRunSteps
      <3> QED
        BY <1>2, <2>2, <3>1
    <2> QED
      BY <2>1, <2>2
  <1> QED
    BY <1>2, <1>4, <1>5, <1>6

LEMMA NextMatched ==
    ASSUME NEW p \in Nat, fmt' = fmt, pos' = p,
           EvenRun(p), taken' = Cardinality(Wanted(p)),
           phase' \in {"format", "print"},
           phase' = "print" => Wanted(Len(fmt)) = Wanted(p)
    PROVE  Matched' /\ (Wanted(Len(fmt)))' = Wanted(Len(fmt))
  <1>1. \A i : (StartsDirective(i))' = StartsDirective(i)
    BY DEF StartsDirective
  <1>2. (EvenRun(pos))'
    BY DEF EvenRun
  <1>3. (Wanted(pos))' = Wanted(p) /\ (Wanted(Len(fmt)))' = Wanted(Len(fmt))
    BY <1>1 DEF Wanted
  <1> QED
    BY <1>2, <1>3 DEF Matched

-----------------------------------------------------------------------------
(* What a conversion writes.                                               *)

LEMMA ConvertedFacts ==
    ASSUME FormatTypes, NEW c \in Conversions
    PROVE  /\ Converted(c) \in Seq(Int)
           /\ taken < Len(args) /\ args[taken + 1] >= 0
                 => \A i \in 1..Len(Converted(c)) : Converted(c)[i] # GARBAGE
           /\ taken < Len(args) /\ c \in {"d", "u", "x"}
                 => Converted(c) = _sprintnum(args[taken + 1], IF c = "x" THEN 16 ELSE 10, c = "d")
  <1>1. args \in Seq(Ints) /\ taken \in Nat /\ Len(args) \in Nat
    BY DEF FormatTypes
  <1>2. CASE taken >= Len(args)
    <2>1. Converted(c) = <<GARBAGE>>
      BY <1>2 DEF Converted
    <2> QED
      BY <1>1, <1>2, <2>1 DEF GARBAGE
  <1>3. CASE taken < Len(args)
    <2> DEFINE arg == args[taken + 1]
               text(base, sign) == _sprintnum(arg, base, sign)
    <2>1. arg \in Ints /\ arg \in Int
      <3>1. taken + 1 \in 1..Len(args)
        BY <1>1, <1>3
      <3> QED
        BY <1>1, <3>1, WidthFacts DEF Ints
    <2>2. ~(taken >= Len(args)) /\ va_arg = arg
      BY <1>1, <1>3 DEF va_arg
    <2> HIDE DEF arg
    <2>3. ASSUME NEW base \in {10, 16}, NEW sign \in BOOLEAN
          PROVE  /\ text(base, sign) \in Seq(Int)
                 /\ arg >= 0 => \A i \in 1..Len(text(base, sign)) : text(base, sign)[i] # GARBAGE
      <3>1. base \in Nat /\ base > 1
        OBVIOUS
      <3>2. text(base, sign) \in Seq(Int) /\ (arg >= 0 => text(base, sign) = TextOf(arg, base))
        BY <2>1, <3>1, SprintnumFacts
      <3>3. ASSUME arg >= 0
            PROVE  \A i \in 1..Len(text(base, sign)) : text(base, sign)[i] # GARBAGE
        <4>1. arg \in 0..INT_MAX
          BY <2>1, <3>3, WidthFacts DEF Ints
        <4>2. TextOf(arg, base) \in Seq(0..(base - 1))
          BY <3>1, <4>1, TextFacts
        <4>3. \A i \in 1..Len(TextOf(arg, base)) : TextOf(arg, base)[i] \in 0..(base - 1)
          BY <4>2
        <4>4. text(base, sign) = TextOf(arg, base)
          BY <3>2, <3>3
        <4> HIDE DEF text
        <4> QED
          BY <4>3, <4>4 DEF GARBAGE
      <3> QED
        BY <3>2, <3>3
    <2>4. CASE c = "d"
      <3>1. Converted(c) = text(10, TRUE)
        BY <2>2, <2>4 DEF Converted
      <3>2. /\ text(10, TRUE) \in Seq(Int)
            /\ arg >= 0 => \A i \in 1..Len(text(10, TRUE)) : text(10, TRUE)[i] # GARBAGE
        BY <2>3
      <3>3. (IF c = "x" THEN 16 ELSE 10) = 10 /\ (c = "d") = TRUE
        BY <2>4
      <3> QED
        BY <3>1, <3>2, <3>3 DEF arg
    <2>5. CASE c = "u"
      <3>1. Converted(c) = text(10, FALSE)
        BY <2>2, <2>5 DEF Converted
      <3>2. /\ text(10, FALSE) \in Seq(Int)
            /\ arg >= 0 => \A i \in 1..Len(text(10, FALSE)) : text(10, FALSE)[i] # GARBAGE
        BY <2>3
      <3>3. (IF c = "x" THEN 16 ELSE 10) = 10 /\ (c = "d") = FALSE
        BY <2>5
      <3> QED
        BY <3>1, <3>2, <3>3 DEF arg
    <2>6. CASE c = "x"
      <3>1. Converted(c) = text(16, FALSE)
        BY <2>2, <2>6 DEF Converted
      <3>2. /\ text(16, FALSE) \in Seq(Int)
            /\ arg >= 0 => \A i \in 1..Len(text(16, FALSE)) : text(16, FALSE)[i] # GARBAGE
        BY <2>3
      <3>3. (IF c = "x" THEN 16 ELSE 10) = 16 /\ (c = "d") = FALSE
        BY <2>6
      <3> QED
        BY <3>1, <3>2, <3>3 DEF arg
    <2>7. CASE c = "s"
      <3> DEFINE l == StringLength(arg)
      <3>1. l \in Nat
        BY <2>1 DEF StringLength
      <3>2. Converted(c) = [i \in 1..l |-> TEXT]
        BY <2>2, <2>7 DEF Converted
      <3>3. c \notin {"d", "u", "x"}
        BY <2>7
      <3> HIDE DEF l
      <3> QED
        BY <3>1, <3>2, <3>3 DEF TEXT, GARBAGE
    <2>8. CASE c = "c"
      <3>1. Converted(c) = <<IF arg = 0 THEN NUL ELSE TEXT>>
        BY <2>2, <2>8 DEF Converted
      <3>2. c \notin {"d", "u", "x"}
        BY <2>8
      <3> QED
        BY <3>1, <3>2 DEF TEXT, NUL, GARBAGE
    <2> QED
      BY <2>4, <2>5, <2>6, <2>7, <2>8 DEF Conversions
  <1> QED
    BY <1>1, <1>2, <1>3

\* Text without garbage stays so with text without garbage behind it.
LEMMA CleanConcat ==
    ASSUME NEW s \in Seq(Int), NEW t \in Seq(Int)
    PROVE  /\ s \o t \in Seq(Int)
           /\ <<>> \o t = t
           /\ (\A i \in 1..Len(s) : s[i] # GARBAGE) /\ (\A i \in 1..Len(t) : t[i] # GARBAGE)
                 => \A i \in 1..Len(s \o t) : (s \o t)[i] # GARBAGE
  <1>1. Len(s) \in Nat /\ Len(t) \in Nat /\ Len(s \o t) = Len(s) + Len(t) /\ s \o t \in Seq(Int)
    OBVIOUS
  <1>2. \A i \in 1..Len(s \o t) : (s \o t)[i] = IF i <= Len(s) THEN s[i] ELSE t[i - Len(s)]
    BY <1>1
  <1>3. \A i \in 1..Len(s \o t) : i \in 1..Len(s) \/ (i - Len(s) \in 1..Len(t) /\ ~(i <= Len(s)))
    BY <1>1
  <1>4. \A i \in 1..Len(s) : i <= Len(s)
    BY <1>1
  <1> QED
    BY <1>1, <1>2, <1>3, <1>4

LEMMA CleanAppend ==
    ASSUME NEW s \in Seq(Int), NEW d \in Int
    PROVE  /\ Append(s, d) \in Seq(Int)
           /\ (\A i \in 1..Len(s) : s[i] # GARBAGE) /\ d # GARBAGE
                 => \A i \in 1..Len(Append(s, d)) : Append(s, d)[i] # GARBAGE
  OBVIOUS

-----------------------------------------------------------------------------
(* The steps of printk and vsprintf.                                       *)

LEMMA FormatStarts ==
    ASSUME phase' \in {"idle", "format"}, pos' = 0, taken' = 0, dest' = <<>>,
           fmt' \in Seq(FormatChars), args' \in Seq(Ints),
           phase' = "idle" => fmt' = <<>> /\ args' = <<>>
    PROVE  FormatInv'
  <1>1. FormatTypes'
    <2>1. Len(fmt') \in Nat
      OBVIOUS
    <2> QED
      BY <2>1 DEF FormatTypes
  <1>2. Matched'
    <2>1. (EvenRun(0))' /\ Cardinality((Wanted(0))') = 0
      <3>1. EvenRun(0)'
        <4>1. 0 \in 0..0 /\ 0 % 2 = 0 /\ \A k \in (0 - 0 + 1)..0 : fmt'[k] = "%"
          OBVIOUS
        <4> QED
          BY <4>1 DEF EvenRun
      <3>2. (Wanted(0))' = {}
        BY DEF Wanted
      <3> QED
        BY <3>1, <3>2, FS_EmptySet
    <2>2. phase' # "print"
      OBVIOUS
    <2> QED
      BY <2>1, <2>2 DEF Matched
  <1>3. Clean'
    <2>1. Len(dest') = 0
      OBVIOUS
    <2> QED
      BY <2>1 DEF Clean
  <1>4. Single'
    <2>1. CASE phase' = "format"
      BY <2>1 DEF Single
    <2>2. CASE phase' = "idle"
      <3>1. fmt' \notin {<<"%", c>> : c \in {"d", "u", "x"}}
        BY <2>2
      <3> QED
        BY <3>1 DEF Single
    <2> QED
      BY <2>1, <2>2
  <1> QED
    BY <1>1, <1>2, <1>3, <1>4 DEF FormatInv

LEMMA PrintkKeeps ==
    ASSUME FormatInv, phase = "idle", NEW f \in Seq(FormatChars), NEW a \in Seq(Ints), printk(f, a)
    PROVE  FormatInv'
  <1>1. pos = 0 /\ taken = 0 /\ dest = <<>>
    BY DEF FormatInv, Matched
  <1>2. /\ phase' = "format" /\ fmt' = f /\ args' = a
        /\ pos' = 0 /\ taken' = 0 /\ dest' = <<>>
    BY <1>1 DEF printk
  <1> QED
    BY <1>2, FormatStarts

LEMMA TtyWriteKeeps == ASSUME FormatInv, tty_write PROVE FormatInv'
  <1>1. /\ phase' = "idle" /\ fmt' = <<>> /\ args' = <<>> /\ dest' = <<>>
        /\ pos' = 0 /\ taken' = 0
    BY DEF tty_write
  <1>2. fmt' \in Seq(FormatChars) /\ args' \in Seq(Ints)
    BY <1>1
  <1> QED
    BY <1>1, <1>2, FormatStarts

\* Single looks at a directive alone: no other step is taken in it.
LEMMA SingleFormat ==
    ASSUME FormatInv, NEW c \in {"d", "u", "x"}, fmt = <<"%", c>>, args # <<>>
    PROVE  /\ Len(fmt) = 2 /\ fmt[1] = "%" /\ fmt[2] = c
           /\ \/ phase = "format" /\ pos = 0 /\ taken = 0 /\ dest = <<>>
              \/ pos = 2 /\ dest = _sprintnum(args[1], IF c = "x" THEN 16 ELSE 10, c = "d")
  <1>1. Len(fmt) = 2 /\ fmt[1] = "%" /\ fmt[2] = c
    OBVIOUS
  <1>2. fmt \in {<<"%", b>> : b \in {"d", "u", "x"}}
    OBVIOUS
  <1> QED
    BY <1>1, <1>2 DEF FormatInv, Single

LEMMA PlainKeeps == ASSUME FormatInv, Plain PROVE FormatInv'
  <1>1. /\ phase = "format" /\ phase' = "format" /\ pos < Len(fmt) /\ fmt[pos + 1] # "%"
        /\ pos' = pos + 1 /\ dest' = Append(dest, TEXT)
        /\ fmt' = fmt /\ args' = args /\ taken' = taken
    BY DEF Plain
  <1>2. /\ fmt \in Seq(FormatChars) /\ args \in Seq(Ints) /\ pos \in 0..Len(fmt) /\ pos \in Nat
        /\ taken \in Nat /\ dest \in Seq(Int) /\ Len(fmt) \in Nat
    BY DEF FormatInv, FormatTypes
  <1>3. FormatTypes'
    <2>1. dest' \in Seq(Int) /\ pos + 1 \in 0..Len(fmt)
      BY <1>1, <1>2 DEF TEXT
    <2> QED
      BY <1>1, <1>2, <2>1 DEF FormatTypes
  <1>4. Matched' /\ (Wanted(Len(fmt)))' = Wanted(Len(fmt))
    <2>1. EvenRun(pos + 1)
      BY <1>1, <1>2, EvenRunSteps
    <2>2. Wanted(pos + 1) = Wanted(pos)
      <3>1. ~StartsDirective(pos + 1)
        BY <1>1 DEF StartsDirective
      <3> QED
        BY <1>2, <3>1, WantedFacts
    <2>3. taken = Cardinality(Wanted(pos))
      BY DEF FormatInv, Matched
    <2>4. pos + 1 \in Nat
      BY <1>2
    <2> QED
      BY <1>1, <2>1, <2>2, <2>3, <2>4, NextMatched
  <1>5. Clean'
    <2>1. ASSUME Cardinality(Wanted(Len(fmt))) <= Len(args), \A i \in 1..Len(args) : args[i] >= 0
          PROVE  \A i \in 1..Len(dest') : dest'[i] # GARBAGE
      <3>1. \A i \in 1..Len(dest) : dest[i] # GARBAGE
        BY <2>1 DEF FormatInv, Clean
      <3>2. TEXT \in Int /\ TEXT # GARBAGE
        BY DEF TEXT, GARBAGE
      <3> QED
        BY <1>1, <1>2, <3>1, <3>2, CleanAppend
    <2> QED
      BY <1>1, <1>4, <2>1 DEF Clean
  <1>6. Single'
    <2> SUFFICES ASSUME NEW c \in {"d", "u", "x"}, fmt = <<"%", c>>, args # <<>>
                 PROVE  FALSE
      BY <1>1 DEF Single
    <2>1. /\ Len(fmt) = 2 /\ fmt[1] = "%"
          /\ pos = 0 \/ pos = 2
      BY SingleFormat
    <2> QED
      BY <1>1, <2>1
  <1> QED
    BY <1>3, <1>4, <1>5, <1>6 DEF FormatInv

LEMMA DirectiveKeeps == ASSUME FormatInv, Directive PROVE FormatInv'
  <1> DEFINE c == fmt[pos + 2]
  <1>1. /\ phase = "format" /\ phase' = "format" /\ pos + 1 < Len(fmt) /\ fmt[pos + 1] = "%"
        /\ pos' = pos + 2 /\ fmt' = fmt /\ args' = args
        /\ c \in Conversions => dest' = dest \o Converted(c) /\ taken' = taken + 1
        /\ c \notin Conversions => /\ dest' = IF c = "%" THEN Append(dest, PERCENT) ELSE dest
                                   /\ taken' = taken
    BY DEF Directive
  <1>2. /\ fmt \in Seq(FormatChars) /\ args \in Seq(Ints) /\ pos \in 0..Len(fmt) /\ pos \in Nat
        /\ taken \in Nat /\ dest \in Seq(Int) /\ Len(fmt) \in Nat /\ FormatTypes
    BY DEF FormatInv, FormatTypes
  <1>3. EvenRun(pos) /\ taken = Cardinality(Wanted(pos))
    BY DEF FormatInv, Matched
  <1>4. /\ EvenRun(pos + 2)
        /\ Cardinality(Wanted(pos + 2)) =
              Cardinality(Wanted(pos)) + (IF c \in Conversions THEN 1 ELSE 0)
    BY <1>1, <1>2, <1>3, BehindDirective
  <1> HIDE DEF c
  <1>5. pos + 2 \in Nat /\ pos + 2 \in 0..Len(fmt)
    BY <1>1, <1>2
  <1>6. taken' = Cardinality(Wanted(pos + 2)) /\ taken' \in Nat
    <2>1. CASE c \in Conversions
      BY <1>1, <1>2, <1>3, <1>4, <2>1
    <2>2. CASE c \notin Conversions
      BY <1>1, <1>2, <1>3, <1>4, <2>2
    <2> QED
      BY <2>1, <2>2
  <1>7. Matched' /\ (Wanted(Len(fmt)))' = Wanted(Len(fmt))
    BY <1>1, <1>4, <1>5, <1>6, NextMatched
  <1>8. PERCENT \in Int /\ PERCENT # GARBAGE
    BY DEF PERCENT, GARBAGE
  <1>9. dest' \in Seq(Int)
    <2>1. CASE c \in Conversions
      <3>1. Converted(c) \in Seq(Int)
        BY <1>2, <2>1, ConvertedFacts
      <3> QED
        BY <1>1, <1>2, <2>1, <3>1, CleanConcat
    <2>2. CASE c \notin Conversions
      <3>1. dest' = Append(dest, PERCENT) \/ dest' = dest
        BY <1>1, <2>2
      <3> QED
        BY <1>2, <1>8, <3>1, CleanAppend
    <2> QED
      BY <2>1, <2>2
  <1>10. FormatTypes'
    BY <1>1, <1>2, <1>5, <1>6, <1>9 DEF FormatTypes
  <1>11. Clean'
    <2>1. ASSUME Cardinality(Wanted(Len(fmt))) <= Len(args), \A i \in 1..Len(args) : args[i] >= 0
          PROVE  \A i \in 1..Len(dest') : dest'[i] # GARBAGE
      <3>1. \A i \in 1..Len(dest) : dest[i] # GARBAGE
        BY <2>1 DEF FormatInv, Clean
      <3>2. CASE c \in Conversions
        <4>1. Cardinality(Wanted(pos + 2)) <= Cardinality(Wanted(Len(fmt)))
          BY <1>2, <1>5, WantedFacts
        <4>2. /\ Cardinality(Wanted(pos + 2)) \in Nat /\ Cardinality(Wanted(Len(fmt))) \in Nat
              /\ Len(args) \in Nat /\ taken' = taken + 1
          BY <1>1, <1>2, <1>5, <3>2, WantedFacts
        <4>3. taken < Len(args)
          BY <1>2, <1>6, <2>1, <4>1, <4>2
        <4>4. args[taken + 1] >= 0
          <5>1. taken + 1 \in 1..Len(args)
            BY <1>2, <4>2, <4>3
          <5> QED
            BY <2>1, <5>1
        <4>5. /\ Converted(c) \in Seq(Int)
              /\ \A i \in 1..Len(Converted(c)) : Converted(c)[i] # GARBAGE
          BY <1>2, <3>2, <4>3, <4>4, ConvertedFacts
        <4>6. dest' = dest \o Converted(c)
          BY <1>1, <3>2
        <4> QED
          BY <1>2, <3>1, <4>5, <4>6, CleanConcat
      <3>3. CASE c \notin Conversions /\ c = "%"
        <4>1. dest' = Append(dest, PERCENT)
          BY <1>1, <3>3
        <4> QED
          BY <1>2, <1>8, <3>1, <4>1, CleanAppend
      <3>4. CASE c \notin Conversions /\ c # "%"
        <4>1. dest' = dest
          BY <1>1, <3>4
        <4> QED
          BY <3>1, <4>1
      <3> QED
        BY <3>2, <3>3, <3>4
    <2> QED
      BY <1>1, <1>7, <2>1 DEF Clean
  <1>12. Single'
    <2> SUFFICES ASSUME NEW b \in {"d", "u", "x"}, fmt = <<"%", b>>, args # <<>>
                 PROVE  pos' = 2 /\ dest' = _sprintnum(args[1], IF b = "x" THEN 16 ELSE 10, b = "d")
      <3>1. \A b : <<"%", b>>[2] = b
        OBVIOUS
      <3> QED
        BY <1>1, <3>1 DEF Single
    <2>1. Len(fmt) = 2 /\ fmt[2] = b /\ (pos # 2 => pos = 0 /\ taken = 0 /\ dest = <<>>)
      BY SingleFormat
    <2>2. pos = 0 /\ taken = 0 /\ dest = <<>> /\ c = b /\ pos' = 2
      BY <1>1, <2>1 DEF c
    <2>3. taken < Len(args) /\ b \in Conversions
      BY <1>2, <2>2 DEF Conversions
    <2>4. /\ Converted(b) \in Seq(Int)
          /\ Converted(b) = _sprintnum(args[taken + 1], IF b = "x" THEN 16 ELSE 10, b = "d")
      BY <1>2, <2>3, ConvertedFacts
    <2>5. <<>> \o Converted(b) = Converted(b)
      BY <2>4
    <2>6. dest' = Converted(b)
      BY <1>1, <2>2, <2>3, <2>5
    <2>7. taken + 1 = 1
      BY <2>2
    <2> QED
      BY <2>2, <2>4, <2>6, <2>7
  <1> QED
    BY <1>7, <1>10, <1>11, <1>12 DEF FormatInv

LEMMA FinishKeeps == ASSUME FormatInv, Finish PROVE FormatInv'
  <1>1. /\ phase = "format" /\ phase' = "print"
        /\ pos = Len(fmt) \/ (pos + 1 = Len(fmt) /\ fmt[pos + 1] = "%")
        /\ fmt' = fmt /\ args' = args /\ pos' = pos /\ taken' = taken /\ dest' = dest
    BY DEF Finish
  <1>2. pos \in Nat /\ Len(fmt) \in Nat
    BY DEF FormatInv, FormatTypes
  <1>3. FormatTypes'
    BY <1>1 DEF FormatInv, FormatTypes
  <1>4. Matched' /\ (Wanted(Len(fmt)))' = Wanted(Len(fmt))
    <2>1. EvenRun(pos) /\ taken = Cardinality(Wanted(pos))
      BY DEF FormatInv, Matched
    <2>2. Wanted(Len(fmt)) = Wanted(pos)
      <3>1. CASE pos = Len(fmt)
        BY <3>1
      <3>2. CASE pos + 1 = Len(fmt)
        <4>1. ~StartsDirective(pos + 1)
          BY <1>2, <3>2 DEF StartsDirective
        <4> QED
          BY <1>2, <3>2, <4>1, WantedFacts
      <3> QED
        BY <1>1, <3>1, <3>2
    <2> QED
      BY <1>1, <1>2, <2>1, <2>2, NextMatched
  <1>5. Clean'
    BY <1>1, <1>4 DEF FormatInv, Clean
  <1>6. Single'
    <2> SUFFICES ASSUME NEW b \in {"d", "u", "x"}, fmt = <<"%", b>>, args # <<>>
                 PROVE  pos' = 2 /\ dest' = _sprintnum(args[1], IF b = "x" THEN 16 ELSE 10, b = "d")
      <3>1. \A b : <<"%", b>>[2] = b
        OBVIOUS
      <3> QED
        BY <1>1, <3>1 DEF Single
    <2>1. /\ Len(fmt) = 2
          /\ pos = 0 \/ (pos = 2 /\ dest = _sprintnum(args[1], IF b = "x" THEN 16 ELSE 10, b = "d"))
      BY SingleFormat
    <2> QED
      BY <1>1, <2>1
  <1> QED
    BY <1>3, <1>4, <1>5, <1>6 DEF FormatInv

LEMMA InitFormatInv == ASSUME FormatInit PROVE FormatInv
  <1>1. /\ phase = "idle" /\ fmt = <<>> /\ args = <<>> /\ dest = <<>>
        /\ pos = 0 /\ taken = 0
    BY DEF FormatInit
  <1>2. FormatTypes
    BY <1>1 DEF FormatTypes
  <1>3. EvenRun(0) /\ Cardinality(Wanted(0)) = 0
    BY EvenRunSteps, WantedFacts
  <1>4. Matched
    BY <1>1, <1>3 DEF Matched
  <1>5. Clean /\ Single
    BY <1>1 DEF Clean, Single
  <1> QED
    BY <1>2, <1>4, <1>5 DEF FormatInv

LEMMA NextFormatInv == ASSUME FormatInv, [FormatNext]_fvars PROVE FormatInv'
  <1>1. ASSUME phase = "idle", NEW c \in {"d", "u", "x"}, NEW n \in INT_MIN..INT_MAX,
               printk(<<"%", c>>, <<n>>)
        PROVE  FormatInv'
    <2>1. <<"%", c>> \in Seq(FormatChars)
      BY DEF FormatChars
    <2>2. <<n>> \in Seq(Ints)
      BY DEF Ints
    <2> QED
      BY <1>1, <2>1, <2>2, PrintkKeeps
  <1>2. ASSUME phase = "idle", NEW n \in 0..MAX_FORMAT, NEW f \in [1..n -> FormatChars],
               NEW a \in Samples, printk(f, a)
        PROVE  FormatInv'
    <2>1. f \in Seq(FormatChars)
      BY FormatAssumption
    <2>2. a \in Seq(Ints)
      BY FormatAssumption DEF Ints
    <2> QED
      BY <1>2, <2>1, <2>2, PrintkKeeps
  <1>3. CASE UNCHANGED fvars
    <2>1. /\ phase' = phase /\ fmt' = fmt /\ args' = args /\ pos' = pos
          /\ taken' = taken /\ dest' = dest
      BY <1>3 DEF fvars
    <2>2. \A i : (StartsDirective(i))' = StartsDirective(i)
      BY <2>1 DEF StartsDirective
    <2>3. (EvenRun(pos))' = EvenRun(pos)
      BY <2>1 DEF EvenRun
    <2>4. (Wanted(pos))' = Wanted(pos) /\ (Wanted(Len(fmt)))' = Wanted(Len(fmt))
      BY <2>1, <2>2 DEF Wanted
    <2>5. FormatTypes' /\ Single'
      BY <2>1 DEF FormatInv, FormatTypes, Single
    <2>6. Matched'
      BY <2>1, <2>3, <2>4 DEF FormatInv, Matched
    <2>7. Clean'
      BY <2>1, <2>4 DEF FormatInv, Clean
    <2> QED
      BY <2>5, <2>6, <2>7 DEF FormatInv
  <1> QED
    BY <1>1, <1>2, <1>3, PlainKeeps, DirectiveKeeps, FinishKeeps, TtyWriteKeeps DEF FormatNext

\* vsprintf stands between directives, has taken one argument for each
\* conversion it has read and written no garbage, and behind a conversion alone
\* stands the text of _sprintnum, for ints of any width, formats of any length
\* and any arguments: the inductive invariant of vsprintf and printk.
THEOREM FormatCorrect == FormatSpec => []FormatInv
  <1>1. FormatInit => FormatInv
    BY InitFormatInv
  <1>2. FormatInv /\ [FormatNext]_fvars => FormatInv'
    BY NextFormatInv
  <1> QED
    BY <1>1, <1>2, PTL DEF FormatSpec

LEMMA TailFacts ==
    ASSUME NEW V, NEW t \in Seq(V), NEW d
    PROVE  Tail(<<d>> \o t) = t /\ Head(<<d>> \o t) = d
  OBVIOUS

LEMMA NumbersHold == ASSUME FormatInv PROVE NumbersReadBack
  <1> SUFFICES ASSUME phase = "print", NEW c \in {"d", "u", "x"}, fmt = <<"%", c>>, args # <<>>
               PROVE  LET num == args[1]
                          sign == fmt[2] = "d"
                          base == IF fmt[2] = "x" THEN 16 ELSE 10
                          neg == sign /\ num < 0
                          digits == IF neg THEN Tail(dest) ELSE dest
                      IN  (IF sign THEN num # INT_MIN ELSE num >= 0) =>
                              /\ neg <=> Head(dest) = MINUS
                              /\ \A i \in 1..Len(digits) : digits[i] \in 0..(base - 1)
                              /\ digits[1] = 0 => digits = <<0>>
                              /\ Value(digits, base) = IF neg THEN -num ELSE num
    BY DEF NumbersReadBack
  <1> DEFINE num == args[1]
             sign == fmt[2] = "d"
             base == IF fmt[2] = "x" THEN 16 ELSE 10
             neg == sign /\ num < 0
             digits == IF neg THEN Tail(dest) ELSE dest
             Good(b, t, v) ==
                /\ \A i \in 1..Len(t) : t[i] \in 0..(b - 1)
                /\ t[1] = 0 => t = <<0>>
                /\ Value(t, b) = v
  <1>1. num \in Ints /\ num \in Int /\ num <= INT_MAX /\ num >= INT_MIN
    <2>1. args \in Seq(Ints) /\ 1 \in 1..Len(args)
      BY DEF FormatInv, FormatTypes
    <2> QED
      BY <2>1, WidthFacts DEF Ints
  <1>2. dest = _sprintnum(num, base, sign)
    BY SingleFormat
  <1>3. base \in Nat /\ base > 1 /\ sign \in BOOLEAN
    OBVIOUS
  <1> HIDE DEF num, base
  <1>4. SUFFICES ASSUME IF sign THEN num # INT_MIN ELSE num >= 0
                 PROVE  (neg <=> Head(dest) = MINUS) /\ Good(base, digits, IF neg THEN -num ELSE num)
    BY DEF num, base
  <1>5. ASSUME NEW m \in 0..INT_MAX
        PROVE  /\ Good(base, TextOf(m, base), m) /\ TextOf(m, base) \in Seq(0..(base - 1))
               /\ Head(TextOf(m, base)) # MINUS
    <2>1. /\ TextOf(m, base) \in Seq(0..(base - 1))
          /\ Len(TextOf(m, base)) >= 1
          /\ TextOf(m, base)[1] = 0 => TextOf(m, base) = <<0>>
          /\ Value(TextOf(m, base), base) = m
      BY <1>3, TextFacts
    <2> DEFINE t == TextOf(m, base)
               B == 0..(base - 1)
    <2>2. t \in Seq(B) /\ Len(t) >= 1 /\ (t[1] = 0 => t = <<0>>) /\ Value(t, base) = m
      BY <2>1
    <2> HIDE DEF t
    <2>3. (\A i \in 1..Len(t) : t[i] \in B) /\ Head(t) \in B
      <3> HIDE DEF B
      <3> QED
        BY <2>2
    <2>4. MINUS \notin B
      BY DEF MINUS
    <2>5. Good(base, t, m)
      BY <2>2, <2>3
    <2> QED
      BY <2>2, <2>3, <2>4, <2>5 DEF t
  <1> HIDE DEF Good, sign
  <1>6. CASE neg
    <2>1. -num \in 0..INT_MAX
      BY <1>1, <1>4, <1>6, WidthFacts
    <2>2. dest = <<MINUS>> \o TextOf(-num, base)
      BY <1>1, <1>2, <1>3, <1>4, <1>6, SprintnumFacts
    <2>3. TextOf(-num, base) \in Seq(0..(base - 1)) /\ Good(base, TextOf(-num, base), -num)
      BY <1>5, <2>1
    <2>4. Tail(dest) = TextOf(-num, base) /\ Head(dest) = MINUS
      BY <2>2, <2>3, TailFacts
    <2> QED
      BY <1>6, <2>3, <2>4
  <1>7. CASE ~neg
    <2>1. num \in 0..INT_MAX /\ num >= 0
      BY <1>1, <1>4, <1>7, WidthFacts
    <2>2. dest = TextOf(num, base)
      BY <1>1, <1>2, <1>3, <2>1, SprintnumFacts
    <2> QED
      BY <1>5, <1>7, <2>1, <2>2
  <1> QED
    BY <1>6, <1>7

\* Every number printed alone can be read back: _sprintnum writes the digits of
\* the number and nothing else, for ints of any width.
THEOREM NumbersAreReadBack == FormatSpec => []NumbersReadBack
  <1>1. FormatInv => NumbersReadBack
    BY NumbersHold
  <1> QED
    BY <1>1, FormatCorrect, PTL

LEMMA ArgumentsHold == ASSUME FormatInv PROVE ArgumentsMatched
  <1> SUFFICES ASSUME phase = "print"
               PROVE  /\ taken = Cardinality(Wanted(Len(fmt)))
                      /\ Cardinality(Wanted(Len(fmt))) <= Len(args) /\ (\A i \in 1..Len(args) : args[i] >= 0)
                            => ~Contains(dest, GARBAGE)
    BY DEF ArgumentsMatched, Wanted
  <1>1. taken = Cardinality(Wanted(Len(fmt)))
    BY DEF FormatInv, Matched
  <1>2. (\A i \in 1..Len(dest) : dest[i] # GARBAGE) => ~Contains(dest, GARBAGE)
    BY DEF Contains
  <1> QED
    BY <1>1, <1>2 DEF FormatInv, Clean

\* A call with as many arguments as its format has conversions takes each of
\* them once and prints nothing that lies behind them, wherever '%' stands, for
\* formats of any length (vsprintf).
THEOREM ArgumentsAreMatched == FormatSpec => []ArgumentsMatched
  <1>1. FormatInv => ArgumentsMatched
    BY ArgumentsHold
  <1> QED
    BY <1>1, FormatCorrect, PTL

=============================================================================
