------------------------------ MODULE TtyProofs -----------------------------
(***************************************************************************)
(* Proofs about Tty and Keyboard, for any buffer size, characters and      *)
(* tasks: the circular queue is a sequence; no modifier key sticks; for    *)
(* one reader the terminal implements LineInput, and its wait queue loses  *)
(* no wake-up; and any number of readers share the characters that were    *)
(* accepted, none lost and none twice.                                     *)
(***************************************************************************)
EXTENDS Keyboard, SequenceTheorems, FiniteSetTheorems, TLAPS

-----------------------------------------------------------------------------
(* The circular queue.                                                     *)

N == TTY_BUF_SIZE

LEMMA Size == N \in Nat /\ N >= 2
  BY QueueAssumption DEF N

LEMMA ModFacts ==
    ASSUME NEW x \in Nat, x < 2 * N
    PROVE  /\ x % N \in 0..(N - 1)
           /\ x < N => x % N = x
           /\ x >= N => x % N = x - N
  BY Size

LEMMA Neighbours ==
    ASSUME NEW x \in Nat, x < N
    PROVE  \E y \in Nat : /\ y = (x + 1) % TTY_BUF_SIZE
                          /\ y < N /\ y \in Indices
                          /\ y = IF x + 1 < N THEN x + 1 ELSE 0
  <1>1. x + 1 \in Nat /\ x + 1 < 2 * N
    BY Size
  <1>2. (x + 1) % N = IF x + 1 < N THEN x + 1 ELSE 0
    <2>1. CASE x + 1 < N
      BY <1>1, <2>1, ModFacts
    <2>2. CASE ~ (x + 1 < N)
      <3>1. x + 1 >= N /\ (x + 1) - N = 0
        BY <2>2, Size
      <3> QED
        BY <1>1, <2>2, <3>1, ModFacts
    <2> QED
      BY <2>1, <2>2
  <1>3. PICK y \in Nat : y = (IF x + 1 < N THEN x + 1 ELSE 0) /\ y < N
    BY Size
  <1>4. y \in 0..(N - 1)
    BY <1>3, Size
  <1> QED
    BY <1>2, <1>3, <1>4 DEF N, Indices

LEMMA NeighboursBefore ==
    ASSUME NEW x \in Nat, x < N
    PROVE  \E y \in Nat : /\ y = (x + TTY_BUF_SIZE - 1) % TTY_BUF_SIZE
                          /\ y < N /\ y \in Indices
                          /\ y = IF x = 0 THEN N - 1 ELSE x - 1
  <1>1. x + N - 1 \in Nat /\ x + N - 1 < 2 * N
    BY Size
  <1>2. (x + N - 1) % N = IF x = 0 THEN N - 1 ELSE x - 1
    <2>1. CASE x = 0
      <3>1. x + N - 1 < N /\ x + N - 1 = N - 1
        BY <2>1, Size
      <3> QED
        BY <1>1, <2>1, <3>1, ModFacts
    <2>2. CASE x # 0
      <3>1. x + N - 1 >= N /\ (x + N - 1) - N = x - 1
        BY <2>2, Size
      <3> QED
        BY <1>1, <2>2, <3>1, ModFacts
    <2> QED
      BY <2>1, <2>2
  <1>3. PICK y \in Nat : y = (IF x = 0 THEN N - 1 ELSE x - 1) /\ y < N
    BY Size
  <1>4. y \in 0..(N - 1)
    BY <1>3, Size
  <1> QED
    BY <1>2, <1>3, <1>4 DEF N, Indices

QueueOf(V) == [buf : [Indices -> V], head : Indices, tail : Indices]

\* The index of the i-th character.
At(q, i) == (q.head + i - 1) % TTY_BUF_SIZE

LEMMA IndexFacts ==
    ASSUME NEW V, NEW q \in QueueOf(V)
    PROVE  /\ q.buf \in [Indices -> V]
           /\ q.head \in Nat /\ q.head < N /\ q.head \in Indices
           /\ q.tail \in Nat /\ q.tail < N /\ q.tail \in Indices
           /\ q = [buf |-> q.buf, head |-> q.head, tail |-> q.tail]
           /\ Indices = 0..(N - 1)
  BY Size DEF QueueOf, Indices, N

LEMMA LengthFacts ==
    ASSUME NEW V, NEW q \in QueueOf(V)
    PROVE  /\ Length(q) = IF q.tail >= q.head THEN q.tail - q.head ELSE q.tail + N - q.head
           /\ Length(q) \in 0..(N - 1)
           /\ tty_isempty_q(q) <=> Length(q) = 0
           /\ tty_isfull_q(q) <=> Length(q) = N - 1
  <1>1. /\ q.head \in Nat /\ q.head < N /\ q.tail \in Nat /\ q.tail < N
    BY IndexFacts
  <1>2. PICK h \in Nat : h = q.head /\ h < N
    BY <1>1
  <1>3. PICK t \in Nat : t = q.tail /\ t < N
    BY <1>1
  <1>4. Length(q) = (t + N - h) % N
    BY <1>2, <1>3 DEF Length, N
  <1>5. tty_isfull_q(q) <=> (t + 1) % N = h
    BY <1>2, <1>3 DEF tty_isfull_q, N
  <1>6. t + N - h \in Nat /\ t + N - h < 2 * N /\ t + 1 \in Nat /\ t + 1 < 2 * N
    BY <1>2, <1>3, Size
  <1>7. /\ t >= h => (t + N - h) % N = t - h
        /\ t < h => (t + N - h) % N = t + N - h
        /\ t + 1 < N => (t + 1) % N = t + 1
        /\ t + 1 = N => (t + 1) % N = 0
    <2>1. t + N - h >= N <=> t >= h
      BY <1>2, <1>3, Size
    <2>2. (t + N - h) - N = t - h
      BY <1>2, <1>3, Size
    <2> QED
      BY <2>1, <2>2, <1>2, <1>3, <1>6, ModFacts, Size
  <1>8. Length(q) = IF t >= h THEN t - h ELSE t + N - h
    BY <1>2, <1>3, <1>4, <1>7
  <1>9. Length(q) \in 0..(N - 1)
    BY <1>2, <1>3, <1>8, Size
  <1>10. (t + 1) % N = h <=> (IF t >= h THEN t - h ELSE t + N - h) = N - 1
    <2>1. CASE t + 1 < N
      <3>1. t + 1 = h <=> (IF t >= h THEN t - h ELSE t + N - h) = N - 1
        BY <2>1, <1>2, <1>3, Size
      <3> QED
        BY <3>1, <2>1, <1>7
    <2>2. CASE t + 1 = N
      <3>1. 0 = h <=> (IF t >= h THEN t - h ELSE t + N - h) = N - 1
        BY <2>2, <1>2, <1>3, Size
      <3> QED
        BY <3>1, <2>2, <1>7
    <2> QED
      BY <2>1, <2>2, <1>3, Size
  <1>11. t = h <=> (IF t >= h THEN t - h ELSE t + N - h) = 0
    BY <1>2, <1>3, Size
  <1>12. tty_isempty_q(q) <=> t = h
    BY <1>2, <1>3 DEF tty_isempty_q
  <1> QED
    BY <1>2, <1>3, <1>5, <1>8, <1>9, <1>10, <1>11, <1>12

\* The characters are where one expects them, up to and including the slot
\* behind the last.
LEMMA AtFacts ==
    ASSUME NEW V, NEW q \in QueueOf(V), NEW i \in 1..N
    PROVE  /\ At(q, i) = IF q.head + i - 1 < N THEN q.head + i - 1 ELSE q.head + i - 1 - N
           /\ At(q, i) \in Indices
           /\ At(q, i) = q.tail <=> i = Length(q) + 1
           /\ At(q, i) = q.head <=> i = 1
  <1>1. PICK h \in Nat : h = q.head /\ h < N
    BY IndexFacts
  <1>2. PICK t \in Nat : t = q.tail /\ t < N
    BY IndexFacts
  <1>3. i \in Nat /\ i >= 1 /\ i <= N
    BY Size
  <1>4. h + i - 1 \in Nat /\ h + i - 1 < 2 * N
    BY <1>1, <1>3, Size
  <1>5. At(q, i) = (h + i - 1) % N
    BY <1>1 DEF At, N
  <1>6. At(q, i) = IF h + i - 1 < N THEN h + i - 1 ELSE h + i - 1 - N
    <2>1. h + i - 1 >= N <=> ~ (h + i - 1 < N)
      BY <1>4, Size
    <2>2. (h + i - 1) - N = h + i - 1 - N
      BY <1>1, <1>3, Size
    <2> QED
      BY <2>1, <2>2, <1>4, <1>5, ModFacts
  <1>7. At(q, i) \in 0..(N - 1)
    BY <1>4, <1>5, ModFacts
  <1>8. Length(q) = IF t >= h THEN t - h ELSE t + N - h
    BY <1>1, <1>2, LengthFacts
  <1>9. (IF h + i - 1 < N THEN h + i - 1 ELSE h + i - 1 - N) = t
           <=> i = (IF t >= h THEN t - h ELSE t + N - h) + 1
    BY <1>1, <1>2, <1>3, Size
  <1>10. (IF h + i - 1 < N THEN h + i - 1 ELSE h + i - 1 - N) = h <=> i = 1
    BY <1>1, <1>3, Size
  <1>11. Indices = 0..(N - 1)
    BY IndexFacts
  <1> QED
    BY <1>1, <1>2, <1>6, <1>7, <1>8, <1>9, <1>10, <1>11

LEMMA ContentFacts ==
    ASSUME NEW V, NEW q \in QueueOf(V)
    PROVE  /\ Content(q) \in Seq(V) /\ Len(Content(q)) = Length(q)
           /\ \A i \in 1..Length(q) : Content(q)[i] = q.buf[At(q, i)]
           /\ tty_isempty_q(q) <=> Content(q) = <<>>
  <1>1. PICK n \in Nat : n = Length(q) /\ n <= N - 1
    BY LengthFacts, Size
  <1>2. \A i \in 1..n : i \in 1..N
    BY <1>1, Size
  <1>3. \A i \in 1..n : At(q, i) \in Indices
    BY <1>2, AtFacts
  <1>4. Content(q) = [i \in 1..n |-> q.buf[At(q, i)]]
    BY <1>1 DEF Content, At
  <1>5. \A i \in 1..n : q.buf[At(q, i)] \in V
    BY <1>3, IndexFacts
  <1>6. Content(q) \in [1..n -> V]
    BY <1>4, <1>5
  <1>7. Content(q) \in Seq(V) /\ Len(Content(q)) = n
    BY <1>6
  <1>8. Content(q) = <<>> <=> n = 0
    BY <1>7, EmptySeq
  <1> QED
    BY <1>1, <1>4, <1>7, <1>8, LengthFacts

\* Two queues whose characters agree hold the same sequence.
LEMMA SameContent ==
    ASSUME NEW V, NEW q \in QueueOf(V), NEW s \in Seq(V), Len(s) = Length(q),
           \A i \in 1..Length(q) : s[i] = q.buf[At(q, i)]
    PROVE  Content(q) = s
  <1>1. Content(q) \in Seq(V) /\ Len(Content(q)) = Len(s)
    BY ContentFacts
  <1>2. \A i \in 1..Len(Content(q)) : Content(q)[i] = s[i]
    BY <1>1, ContentFacts
  <1> QED
    BY <1>1, <1>2, SeqEqual

\* tty_push_q appends.
LEMMA PushContent ==
    ASSUME NEW V, NEW q \in QueueOf(V), NEW ch \in V
    PROVE  /\ tty_push_q(q, ch) \in QueueOf(V)
           /\ ~ tty_isfull_q(q) => Content(tty_push_q(q, ch)) = Append(Content(q), ch)
           /\ tty_isfull_q(q) => tty_push_q(q, ch) = q
  <1>1. CASE tty_isfull_q(q)
    BY <1>1 DEF tty_push_q
  <1>2. CASE ~ tty_isfull_q(q)
    <2>1. PICK h \in Nat : h = q.head /\ h < N
      BY IndexFacts
    <2>2. PICK t \in Nat : t = q.tail /\ t < N
      BY IndexFacts
    <2>3. PICK n \in Nat : n = Length(q) /\ n < N - 1
      BY <1>2, LengthFacts, Size
    <2>4. PICK u \in Nat : /\ u = (t + 1) % TTY_BUF_SIZE
                           /\ u < N /\ u \in Indices
                           /\ u = IF t + 1 < N THEN t + 1 ELSE 0
      BY <2>2, Neighbours
    <2>5. PICK p : p = tty_push_q(q, ch)
      OBVIOUS
    <2>6. p = [buf |-> [q.buf EXCEPT ![t] = ch], head |-> h, tail |-> u]
      <3>1. q = [buf |-> q.buf, head |-> h, tail |-> t]
        BY <2>1, <2>2, IndexFacts
      <3>2. Store(q, ch) = [buf |-> [q.buf EXCEPT ![t] = ch], head |-> h, tail |-> t]
        BY <3>1, <2>2 DEF Store
      <3>3. p = Advance(Store(q, ch))
        BY <1>2, <2>5 DEF tty_push_q
      <3>4. (t + 1) % TTY_BUF_SIZE = u
        BY <2>4
      <3> QED
        BY <3>2, <3>3, <3>4 DEF Advance
    <2>7. t \in Indices /\ u \in Indices /\ h \in Indices
      <3>1. u \in Indices
        BY <2>4
      <3> QED
        BY <3>1, <2>1, <2>2, IndexFacts
    <2>8. p \in QueueOf(V)
      BY <2>6, <2>7, IndexFacts DEF QueueOf
    <2>9. p.head = h /\ p.tail = u /\ p.buf = [q.buf EXCEPT ![t] = ch]
      BY <2>6
    <2>10. Length(p) = n + 1
      <3>1. n = IF t >= h THEN t - h ELSE t + N - h
        BY <2>1, <2>2, <2>3, LengthFacts
      <3>2. Length(p) = IF u >= h THEN u - h ELSE u + N - h
        BY <2>8, <2>9, LengthFacts
      <3>3. CASE t + 1 < N
        <4>1. u = t + 1
          BY <3>3, <2>4
        <4> QED
          BY <4>1, <3>1, <3>2, <2>1, <2>2, <2>3, Size
      <3>4. CASE t + 1 = N
        <4>1. u = 0
          BY <3>4, <2>2, <2>4, Size
        <4> QED
          BY <4>1, <3>1, <3>2, <3>4, <2>1, <2>2, <2>3, Size
      <3> QED
        BY <3>3, <3>4, <2>2, Size
    <2>11. PICK c \in Seq(V) : c = Content(q) /\ Len(c) = n
      BY <2>3, ContentFacts
    <2>12. \A i \in 1..n : c[i] = q.buf[At(q, i)]
      BY <2>3, <2>11, ContentFacts
    <2>13. /\ Append(c, ch) \in Seq(V) /\ Len(Append(c, ch)) = n + 1
           /\ \A i \in 1..n : Append(c, ch)[i] = c[i]
           /\ Append(c, ch)[n + 1] = ch
      BY <2>11, AppendProperties
    <2>14. ASSUME NEW i \in 1..(n + 1)
           PROVE  Append(c, ch)[i] = p.buf[At(p, i)]
      <3>1. i \in 1..N
        BY <2>3, Size
      <3>2. At(p, i) = At(q, i)
        BY <2>1, <2>9 DEF At
      <3>3. At(q, i) \in Indices /\ (At(q, i) = t <=> i = n + 1)
        BY <3>1, <2>2, <2>3, AtFacts
      <3>4. p.buf[At(p, i)] = IF i = n + 1 THEN ch ELSE q.buf[At(q, i)]
        BY <3>2, <3>3, <2>9, IndexFacts
      <3>5. CASE i = n + 1
        BY <3>4, <3>5, <2>13
      <3>6. CASE i # n + 1
        <4>1. i \in 1..n
          BY <3>6
        <4> QED
          BY <4>1, <3>4, <3>6, <2>12, <2>13
      <3> QED
        BY <3>5, <3>6
    <2>15. Content(p) = Append(c, ch)
      BY <2>8, <2>10, <2>13, <2>14, SameContent
    <2> QED
      BY <1>2, <2>5, <2>8, <2>11, <2>15
  <1> QED
    BY <1>1, <1>2

\* The rest of tty_pop_q takes the first character.
LEMMA DropContent ==
    ASSUME NEW V, NEW q \in QueueOf(V)
    PROVE  /\ Drop(q) \in QueueOf(V)
           /\ tty_queue_head(q) \in V
           /\ ~ tty_isempty_q(q) =>
                 /\ Content(q) # <<>>
                 /\ Head(Content(q)) = tty_queue_head(q)
                 /\ Content(Drop(q)) = Tail(Content(q))
  <1>1. PICK h \in Nat : h = q.head /\ h < N
    BY IndexFacts
  <1>2. PICK t \in Nat : t = q.tail /\ t < N
    BY IndexFacts
  <1>3. PICK g \in Nat : /\ g = (h + 1) % TTY_BUF_SIZE
                         /\ g < N /\ g \in Indices
                         /\ g = IF h + 1 < N THEN h + 1 ELSE 0
    BY <1>1, Neighbours
  <1>4. PICK p : p = Drop(q)
    OBVIOUS
  <1>5. p = [buf |-> q.buf, head |-> g, tail |-> t]
    <2>1. q = [buf |-> q.buf, head |-> h, tail |-> t]
      BY <1>1, <1>2, IndexFacts
    <2>2. (h + 1) % TTY_BUF_SIZE = g
      BY <1>3
    <2> QED
      BY <2>1, <2>2, <1>4 DEF Drop
  <1>6. g \in Indices /\ t \in Indices
    <2>1. g \in Indices
      BY <1>3
    <2> QED
      BY <2>1, <1>2, IndexFacts
  <1>7. p \in QueueOf(V)
    BY <1>5, <1>6, IndexFacts DEF QueueOf
  <1>8. tty_queue_head(q) \in V
    BY IndexFacts DEF tty_queue_head
  <1>9. ASSUME ~ tty_isempty_q(q)
        PROVE  /\ Content(q) # <<>>
               /\ Head(Content(q)) = tty_queue_head(q)
               /\ Content(p) = Tail(Content(q))
    <2>1. PICK n \in Nat : n = Length(q) /\ n <= N - 1 /\ n >= 1
      BY <1>9, LengthFacts, Size
    <2>2. PICK c \in Seq(V) : c = Content(q) /\ Len(c) = n /\ c # <<>>
      BY <1>9, <2>1, ContentFacts
    <2>3. \A i \in 1..n : c[i] = q.buf[At(q, i)]
      BY <2>1, <2>2, ContentFacts
    <2>4. p.head = g /\ p.tail = t /\ p.buf = q.buf
      BY <1>5
    <2>5. (h + 1 < N => g = h + 1) /\ (h + 1 = N => g = 0)
      <3>1. g = IF h + 1 < N THEN h + 1 ELSE 0
        BY <1>3
      <3> QED
        BY <3>1, <1>1, Size
    <2>6. Length(p) = n - 1
      <3>1. n = IF t >= h THEN t - h ELSE t + N - h
        BY <1>1, <1>2, <2>1, LengthFacts
      <3>2. Length(p) = IF t >= g THEN t - g ELSE t + N - g
        BY <1>7, <2>4, LengthFacts
      <3> QED
        <4>1. PICK m : m = Length(p)
          OBVIOUS
        <4>2. m = IF t >= g THEN t - g ELSE t + N - g
          BY <3>2, <4>1
        <4>3. n >= 1 /\ h < N /\ t < N /\ g < N
          BY <1>1, <1>2, <1>3, <2>1
        <4>4. (h + 1 < N /\ g = h + 1) \/ (h + 1 = N /\ g = 0)
          BY <4>3, <2>5, Size
        <4>5. m = n - 1
          BY <4>2, <4>3, <4>4, <3>1, Size
        <4> QED
          BY <4>1, <4>5
    <2>7. Head(c) = c[1]
      BY <2>2
    <2>8. c[1] = q.buf[h]
      <3>1. 1 \in 1..n /\ 1 \in 1..N
        BY <2>1, Size
      <3>2. At(q, 1) = h
        BY <3>1, <1>1, AtFacts
      <3> QED
        BY <3>1, <3>2, <2>3
    <2>9. /\ Tail(c) \in Seq(V) /\ Len(Tail(c)) = n - 1
          /\ \A i \in 1..(n - 1) : Tail(c)[i] = c[i + 1]
      BY <2>2, HeadTailProperties
    <2>10. ASSUME NEW i \in 1..(n - 1)
           PROVE  Tail(c)[i] = p.buf[At(p, i)]
      <3>1. i \in 1..N /\ i + 1 \in 1..N /\ i + 1 \in 1..n
        BY <2>1, Size
      <3>2. At(q, i + 1) = IF h + (i + 1) - 1 < N THEN h + (i + 1) - 1 ELSE h + (i + 1) - 1 - N
        BY <3>1, <1>1, AtFacts
      <3>3. At(p, i) = IF g + i - 1 < N THEN g + i - 1 ELSE g + i - 1 - N
        BY <3>1, <1>7, <2>4, AtFacts
      <3>4. PICK x : x = At(q, i + 1)
        OBVIOUS
      <3>5. PICK y : y = At(p, i)
        OBVIOUS
      <3>6. x = y
        <4>1. x = IF h + (i + 1) - 1 < N THEN h + (i + 1) - 1 ELSE h + (i + 1) - 1 - N
          BY <3>2, <3>4
        <4>2. y = IF g + i - 1 < N THEN g + i - 1 ELSE g + i - 1 - N
          BY <3>3, <3>5
        <4>3. i \in Nat /\ i >= 1 /\ i + 1 <= N
          BY <3>1, Size
        <4> QED
          BY <4>1, <4>2, <4>3, <1>1, <2>5, Size, SMTT(30)
      <3> QED
        BY <3>1, <3>4, <3>5, <3>6, <2>3, <2>4, <2>9
    <2>11. Content(p) = Tail(c)
      BY <1>7, <2>6, <2>9, <2>10, SameContent
    <2> QED
      BY <2>2, <2>7, <2>8, <2>11, <1>1 DEF tty_queue_head
  <1> QED
    BY <1>4, <1>7, <1>8, <1>9

\* Moving head back makes room for one character, unless the queue is full.
LEMMA StepBackContent ==
    ASSUME NEW V, NEW q \in QueueOf(V)
    PROVE  /\ StepBack(q) \in QueueOf(V)
           /\ Drop(StepBack(q)) = q
           /\ ~ tty_isfull_q(q) => ~ tty_isempty_q(StepBack(q))
  <1>1. PICK h \in Nat : h = q.head /\ h < N
    BY IndexFacts
  <1>2. PICK t \in Nat : t = q.tail /\ t < N
    BY IndexFacts
  <1>3. PICK g \in Nat : /\ g = (h + TTY_BUF_SIZE - 1) % TTY_BUF_SIZE
                         /\ g < N /\ g \in Indices
                         /\ g = IF h = 0 THEN N - 1 ELSE h - 1
    BY <1>1, NeighboursBefore
  <1>4. PICK k \in Nat : /\ k = (g + 1) % TTY_BUF_SIZE
                         /\ k = IF g + 1 < N THEN g + 1 ELSE 0
    BY <1>3, Neighbours
  <1>5. k = h
    <2>1. g = IF h = 0 THEN N - 1 ELSE h - 1
      BY <1>3
    <2>2. k = IF g + 1 < N THEN g + 1 ELSE 0
      BY <1>4
    <2> QED
      BY <2>1, <2>2, <1>1, Size
  <1>6. PICK p : p = StepBack(q)
    OBVIOUS
  <1>7. p = [buf |-> q.buf, head |-> g, tail |-> t]
    <2>1. q = [buf |-> q.buf, head |-> h, tail |-> t]
      BY <1>1, <1>2, IndexFacts
    <2>2. (h + TTY_BUF_SIZE - 1) % TTY_BUF_SIZE = g
      BY <1>3
    <2> QED
      BY <2>1, <2>2, <1>6 DEF StepBack
  <1>8. p \in QueueOf(V)
    <2>1. g \in Indices /\ t \in Indices
      BY <1>2, <1>3, IndexFacts
    <2> QED
      BY <2>1, <1>7, IndexFacts DEF QueueOf
  <1>9. Drop(p) = q
    <2>1. (g + 1) % TTY_BUF_SIZE = h
      BY <1>4, <1>5
    <2>2. Drop(p) = [buf |-> q.buf, head |-> h, tail |-> t]
      BY <2>1, <1>7 DEF Drop
    <2> QED
      BY <2>2, <1>1, <1>2, IndexFacts
  <1>10. ASSUME ~ tty_isfull_q(q), tty_isempty_q(p)
         PROVE  FALSE
    <2>1. g = t
      BY <1>7, <1>10 DEF tty_isempty_q
    <2>2. (t + 1) % TTY_BUF_SIZE = h
      BY <2>1, <1>4, <1>5
    <2> QED
      BY <2>2, <1>1, <1>2, <1>10 DEF tty_isfull_q
  <1> QED
    BY <1>6, <1>8, <1>9, <1>10

\* ... and the second assignment of tty_push_q_front puts one there.
LEMMA FillContent ==
    ASSUME NEW V, NEW q \in QueueOf(V), NEW ch \in V
    PROVE  /\ FillHead(q, ch) \in QueueOf(V)
           /\ ~ tty_isempty_q(q) => Content(FillHead(q, ch)) = <<ch>> \o Content(Drop(q))
  <1>1. PICK h \in Nat : h = q.head /\ h < N /\ h \in Indices
    BY IndexFacts
  <1>2. PICK p : p = FillHead(q, ch)
    OBVIOUS
  <1>3. PICK b : b = q.buf
    OBVIOUS
  <1>4. p = [buf |-> [b EXCEPT ![h] = ch], head |-> h, tail |-> q.tail]
    <2>1. q = [buf |-> b, head |-> h, tail |-> q.tail]
      BY <1>1, <1>3, IndexFacts
    <2>2. p = [[buf |-> b, head |-> h, tail |-> q.tail] EXCEPT !.buf[h] = ch]
      BY <2>1, <1>1, <1>2 DEF FillHead
    <2> QED
      BY <2>2
  <1>5. p \in QueueOf(V)
    BY <1>1, <1>3, <1>4, IndexFacts DEF QueueOf
  <1>6. ASSUME ~ tty_isempty_q(q)
        PROVE  Content(p) = <<ch>> \o Content(Drop(q))
    <2>1. PICK n \in Nat : n = Length(q) /\ n <= N - 1 /\ n >= 1
      BY <1>6, LengthFacts, Size
    <2>2. PICK c \in Seq(V) : c = Content(q) /\ Len(c) = n /\ c # <<>>
      BY <1>6, <2>1, ContentFacts
    <2>3. \A i \in 1..n : c[i] = q.buf[At(q, i)]
      BY <2>1, <2>2, ContentFacts
    <2>4. PICK e \in Seq(V) : /\ e = Content(Drop(q)) /\ Len(e) = n - 1
                              /\ \A i \in 1..(n - 1) : e[i] = c[i + 1]
      BY <1>6, <2>2, DropContent, HeadTailProperties
    <2>5. PICK d \in Seq(V) : d = <<ch>> /\ Len(d) = 1 /\ d[1] = ch
      <3>1. <<ch>> \in Seq(V) /\ Len(<<ch>>) = 1 /\ <<ch>>[1] = ch
        OBVIOUS
      <3> QED
        BY <3>1
    <2>6. /\ d \o e \in Seq(V) /\ Len(d \o e) = 1 + (n - 1)
          /\ \A i \in 1..(1 + (n - 1)) : (d \o e)[i] = IF i <= 1 THEN d[i] ELSE e[i - 1]
      BY <2>4, <2>5, ConcatProperties
    <2>7. Length(p) = n
      BY <2>1, <1>1, <1>4 DEF Length
    <2>8. ASSUME NEW i \in 1..n
          PROVE  (d \o e)[i] = p.buf[At(p, i)]
      <3>1. i \in 1..N /\ i \in 1..(1 + (n - 1))
        BY <2>1, Size
      <3>2. At(p, i) = At(q, i)
        BY <1>1, <1>4 DEF At
      <3>3. At(q, i) \in Indices /\ (At(q, i) = h <=> i = 1)
        BY <3>1, <1>1, AtFacts
      <3>4. p.buf[At(p, i)] = IF i = 1 THEN ch ELSE q.buf[At(q, i)]
        BY <3>2, <3>3, <1>3, <1>4, IndexFacts
      <3>5. CASE i = 1
        BY <3>1, <3>4, <3>5, <2>5, <2>6
      <3>6. CASE i # 1
        <4>1. i - 1 \in 1..(n - 1) /\ (i - 1) + 1 = i /\ ~ (i <= 1)
          BY <3>6, <2>1
        <4>2. (d \o e)[i] = c[i]
          BY <4>1, <3>1, <2>4, <2>6
        <4> QED
          BY <4>2, <3>4, <3>6, <2>3
      <3> QED
        BY <3>5, <3>6
    <2>9. Content(p) = d \o e
      <3>1. 1 + (n - 1) = n
        BY <2>1
      <3> QED
        BY <3>1, <1>5, <2>6, <2>7, <2>8, SameContent
    <2> QED
      BY <2>4, <2>5, <2>9
  <1> QED
    BY <1>2, <1>5, <1>6

\* What Backspace does to a buffer that is not empty.
Erased(q) == [q EXCEPT !.tail = (@ + TTY_BUF_SIZE - 1) % TTY_BUF_SIZE]

LEMMA ErasedContent ==
    ASSUME NEW V, NEW q \in QueueOf(V), ~ tty_isempty_q(q)
    PROVE  /\ Erased(q) \in QueueOf(V)
           /\ Content(q) # <<>>
           /\ Content(Erased(q)) = SubSeq(Content(q), 1, Len(Content(q)) - 1)
           /\ Length(Erased(q)) = Length(q) - 1
  <1>1. PICK h \in Nat : h = q.head /\ h < N
    BY IndexFacts
  <1>2. PICK t \in Nat : t = q.tail /\ t < N
    BY IndexFacts
  <1>3. PICK u \in Nat : /\ u = (t + TTY_BUF_SIZE - 1) % TTY_BUF_SIZE
                         /\ u < N /\ u \in Indices
                         /\ u = IF t = 0 THEN N - 1 ELSE t - 1
    BY <1>2, NeighboursBefore
  <1>4. u < N /\ u = IF t = 0 THEN N - 1 ELSE t - 1
    BY <1>3
  <1>5. PICK p : p = Erased(q)
    OBVIOUS
  <1>6. p = [buf |-> q.buf, head |-> h, tail |-> u]
    <2>1. q = [buf |-> q.buf, head |-> h, tail |-> t]
      BY <1>1, <1>2, IndexFacts
    <2>2. (t + TTY_BUF_SIZE - 1) % TTY_BUF_SIZE = u
      BY <1>3
    <2> QED
      BY <2>1, <2>2, <1>5 DEF Erased
  <1>7. u \in Indices /\ h \in Indices
    <2>1. u \in Indices
      BY <1>3
    <2> QED
      BY <2>1, <1>1, IndexFacts
  <1>8. p \in QueueOf(V) /\ p.head = h /\ p.tail = u /\ p.buf = q.buf
    BY <1>6, <1>7, IndexFacts DEF QueueOf
  <1>9. PICK n \in Nat : n = Length(q) /\ n <= N - 1 /\ n >= 1
    BY LengthFacts, Size
  <1>10. Length(p) = n - 1
    <2>1. n = IF t >= h THEN t - h ELSE t + N - h
      BY <1>1, <1>2, <1>9, LengthFacts
    <2>2. PICK m : m = Length(p)
      OBVIOUS
    <2>3. m = IF u >= h THEN u - h ELSE u + N - h
      BY <1>8, <2>2, LengthFacts
    <2>4. n >= 1 /\ h < N /\ t < N
      BY <1>1, <1>2, <1>9
    <2>5. m = n - 1
      BY <2>1, <2>3, <2>4, <1>4, Size
    <2> QED
      BY <2>2, <2>5
  <1>11. PICK c \in Seq(V) : c = Content(q) /\ Len(c) = n /\ c # <<>>
    BY <1>9, ContentFacts
  <1>12. \A i \in 1..n : c[i] = q.buf[At(q, i)]
    BY <1>9, <1>11, ContentFacts
  <1>13. PICK f \in Seq(V) : /\ f = SubSeq(c, 1, n - 1)
                             /\ Len(f) = n - 1
                             /\ \A i \in 1..(n - 1) : f[i] = c[i]
    <2>1. \A i \in 1..(n - 1) : c[i] \in V
      BY <1>11, ElementOfSeq
    <2>2. /\ SubSeq(c, 1, n - 1) \in Seq(V)
          /\ Len(SubSeq(c, 1, n - 1)) = n - 1
          /\ \A i \in 1..(n - 1) : SubSeq(c, 1, n - 1)[i] = c[i]
      BY <1>9, <1>11
    <2> QED
      BY <2>2
  <1>14. \A i \in 1..(n - 1) : f[i] = p.buf[At(p, i)]
    <2> SUFFICES ASSUME NEW i \in 1..(n - 1)
                 PROVE  f[i] = p.buf[At(p, i)]
      OBVIOUS
    <2>1. i \in 1..n
      OBVIOUS
    <2>2. At(p, i) = At(q, i)
      BY <1>1, <1>8 DEF At
    <2> QED
      BY <2>1, <2>2, <1>8, <1>12, <1>13
  <1>15. Content(p) = f
    BY <1>8, <1>10, <1>13, <1>14, SameContent
  <1> QED
    BY <1>5, <1>8, <1>9, <1>10, <1>11, <1>13, <1>15

-----------------------------------------------------------------------------
(* Types.  The events are only counted: what holds does not depend on them, *)
(* so a step of the keyboard's flags preserves it.                          *)

Chars == Keys \cup {0, OUT}

core == <<queues, sleep, signal, cpu, pc, nr, tmpbuf, hist>>

\* Every step of the keyboard driver is one of the terminal, or concerns flags.
LEMMA KeyboardStep ==
    ASSUME [KeyboardNext]_<<vars, kvars>>
    PROVE  Next \/ UNCHANGED core
  <1>1. CASE \E k \in PrintKeys : do_keyboard_interrupt(k)
    <2>1. PICK k \in PrintKeys : do_keyboard_interrupt(k)
      BY <1>1
    <2>2. scancode_table[k] \in Keys /\ shift_scancode_table[k] \in Keys
      BY KeyboardAssumption
    <2>3. \A ch \in Keys : toupper[ch] \in Keys
      BY KeyboardAssumption
    <2>4. Decoded(k) \in Keys
      BY <2>2, <2>3, KeyboardAssumption DEF Decoded
    <2> QED
      BY <2>1, <2>4 DEF do_keyboard_interrupt, Next
  <1>2. CASE \E k \in ModKeys : PressModifier(k) \/ ReleaseModifier(k)
    BY <1>2 DEF PressModifier, ReleaseModifier, FlagsOnly, core
  <1>3. CASE TaskStep /\ UNCHANGED kvars
    BY <1>3 DEF Next
  <1>4. CASE UNCHANGED <<vars, kvars>>
    BY <1>4 DEF vars, core
  <1> QED
    BY <1>1, <1>2, <1>3, <1>4 DEF KeyboardNext

LEMMA QueueTypes == Queue = QueueOf(Chars)
  BY DEF Queue, QueueOf, Chars

\* con_write empties the queue it echoes to.
LEMMA EchoContent ==
    ASSUME NEW q \in QueueOf(Chars)
    PROVE  Echo(q) \in QueueOf(Chars) /\ tty_isempty_q(Echo(q))
  <1>1. PICK p : p = tty_push_q(q, OUT)
    OBVIOUS
  <1>2. p \in QueueOf(Chars)
    BY <1>1, PushContent DEF Chars
  <1>3. Echo(q) = [p EXCEPT !.head = p.tail]
    BY <1>1 DEF Echo
  <1> QED
    BY <1>2, <1>3 DEF QueueOf, tty_isempty_q

LEMMA StoreType ==
    ASSUME NEW q \in QueueOf(Chars)
    PROVE  Store(q, OUT) \in QueueOf(Chars) /\ Advance(q) \in QueueOf(Chars)
  <1>1. Store(q, OUT) \in QueueOf(Chars)
    <2>1. OUT \in Chars
      BY DEF Chars
    <2> QED
      BY <2>1 DEF Store, QueueOf
  <1>2. PICK y \in Nat : y = (q.tail + 1) % TTY_BUF_SIZE /\ y \in Indices
    BY IndexFacts, Neighbours
  <1>3. Advance(q) = [q EXCEPT !.tail = y]
    BY <1>2 DEF Advance
  <1>4. Advance(q) \in QueueOf(Chars)
    BY <1>2, <1>3 DEF QueueOf
  <1> QED
    BY <1>1, <1>4

LEMMA LastFront ==
    ASSUME NEW V, NEW s \in Seq(V), s # <<>>
    PROVE  /\ Last(s) \in V /\ Front(s) \in Seq(V)
           /\ Last(s) = s[Len(s)] /\ Front(s) = SubSeq(s, 1, Len(s) - 1)
           /\ Len(Front(s)) = Len(s) - 1
           /\ \A i \in 1..(Len(s) - 1) : Front(s)[i] = s[i]
           /\ s = Front(s) \o <<Last(s)>>
  <1>1. Len(s) \in Nat /\ Len(s) > 0 /\ Len(s) \in 1..Len(s)
    BY EmptySeq
  <1>2. Last(s) = s[Len(s)] /\ s[Len(s)] \in V
    BY <1>1, ElementOfSeq DEF Last
  <1>3. Front(s) = SubSeq(s, 1, Len(s) - 1)
    BY DEF Front
  <1>4. PICK f : f = SubSeq(s, 1, Len(s) - 1)
    OBVIOUS
  <1>5. f \in Seq(V) /\ Len(f) = Len(s) - 1 /\ \A i \in 1..(Len(s) - 1) : f[i] = s[i]
    <2>1. PICK n \in Nat : n = Len(s) /\ n > 0
      BY <1>1
    <2>2. PICK m \in Nat : m = n - 1
      BY <2>1
    <2>3. m = Len(s) - 1 /\ f = SubSeq(s, 1, m)
      BY <1>4, <2>1, <2>2
    <2>4. \A i \in 1..m : i \in 1..Len(s)
      BY <2>1, <2>2
    <2>5. \A i \in 1..m : s[i] \in V
      BY <2>4, ElementOfSeq
    <2>6. f \in Seq(V) /\ Len(f) = m /\ \A i \in 1..m : f[i] = s[i]
      BY <2>2, <2>3, <2>5, SubSeqProperties
    <2> QED
      BY <2>3, <2>6
  <1>6. s = f \o <<s[Len(s)]>>
    <2>1. PICK d \in Seq(V) : d = <<s[Len(s)]>> /\ Len(d) = 1 /\ d[1] = s[Len(s)]
      <3>1. PICK x \in V : x = s[Len(s)]
        BY <1>2
      <3>2. <<x>> \in Seq(V) /\ Len(<<x>>) = 1 /\ <<x>>[1] = x
        OBVIOUS
      <3> QED
        BY <3>1, <3>2
    <2>2. /\ f \o d \in Seq(V) /\ Len(f \o d) = Len(s)
          /\ \A i \in 1..Len(s) : (f \o d)[i] = s[i]
      <3>1. /\ f \o d \in Seq(V) /\ Len(f \o d) = Len(f) + Len(d)
            /\ \A i \in 1..(Len(f) + Len(d)) :
                  (f \o d)[i] = IF i <= Len(f) THEN f[i] ELSE d[i - Len(f)]
        BY <1>5, <2>1, ConcatProperties
      <3>2. PICK n \in Nat : n = Len(s) /\ n > 0
        BY <1>1
      <3>3. Len(f) = n - 1 /\ Len(d) = 1 /\ Len(f) + Len(d) = n
        BY <1>5, <2>1, <3>2
      <3>4. ASSUME NEW i \in 1..n
            PROVE  (f \o d)[i] = s[i]
        <4>1. (f \o d)[i] = IF i <= n - 1 THEN f[i] ELSE d[i - (n - 1)]
          BY <3>1, <3>3
        <4>2. CASE i <= n - 1
          <5>1. i \in 1..(n - 1)
            BY <4>2, <3>2
          <5> QED
            BY <5>1, <4>1, <4>2, <3>2, <1>5
        <4>3. CASE ~ (i <= n - 1)
          <5>1. i = n /\ i - (n - 1) = 1
            BY <4>3, <3>2
          <5> QED
            BY <5>1, <4>1, <4>3, <3>2, <2>1
        <4> QED
          BY <4>2, <4>3
      <3> QED
        BY <3>1, <3>2, <3>3, <3>4
    <2> QED
      BY <2>1, <2>2, SeqEqual
  <1> QED
    BY <1>2, <1>3, <1>4, <1>5, <1>6

LEMMA TypesInit ==
    ASSUME Init
    PROVE  Types
  <1>1. PICK k \in Starts : buffer = Empty(k, 0)
    BY DEF Init
  <1>2. k \in Indices /\ 0 \in Indices
    <2>1. 0 \in 0..(N - 1)
      BY Size
    <2> QED
      BY <2>1, TtyAssumption DEF Indices, N
  <1>3. buffer \in Queue /\ write_q \in Queue
    BY <1>1, <1>2 DEF Init, Empty, Queue
  <1>4. /\ wait_proc \in [{"buffer", "write_q"} -> Tasks \cup {NONE}]
        /\ state \in [Tasks -> {RUNNING, INTERRUPTIBLE}]
        /\ signal \subseteq Tasks
        /\ cpu \in Tasks \cup {NONE}
        /\ pc \in [Tasks -> Points]
        /\ tmp \in [Tasks -> Tasks \cup {NONE}]
        /\ nr \in [Tasks -> Nat]
    BY DEF Init, Points
  <1>5. /\ tmpbuf \in [Tasks -> Seq(Keys \cup {0, OUT})]
        /\ got \in [Tasks -> Seq(Keys \cup {0, OUT})]
    BY DEF Init
  <1> QED
    BY <1>3, <1>4, <1>5 DEF Init, Types, TypeOK

\* The fields that sleeping and waking change.
SleepTypes ==
    /\ wait_proc \in [{"buffer", "write_q"} -> Tasks \cup {NONE}]
    /\ state \in [Tasks -> {RUNNING, INTERRUPTIBLE}]
    /\ cpu \in Tasks \cup {NONE}
    /\ pc \in [Tasks -> Points]
    /\ tmp \in [Tasks -> Tasks \cup {NONE}]

LEMMA AwakeType ==
    ASSUME SleepTypes, NEW W
    PROVE  Awake(W) \in [Tasks -> {RUNNING, INTERRUPTIBLE}]
  BY DEF SleepTypes, Awake

LEMMA SleepOnTypes ==
    ASSUME SleepTypes, NEW t \in Tasks, NEW q \in {"buffer", "write_q"}, NEW at \in Points,
           interruptible_sleep_on(t, q, at)
    PROVE  SleepTypes'
  BY DEF SleepTypes, interruptible_sleep_on, sleep, Points, Stops

LEMMA ResumeTypes ==
    ASSUME SleepTypes, NEW t \in Tasks, NEW q \in {"buffer", "write_q"}, NEW next \in Points,
           Resume(t, q, next)
    PROVE  SleepTypes'
  <1>1. CASE wait_proc[q] \notin {NONE, t}
    <2>1. PICK A : A = Awake({wait_proc[q]})
      OBVIOUS
    <2>2. A \in [Tasks -> {RUNNING, INTERRUPTIBLE}]
      BY <2>1, AwakeType
    <2>3. state' = [A EXCEPT ![t] = INTERRUPTIBLE] /\ UNCHANGED <<wait_proc, tmp, pc, cpu>>
      BY <1>1, <2>1 DEF Resume
    <2> QED
      BY <2>2, <2>3 DEF SleepTypes
  <1>2. CASE wait_proc[q] \in {NONE, t}
    <2>1. state' \in [Tasks -> {RUNNING, INTERRUPTIBLE}]
      BY <1>2, AwakeType DEF Resume
    <2> QED
      BY <1>2, <2>1 DEF Resume, SleepTypes
  <1> QED
    BY <1>1, <1>2

LEMMA GoesTypes ==
    ASSUME SleepTypes, NEW t \in Tasks, NEW at \in Points, Goes(t, at)
    PROVE  SleepTypes'
  BY DEF SleepTypes, Goes, sleep

\* The other fields.
DataTypes ==
    /\ buffer \in QueueOf(Chars) /\ write_q \in QueueOf(Chars)
    /\ signal \subseteq Tasks
    /\ nr \in [Tasks -> Nat]
    /\ tmpbuf \in [Tasks -> Seq(Chars)]
    /\ orderly \in BOOLEAN
    /\ got \in [Tasks -> Seq(Chars)]

Kinds == SleepTypes /\ DataTypes

\* Whoever puts back has something to put back.
Holding == \A t \in Tasks : pc[t] \in {"front", "fill"} => tmpbuf[t] # <<>>

LEMMA TypesParts == Types <=> SleepTypes /\ DataTypes /\ Holding
  BY QueueTypes DEF Types, TypeOK, SleepTypes, DataTypes, Chars, Holding

LEMMA TypesNext == Types' <=> Kinds' /\ Holding'
  BY QueueTypes DEF Types, TypeOK, Kinds, SleepTypes, DataTypes, Chars, Queue, QueueOf, Holding

LEMMA KeyTypes ==
    ASSUME Types, NEW ch \in Keys, keyboard_interrupt(ch)
    PROVE  Kinds'
  <1>1. SleepTypes /\ DataTypes
    BY TypesParts
  <1>2. buffer \in QueueOf(Chars) /\ write_q \in QueueOf(Chars) /\ ch \in Chars
    BY <1>1 DEF DataTypes, Chars
  <1>3. Echo(write_q) \in QueueOf(Chars) /\ tty_push_q(buffer, ch) \in QueueOf(Chars)
    BY <1>2, EchoContent, PushContent
  <1>4. CASE Character(ch)
    BY <1>1, <1>3, <1>4 DEF Character, Kinds, Key, SleepTypes, DataTypes
  <1>5. CASE Enter(ch)
    <2>1. state' \in [Tasks -> {RUNNING, INTERRUPTIBLE}]
      BY <1>1, <1>5, AwakeType DEF Enter
    <2>2. SleepTypes'
      BY <1>1, <1>5, <2>1 DEF Enter, Key, SleepTypes
    <2>3. DataTypes'
      BY <1>1, <1>3, <1>5 DEF Enter, Key, DataTypes
    <2> QED
      BY <2>2, <2>3 DEF Kinds
  <1>6. CASE Backspace(ch)
    <2>1. buffer' \in QueueOf(Chars) /\ write_q' \in QueueOf(Chars)
      <3>1. CASE CanErase
        <4>1. ~ tty_isempty_q(buffer) /\ buffer' = Erased(buffer) /\ write_q' = Echo(write_q)
          BY <1>6, <3>1 DEF Backspace, CanErase, Erased
        <4> QED
          BY <4>1, <1>2, <1>3, ErasedContent
      <3>2. CASE ~ CanErase
        BY <1>2, <1>6, <3>2 DEF Backspace
      <3> QED
        BY <3>1, <3>2
    <2>2. SleepTypes' /\ DataTypes'
      BY <1>1, <1>6, <2>1 DEF Backspace, Key, SleepTypes, DataTypes
    <2> QED
      BY <2>2 DEF Kinds
  <1> QED
    BY <1>4, <1>5, <1>6 DEF keyboard_interrupt

LEMMA TakeTypes ==
    ASSUME Types, NEW t \in Tasks, Take(t)
    PROVE  Kinds'
  <1>1. SleepTypes /\ DataTypes
    BY TypesParts
  <1>2. Drop(buffer) \in QueueOf(Chars) /\ tty_queue_head(buffer) \in Chars
    BY <1>1, DropContent DEF DataTypes, hist
  <1>3. PICK ch \in Chars : ch = tty_queue_head(buffer)
    BY <1>2
  <1>4. {"pop", "unread", "return"} \subseteq Points
    BY DEF Points
  <1>5. CASE nr[t] <= 0
    <2>1. /\ tmpbuf' = [tmpbuf EXCEPT ![t] = Append(@, ch)]
          /\ Goes(t, IF ch = NL THEN "unread" ELSE "pop")
          /\ UNCHANGED <<nr, got, write_q, signal, orderly>> /\ buffer' = Drop(buffer)
      BY <1>3, <1>5 DEF Take
    <2>2. tmpbuf' \in [Tasks -> Seq(Chars)]
      BY <1>1, <2>1 DEF DataTypes, hist
    <2>3. DataTypes'
      BY <1>1, <1>2, <2>1, <2>2 DEF DataTypes, hist
    <2>4. SleepTypes'
      BY <1>1, <1>4, <2>1, GoesTypes
    <2> QED
      BY <2>3, <2>4 DEF Kinds
  <1>6. CASE ~ (nr[t] <= 0)
    <2>1. /\ nr' = [nr EXCEPT ![t] = @ - 1]
          /\ Goes(t, IF ch = NL /\ nr[t] = 1 THEN "return" ELSE "pop")
          /\ UNCHANGED <<tmpbuf, write_q, signal, orderly>> /\ buffer' = Drop(buffer)
          /\ got' = [got EXCEPT ![t] = Append(@, ch)]
      BY <1>3, <1>6 DEF Take
    <2>2. nr' \in [Tasks -> Nat] /\ got' \in [Tasks -> Seq(Chars)]
      BY <1>1, <1>6, <2>1 DEF DataTypes
    <2>3. DataTypes'
      BY <1>1, <1>2, <2>1, <2>2 DEF DataTypes, hist
    <2>4. SleepTypes'
      BY <1>1, <1>4, <2>1, GoesTypes
    <2> QED
      BY <2>3, <2>4 DEF Kinds
  <1> QED
    BY <1>5, <1>6

LEMMA UnreadTypes ==
    ASSUME Types, NEW t \in Tasks, Unread(t) \/ StepsBack(t) \/ Fills(t) \/ Overrun(t),
           Fills(t) => tmpbuf[t] # <<>>
    PROVE  Kinds'
  <1>1. SleepTypes /\ DataTypes
    BY TypesParts
  <1>2. SleepTypes'
    BY <1>1, GoesTypes DEF Unread, StepsBack, Fills, Overrun, Points, Stops
  <1>3. buffer \in QueueOf(Chars) /\ Drop(buffer) \in QueueOf(Chars)
        /\ StepBack(buffer) \in QueueOf(Chars)
    BY <1>1, DropContent, StepBackContent DEF DataTypes
  <1>4. DataTypes'
    <2>1. CASE Overrun(t)
      BY <1>1, <1>3, <2>1 DEF Overrun, DataTypes
    <2>2. CASE StepsBack(t)
      BY <1>1, <1>3, <2>2 DEF StepsBack, DataTypes
    <2>3. CASE (Unread(t) \/ Fills(t)) /\ tmpbuf[t] # <<>>
      <3>1. PICK s \in Seq(Chars) : s = tmpbuf[t] /\ s # <<>>
        BY <1>1, <2>3 DEF DataTypes
      <3>2. Last(s) \in Chars /\ Front(s) \in Seq(Chars)
        BY <3>1, LastFront
      <3>3. FillHead(buffer, Last(s)) \in QueueOf(Chars)
        BY <1>3, <3>2, FillContent
      <3>4. /\ buffer' \in {buffer, FillHead(buffer, Last(s))}
            /\ tmpbuf' \in {tmpbuf, [tmpbuf EXCEPT ![t] = Front(s)]}
            /\ UNCHANGED <<write_q, signal, nr, orderly, got>>
        BY <2>3, <3>1 DEF Unread, Fills, queues, hist
      <3> QED
        BY <1>1, <1>3, <3>2, <3>3, <3>4 DEF DataTypes
    <2>4. CASE Unread(t) /\ tmpbuf[t] = <<>>
      BY <1>1, <2>4 DEF Unread, DataTypes, queues
    <2> QED
      BY <2>1, <2>2, <2>3, <2>4
  <1> QED
    BY <1>2, <1>4 DEF Kinds

LEMMA TaskTypes ==
    ASSUME Types, NEW t \in Tasks,
           \/ \E n \in Counts : tty_read(t, n) \/ _user_tty_write(t, n)
           \/ InKernel(t) \/ Resumes(t) \/ WakeBySignal(t) \/ SendSignal(t)
    PROVE  Kinds'
  <1>1. SleepTypes /\ DataTypes
    BY TypesParts
  <1> USE DEF Kinds
  <1>2. \A p \in ReaderPoints \cup WriterPoints : p \in Points
    BY DEF ReaderPoints, WriterPoints, Points
  <1>3. CASE \E n \in Counts : tty_read(t, n) \/ _user_tty_write(t, n)
    <2>1. PICK n \in Counts : tty_read(t, n) \/ _user_tty_write(t, n)
      BY <1>3
    <2>2. n \in Nat
      BY TtyAssumption
    <2>3. DataTypes'
      BY <1>1, <2>1, <2>2 DEF DataTypes, hist, tty_read, _user_tty_write, queues
    <2>4. SleepTypes'
      BY <1>1, <2>1 DEF SleepTypes, tty_read, _user_tty_write, sleep, Points
    <2> QED
      BY <2>3, <2>4
  <1>4. CASE sleep_if_empty(t)
    <2>1. SleepTypes'
      BY <1>1, <1>4, SleepOnTypes, GoesTypes DEF sleep_if_empty, Points
    <2>2. DataTypes'
      BY <1>1, <1>4 DEF sleep_if_empty, DataTypes, hist, queues
    <2> QED
      BY <2>1, <2>2
  <1>5. CASE Push(t)
    <2>1. SleepTypes'
      BY <1>1, <1>5, GoesTypes DEF Push, Points
    <2>2. write_q' \in QueueOf(Chars) /\ nr' \in [Tasks -> Nat]
      <3>1. CASE nr[t] = 0
        BY <1>1, <1>5, <3>1 DEF Push, DataTypes, hist
      <3>2. CASE nr[t] # 0
        <4>1. nr' = [nr EXCEPT ![t] = @ - 1] /\ write_q' \in {write_q, Store(write_q, OUT)}
              /\ nr[t] > 0
          BY <1>5, <3>2 DEF Push
        <4> QED
          BY <1>1, <4>1, StoreType DEF DataTypes, hist
      <3> QED
        BY <3>1, <3>2
    <2>3. DataTypes'
      BY <1>1, <1>5, <2>2 DEF Push, DataTypes, hist
    <2> QED
      BY <2>1, <2>3
  <1>6. CASE Pushed(t)
    <2>1. SleepTypes'
      BY <1>1, <1>6, GoesTypes DEF Pushed, Points
    <2>2. DataTypes'
      BY <1>1, <1>6, StoreType DEF Pushed, DataTypes, hist
    <2> QED
      BY <2>1, <2>2
  <1>7. CASE Drain(t) \/ Load(t)
    <2>1. SleepTypes'
      BY <1>1, <1>7, GoesTypes DEF Drain, Load, Points
    <2>2. DataTypes'
      BY <1>1, <1>7 DEF Drain, Load, DataTypes, hist, queues
    <2> QED
      BY <2>1, <2>2
  <1>8. CASE WriterPops(t)
    <2>1. SleepTypes'
      BY <1>1, <1>8, SleepOnTypes, GoesTypes DEF WriterPops, Points
    <2>2. DataTypes'
      BY <1>1, <1>8 DEF WriterPops, DataTypes, hist, queues
    <2> QED
      BY <2>1, <2>2
  <1>9. CASE WriterDrops(t)
    <2>1. SleepTypes'
      BY <1>1, <1>9, GoesTypes DEF WriterDrops, Points
    <2>2. DataTypes'
      BY <1>1, <1>9, DropContent DEF WriterDrops, DataTypes, hist
    <2> QED
      BY <2>1, <2>2
  <1>10. CASE Return(t)
    <2>1. SleepTypes'
      BY <1>1, <1>10 DEF Return, SleepTypes, sleep, Points
    <2>2. DataTypes'
      BY <1>1, <1>10 DEF Return, DataTypes, hist, queues
    <2> QED
      BY <2>1, <2>2
  <1>11. CASE Resumes(t)
    <2>1. SleepTypes'
      BY <1>1, <1>11, ResumeTypes DEF Resumes, ReaderResumes, WriterResumes, Points
    <2>2. DataTypes'
      BY <1>1, <1>11 DEF Resumes, ReaderResumes, WriterResumes, DataTypes, hist, queues
    <2> QED
      BY <2>1, <2>2
  <1>12. CASE WakeBySignal(t)
    <2>1. state' \in [Tasks -> {RUNNING, INTERRUPTIBLE}]
      BY <1>1, <1>12, AwakeType DEF WakeBySignal
    <2> QED
      BY <1>1, <1>12, <2>1 DEF WakeBySignal, SleepTypes, DataTypes, hist, queues
  <1>13. CASE SendSignal(t)
    BY <1>1, <1>13, TtyAssumption DEF SendSignal, SleepTypes, DataTypes, queues, sleep
  <1>14. CASE Unread(t) \/ StepsBack(t) \/ Fills(t) \/ Overrun(t)
    <2>1. Fills(t) => tmpbuf[t] # <<>>
      BY TypesParts DEF Holding, Fills
    <2> QED
      BY <1>14, <2>1, UnreadTypes
  <1> QED
    BY <1>3, <1>4, <1>5, <1>6, <1>7, <1>8, <1>9, <1>10, <1>11, <1>12, <1>13,
       TakeTypes, <1>14 DEF InKernel

LEMMA HoldingMoves ==
    ASSUME Types, NEW t \in Tasks, NEW at, pc' = [pc EXCEPT ![t] = at],
           UNCHANGED tmpbuf \/ \E b : tmpbuf' = [tmpbuf EXCEPT ![t] = b],
           at \in {"front", "fill"} => UNCHANGED tmpbuf /\ tmpbuf[t] # <<>>
    PROVE  Holding'
  <1>1. pc \in [Tasks -> Points] /\ tmpbuf \in [Tasks -> Seq(Chars)] /\ Holding
    BY TypesParts DEF SleepTypes, DataTypes
  <1>2. \A u \in Tasks : pc'[u] = (IF u = t THEN at ELSE pc[u]) /\ (u # t => tmpbuf'[u] = tmpbuf[u])
    BY <1>1
  <1> QED
    BY <1>1, <1>2 DEF Holding

LEMMA HoldingTask ==
    ASSUME Types, NEW t \in Tasks,
           \/ \E n \in Counts : tty_read(t, n) \/ _user_tty_write(t, n)
           \/ InKernel(t) \/ Resumes(t) \/ WakeBySignal(t) \/ SendSignal(t)
    PROVE  Holding'
  <1>1. Holding /\ pc \in [Tasks -> Points]
    BY TypesParts DEF SleepTypes
  <1>2. CASE UNCHANGED <<pc, tmpbuf>>
    BY <1>1, <1>2 DEF Holding
  <1>3. CASE WakeBySignal(t) \/ SendSignal(t)
    BY <1>2, <1>3 DEF WakeBySignal, SendSignal
  <1>4. CASE \/ \E n \in Counts : tty_read(t, n) \/ _user_tty_write(t, n)
             \/ Push(t) \/ Pushed(t) \/ Drain(t) \/ Load(t) \/ WriterDrops(t) \/ Return(t)
    <2>1. PICK at \in {"pop", "push", "drain", "pushed", "return", "wpop", "drop", "user"} :
              pc' = [pc EXCEPT ![t] = at] /\ UNCHANGED tmpbuf
      BY <1>4 DEF tty_read, _user_tty_write, Push, Pushed, Drain, Load, WriterDrops, Return, Goes
    <2> QED
      BY <2>1, HoldingMoves
  <1>5. CASE sleep_if_empty(t) \/ WriterPops(t)
    <2>1. PICK at \in {"panic", "asleep", "take", "wasleep", "load"} :
              pc' = [pc EXCEPT ![t] = at] /\ UNCHANGED tmpbuf
      BY <1>5 DEF sleep_if_empty, WriterPops, interruptible_sleep_on, Goes
    <2> QED
      BY <2>1, HoldingMoves
  <1>6. CASE Resumes(t)
    <2>1. CASE pc' = pc
      BY <1>2, <1>6, <2>1 DEF Resumes, ReaderResumes, WriterResumes
    <2>2. CASE pc' # pc
      <3>1. PICK at \in {"pop", "wpop"} : pc' = [pc EXCEPT ![t] = at] /\ UNCHANGED tmpbuf
        BY <1>6, <2>2 DEF Resumes, ReaderResumes, WriterResumes, Resume
      <3> QED
        BY <3>1, HoldingMoves
    <2> QED
      BY <2>1, <2>2
  <1>7. CASE Take(t)
    <2>1. PICK at \in {"pop", "unread", "return"} :
              /\ pc' = [pc EXCEPT ![t] = at]
              /\ UNCHANGED tmpbuf \/ \E b : tmpbuf' = [tmpbuf EXCEPT ![t] = b]
      BY <1>7 DEF Take, Goes
    <2> QED
      BY <2>1, HoldingMoves
  <1>8. CASE Unread(t)
    <2>1. CASE tmpbuf[t] # <<>> /\ ~ tty_isfull_q(buffer)
      BY <1>8, <2>1, HoldingMoves DEF Unread, Goes
    <2>2. CASE ~ (tmpbuf[t] # <<>> /\ ~ tty_isfull_q(buffer))
      <3>1. PICK at \in {"unread", "return"} :
                /\ pc' = [pc EXCEPT ![t] = at]
                /\ UNCHANGED tmpbuf \/ \E b : tmpbuf' = [tmpbuf EXCEPT ![t] = b]
        BY <1>8, <2>2 DEF Unread, Goes
      <3> QED
        BY <3>1, HoldingMoves
    <2> QED
      BY <2>1, <2>2
  <1>9. CASE StepsBack(t)
    <2>1. tmpbuf[t] # <<>>
      BY <1>1, <1>9 DEF StepsBack, Holding
    <2> QED
      BY <1>9, <2>1, HoldingMoves DEF StepsBack, Goes
  <1>10. CASE Fills(t) \/ Overrun(t)
    <2>1. PICK at \in {"unread", "wild"} :
              /\ pc' = [pc EXCEPT ![t] = at]
              /\ UNCHANGED tmpbuf \/ \E b : tmpbuf' = [tmpbuf EXCEPT ![t] = b]
      BY <1>10 DEF Fills, Overrun, Goes
    <2> QED
      BY <2>1, HoldingMoves
  <1> QED
    BY <1>3, <1>4, <1>5, <1>6, <1>7, <1>8, <1>9, <1>10 DEF InKernel

LEMMA HoldingStep ==
    ASSUME Types, Next \/ UNCHANGED core
    PROVE  Holding'
  <1>1. Holding
    BY TypesParts
  <1>2. ASSUME NEW ch \in Keys, keyboard_interrupt(ch)
        PROVE  Holding'
    BY <1>1, <1>2 DEF keyboard_interrupt, Character, Enter, Backspace, Key, Holding
  <1>3. CASE UNCHANGED core
    BY <1>1, <1>3 DEF core, Holding
  <1> QED
    BY <1>2, <1>3, HoldingTask DEF Next, TaskStep

LEMMA TypesStep ==
    ASSUME Types, Next \/ UNCHANGED core
    PROVE  Types'
  <1>1. CASE Next
    BY <1>1, KeyTypes, TaskTypes, HoldingStep, TypesNext DEF Next, TaskStep
  <1>2. CASE UNCHANGED core
    BY <1>2 DEF core, queues, sleep, hist, Types, TypeOK
  <1> QED
    BY <1>1, <1>2

\* Types, for any number of readers and writers: the indices of the queues stay
\* inside them and no count goes below zero, in whatever order the keyboard
\* interrupt, the readers and the writers come.
THEOREM TtyTypeCorrect == Spec => []TypeOK
  <1>1. Init => Types
    BY TypesInit
  <1>2. Types /\ [Next]_vars => Types'
    <2>1. UNCHANGED vars => UNCHANGED core
      BY DEF vars, core
    <2> QED
      BY <2>1, TypesStep
  <1>3. Types => TypeOK
    BY DEF Types
  <1> QED
    BY <1>1, <1>2, <1>3, PTL DEF Spec

-----------------------------------------------------------------------------
(* The keyboard's flags.                                                   *)

Flags == lctrl \in BOOLEAN /\ lalt \in BOOLEAN /\ lshift \in BOOLEAN

\* No flag is set without a key that sets it held down, whatever the order in
\* which the modifier keys, of which two pairs share a flag, go down and up.
THEOREM ModifiersRelease == KeyboardSpec => []NoStuckModifier
  <1> DEFINE Inv == Flags /\ NoStuckModifier
  <1>1. KeyboardInit => Inv
    BY DEF KeyboardInit, Flags, NoStuckModifier, SHIFTS, CTRLS, ALTS
  <1>2. Inv /\ [KeyboardNext]_<<vars, kvars>> => Inv'
    <2> SUFFICES ASSUME Flags, NoStuckModifier, [KeyboardNext]_<<vars, kvars>>
                 PROVE  Inv'
      OBVIOUS
    <2>1. CASE UNCHANGED kvars
      BY <2>1 DEF kvars, flags, Flags, NoStuckModifier
    <2>2. ASSUME NEW k \in ModKeys, PressModifier(k)
          PROVE  Inv'
      <3>1. /\ held' = held \cup {k}
            /\ lctrl' = (lctrl \/ k \in CTRLS)
            /\ lalt' = (lalt \/ k \in ALTS)
            /\ lshift' = (lshift \/ k \in SHIFTS)
        BY <2>2 DEF PressModifier
      <3>2. Flags'
        BY <3>1 DEF Flags
      <3>3. NoStuckModifier'
        BY <3>1, Zenon DEF NoStuckModifier, Flags
      <3> QED
        BY <3>2, <3>3
    <2>3. ASSUME NEW k \in ModKeys, ReleaseModifier(k)
          PROVE  Inv'
      <3>1. /\ held' = held \ {k} /\ k \in held
            /\ lctrl' = (lctrl /\ k \notin CTRLS)
            /\ lalt' = (lalt /\ k \notin ALTS)
            /\ lshift' = (lshift /\ k \notin SHIFTS)
        BY <2>3 DEF ReleaseModifier
      <3>2. Flags'
        BY <3>1 DEF Flags
      <3>3. (lctrl => held \cap CTRLS # {})'
        BY <3>1 DEF NoStuckModifier, Flags
      <3>4. (lalt => held \cap ALTS # {})'
        BY <3>1 DEF NoStuckModifier, Flags
      <3>5. (lshift <=> held \cap SHIFTS # {})'
        BY <3>1 DEF NoStuckModifier, Flags, SHIFTS
      <3> QED
        BY <3>2, <3>3, <3>4, <3>5 DEF NoStuckModifier
    <2> QED
      BY <2>1, <2>2, <2>3 DEF KeyboardNext, do_keyboard_interrupt
  <1>3. Inv => NoStuckModifier
    OBVIOUS
  <1> QED
    BY <1>1, <1>2, <1>3, PTL DEF KeyboardSpec

-----------------------------------------------------------------------------
(* Roles, where no task both reads and writes.                             *)

LEMMA RolesInit ==
    ASSUME Init
    PROVE  Roles
  BY DEF Init, Roles, Tasks, ReaderPoints, WriterPoints, RUNNING, INTERRUPTIBLE

\* A task that is not asleep goes on to a point of its own code.
LEMMA RolesMove ==
    ASSUME Types, Roles, NEW t \in Tasks, NEW at,
           t \in Readers => at \in ReaderPoints,
           t \in Writers => at \in WriterPoints,
           pc[t] \notin {"asleep", "wasleep"},
           pc' = [pc EXCEPT ![t] = at], UNCHANGED sleep
    PROVE  Roles'
  <1>1. pc \in [Tasks -> Points]
    BY DEF Types, TypeOK
  <1>2. UNCHANGED <<wait_proc, state, tmp>>
    BY DEF sleep
  <1>3. \A u \in Tasks : pc'[u] = IF u = t THEN at ELSE pc[u]
    BY <1>1
  <1>4. state[t] # INTERRUPTIBLE
    BY DEF Roles
  <1>5. Readers \subseteq Tasks /\ Writers \subseteq Tasks
    BY DEF Tasks
  <1> QED
    BY <1>2, <1>3, <1>4, <1>5 DEF Roles

LEMMA RolesWake ==
    ASSUME Types, Roles, NEW W, state' = Awake(W), UNCHANGED <<tmp, pc>>,
           UNCHANGED wait_proc \/ wait_proc' = [wait_proc EXCEPT !.buffer = NONE]
    PROVE  Roles'
  <1>1. \A u \in Tasks : state'[u] = INTERRUPTIBLE => state[u] = INTERRUPTIBLE
    BY DEF Awake, RUNNING, INTERRUPTIBLE
  <1>2. /\ wait_proc'.buffer \in {NONE, wait_proc.buffer}
        /\ wait_proc'.write_q = wait_proc.write_q
    BY DEF Types, TypeOK
  <1> QED
    BY <1>1, <1>2 DEF Roles

LEMMA RolesSleep ==
    ASSUME Types, Roles, Readers \cap Writers = {}, NEW t \in Tasks,
           pc[t] \notin {"asleep", "wasleep"},
           \/ t \in Readers /\ interruptible_sleep_on(t, "buffer", "asleep")
           \/ t \in Writers /\ interruptible_sleep_on(t, "write_q", "wasleep")
    PROVE  Roles'
  <1>1. /\ pc \in [Tasks -> Points] /\ tmp \in [Tasks -> Tasks \cup {NONE}]
        /\ state \in [Tasks -> {RUNNING, INTERRUPTIBLE}]
        /\ wait_proc \in [{"buffer", "write_q"} -> Tasks \cup {NONE}]
    BY DEF Types, TypeOK
  <1>2. Readers \subseteq Tasks /\ Writers \subseteq Tasks
    BY DEF Tasks
  <1>3. CASE t = INIT_TASK
    <2>1. pc' = [pc EXCEPT ![t] = "panic"] /\ UNCHANGED sleep
      BY <1>3 DEF interruptible_sleep_on
    <2>2. "panic" \in ReaderPoints /\ "panic" \in WriterPoints
      BY DEF ReaderPoints, WriterPoints, Stops
    <2> QED
      BY <2>1, <2>2, RolesMove
  <1>4. CASE t # INIT_TASK /\ t \in Readers /\ interruptible_sleep_on(t, "buffer", "asleep")
    BY <1>1, <1>2, <1>4 DEF Roles, interruptible_sleep_on, ReaderPoints
  <1>5. CASE t # INIT_TASK /\ t \in Writers /\ interruptible_sleep_on(t, "write_q", "wasleep")
    BY <1>1, <1>2, <1>5 DEF Roles, interruptible_sleep_on, WriterPoints
  <1> QED
    BY <1>3, <1>4, <1>5

LEMMA RolesResume ==
    ASSUME Types, Roles, Readers \cap Writers = {}, NEW t \in Tasks,
           \/ t \in Readers /\ pc[t] = "asleep" /\ Resume(t, "buffer", "pop")
           \/ t \in Writers /\ pc[t] = "wasleep" /\ Resume(t, "write_q", "wpop")
    PROVE  Roles'
  <1>1. /\ pc \in [Tasks -> Points] /\ tmp \in [Tasks -> Tasks \cup {NONE}]
        /\ state \in [Tasks -> {RUNNING, INTERRUPTIBLE}]
        /\ wait_proc \in [{"buffer", "write_q"} -> Tasks \cup {NONE}]
    BY DEF Types, TypeOK
  <1>2. Readers \subseteq Tasks /\ Writers \subseteq Tasks
    BY DEF Tasks
  <1>3. PICK q \in {"buffer", "write_q"}, next \in {"pop", "wpop"} :
            /\ Resume(t, q, next)
            /\ \/ t \in Readers /\ q = "buffer" /\ next = "pop"
               \/ t \in Writers /\ q = "write_q" /\ next = "wpop"
    OBVIOUS
  <1>4. CASE wait_proc[q] \notin {NONE, t}
    <2>1. /\ state' = [Awake({wait_proc[q]}) EXCEPT ![t] = INTERRUPTIBLE]
          /\ UNCHANGED <<wait_proc, tmp, pc>>
      BY <1>3, <1>4 DEF Resume
    <2>2. \A u \in Tasks : state'[u] = INTERRUPTIBLE => u = t \/ state[u] = INTERRUPTIBLE
      BY <2>1 DEF Awake, RUNNING, INTERRUPTIBLE
    <2> QED
      BY <2>1, <2>2 DEF Roles
  <1>5. CASE wait_proc[q] \in {NONE, t}
    <2>1. /\ wait_proc' = [wait_proc EXCEPT ![q] = tmp[t]]
          /\ state' = Awake({tmp[t]})
          /\ tmp' = [tmp EXCEPT ![t] = NONE]
          /\ pc' = [pc EXCEPT ![t] = next]
          /\ state[t] = RUNNING
      BY <1>3, <1>5 DEF Resume
    <2>2. \A u \in Tasks : state'[u] = INTERRUPTIBLE => state[u] = INTERRUPTIBLE /\ u # t
      BY <2>1 DEF Awake, RUNNING, INTERRUPTIBLE
    <2>3. \A u \in Tasks : /\ pc'[u] = (IF u = t THEN next ELSE pc[u])
                           /\ tmp'[u] = (IF u = t THEN NONE ELSE tmp[u])
      BY <1>1, <2>1
    <2>4. \A x \in {"buffer", "write_q"} :
              wait_proc'[x] = (IF x = q THEN tmp[t] ELSE wait_proc[x])
      BY <1>1, <2>1
    <2>5. \A u \in Readers : pc'[u] \in ReaderPoints /\ tmp'[u] \in Readers \cup {NONE}
      BY <1>2, <1>3, <2>3 DEF Roles, ReaderPoints
    <2>6. \A u \in Writers : pc'[u] \in WriterPoints /\ tmp'[u] \in Writers \cup {NONE}
      BY <1>2, <1>3, <2>3 DEF Roles, WriterPoints
    <2>7. wait_proc'.buffer \in Readers \cup {NONE} /\ wait_proc'.write_q \in Writers \cup {NONE}
      BY <1>3, <2>4 DEF Roles
    <2>8. \A u \in Tasks : state'[u] = INTERRUPTIBLE => pc'[u] \in {"asleep", "wasleep"}
      BY <2>2, <2>3 DEF Roles
    <2> QED
      BY <2>5, <2>6, <2>7, <2>8 DEF Roles
  <1> QED
    BY <1>4, <1>5

\* The steps of the put-back, and the one that leaves tmpbuf.
PutsBack(t) == Unread(t) \/ StepsBack(t) \/ Fills(t) \/ Overrun(t)

\* Who takes a step, as the point it starts from tells.
LEMMA WhoSteps ==
    ASSUME Roles, Readers \cap Writers = {}, NEW t \in Tasks
    PROVE  /\ sleep_if_empty(t) \/ Take(t) \/ PutsBack(t) \/ ReaderResumes(t) => t \in Readers
           /\ Push(t) \/ Pushed(t) \/ Drain(t) \/ WriterPops(t) \/ Load(t) \/ WriterDrops(t)
                 \/ WriterResumes(t) => t \in Writers
  <1>1. t \in Readers \/ t \in Writers
    BY DEF Tasks
  <1>2. CASE t \in Readers
    <2>1. pc[t] \in ReaderPoints
      BY <1>2 DEF Roles
    <2>2. pc[t] \notin {"push", "pushed", "drain", "wpop", "wasleep", "load", "drop"}
      BY <2>1 DEF ReaderPoints, Stops
    <2> QED
      BY <1>2, <2>2 DEF Push, Pushed, Drain, WriterPops, Load, WriterDrops, WriterResumes
  <1>3. CASE t \in Writers
    <2>1. pc[t] \in WriterPoints
      BY <1>3 DEF Roles
    <2>2. pc[t] \notin {"pop", "asleep", "take", "unread", "front", "fill"}
      BY <2>1 DEF WriterPoints, Stops
    <2> QED
      BY <1>3, <2>2 DEF sleep_if_empty, Take, PutsBack, Unread, StepsBack, Fills, Overrun,
                        ReaderResumes
  <1> QED
    BY <1>1, <1>2, <1>3

LEMMA RolesTask ==
    ASSUME Types, Roles, Readers \cap Writers = {}, NEW t \in Tasks,
           \/ \E n \in Counts : tty_read(t, n) \/ _user_tty_write(t, n)
           \/ InKernel(t) \/ Resumes(t) \/ WakeBySignal(t) \/ SendSignal(t)
    PROVE  Roles'
  <1>1. t \in Readers => t \notin Writers
    OBVIOUS
  <1>2. CASE \E n \in Counts : tty_read(t, n) \/ _user_tty_write(t, n)
    <2>1. PICK at \in {"pop", "push"} :
              /\ (t \in Readers /\ at = "pop") \/ (t \in Writers /\ at = "push")
              /\ pc[t] = "user" /\ pc' = [pc EXCEPT ![t] = at] /\ UNCHANGED sleep
      BY <1>2 DEF tty_read, _user_tty_write
    <2>2. /\ t \in Readers => at \in ReaderPoints
          /\ t \in Writers => at \in WriterPoints
      BY <1>1, <2>1 DEF ReaderPoints, WriterPoints
    <2> QED
      BY <2>1, <2>2, RolesMove
  <1>3. CASE sleep_if_empty(t) \/ Take(t) \/ PutsBack(t)
    <2>1. t \in Readers /\ t \notin Writers
      BY <1>1, <1>3, WhoSteps
    <2>2. pc[t] \notin {"asleep", "wasleep"}
      BY <1>3 DEF sleep_if_empty, Take, PutsBack, Unread, StepsBack, Fills, Overrun
    <2>3. CASE interruptible_sleep_on(t, "buffer", "asleep")
      BY <2>1, <2>3, <2>2, RolesSleep
    <2>4. CASE ~ interruptible_sleep_on(t, "buffer", "asleep")
      <3>1. PICK at \in ReaderPoints : Goes(t, at)
        BY <1>3, <2>4 DEF sleep_if_empty, Take, PutsBack, Unread, StepsBack, Fills, Overrun,
                          ReaderPoints, Stops
      <3> QED
        BY <2>1, <2>2, <3>1, RolesMove DEF Goes
    <2> QED
      BY <2>3, <2>4
  <1>4. CASE Push(t) \/ Pushed(t) \/ Drain(t) \/ WriterPops(t) \/ Load(t) \/ WriterDrops(t)
    <2>1. t \in Writers /\ t \notin Readers
      BY <1>1, <1>4, WhoSteps
    <2>2. pc[t] \notin {"asleep", "wasleep"}
      BY <1>4 DEF Push, Pushed, Drain, WriterPops, Load, WriterDrops
    <2>3. CASE interruptible_sleep_on(t, "write_q", "wasleep")
      BY <2>1, <2>3, <2>2, RolesSleep
    <2>4. CASE ~ interruptible_sleep_on(t, "write_q", "wasleep")
      <3>1. PICK at \in WriterPoints : Goes(t, at)
        BY <1>4, <2>4 DEF Push, Pushed, Drain, WriterPops, Load, WriterDrops, WriterPoints
      <3> QED
        BY <2>1, <2>2, <3>1, RolesMove DEF Goes
    <2> QED
      BY <2>3, <2>4
  <1>5. CASE Return(t)
    <2>1. "user" \in ReaderPoints /\ "user" \in WriterPoints
      BY DEF ReaderPoints, WriterPoints
    <2>2. pc[t] \notin {"asleep", "wasleep"} /\ pc' = [pc EXCEPT ![t] = "user"] /\ UNCHANGED sleep
      BY <1>5 DEF Return
    <2> QED
      BY <2>1, <2>2, RolesMove
  <1>6. CASE Resumes(t)
    <2>1. \/ t \in Readers /\ pc[t] = "asleep" /\ Resume(t, "buffer", "pop")
          \/ t \in Writers /\ pc[t] = "wasleep" /\ Resume(t, "write_q", "wpop")
      BY <1>6, WhoSteps DEF Resumes, ReaderResumes, WriterResumes
    <2> QED
      BY <2>1, RolesResume
  <1>7. CASE WakeBySignal(t)
    BY <1>7, RolesWake DEF WakeBySignal
  <1>8. CASE SendSignal(t)
    BY <1>8 DEF SendSignal, sleep, Roles
  <1> QED
    BY <1>2, <1>3, <1>4, <1>5, <1>6, <1>7, <1>8 DEF InKernel, PutsBack

LEMMA RolesStep ==
    ASSUME Types, Roles, Readers \cap Writers = {}, Next \/ UNCHANGED core
    PROVE  Roles'
  <1>1. ASSUME NEW ch \in Keys, keyboard_interrupt(ch)
        PROVE  Roles'
    <2>1. CASE Character(ch) \/ Backspace(ch)
      BY <2>1 DEF Character, Backspace, Key, Roles
    <2>2. CASE Enter(ch)
      BY <2>2, RolesWake DEF Enter, Key
    <2> QED
      BY <1>1, <2>1, <2>2 DEF keyboard_interrupt
  <1>2. CASE UNCHANGED core
    BY <1>2 DEF core, sleep, Roles
  <1> QED
    BY <1>1, <1>2, RolesTask DEF Next, TaskStep

-----------------------------------------------------------------------------
(* One reader.                                                             *)

\* A step of another task leaves alone what concerns task r.
Other(r) ==
    /\ UNCHANGED <<buffer, got, tmpbuf, accepted, orderly>>
    /\ pc'[r] = pc[r] /\ nr'[r] = nr[r] /\ tmp'[r] = tmp[r]
    /\ wait_proc'.buffer = wait_proc.buffer
    /\ state'[r] \in {state[r], RUNNING}
    /\ r \in signal' => r \in signal

LEMMA WriterStep ==
    ASSUME Types, Roles, Readers \cap Writers = {}, NEW r \in Readers, NEW t \in Writers,
           \/ \E n \in Counts : tty_read(t, n) \/ _user_tty_write(t, n)
           \/ InKernel(t) \/ Resumes(t) \/ WakeBySignal(t) \/ SendSignal(t)
    PROVE  Other(r)
  <1>1. r \in Tasks /\ t \in Tasks /\ r # t /\ t \notin Readers
    BY DEF Tasks
  <1>2. /\ pc \in [Tasks -> Points] /\ tmp \in [Tasks -> Tasks \cup {NONE}]
        /\ state \in [Tasks -> {RUNNING, INTERRUPTIBLE}]
        /\ wait_proc \in [{"buffer", "write_q"} -> Tasks \cup {NONE}]
        /\ nr \in [Tasks -> Nat]
    BY DEF Types, TypeOK
  <1>3. \A W : Awake(W)[r] \in {state[r], RUNNING}
    BY <1>1 DEF Awake
  <1>4. ~ (sleep_if_empty(t) \/ Take(t) \/ PutsBack(t) \/ ReaderResumes(t))
    BY <1>1, WhoSteps
  <1>5. CASE \E n \in Counts : tty_read(t, n) \/ _user_tty_write(t, n)
    BY <1>1, <1>2, <1>5 DEF tty_read, _user_tty_write, Other, queues, sleep, hist
  <1>6. CASE Push(t)
    BY <1>1, <1>2, <1>6 DEF Push, Goes, Other, sleep, hist
  <1>7. CASE Pushed(t) \/ WriterDrops(t)
    BY <1>1, <1>2, <1>7 DEF Pushed, WriterDrops, Goes, Other, sleep, hist
  <1>8. CASE Drain(t) \/ Load(t)
    BY <1>1, <1>2, <1>8 DEF Drain, Load, Goes, Other, queues, sleep, hist
  <1>9. CASE WriterPops(t)
    BY <1>1, <1>2, <1>9
       DEF WriterPops, interruptible_sleep_on, Goes, Other, queues, sleep, hist
  <1>10. CASE Return(t)
    BY <1>1, <1>2, <1>10 DEF Return, Other, queues, sleep, hist
  <1>11. CASE WriterResumes(t)
    <2>1. CASE wait_proc["write_q"] \notin {NONE, t}
      <3>1. PICK A : A = Awake({wait_proc["write_q"]})
        OBVIOUS
      <3>2. /\ state' = [A EXCEPT ![t] = INTERRUPTIBLE]
            /\ UNCHANGED <<wait_proc, tmp, pc, buffer, signal, nr, tmpbuf, got, accepted, orderly>>
        BY <1>11, <2>1, <3>1 DEF WriterResumes, Resume, queues, hist
      <3>3. A[r] \in {state[r], RUNNING} /\ state'[r] = A[r]
        <4>1. A \in [Tasks -> {RUNNING, INTERRUPTIBLE}]
          BY <3>1, <1>2 DEF Awake
        <4> QED
          BY <4>1, <1>1, <1>3, <3>1, <3>2
      <3> QED
        BY <3>2, <3>3 DEF Other
    <2>2. CASE wait_proc["write_q"] \in {NONE, t}
      BY <1>1, <1>2, <1>3, <1>11, <2>2 DEF WriterResumes, Resume, Other, queues, hist
    <2> QED
      BY <2>1, <2>2
  <1>12. CASE WakeBySignal(t)
    BY <1>3, <1>12 DEF WakeBySignal, Other, queues, hist
  <1>13. CASE SendSignal(t)
    <2>1. orderly' = (orderly /\ t \notin Readers) /\ signal' = signal \cup {t}
      BY <1>13 DEF SendSignal
    <2>2. orderly' = orderly
      BY <1>1, <2>1 DEF Types
    <2> QED
      BY <1>1, <1>13, <2>1, <2>2 DEF SendSignal, Other, queues, sleep
  <1> QED
    BY <1>4, <1>5, <1>6, <1>7, <1>8, <1>9, <1>10, <1>11, <1>12, <1>13
       DEF InKernel, PutsBack, Resumes

\* Whether a line lies in a queue.
LineIn(q) == \E i \in 1..Length(q) : Content(q)[i] = NL

LEMMA LineFacts ==
    ASSUME NEW q \in QueueOf(Chars), ~ LineIn(q)
    PROVE  /\ \A ch \in Chars : ch # NL => ~ LineIn(tty_push_q(q, ch))
           /\ ~ tty_isempty_q(q) => ~ LineIn(Erased(q))
  <1>1. PICK c \in Seq(Chars) : c = Content(q) /\ Len(c) = Length(q)
    BY ContentFacts
  <1>2. \A i \in 1..Len(c) : c[i] # NL
    BY <1>1 DEF LineIn
  <1>3. ASSUME NEW ch \in Chars, ch # NL
        PROVE  ~ LineIn(tty_push_q(q, ch))
    <2>1. CASE tty_isfull_q(q)
      BY <2>1, PushContent
    <2>2. CASE ~ tty_isfull_q(q)
      <3>1. PICK p \in QueueOf(Chars) : p = tty_push_q(q, ch) /\ Content(p) = Append(c, ch)
        BY <1>1, <2>2, PushContent
      <3>2. PICK d : d = Append(c, ch)
        OBVIOUS
      <3>3. Len(d) = Len(c) + 1 /\ d[Len(c) + 1] = ch /\ \A i \in 1..Len(c) : d[i] = c[i]
        BY <3>2, AppendProperties
      <3>4. PICK n \in Nat : n = Len(c)
        OBVIOUS
      <3>5. \A i \in 1..(n + 1) : i = n + 1 \/ i \in 1..n
        OBVIOUS
      <3>6. \A i \in 1..Len(d) : d[i] # NL
        BY <1>2, <1>3, <3>3, <3>4, <3>5
      <3>7. Length(p) = Len(d) /\ Content(p) = d
        BY <3>1, <3>2, ContentFacts
      <3> QED
        BY <3>1, <3>6, <3>7 DEF LineIn
    <2> QED
      BY <2>1, <2>2
  <1>4. ASSUME ~ tty_isempty_q(q)
        PROVE  ~ LineIn(Erased(q))
    <2>1. PICK p \in QueueOf(Chars) : /\ p = Erased(q) /\ Length(p) = Length(q) - 1
                                      /\ Content(p) = SubSeq(c, 1, Len(c) - 1)
      BY <1>1, <1>4, ErasedContent
    <2>2. c # <<>>
      BY <1>1, <1>4, ContentFacts
    <2>3. Content(p) = Front(c) /\ \A i \in 1..(Len(c) - 1) : Front(c)[i] = c[i]
      BY <2>1, <2>2, LastFront
    <2>4. Length(p) = Len(c) - 1
      BY <1>1, <2>1
    <2>5. PICK n \in Nat : n = Len(c)
      OBVIOUS
    <2>6. \A i \in 1..(n - 1) : i \in 1..n
      OBVIOUS
    <2>7. \A i \in 1..Length(p) : Content(p)[i] # NL
      BY <1>2, <2>3, <2>4, <2>5, <2>6
    <2> QED
      BY <2>1, <2>7 DEF LineIn
  <1> QED
    BY <1>3, <1>4

\* A key never empties a buffer that a reader has found not empty, unless it
\* disturbs it.
LEMMA KeepsSome ==
    ASSUME NEW q \in QueueOf(Chars), ~ tty_isempty_q(q)
    PROVE  /\ \A ch \in Chars : ~ tty_isempty_q(tty_push_q(q, ch))
           /\ Length(q) # 1 => ~ tty_isempty_q(Erased(q))
  <1>1. ASSUME NEW ch \in Chars
        PROVE  ~ tty_isempty_q(tty_push_q(q, ch))
    <2>1. CASE tty_isfull_q(q)
      BY <2>1, PushContent
    <2>2. CASE ~ tty_isfull_q(q)
      <3>1. PICK p \in QueueOf(Chars) : p = tty_push_q(q, ch) /\ Content(p) = Append(Content(q), ch)
        BY <2>2, PushContent
      <3>2. PICK c \in Seq(Chars) : c = Content(q)
        BY ContentFacts
      <3>3. Append(c, ch) # <<>>
        BY <3>2, AppendProperties, EmptySeq
      <3> QED
        BY <3>1, <3>2, <3>3, ContentFacts
    <2> QED
      BY <2>1, <2>2
  <1>2. ASSUME Length(q) # 1
        PROVE  ~ tty_isempty_q(Erased(q))
    <2>1. Erased(q) \in QueueOf(Chars) /\ Length(Erased(q)) = Length(q) - 1
      BY ErasedContent
    <2>2. PICK n \in Nat : n = Length(q)
      BY LengthFacts, Size
    <2>3. n - 1 # 0
      BY <1>2, <2>2
    <2> QED
      BY <2>1, <2>2, <2>3, LengthFacts
  <1> QED
    BY <1>1, <1>2

\* Sleeping and Reading for the reader r.
SleepingOf(r) ==
    /\ state[r] = INTERRUPTIBLE => wait_proc.buffer = r /\ ~ LineIn(buffer)
    /\ wait_proc.buffer = r => pc[r] = "asleep"
    /\ tmp[r] = NONE

ReadingOf(r) ==
    /\ tmpbuf[r] # <<>> => nr[r] = 0 /\ pc[r] \notin {"user", "return"}
    /\ orderly => r \notin signal /\ (pc[r] \in {"take", "fill"} => ~ tty_isempty_q(buffer))

LEMMA ReaderKey ==
    ASSUME Types, Roles, NEW r, Readers = {r}, SleepingOf(r), ReadingOf(r),
           NEW ch \in Keys, keyboard_interrupt(ch)
    PROVE  SleepingOf(r)' /\ ReadingOf(r)'
  <1>1. buffer \in QueueOf(Chars) /\ ch \in Chars /\ r \in Tasks
    BY TypesParts DEF DataTypes, Chars, Tasks
  <1>2. wait_proc \in [{"buffer", "write_q"} -> Tasks \cup {NONE}]
    BY DEF Types, TypeOK
  <1>3. r # NONE
    BY <1>1, TtyAssumption
  <1>4. UNCHANGED <<signal, pc, tmp, nr, tmpbuf>>
    BY DEF keyboard_interrupt, Character, Enter, Backspace, Key
  <1>5. CASE Character(ch)
    <2>1. ch # NL /\ buffer' = tty_push_q(buffer, ch) /\ UNCHANGED <<wait_proc, state, orderly>>
      BY <1>5 DEF Character
    <2>2. ~ LineIn(buffer) => ~ LineIn(buffer')
      BY <1>1, <2>1, LineFacts
    <2>3. ~ tty_isempty_q(buffer) => ~ tty_isempty_q(buffer')
      BY <1>1, <2>1, KeepsSome
    <2> QED
      BY <1>4, <2>1, <2>2, <2>3 DEF SleepingOf, ReadingOf
  <1>6. CASE Enter(ch)
    <2>1. /\ buffer' = tty_push_q(buffer, ch) /\ state' = Awake({wait_proc.buffer})
          /\ wait_proc' = [wait_proc EXCEPT !.buffer = NONE] /\ UNCHANGED orderly
      BY <1>6 DEF Enter
    <2>2. wait_proc'.buffer = NONE
      BY <1>2, <2>1
    <2>3. state'[r] # INTERRUPTIBLE
      BY <1>1, <2>1 DEF Awake, SleepingOf, RUNNING, INTERRUPTIBLE
    <2>4. ~ tty_isempty_q(buffer) => ~ tty_isempty_q(buffer')
      BY <1>1, <2>1, KeepsSome
    <2> QED
      BY <1>3, <1>4, <2>1, <2>2, <2>3, <2>4 DEF SleepingOf, ReadingOf
  <1>7. CASE Backspace(ch)
    <2>1. CASE CanErase
      <3>1. /\ buffer' = Erased(buffer) /\ orderly' = (orderly /\ ~ Disturbs)
            /\ UNCHANGED <<wait_proc, state>> /\ ~ tty_isempty_q(buffer)
        BY <1>7, <2>1 DEF Backspace, CanErase, Erased
      <3>2. ~ LineIn(buffer) => ~ LineIn(buffer')
        BY <1>1, <3>1, LineFacts
      <3>3. orderly' => orderly /\ (pc[r] \in {"take", "fill"} => ~ tty_isempty_q(buffer'))
        <4>1. ASSUME orderly', pc[r] \in {"take", "fill"}
              PROVE  ~ tty_isempty_q(buffer')
          <5>1. Length(buffer) # 1
            BY <3>1, <4>1 DEF Disturbs
          <5> QED
            BY <1>1, <3>1, <5>1, KeepsSome
        <4> QED
          BY <3>1, <4>1
      <3> QED
        BY <1>4, <3>1, <3>2, <3>3 DEF SleepingOf, ReadingOf
    <2>2. CASE ~ CanErase
      BY <1>4, <1>7, <2>2 DEF Backspace, SleepingOf, ReadingOf
    <2> QED
      BY <2>1, <2>2
  <1> QED
    BY <1>5, <1>6, <1>7 DEF keyboard_interrupt

LEMMA ReaderTask ==
    ASSUME Types, Roles, NEW r, Readers = {r}, r \notin Writers, SleepingOf(r), ReadingOf(r),
           \/ \E n \in Counts : tty_read(r, n) \/ _user_tty_write(r, n)
           \/ InKernel(r) \/ Resumes(r) \/ WakeBySignal(r) \/ SendSignal(r)
    PROVE  SleepingOf(r)' /\ ReadingOf(r)'
  <1>1. /\ pc \in [Tasks -> Points] /\ tmp \in [Tasks -> Tasks \cup {NONE}]
        /\ state \in [Tasks -> {RUNNING, INTERRUPTIBLE}]
        /\ wait_proc \in [{"buffer", "write_q"} -> Tasks \cup {NONE}]
        /\ nr \in [Tasks -> Nat] /\ tmpbuf \in [Tasks -> Seq(Chars)]
        /\ buffer \in QueueOf(Chars)
    BY TypesParts DEF SleepTypes, DataTypes
  <1>2. r \in Tasks /\ r # NONE /\ Readers \cap Writers = {} /\ r \in Readers
    BY TtyAssumption DEF Tasks
  <1>3. wait_proc.buffer \in {r, NONE} /\ pc[r] \in ReaderPoints
    BY <1>2 DEF Roles
  <1>4. state[r] = INTERRUPTIBLE => pc[r] = "asleep"
    BY <1>2, <1>3 DEF Roles, ReaderPoints, Stops
  <1>5. ~ (Push(r) \/ Pushed(r) \/ Drain(r) \/ WriterPops(r) \/ Load(r) \/ WriterDrops(r)
             \/ WriterResumes(r))
    BY <1>2, WhoSteps
  <1>6. CASE \E n \in Counts : tty_read(r, n) \/ _user_tty_write(r, n)
    <2>1. PICK n \in Counts : tty_read(r, n)
      BY <1>6 DEF _user_tty_write
    <2> QED
      BY <1>1, <1>2, <1>4, <2>1 DEF tty_read, SleepingOf, ReadingOf, queues, sleep, hist
  <1>7. CASE sleep_if_empty(r)
    <2>1. pc[r] = "pop" /\ UNCHANGED <<buffer, signal, nr, tmpbuf, orderly>>
      BY <1>7 DEF sleep_if_empty, queues, hist
    <2>2. wait_proc.buffer = NONE
      BY <1>3, <2>1 DEF SleepingOf
    <2>3. CASE r \notin signal /\ tty_isempty_q(buffer)
      <3>1. interruptible_sleep_on(r, "buffer", "asleep")
        BY <1>7, <2>3 DEF sleep_if_empty
      <3>2. CASE r = INIT_TASK
        <4>1. pc'[r] = "panic" /\ UNCHANGED <<wait_proc, state, tmp>>
          BY <1>1, <1>2, <3>1, <3>2 DEF interruptible_sleep_on, sleep
        <4>2. state[r] # INTERRUPTIBLE
          BY <1>4, <2>1
        <4> QED
          BY <1>2, <2>1, <2>2, <4>1, <4>2 DEF SleepingOf, ReadingOf
      <3>3. CASE r # INIT_TASK
        <4>1. tmp'[r] = NONE /\ wait_proc'.buffer = r /\ pc'[r] = "asleep"
          BY <1>1, <1>2, <2>2, <3>1, <3>3 DEF interruptible_sleep_on
        <4>2. ~ LineIn(buffer)
          <5>1. Length(buffer) = 0
            BY <1>1, <2>3, LengthFacts
          <5> QED
            BY <5>1 DEF LineIn
        <4> QED
          BY <2>1, <2>3, <4>1, <4>2 DEF SleepingOf, ReadingOf
      <3> QED
        BY <3>2, <3>3
    <2>4. CASE ~ (r \notin signal /\ tty_isempty_q(buffer))
      <3>1. Goes(r, "take")
        BY <1>7, <2>4 DEF sleep_if_empty
      <3>2. pc'[r] = "take" /\ UNCHANGED <<wait_proc, state, tmp>>
        BY <1>1, <1>2, <3>1 DEF Goes, sleep
      <3>3. state[r] # INTERRUPTIBLE
        BY <1>4, <2>1
      <3> QED
        BY <1>2, <2>1, <2>2, <2>4, <3>2, <3>3 DEF SleepingOf, ReadingOf
    <2> QED
      BY <2>3, <2>4
  <1>8. CASE Take(r)
    <2>1. /\ pc[r] = "take" /\ UNCHANGED <<signal, orderly, wait_proc, state, tmp>>
          /\ pc'[r] \in {"pop", "unread", "return"}
      BY <1>1, <1>2, <1>8 DEF Take, Goes, sleep
    <2>2. state[r] # INTERRUPTIBLE /\ wait_proc.buffer # r
      BY <1>4, <2>1 DEF SleepingOf
    <2>3. tmpbuf'[r] # <<>> => nr'[r] = 0 /\ pc'[r] \notin {"user", "return"}
      <3>1. CASE nr[r] <= 0
        <4>1. /\ nr[r] = 0 /\ nr' = nr /\ pc'[r] \in {"pop", "unread"}
          BY <1>1, <1>2, <1>8, <3>1 DEF Take, Goes
        <4> QED
          BY <4>1
      <3>2. CASE ~ (nr[r] <= 0)
        <4>1. nr[r] # 0 /\ tmpbuf' = tmpbuf
          BY <1>1, <1>2, <1>8, <3>2 DEF Take
        <4> QED
          BY <4>1 DEF ReadingOf
      <3> QED
        BY <3>1, <3>2
    <2> QED
      BY <2>1, <2>2, <2>3 DEF SleepingOf, ReadingOf
  <1>9. CASE PutsBack(r)
    <2>1. /\ pc[r] \in {"unread", "front", "fill", "take"}
          /\ UNCHANGED <<signal, wait_proc, state, tmp, nr>>
          /\ pc'[r] \in {"unread", "front", "fill", "return", "wild"}
      BY <1>1, <1>2, <1>9 DEF PutsBack, Unread, StepsBack, Fills, Overrun, Goes, sleep
    <2>2. state[r] # INTERRUPTIBLE /\ wait_proc.buffer # r
      BY <1>4, <2>1 DEF SleepingOf
    <2>3. tmpbuf'[r] # <<>> => nr'[r] = 0 /\ pc'[r] # "return"
      <3>1. tmpbuf[r] = <<>> => tmpbuf'[r] = <<>>
        <4>1. Fills(r) => tmpbuf[r] # <<>>
          BY <1>2, TypesParts DEF Holding, Fills
        <4> QED
          BY <4>1, <1>9 DEF PutsBack, Unread, StepsBack, Overrun
      <3>2. pc'[r] = "return" => tmpbuf[r] = <<>>
        BY <1>1, <1>2, <1>9 DEF PutsBack, Unread, StepsBack, Fills, Overrun, Goes
      <3> QED
        BY <2>1, <3>1, <3>2 DEF ReadingOf
    <2>4. orderly' => orderly /\ (pc'[r] = "fill" => ~ tty_isempty_q(buffer'))
      <3>1. CASE StepsBack(r)
        BY <1>1, <3>1, StepBackContent DEF StepsBack
      <3>2. CASE ~ StepsBack(r)
        BY <1>1, <1>2, <1>9, <3>2 DEF PutsBack, Unread, Fills, Overrun, Goes, hist
      <3> QED
        BY <3>1, <3>2
    <2> QED
      BY <2>1, <2>2, <2>3, <2>4 DEF SleepingOf, ReadingOf
  <1>10. CASE Return(r)
    <2>1. /\ pc[r] = "return" /\ pc'[r] = "user" /\ signal' \subseteq signal
          /\ UNCHANGED <<buffer, wait_proc, state, tmp, nr, tmpbuf, orderly>>
      BY <1>1, <1>2, <1>10 DEF Return, queues, sleep, hist
    <2> QED
      BY <1>4, <2>1 DEF SleepingOf, ReadingOf
  <1>11. CASE ReaderResumes(r)
    <2>1. pc[r] = "asleep" /\ Resume(r, "buffer", "pop")
          /\ UNCHANGED <<buffer, signal, nr, tmpbuf, orderly>>
      BY <1>11 DEF ReaderResumes, queues, hist
    <2>2. /\ wait_proc' = [wait_proc EXCEPT !["buffer"] = tmp[r]]
          /\ state' = Awake({tmp[r]}) /\ tmp' = [tmp EXCEPT ![r] = NONE]
          /\ pc' = [pc EXCEPT ![r] = "pop"] /\ state[r] = RUNNING
      BY <1>3, <2>1 DEF Resume
    <2>3. wait_proc'.buffer = NONE /\ tmp'[r] = NONE /\ pc'[r] = "pop" /\ state'[r] = RUNNING
      BY <1>1, <1>2, <2>2 DEF SleepingOf, Awake
    <2> QED
      BY <1>2, <2>1, <2>3 DEF SleepingOf, ReadingOf, RUNNING, INTERRUPTIBLE
  <1>12. CASE WakeBySignal(r)
    <2>1. state'[r] = RUNNING
      BY <1>2, <1>12 DEF WakeBySignal, Awake
    <2> QED
      BY <1>12, <2>1
         DEF WakeBySignal, SleepingOf, ReadingOf, queues, hist, RUNNING, INTERRUPTIBLE
  <1>13. CASE SendSignal(r)
    <2>1. ~ orderly' /\ UNCHANGED <<buffer, wait_proc, state, tmp, pc, nr, tmpbuf>>
      BY <1>2, <1>13 DEF SendSignal, queues, sleep
    <2> QED
      BY <2>1 DEF SleepingOf, ReadingOf
  <1> QED
    BY <1>5, <1>6, <1>7, <1>8, <1>9, <1>10, <1>11, <1>12, <1>13
       DEF InKernel, PutsBack, Resumes

LEMMA ReaderParts ==
    ASSUME NEW r, Readers = {r}
    PROVE  /\ (Sleeping /\ Reading <=> SleepingOf(r) /\ ReadingOf(r))
           /\ ((Sleeping /\ Reading)' <=> SleepingOf(r)' /\ ReadingOf(r)')
  BY DEF Sleeping, Reading, SleepingOf, ReadingOf, HasLine, LineIn

LEMMA ReaderInit ==
    ASSUME Init, OneReader
    PROVE  ReaderInv
  <1>1. PICK r : Readers = {r} /\ r \in Tasks /\ r # NONE
    BY TtyAssumption DEF OneReader, Tasks
  <1>2. SleepingOf(r) /\ ReadingOf(r)
    BY <1>1 DEF Init, SleepingOf, ReadingOf, RUNNING, INTERRUPTIBLE
  <1> QED
    BY <1>1, <1>2, TypesInit, RolesInit, ReaderParts DEF ReaderInv, TtyInv

LEMMA ReaderStep ==
    ASSUME ReaderInv, OneReader, Next \/ UNCHANGED core
    PROVE  ReaderInv'
  <1>1. PICK r : Readers = {r} /\ r \notin Writers /\ r \in Tasks
    BY DEF OneReader, Tasks
  <1>2. Readers \cap Writers = {} /\ Types /\ Roles
    BY <1>1 DEF ReaderInv, TtyInv
  <1>3. Types' /\ Roles'
    BY <1>2, TypesStep, RolesStep
  <1>4. SleepingOf(r) /\ ReadingOf(r)
    BY <1>1, ReaderParts DEF ReaderInv
  <1>5. SleepingOf(r)' /\ ReadingOf(r)'
    <2>1. ASSUME NEW ch \in Keys, keyboard_interrupt(ch)
          PROVE  SleepingOf(r)' /\ ReadingOf(r)'
      BY <1>1, <1>2, <1>4, <2>1, ReaderKey
    <2>2. ASSUME NEW t \in Tasks,
                 \/ \E n \in Counts : tty_read(t, n) \/ _user_tty_write(t, n)
                 \/ InKernel(t) \/ Resumes(t) \/ WakeBySignal(t) \/ SendSignal(t)
          PROVE  SleepingOf(r)' /\ ReadingOf(r)'
      <3>1. CASE t = r
        BY <1>1, <1>2, <1>4, <2>2, <3>1, ReaderTask
      <3>2. CASE t # r
        <4>1. t \in Writers /\ r \in Readers
          BY <1>1, <3>2 DEF Tasks
        <4>2. Other(r)
          BY <1>2, <2>2, <4>1, WriterStep
        <4> QED
          BY <1>4, <4>2 DEF Other, SleepingOf, ReadingOf, RUNNING, INTERRUPTIBLE
      <3> QED
        BY <3>1, <3>2
    <2>3. CASE UNCHANGED core
      BY <1>4, <2>3 DEF core, queues, sleep, hist, SleepingOf, ReadingOf
    <2> QED
      BY <2>1, <2>2, <2>3 DEF Next, TaskStep
  <1> QED
    BY <1>1, <1>3, <1>5, ReaderParts DEF ReaderInv, TtyInv

\* With one reader ReaderInv holds in every state, whatever writers, signals and
\* keys come in between.
THEOREM ReaderCorrect ==
    ASSUME OneReader
    PROVE  KeyboardSpec => []ReaderInv
  <1>1. KeyboardInit => ReaderInv
    BY ReaderInit DEF KeyboardInit
  <1>2. ReaderInv /\ [KeyboardNext]_<<vars, kvars>> => ReaderInv'
    BY ReaderStep, KeyboardStep
  <1> QED
    BY <1>1, <1>2, PTL DEF KeyboardSpec

\* The one reader never sleeps beside a complete line: sleep_if_empty's test and
\* its entry into the wait queue leave Enter no gap, and neither does a wake-up
\* by a signal.
THEOREM NoWakeupLost ==
    ASSUME OneReader
    PROVE  KeyboardSpec => []NoLineWhileAllSleep
  <1>1. ReaderInv => NoLineWhileAllSleep
    <2> SUFFICES ASSUME ReaderInv,
                        {t \in Readers : pc[t] # "user"} # {},
                        \A t \in {u \in Readers : pc[u] # "user"} : state[t] = INTERRUPTIBLE
                 PROVE  ~ HasLine
      BY DEF NoLineWhileAllSleep, HasLine
    <2>1. PICK r \in Readers : pc[r] # "user"
      OBVIOUS
    <2>2. state[r] = INTERRUPTIBLE
      BY <2>1
    <2> QED
      BY <2>2 DEF ReaderInv, Sleeping
  <1> QED
    BY <1>1, ReaderCorrect, PTL

-----------------------------------------------------------------------------
(* One writer.                                                             *)

DrainingOf(w) ==
    /\ state[w] = INTERRUPTIBLE => wait_proc.write_q = w
    /\ wait_proc.write_q = w => pc[w] = "wasleep"
    /\ tmp[w] = NONE

\* A step of a reader or of the keyboard leaves alone what concerns a writer.
OtherWriter(w) ==
    /\ pc'[w] = pc[w] /\ tmp'[w] = tmp[w]
    /\ wait_proc'.write_q = wait_proc.write_q
    /\ state'[w] \in {state[w], RUNNING}

LEMMA ReaderSteps ==
    ASSUME Types, Roles, Readers \cap Writers = {}, NEW w \in Writers, NEW t \in Readers,
           \/ \E n \in Counts : tty_read(t, n) \/ _user_tty_write(t, n)
           \/ InKernel(t) \/ Resumes(t) \/ WakeBySignal(t) \/ SendSignal(t)
    PROVE  OtherWriter(w)
  <1>1. w \in Tasks /\ t \in Tasks /\ w # t /\ t \notin Writers
    BY DEF Tasks
  <1>2. /\ pc \in [Tasks -> Points] /\ tmp \in [Tasks -> Tasks \cup {NONE}]
        /\ state \in [Tasks -> {RUNNING, INTERRUPTIBLE}]
        /\ wait_proc \in [{"buffer", "write_q"} -> Tasks \cup {NONE}]
    BY DEF Types, TypeOK
  <1>3. \A W : Awake(W)[w] \in {state[w], RUNNING}
    BY <1>1 DEF Awake
  <1>4. ~ (Push(t) \/ Pushed(t) \/ Drain(t) \/ WriterPops(t) \/ Load(t) \/ WriterDrops(t)
             \/ WriterResumes(t))
    BY <1>1, WhoSteps
  <1>5. CASE \E n \in Counts : tty_read(t, n) \/ _user_tty_write(t, n)
    BY <1>1, <1>2, <1>5 DEF tty_read, _user_tty_write, OtherWriter, sleep
  <1>6. CASE sleep_if_empty(t)
    BY <1>1, <1>2, <1>6 DEF sleep_if_empty, interruptible_sleep_on, Goes, OtherWriter, sleep
  <1>7. CASE Take(t)
    BY <1>1, <1>2, <1>7 DEF Take, Goes, OtherWriter, sleep
  <1>8. CASE PutsBack(t)
    BY <1>1, <1>2, <1>8 DEF PutsBack, Unread, StepsBack, Fills, Overrun, Goes, OtherWriter, sleep
  <1>9. CASE Return(t)
    BY <1>1, <1>2, <1>9 DEF Return, OtherWriter, sleep
  <1>10. CASE ReaderResumes(t)
    <2>1. CASE wait_proc["buffer"] \notin {NONE, t}
      <3>1. PICK A : A = Awake({wait_proc["buffer"]})
        OBVIOUS
      <3>2. state' = [A EXCEPT ![t] = INTERRUPTIBLE] /\ UNCHANGED <<wait_proc, tmp, pc>>
        BY <1>10, <2>1, <3>1 DEF ReaderResumes, Resume
      <3>3. A \in [Tasks -> {RUNNING, INTERRUPTIBLE}]
        BY <3>1, <1>2 DEF Awake
      <3>4. A[w] \in {state[w], RUNNING} /\ state'[w] = A[w]
        BY <1>1, <1>3, <3>1, <3>2, <3>3
      <3> QED
        BY <3>2, <3>4 DEF OtherWriter
    <2>2. CASE wait_proc["buffer"] \in {NONE, t}
      BY <1>1, <1>2, <1>3, <1>10, <2>2 DEF ReaderResumes, Resume, OtherWriter
    <2> QED
      BY <2>1, <2>2
  <1>11. CASE WakeBySignal(t)
    BY <1>3, <1>11 DEF WakeBySignal, OtherWriter
  <1>12. CASE SendSignal(t)
    BY <1>12 DEF SendSignal, OtherWriter, sleep
  <1> QED
    BY <1>4, <1>5, <1>6, <1>7, <1>8, <1>9, <1>10, <1>11, <1>12 DEF InKernel, PutsBack, Resumes

LEMMA WriterTask ==
    ASSUME Types, Roles, Readers \cap Writers = {}, NEW w, Writers = {w}, DrainingOf(w),
           \/ \E n \in Counts : tty_read(w, n) \/ _user_tty_write(w, n)
           \/ InKernel(w) \/ Resumes(w) \/ WakeBySignal(w) \/ SendSignal(w)
    PROVE  DrainingOf(w)'
  <1>1. /\ pc \in [Tasks -> Points] /\ tmp \in [Tasks -> Tasks \cup {NONE}]
        /\ state \in [Tasks -> {RUNNING, INTERRUPTIBLE}]
        /\ wait_proc \in [{"buffer", "write_q"} -> Tasks \cup {NONE}]
    BY DEF Types, TypeOK
  <1>2. w \in Tasks /\ w # NONE /\ w \in Writers /\ w \notin Readers
    BY TtyAssumption DEF Tasks
  <1>3. wait_proc.write_q \in {w, NONE} /\ pc[w] \in WriterPoints
    BY <1>2 DEF Roles
  <1>4. state[w] = INTERRUPTIBLE => pc[w] = "wasleep"
    BY <1>2, <1>3 DEF Roles, WriterPoints, Stops
  <1>5. ~ (sleep_if_empty(w) \/ Take(w) \/ PutsBack(w) \/ ReaderResumes(w))
    BY <1>2, WhoSteps
  <1>6. ASSUME UNCHANGED sleep, pc[w] # "wasleep"
        PROVE  DrainingOf(w)'
    BY <1>4, <1>6 DEF DrainingOf, sleep
  <1>7. CASE \E n \in Counts : tty_read(w, n) \/ _user_tty_write(w, n)
    BY <1>6, <1>7 DEF tty_read, _user_tty_write
  <1>8. CASE Push(w) \/ Pushed(w) \/ Drain(w) \/ Load(w) \/ WriterDrops(w)
    BY <1>6, <1>8 DEF Push, Pushed, Drain, Load, WriterDrops, Goes
  <1>9. CASE WriterPops(w)
    <2>1. wait_proc.write_q = NONE
      BY <1>3, <1>9 DEF WriterPops, DrainingOf
    <2>2. CASE interruptible_sleep_on(w, "write_q", "wasleep")
      BY <1>1, <1>2, <1>6, <1>9, <2>1, <2>2 DEF interruptible_sleep_on, DrainingOf, WriterPops
    <2>3. CASE ~ interruptible_sleep_on(w, "write_q", "wasleep")
      BY <1>6, <1>9, <2>3 DEF WriterPops, Goes
    <2> QED
      BY <2>2, <2>3
  <1>10. CASE Return(w)
    BY <1>6, <1>10 DEF Return
  <1>11. CASE WriterResumes(w)
    <2>1. /\ wait_proc' = [wait_proc EXCEPT !["write_q"] = tmp[w]]
          /\ state' = Awake({tmp[w]}) /\ tmp' = [tmp EXCEPT ![w] = NONE]
          /\ pc' = [pc EXCEPT ![w] = "wpop"] /\ state[w] = RUNNING
      BY <1>3, <1>11 DEF WriterResumes, Resume
    <2>2. wait_proc'.write_q = NONE /\ tmp'[w] = NONE /\ state'[w] = RUNNING
      BY <1>1, <1>2, <2>1 DEF DrainingOf, Awake
    <2> QED
      BY <1>2, <2>2 DEF DrainingOf, RUNNING, INTERRUPTIBLE
  <1>12. CASE WakeBySignal(w)
    <2>1. state'[w] = RUNNING
      BY <1>2, <1>12 DEF WakeBySignal, Awake
    <2> QED
      BY <1>12, <2>1 DEF WakeBySignal, DrainingOf, RUNNING, INTERRUPTIBLE
  <1>13. CASE SendSignal(w)
    BY <1>13 DEF SendSignal, DrainingOf, sleep
  <1> QED
    BY <1>5, <1>7, <1>8, <1>9, <1>10, <1>11, <1>12, <1>13 DEF InKernel, PutsBack, Resumes

LEMMA DrainingStep ==
    ASSUME TtyInv, Draining, Readers \cap Writers = {}, OneWriter, Next \/ UNCHANGED core
    PROVE  Draining'
  <1>1. SUFFICES ASSUME NEW w \in Writers
                 PROVE  DrainingOf(w)'
    BY DEF Draining, DrainingOf
  <1>2. Writers = {w} /\ w \in Tasks /\ Types /\ Roles /\ DrainingOf(w)
    BY DEF OneWriter, Tasks, TtyInv, Draining, DrainingOf
  <1>3. ASSUME OtherWriter(w)
        PROVE  DrainingOf(w)'
    BY <1>2, <1>3 DEF OtherWriter, DrainingOf, RUNNING, INTERRUPTIBLE
  <1>4. ASSUME NEW ch \in Keys, keyboard_interrupt(ch)
        PROVE  DrainingOf(w)'
    <2>1. wait_proc \in [{"buffer", "write_q"} -> Tasks \cup {NONE}]
      BY <1>2 DEF Types, TypeOK
    <2>2. UNCHANGED <<pc, tmp>>
      BY <1>4 DEF keyboard_interrupt, Character, Enter, Backspace, Key
    <2>3. wait_proc'.write_q = wait_proc.write_q
      BY <1>4, <2>1 DEF keyboard_interrupt, Character, Enter, Backspace
    <2>4. state'[w] \in {state[w], RUNNING}
      BY <1>2, <1>4 DEF keyboard_interrupt, Character, Enter, Backspace, Awake
    <2> QED
      BY <1>3, <2>2, <2>3, <2>4 DEF OtherWriter
  <1>5. ASSUME NEW t \in Tasks,
               \/ \E n \in Counts : tty_read(t, n) \/ _user_tty_write(t, n)
               \/ InKernel(t) \/ Resumes(t) \/ WakeBySignal(t) \/ SendSignal(t)
        PROVE  DrainingOf(w)'
    <2>1. CASE t = w
      BY <1>2, <1>5, <2>1, WriterTask
    <2>2. CASE t # w
      <3>1. t \in Readers
        BY <1>2, <2>2 DEF Tasks
      <3> QED
        BY <1>2, <1>3, <1>5, <3>1, ReaderSteps
    <2> QED
      BY <2>1, <2>2
  <1>6. CASE UNCHANGED core
    BY <1>2, <1>6 DEF core, sleep, DrainingOf
  <1> QED
    BY <1>4, <1>5, <1>6 DEF Next, TaskStep

\* Where each queue has one user the wait queue is exact: a sleeper is the task
\* that wake_up will find, and no one is found who has left.
THEOREM WaitQueuesExact ==
    ASSUME OneReader, OneWriter
    PROVE  KeyboardSpec => []SleeperIsQueued
  <1>1. KeyboardInit => Draining
    BY TtyAssumption DEF KeyboardInit, Init, Draining, Tasks, RUNNING, INTERRUPTIBLE
  <1>2. ReaderInv /\ Draining /\ [KeyboardNext]_<<vars, kvars>> => Draining'
    <2>1. Readers \cap Writers = {}
      BY DEF OneReader
    <2> QED
      BY <2>1, DrainingStep, KeyboardStep DEF ReaderInv
  <1>3. ReaderInv /\ Draining => SleeperIsQueued
    <2> SUFFICES ASSUME ReaderInv, Draining, NEW t \in Tasks
                 PROVE  /\ state[t] = INTERRUPTIBLE =>
                              wait_proc[IF t \in Readers THEN "buffer" ELSE "write_q"] = t
                        /\ wait_proc.buffer = t => pc[t] = "asleep"
                        /\ wait_proc.write_q = t => pc[t] = "wasleep"
      BY DEF SleeperIsQueued
    <2>1. t # NONE /\ (t \in Readers \/ t \in Writers)
      BY TtyAssumption DEF Tasks
    <2>2. wait_proc.buffer \in Readers \cup {NONE} /\ wait_proc.write_q \in Writers \cup {NONE}
      BY DEF ReaderInv, TtyInv, Roles
    <2> QED
      BY <2>1, <2>2 DEF ReaderInv, Sleeping, Draining
  <1> QED
    BY <1>1, <1>2, <1>3, ReaderCorrect, PTL DEF KeyboardSpec

-----------------------------------------------------------------------------
(* Sequences: what is looked at and put back stays where it was.           *)

LEMMA Singleton ==
    ASSUME NEW V, NEW x \in V
    PROVE  \E d \in Seq(V) : d = <<x>>
  <1>1. <<x>> \in Seq(V)
    OBVIOUS
  <1> QED
    BY <1>1

LEMMA ConcatAppend ==
    ASSUME NEW V, NEW s \in Seq(V), NEW c \in Seq(V), NEW x \in V
    PROVE  s \o Append(c, x) = Append(s \o c, x)
  <1>1. PICK d \in Seq(V) : d = <<x>>
    BY Singleton
  <1>2. Append(c, x) = c \o d /\ s \o c \in Seq(V)
    BY <1>1, AppendIsConcat, ConcatProperties
  <1>3. Append(s \o c, x) = (s \o c) \o d
    BY <1>1, <1>2, AppendIsConcat
  <1>4. (s \o c) \o d = s \o (c \o d)
    BY ConcatAssociative, SMTT(30)
  <1> QED
    BY <1>2, <1>3, <1>4

LEMMA ShiftHead ==
    ASSUME NEW V, NEW s \in Seq(V), NEW c \in Seq(V), c # <<>>
    PROVE  /\ Append(s, Head(c)) \o Tail(c) = s \o c
           /\ Len(s) + 1 \in 1..Len(s \o c) /\ (s \o c)[Len(s) + 1] = Head(c)
  <1>1. Len(c) \in Nat /\ Len(c) # 0 /\ Len(c) \in 1..Len(c) /\ 1 \in 1..Len(c)
    BY EmptySeq
  <1>2. PICK h \in V : h = Head(c) /\ h = c[1]
    BY HeadTailProperties
  <1>3. PICK d \in Seq(V) : d = <<h>>
    BY Singleton
  <1>4. PICK u \in Seq(V) : u = Tail(c)
    BY HeadTailProperties
  <1>5. c = d \o u
    <2>1. SubSeq(c, 1, Len(c)) = <<c[1]>> \o SubSeq(c, 1 + 1, Len(c))
      BY <1>1, SubSeqRecursiveFirst
    <2>2. SubSeq(c, 1, Len(c)) = c /\ SubSeq(c, 2, Len(c)) = u
      BY <1>4, SubSeqFull, TailIsSubSeq
    <2>3. SubSeq(c, 1, Len(c)) = <<c[1]>> \o SubSeq(c, 2, Len(c))
      <3>1. 1 + 1 = 2
        OBVIOUS
      <3> QED
        BY <2>1, <3>1
    <2>4. <<c[1]>> = d
      BY <1>2, <1>3
    <2> QED
      BY <2>2, <2>3, <2>4
  <1>6. Append(s, h) = s \o d
    BY <1>3, AppendIsConcat
  <1>7. (s \o d) \o u = s \o (d \o u)
    BY ConcatAssociative, SMTT(30)
  <1>8. Append(s, Head(c)) \o Tail(c) = s \o c
    BY <1>2, <1>4, <1>5, <1>6, <1>7
  <1>9. Len(s) + 1 \in 1..Len(s \o c) /\ (s \o c)[Len(s) + 1] = Head(c)
    <2>1. PICK m \in Nat : m = Len(s)
      OBVIOUS
    <2>2. PICK n \in Nat : n = Len(c) /\ n > 0
      BY <1>1
    <2>3. /\ Len(s \o c) = m + n
          /\ \A i \in 1..(m + n) : (s \o c)[i] = IF i <= m THEN s[i] ELSE c[i - m]
      BY <2>1, <2>2, ConcatProperties
    <2>4. m + 1 \in 1..(m + n) /\ ~ (m + 1 <= m) /\ (m + 1) - m = 1
      BY <2>2
    <2> QED
      BY <1>2, <2>1, <2>3, <2>4
  <1> QED
    BY <1>8, <1>9

LEMMA ShiftLast ==
    ASSUME NEW V, NEW s \in Seq(V), NEW c \in Seq(V), s # <<>>
    PROVE  Front(s) \o (<<Last(s)>> \o c) = s \o c
  <1>1. PICK f \in Seq(V) : f = Front(s)
    BY LastFront
  <1>2. PICK x \in V : x = Last(s)
    BY LastFront
  <1>3. PICK d \in Seq(V) : d = <<x>>
    BY Singleton
  <1>4. s = f \o d
    BY <1>1, <1>2, <1>3, LastFront
  <1>5. (f \o d) \o c = f \o (d \o c)
    BY ConcatAssociative, SMTT(30)
  <1> QED
    BY <1>1, <1>2, <1>3, <1>4, <1>5

LEMMA EraseLast ==
    ASSUME NEW V, NEW s \in Seq(V), NEW c \in Seq(V), c # <<>>
    PROVE  /\ s \o SubSeq(c, 1, Len(c) - 1) = SubSeq(s \o c, 1, Len(s \o c) - 1)
           /\ s \o c # <<>> /\ (s \o c)[Len(s \o c)] = c[Len(c)]
  <1>1. PICK f \in Seq(V) : f = Front(c) /\ f = SubSeq(c, 1, Len(c) - 1)
    BY LastFront
  <1>2. PICK x \in V : x = Last(c) /\ x = c[Len(c)]
    BY LastFront
  <1>3. c = Append(f, x)
    BY <1>1, <1>2, LastFront, AppendIsConcat
  <1>4. PICK u \in Seq(V) : u = s \o f
    BY ConcatProperties
  <1>5. PICK w \in Seq(V) : w = s \o c /\ w = Append(u, x) /\ w # <<>>
    <2>1. s \o c = Append(u, x)
      BY <1>3, <1>4, ConcatAppend
    <2>2. Append(u, x) \in Seq(V) /\ Append(u, x) # <<>>
      BY AppendProperties
    <2> QED
      BY <2>1, <2>2
  <1>6. PICK g \in Seq(V) : g = Front(w)
    BY <1>5, LastFront
  <1>7. PICK y \in V : y = Last(w)
    BY <1>5, LastFront
  <1>8. u = Front(w) /\ x = Last(w)
    <2>1. w = g \o <<y>>
      BY <1>5, <1>6, <1>7, LastFront
    <2>2. Append(u, x) = Append(g, y)
      BY <1>5, <2>1, AppendIsConcat
    <2>3. u = g /\ x = y
      BY <2>2, AppendInjective
    <2> QED
      BY <1>6, <1>7, <2>3
  <1> QED
    BY <1>1, <1>2, <1>4, <1>5, <1>8, LastFront

LEMMA LoseLast ==
    ASSUME NEW V, NEW s \in Seq(V), NEW c \in Seq(V), s # <<>>, c # <<>>
    PROVE  Front(s) \o c = SubSeq(s \o c, 1, Len(s) - 1) \o SubSeq(s \o c, Len(s) + 1, Len(s \o c))
  <1>1. PICK m \in Nat : m = Len(s) /\ m > 0
    BY EmptySeq
  <1>2. PICK n \in Nat : n = Len(c) /\ n > 0
    BY EmptySeq
  <1>3. Len(s \o c) = m + n
    BY <1>1, <1>2, ConcatProperties
  <1>4. SubSeq(s \o c, 1, m - 1) = Front(s)
    <2>1. Front(s) = SubSeq(s, 1, m - 1)
      BY <1>1, LastFront
    <2>2. CASE m = 1
      <3>1. m - 1 = 0 /\ 0 < 1 /\ 1 \in Int /\ 0 \in Int
        BY <2>2
      <3> QED
        BY <2>1, <3>1, SubSeqEmpty
    <2>3. CASE m # 1
      <3>1. 1 \in 1..m /\ m - 1 \in 1..m
        BY <1>1, <2>3
      <3> QED
        BY <1>1, <2>1, <3>1, SubSeqOfConcat1
    <2> QED
      BY <2>2, <2>3
  <1>5. SubSeq(s \o c, m + 1, m + n) = c
    <2>1. m + 1 \in (m + 1)..(m + n) /\ m + n \in (m + 1)..(m + n)
      BY <1>1, <1>2
    <2>2. (m + 1) - m = 1 /\ (m + n) - m = n
      OBVIOUS
    <2>3. SubSeq(s \o c, m + 1, m + n) = SubSeq(c, (m + 1) - m, (m + n) - m)
      BY <1>1, <1>2, <2>1, SubSeqOfConcat2
    <2> QED
      BY <1>2, <2>2, <2>3, SubSeqFull
  <1> QED
    BY <1>1, <1>3, <1>4, <1>5

-----------------------------------------------------------------------------
(* One reader: the terminal implements LineInput.                          *)

Pending(r) == tmpbuf[r] \o Content(Settled)

\* A line's end has been read or looked at.
EndPoints == {"unread", "front", "fill", "return"}

\* What LineInput sees of the reader does not change.
SeenSame(r) ==
    /\ Pending(r)' = Pending(r) /\ got'[r] = got[r] /\ nr'[r] = nr[r]
    /\ pc'[r] = "user" <=> pc[r] = "user"
    /\ pc'[r] \in EndPoints <=> pc[r] \in EndPoints
    /\ orderly' = orderly

\* LineInput's steps in terms of the reader r.
LEMMA LineViews ==
    ASSUME NEW r, Readers = {r}
    PROVE  /\ SeenSame(r) => UNCHANGED Line!vars
           /\ ~ orderly' => Line!Disorder
           /\ \A ch \in Keys :
                 /\ \/ Pending(r)' = Append(Pending(r), ch)
                    \/ Len(Pending(r)) >= TTY_BUF_SIZE - 1 /\ Pending(r)' = Pending(r)
                 /\ got'[r] = got[r] /\ nr'[r] = nr[r] /\ pc'[r] = pc[r] /\ orderly' = orderly
                 => Line!Type(ch)
           /\ /\ Pending(r) # <<>> /\ Pending(r)[Len(Pending(r))] # NL
              /\ Pending(r)' = SubSeq(Pending(r), 1, Len(Pending(r)) - 1)
              /\ got'[r] = got[r] /\ nr'[r] = nr[r] /\ pc'[r] = pc[r] /\ orderly' = orderly
              => Line!Erase
           /\ /\ pc[r] = "user" /\ pc'[r] = "pop" /\ nr'[r] \in Nat
              /\ Pending(r)' = Pending(r) /\ got'[r] = got[r] /\ orderly' = orderly
              => Line!Call
           /\ /\ pc[r] = "return" /\ pc'[r] = "user" /\ nr'[r] = nr[r]
              /\ Pending(r)' = Pending(r) /\ got'[r] = got[r] /\ orderly' = orderly
              => Line!Return
  <1>1. (CHOOSE t \in Readers : TRUE) = r
    OBVIOUS
  <1>2. SeenSame(r) => UNCHANGED Line!vars
    BY <1>1 DEF SeenSame, Pending, EndPoints, Line!vars
  <1>3. ~ orderly' => Line!Disorder
    BY DEF Line!Disorder
  <1>4. ASSUME NEW ch \in Keys,
               \/ Pending(r)' = Append(Pending(r), ch)
               \/ Len(Pending(r)) >= TTY_BUF_SIZE - 1 /\ Pending(r)' = Pending(r),
               got'[r] = got[r], nr'[r] = nr[r], pc'[r] = pc[r], orderly' = orderly
        PROVE  Line!Type(ch)
    BY <1>1, <1>4 DEF Pending, Line!Type
  <1>5. ASSUME Pending(r) # <<>>, Pending(r)[Len(Pending(r))] # NL,
               Pending(r)' = SubSeq(Pending(r), 1, Len(Pending(r)) - 1),
               got'[r] = got[r], nr'[r] = nr[r], pc'[r] = pc[r], orderly' = orderly
        PROVE  Line!Erase
    BY <1>1, <1>5 DEF Pending, Line!Erase
  <1>6. ASSUME pc[r] = "user", pc'[r] = "pop", nr'[r] \in Nat,
               Pending(r)' = Pending(r), got'[r] = got[r], orderly' = orderly
        PROVE  Line!Call
    BY <1>1, <1>6 DEF Pending, Line!Call
  <1>7. ASSUME pc[r] = "return", pc'[r] = "user", nr'[r] = nr[r],
               Pending(r)' = Pending(r), got'[r] = got[r], orderly' = orderly
        PROVE  Line!Return
    BY <1>1, <1>7 DEF Pending, Line!Return
  <1> QED
    BY <1>2, <1>3, <1>4, <1>5, <1>6, <1>7

LEMMA LineEnds ==
    ASSUME NEW r, Readers = {r}
    PROVE  /\ /\ pc[r] = "take" /\ nr[r] > 0 /\ Pending(r) # <<>>
              /\ got'[r] = Append(got[r], Head(Pending(r)))
              /\ Pending(r)' = Tail(Pending(r)) /\ nr'[r] = nr[r] - 1
              /\ pc'[r] = (IF Head(Pending(r)) = NL /\ nr[r] = 1 THEN "return" ELSE "pop")
              /\ orderly' = orderly
              => Line!Deliver
           /\ /\ pc[r] = "take" /\ nr[r] = 0 /\ pc'[r] = "unread"
              /\ \E i \in 1..Len(Pending(r)) : Pending(r)[i] = NL
              /\ Pending(r)' = Pending(r) /\ got'[r] = got[r] /\ nr'[r] = nr[r]
              /\ orderly' = orderly
              => Line!SeeEnd
           /\ /\ pc[r] = "unread" /\ pc'[r] = "unread"
              /\ \E i \in 1..(Len(Pending(r)) - (TTY_BUF_SIZE - 1)) :
                    Pending(r)' = SubSeq(Pending(r), 1, i - 1)
                                    \o SubSeq(Pending(r), i + 1, Len(Pending(r)))
              /\ got'[r] = got[r] /\ nr'[r] = nr[r] /\ orderly' = orderly
              => Line!Overflow
  <1>1. (CHOOSE t \in Readers : TRUE) = r
    OBVIOUS
  <1>2. ASSUME pc[r] = "take", nr[r] > 0, Pending(r) # <<>>,
               got'[r] = Append(got[r], Head(Pending(r))),
               Pending(r)' = Tail(Pending(r)), nr'[r] = nr[r] - 1,
               pc'[r] = (IF Head(Pending(r)) = NL /\ nr[r] = 1 THEN "return" ELSE "pop"),
               orderly' = orderly
        PROVE  Line!Deliver
    BY <1>1, <1>2 DEF Pending, Line!Deliver
  <1>3. ASSUME pc[r] = "take", nr[r] = 0, pc'[r] = "unread",
               \E i \in 1..Len(Pending(r)) : Pending(r)[i] = NL,
               Pending(r)' = Pending(r), got'[r] = got[r], nr'[r] = nr[r], orderly' = orderly
        PROVE  Line!SeeEnd
    BY <1>1, <1>3 DEF Pending, Line!SeeEnd
  <1>4. ASSUME pc[r] = "unread", pc'[r] = "unread",
               \E i \in 1..(Len(Pending(r)) - (TTY_BUF_SIZE - 1)) :
                  Pending(r)' = SubSeq(Pending(r), 1, i - 1)
                                  \o SubSeq(Pending(r), i + 1, Len(Pending(r))),
               got'[r] = got[r], nr'[r] = nr[r], orderly' = orderly
        PROVE  Line!Overflow
    BY <1>1, <1>4 DEF Pending, Line!Overflow
  <1> QED
    BY <1>2, <1>3, <1>4

LineStep == Line!Next \/ UNCHANGED Line!vars

LEMMA TailAppend ==
    ASSUME NEW V, NEW s \in Seq(V), NEW x \in V, s # <<>>
    PROVE  Tail(Append(s, x)) = Append(Tail(s), x)
  <1>1. PICK n \in Nat : n = Len(s) /\ n > 0
    BY EmptySeq
  <1>2. PICK a \in Seq(V) : /\ a = Append(s, x) /\ Len(a) = n + 1 /\ a[n + 1] = x
                            /\ \A i \in 1..n : a[i] = s[i]
    <2>1. /\ Append(s, x) \in Seq(V) /\ Len(Append(s, x)) = Len(s) + 1
          /\ Append(s, x)[Len(s) + 1] = x
          /\ \A i \in 1..Len(s) : Append(s, x)[i] = s[i]
      BY AppendProperties
    <2> QED
      BY <2>1, <1>1
  <1>3. a # <<>>
    BY <1>1, <1>2, EmptySeq
  <1>4. PICK t \in Seq(V) : t = Tail(s) /\ Len(t) = n - 1 /\ \A i \in 1..(n - 1) : t[i] = s[i + 1]
    <2>1. /\ Tail(s) \in Seq(V) /\ Len(Tail(s)) = Len(s) - 1
          /\ \A i \in 1..(Len(s) - 1) : Tail(s)[i] = s[i + 1]
      BY <1>1, HeadTailProperties
    <2> QED
      BY <2>1, <1>1
  <1>5. PICK u \in Seq(V) : u = Tail(a) /\ Len(u) = n /\ \A i \in 1..n : u[i] = a[i + 1]
    <2>1. Tail(a) \in Seq(V) /\ Len(Tail(a)) = (n + 1) - 1
          /\ \A i \in 1..((n + 1) - 1) : Tail(a)[i] = a[i + 1]
      BY <1>2, <1>3, HeadTailProperties
    <2>2. (n + 1) - 1 = n
      OBVIOUS
    <2> QED
      BY <2>1, <2>2
  <1>6. PICK v \in Seq(V) : /\ v = Append(t, x) /\ Len(v) = n /\ v[n] = x
                            /\ \A i \in 1..(n - 1) : v[i] = t[i]
    <2>1. /\ Append(t, x) \in Seq(V) /\ Len(Append(t, x)) = (n - 1) + 1
          /\ Append(t, x)[(n - 1) + 1] = x
          /\ \A i \in 1..(n - 1) : Append(t, x)[i] = t[i]
      BY <1>4, AppendProperties
    <2>2. (n - 1) + 1 = n
      OBVIOUS
    <2> QED
      BY <2>1, <2>2
  <1>7. ASSUME NEW i \in 1..n
        PROVE  u[i] = v[i]
    <2>1. u[i] = a[i + 1]
      BY <1>5
    <2>2. CASE i = n
      BY <2>1, <2>2, <1>2, <1>6
    <2>3. CASE i # n
      <3>1. i \in 1..(n - 1) /\ i + 1 \in 1..n
        BY <2>3, <1>1
      <3> QED
        BY <3>1, <2>1, <1>2, <1>4, <1>6
    <2> QED
      BY <2>2, <2>3
  <1> QED
    BY <1>2, <1>4, <1>5, <1>6, <1>7, SeqEqual

LEMMA TailFront ==
    ASSUME NEW V, NEW s \in Seq(V), Len(s) > 1
    PROVE  /\ Tail(s) # <<>> /\ Last(Tail(s)) = Last(s)
           /\ Tail(SubSeq(s, 1, Len(s) - 1)) = SubSeq(Tail(s), 1, Len(Tail(s)) - 1)
  <1>1. PICK n \in Nat : n = Len(s) /\ n > 1 /\ s # <<>>
    BY EmptySeq
  <1>2. PICK t \in Seq(V) : t = Tail(s) /\ Len(t) = n - 1 /\ \A i \in 1..(n - 1) : t[i] = s[i + 1]
    <2>1. /\ Tail(s) \in Seq(V) /\ Len(Tail(s)) = Len(s) - 1
          /\ \A i \in 1..(Len(s) - 1) : Tail(s)[i] = s[i + 1]
      BY <1>1, HeadTailProperties
    <2> QED
      BY <2>1, <1>1
  <1>3. t # <<>>
    BY <1>1, <1>2, EmptySeq
  <1>4. PICK f \in Seq(V) : /\ f = SubSeq(s, 1, Len(s) - 1) /\ Len(f) = n - 1
                            /\ \A i \in 1..(n - 1) : f[i] = s[i]
    <2>1. /\ Front(s) \in Seq(V) /\ Front(s) = SubSeq(s, 1, Len(s) - 1)
          /\ Len(Front(s)) = Len(s) - 1
          /\ \A i \in 1..(Len(s) - 1) : Front(s)[i] = s[i]
      BY <1>1, LastFront
    <2> QED
      BY <2>1, <1>1
  <1>5. f # <<>>
    <2>1. Len(f) # 0
      BY <1>1, <1>4
    <2> QED
      BY <2>1, EmptySeq
  <1>6. PICK u \in Seq(V) : u = Tail(f) /\ Len(u) = n - 2 /\ \A i \in 1..(n - 2) : u[i] = f[i + 1]
    <2>1. Tail(f) \in Seq(V) /\ Len(Tail(f)) = (n - 1) - 1
          /\ \A i \in 1..((n - 1) - 1) : Tail(f)[i] = f[i + 1]
      BY <1>4, <1>5, HeadTailProperties
    <2>2. (n - 1) - 1 = n - 2
      OBVIOUS
    <2> QED
      BY <2>1, <2>2
  <1>7. PICK g \in Seq(V) : /\ g = SubSeq(t, 1, Len(t) - 1) /\ Len(g) = n - 2
                            /\ \A i \in 1..(n - 2) : g[i] = t[i]
    <2>1. /\ Front(t) \in Seq(V) /\ Front(t) = SubSeq(t, 1, Len(t) - 1)
          /\ Len(Front(t)) = Len(t) - 1
          /\ \A i \in 1..(Len(t) - 1) : Front(t)[i] = t[i]
      BY <1>3, LastFront
    <2>2. Len(t) - 1 = n - 2
      BY <1>2
    <2> QED
      BY <2>1, <2>2
  <1>8. ASSUME NEW i \in 1..(n - 2)
        PROVE  u[i] = g[i]
    <2>1. i + 1 \in 1..(n - 1) /\ i \in 1..(n - 1)
      BY <1>1
    <2> QED
      BY <2>1, <1>2, <1>4, <1>6, <1>7
  <1>9. u = g
    BY <1>6, <1>7, <1>8, SeqEqual
  <1>10. Last(t) = Last(s)
    <2>1. Last(t) = t[n - 1] /\ Last(s) = s[n]
      BY <1>1, <1>2 DEF Last
    <2>2. n - 1 \in 1..(n - 1) /\ (n - 1) + 1 = n
      BY <1>1
    <2> QED
      BY <2>1, <2>2, <1>2
  <1> QED
    BY <1>2, <1>3, <1>4, <1>6, <1>7, <1>9, <1>10

\* The slot that is being filled does not count as a character.
LEMMA SettledFacts ==
    ASSUME Types
    PROVE  /\ buffer \in QueueOf(Chars) /\ Settled \in QueueOf(Chars)
           /\ ~ Filling => Settled = buffer
           /\ Filling => Settled = Drop(buffer)
           /\ ~ Filling' => Settled' = buffer'
           /\ Filling' => Settled' = Drop(buffer')
  <1>1. buffer \in QueueOf(Chars)
    BY TypesParts DEF DataTypes
  <1>2. Drop(buffer) \in QueueOf(Chars)
    BY <1>1, DropContent
  <1> QED
    BY <1>1, <1>2 DEF Settled

\* What a key does to the characters, whether or not a slot is being filled.
LEMMA KeySettled ==
    ASSUME Types, Filling => ~ tty_isempty_q(buffer), NEW ch \in Chars, UNCHANGED pc
    PROVE  /\ buffer' = tty_push_q(buffer, ch) =>
                 IF tty_isfull_q(buffer)
                 THEN /\ Settled' = Settled
                      /\ Len(Content(Settled)) = IF Filling THEN N - 2 ELSE N - 1
                 ELSE Content(Settled') = Append(Content(Settled), ch)
           /\ /\ ~ tty_isempty_q(buffer) /\ buffer' = Erased(buffer)
              /\ Filling => Length(buffer) # 1
              => /\ Content(Settled) # <<>> /\ Last(Content(Settled)) = Last(Content(buffer))
                 /\ Content(Settled')
                       = SubSeq(Content(Settled), 1, Len(Content(Settled)) - 1)
  <1>1. PICK q \in QueueOf(Chars) : q = buffer
    BY SettledFacts
  <1>2. PICK c \in Seq(Chars) : c = Content(q) /\ Len(c) = Length(q)
    BY ContentFacts
  <1>3. Filling' = Filling
    BY DEF Filling
  <1>4. CASE ~ Filling
    <2>1. Settled = q /\ Settled' = buffer'
      BY <1>1, <1>3, <1>4, SettledFacts
    <2>2. ASSUME buffer' = tty_push_q(q, ch), tty_isfull_q(q)
          PROVE  Settled' = Settled /\ Len(Content(Settled)) = N - 1
      BY <1>2, <2>1, <2>2, PushContent, LengthFacts
    <2>3. ASSUME buffer' = tty_push_q(q, ch), ~ tty_isfull_q(q)
          PROVE  Content(Settled') = Append(Content(Settled), ch)
      BY <2>1, <2>3, PushContent
    <2>4. ASSUME ~ tty_isempty_q(q), buffer' = Erased(q)
          PROVE  /\ Content(Settled) # <<>> /\ Last(Content(Settled)) = Last(Content(q))
                 /\ Content(Settled') = SubSeq(Content(Settled), 1, Len(Content(Settled)) - 1)
      BY <2>1, <2>4, ErasedContent
    <2> QED
      BY <1>1, <1>4, <2>2, <2>3, <2>4
  <1>5. CASE Filling
    <2>1. Settled = Drop(q) /\ Settled' = Drop(buffer')
      BY <1>1, <1>3, <1>5, SettledFacts
    <2>2. c # <<>> /\ Content(Settled) = Tail(c) /\ ~ tty_isempty_q(q)
      BY <1>1, <1>2, <1>5, <2>1, DropContent
    <2>3. ASSUME buffer' = tty_push_q(q, ch), tty_isfull_q(q)
          PROVE  Settled' = Settled /\ Len(Content(Settled)) = N - 2
      <3>1. Settled' = Settled
        BY <2>1, <2>3, PushContent
      <3>2. PICK n \in Nat : n = Len(c) /\ n = N - 1
        BY <1>2, <2>3, LengthFacts, Size
      <3>3. Len(Tail(c)) = n - 1
        BY <2>2, <3>2, HeadTailProperties
      <3> QED
        BY <2>2, <3>1, <3>2, <3>3, Size
    <2>4. ASSUME buffer' = tty_push_q(q, ch), ~ tty_isfull_q(q)
          PROVE  Content(Settled') = Append(Content(Settled), ch)
      <3>1. PICK p \in QueueOf(Chars) : p = buffer' /\ Content(p) = Append(c, ch)
        BY <1>2, <2>4, PushContent
      <3>2. ~ tty_isempty_q(p)
        BY <2>2, <2>4, <3>1, KeepsSome
      <3>3. Content(Drop(p)) = Tail(Append(c, ch))
        BY <3>1, <3>2, DropContent
      <3> QED
        BY <2>1, <2>2, <3>1, <3>3, TailAppend
    <2>5. ASSUME buffer' = Erased(q), Length(q) # 1
          PROVE  /\ Content(Settled) # <<>> /\ Last(Content(Settled)) = Last(Content(q))
                 /\ Content(Settled') = SubSeq(Content(Settled), 1, Len(Content(Settled)) - 1)
      <3>1. PICK p \in QueueOf(Chars) : p = buffer' /\ Content(p) = SubSeq(c, 1, Len(c) - 1)
        BY <1>2, <2>2, <2>5, ErasedContent
      <3>2. ~ tty_isempty_q(p)
        BY <2>2, <2>5, <3>1, KeepsSome
      <3>3. Content(Drop(p)) = Tail(SubSeq(c, 1, Len(c) - 1))
        BY <3>1, <3>2, DropContent
      <3>4. Len(c) > 1
        <4>1. PICK n \in Nat : n = Len(c) /\ n # 0
          BY <2>2, EmptySeq
        <4> QED
          BY <4>1, <1>2, <2>5
      <3> QED
        BY <1>2, <2>1, <2>2, <3>1, <3>3, <3>4, TailFront
    <2> QED
      BY <1>1, <1>5, <2>3, <2>4, <2>5
  <1> QED
    BY <1>4, <1>5

LEMMA PendingFacts ==
    ASSUME Types, NEW r \in Tasks
    PROVE  /\ Settled \in QueueOf(Chars) /\ Content(Settled) \in Seq(Chars)
           /\ tmpbuf[r] \in Seq(Chars) /\ Pending(r) \in Seq(Chars)
           /\ Len(Pending(r)) = Len(tmpbuf[r]) + Len(Content(Settled))
  <1>1. Settled \in QueueOf(Chars) /\ tmpbuf[r] \in Seq(Chars)
    BY SettledFacts, TypesParts DEF DataTypes
  <1>2. PICK c \in Seq(Chars) : c = Content(Settled)
    BY <1>1, ContentFacts
  <1>3. tmpbuf[r] \o c \in Seq(Chars) /\ Len(tmpbuf[r] \o c) = Len(tmpbuf[r]) + Len(c)
    BY <1>1, ConcatProperties
  <1> QED
    BY <1>1, <1>2, <1>3 DEF Pending

\* Steps that leave the buffer alone, outside the filling of a slot.
LEMMA PendingSame ==
    ASSUME Types, NEW r, Readers = {r}, UNCHANGED <<buffer, tmpbuf>>,
           pc'[r] = "fill" <=> pc[r] = "fill"
    PROVE  Pending(r)' = Pending(r)
  <1>1. Filling' <=> Filling
    BY DEF Filling
  <1> QED
    BY <1>1, SettledFacts DEF Pending

LEMMA LineKey ==
    ASSUME Types, NEW r, Readers = {r}, ReadingOf(r), NEW ch \in Keys, keyboard_interrupt(ch),
           orderly'
    PROVE  LineStep
  <1>1. r \in Tasks /\ ch \in Chars
    BY DEF Tasks, Chars
  <1>2. UNCHANGED <<pc, nr, tmpbuf, got>> /\ orderly
    BY DEF keyboard_interrupt, Character, Enter, Backspace, Key
  <1>3. PICK c \in Seq(Chars) : c = Content(Settled)
    BY <1>1, PendingFacts
  <1>4. PICK s \in Seq(Chars) : s = tmpbuf[r] /\ tmpbuf'[r] = s /\ Pending(r) = s \o c
    BY <1>1, <1>2, <1>3, PendingFacts DEF Pending
  <1>5. Filling <=> pc[r] = "fill"
    BY DEF Filling
  <1>6. Filling => ~ tty_isempty_q(buffer)
    BY <1>2, <1>5 DEF ReadingOf
  <1>7. CASE Character(ch) \/ Enter(ch)
    <2>1. buffer' = tty_push_q(buffer, ch) /\ orderly' = orderly
      BY <1>7 DEF Character, Enter
    <2>2. CASE tty_isfull_q(buffer)
      <3>1. Settled' = Settled /\ Len(c) = IF Filling THEN N - 2 ELSE N - 1
        BY <1>1, <1>2, <1>3, <1>6, <2>1, <2>2, KeySettled
      <3>2. Pending(r)' = Pending(r)
        BY <1>2, <3>1 DEF Pending
      <3>3. PICK m \in Nat : m = Len(s)
        OBVIOUS
      <3>4. Filling => m # 0
        BY <1>1, <1>4, <1>5, <3>3, TypesParts, EmptySeq DEF Holding
      <3>5. PICK n \in Nat : n = Len(c)
        OBVIOUS
      <3>6. Len(Pending(r)) = m + n
        BY <1>1, <1>3, <1>4, <3>3, <3>5, PendingFacts
      <3>7. m + n >= N - 1
        BY <3>1, <3>4, <3>5, Size
      <3>8. Line!Type(ch)
        BY <1>2, <2>1, <3>2, <3>6, <3>7, LineViews DEF N
      <3> QED
        BY <3>8 DEF LineStep, Line!Next
    <2>3. CASE ~ tty_isfull_q(buffer)
      <3>1. Content(Settled') = Append(c, ch)
        BY <1>1, <1>2, <1>3, <1>6, <2>1, <2>3, KeySettled
      <3>2. Pending(r)' = s \o Append(c, ch)
        BY <1>4, <3>1 DEF Pending
      <3>3. Pending(r)' = Append(Pending(r), ch)
        <4>1. s \o Append(c, ch) = Append(s \o c, ch)
          BY <1>1, ConcatAppend
        <4> QED
          BY <1>4, <3>2, <4>1
      <3>4. Line!Type(ch)
        BY <1>2, <2>1, <3>3, LineViews
      <3> QED
        BY <3>4 DEF LineStep, Line!Next
    <2> QED
      BY <2>2, <2>3
  <1>8. CASE Backspace(ch)
    <2>1. CASE CanErase
      <3>1. /\ ~ tty_isempty_q(buffer) /\ buffer' = Erased(buffer)
            /\ orderly' = (orderly /\ ~ Disturbs)
        BY <1>8, <2>1 DEF Backspace, CanErase, Erased
      <3>2. /\ orderly' = orderly /\ Last(Content(buffer)) # NL
            /\ Filling => Length(buffer) # 1
        BY <3>1 DEF Disturbs, Types, Filling
      <3>3. /\ c # <<>> /\ Last(c) # NL
            /\ Content(Settled') = SubSeq(c, 1, Len(c) - 1)
        BY <1>1, <1>2, <1>3, <1>6, <3>1, <3>2, KeySettled
      <3>4. Pending(r)' = s \o SubSeq(c, 1, Len(c) - 1)
        BY <1>4, <3>3 DEF Pending
      <3>5. /\ s \o SubSeq(c, 1, Len(c) - 1) = SubSeq(s \o c, 1, Len(s \o c) - 1)
            /\ s \o c # <<>> /\ (s \o c)[Len(s \o c)] = c[Len(c)]
        BY <3>3, EraseLast
      <3>6. c[Len(c)] # NL
        BY <3>3 DEF Last
      <3>7. Line!Erase
        BY <1>2, <1>4, <3>2, <3>4, <3>5, <3>6, LineViews
      <3> QED
        BY <3>7 DEF LineStep, Line!Next
    <2>2. CASE ~ CanErase
      <3>1. UNCHANGED <<buffer, orderly>>
        BY <1>8, <2>2 DEF Backspace
      <3>2. Pending(r)' = Pending(r)
        BY <1>2, <3>1, PendingSame
      <3>3. SeenSame(r)
        BY <1>2, <3>1, <3>2 DEF SeenSame
      <3> QED
        BY <3>3, LineViews DEF LineStep
    <2> QED
      BY <2>1, <2>2
  <1> QED
    BY <1>7, <1>8 DEF keyboard_interrupt

LEMMA LineTake ==
    ASSUME Types, NEW r, Readers = {r}, ReadingOf(r), Take(r), orderly'
    PROVE  LineStep
  <1>1. r \in Tasks /\ orderly' = orderly /\ pc[r] = "take"
    BY DEF Tasks, Take
  <1>2. /\ pc \in [Tasks -> Points] /\ nr \in [Tasks -> Nat] /\ got \in [Tasks -> Seq(Chars)]
        /\ tmpbuf \in [Tasks -> Seq(Chars)]
    BY TypesParts DEF SleepTypes, DataTypes
  <1>3. ~ tty_isempty_q(buffer)
    BY <1>1 DEF ReadingOf
  <1>4. pc'[r] # "fill"
    BY <1>1, <1>2 DEF Take, Goes
  <1>5. Settled = buffer /\ Settled' = buffer' /\ buffer \in QueueOf(Chars)
    BY <1>1, <1>4, SettledFacts DEF Filling
  <1>6. PICK c \in Seq(Chars) : c = Content(Settled) /\ c # <<>>
    BY <1>3, <1>5, DropContent, ContentFacts
  <1>7. buffer' = Drop(buffer) /\ tty_queue_head(buffer) = Head(c) /\ Content(Settled') = Tail(c)
    BY <1>1, <1>3, <1>6, <1>5, DropContent DEF Take
  <1>8. PICK s \in Seq(Chars) : s = tmpbuf[r] /\ Pending(r) = s \o c
    BY <1>1, <1>6, PendingFacts DEF Pending
  <1>9. CASE nr[r] <= 0
    <2>1. /\ tmpbuf'[r] = Append(s, Head(c)) /\ got' = got /\ nr' = nr /\ nr[r] = 0
          /\ pc'[r] = IF Head(c) = NL THEN "unread" ELSE "pop"
      BY <1>1, <1>2, <1>7, <1>8, <1>9 DEF Take, Goes
    <2>2. Pending(r)' = Append(s, Head(c)) \o Tail(c)
      BY <1>7, <2>1 DEF Pending
    <2>3. Pending(r)' = Pending(r)
      BY <1>6, <1>8, <2>2, ShiftHead
    <2>4. CASE Head(c) = NL
      <3>1. Len(s) + 1 \in 1..Len(s \o c) /\ (s \o c)[Len(s) + 1] = NL
        BY <1>6, <2>4, ShiftHead
      <3>2. Line!SeeEnd
        BY <1>1, <1>8, <2>1, <2>3, <2>4, <3>1, LineEnds
      <3> QED
        BY <3>2 DEF LineStep, Line!Next
    <2>5. CASE Head(c) # NL
      <3>1. SeenSame(r)
        BY <1>1, <2>1, <2>3, <2>5 DEF SeenSame, EndPoints
      <3> QED
        BY <3>1, LineViews DEF LineStep
    <2> QED
      BY <2>4, <2>5
  <1>10. CASE ~ (nr[r] <= 0)
    <2>1. nr[r] > 0 /\ nr[r] # 0
      BY <1>1, <1>2, <1>10
    <2>2. s = <<>> /\ tmpbuf' = tmpbuf
      BY <1>8, <1>10, <2>1 DEF ReadingOf, Take
    <2>3. /\ got'[r] = Append(got[r], Head(c)) /\ nr'[r] = nr[r] - 1
          /\ pc'[r] = IF Head(c) = NL /\ nr[r] = 1 THEN "return" ELSE "pop"
      BY <1>1, <1>2, <1>7, <1>10 DEF Take, Goes
    <2>4. Pending(r) = c
      BY <1>8, <2>2, ConcatEmptySeq
    <2>5. Tail(c) \in Seq(Chars)
      BY <1>6, HeadTailProperties
    <2>6. Pending(r)' = <<>> \o Tail(c)
      BY <1>7, <1>8, <2>2 DEF Pending
    <2>7. Pending(r)' = Tail(c)
      BY <2>5, <2>6, ConcatEmptySeq
    <2>8. Line!Deliver
      BY <1>1, <1>6, <2>1, <2>3, <2>4, <2>7, LineEnds
    <2> QED
      BY <2>8 DEF LineStep, Line!Next
  <1> QED
    BY <1>9, <1>10

LEMMA LineUnread ==
    ASSUME Types, NEW r, Readers = {r}, ReadingOf(r), PutsBack(r), orderly'
    PROVE  LineStep
  <1>1. /\ r \in Tasks /\ UNCHANGED <<got, nr>> /\ orderly /\ orderly' = orderly
        /\ ~ Overrun(r)
    BY DEF Tasks, PutsBack, Unread, StepsBack, Fills, Overrun, hist, Types
  <1>2. pc \in [Tasks -> Points] /\ tmpbuf \in [Tasks -> Seq(Chars)]
    BY TypesParts DEF SleepTypes, DataTypes
  <1>3. PICK q \in QueueOf(Chars) : q = buffer
    BY SettledFacts
  <1>4. (Filling <=> pc[r] = "fill") /\ (Filling' <=> pc'[r] = "fill")
    BY DEF Filling
  <1>5. ASSUME Pending(r)' = Pending(r), pc[r] \in EndPoints, pc'[r] \in EndPoints
        PROVE  LineStep
    <2>1. SeenSame(r)
      BY <1>1, <1>5 DEF SeenSame, EndPoints
    <2> QED
      BY <2>1, LineViews DEF LineStep
  <1>6. CASE Unread(r) /\ ~ (tmpbuf[r] # <<>> /\ tty_isfull_q(q))
    <2>1. /\ UNCHANGED <<buffer, tmpbuf>> /\ pc[r] = "unread" /\ pc'[r] \in {"return", "front"}
      BY <1>1, <1>2, <1>3, <1>6 DEF Unread, Goes, queues
    <2>2. Pending(r)' = Pending(r)
      BY <2>1, PendingSame
    <2> QED
      BY <1>5, <2>1, <2>2 DEF EndPoints
  <1>7. CASE Unread(r) /\ tmpbuf[r] # <<>> /\ tty_isfull_q(q)
    <2>1. PICK s \in Seq(Chars) : s = tmpbuf[r] /\ s # <<>>
      BY <1>1, <1>2, <1>7
    <2>2. /\ pc[r] = "unread" /\ pc'[r] = "unread" /\ tmpbuf'[r] = Front(s) /\ buffer' = q
      BY <1>1, <1>2, <1>3, <1>7, <2>1 DEF Unread, Goes, queues
    <2>3. Settled = q /\ Settled' = q
      BY <1>3, <1>4, <2>2, SettledFacts
    <2>4. PICK c \in Seq(Chars) : c = Content(q) /\ Len(c) = Length(q)
      BY ContentFacts
    <2>5. Pending(r) = s \o c
      BY <2>1, <2>3, <2>4 DEF Pending
    <2>6. PICK n \in Nat : n = Len(c) /\ n = N - 1 /\ n > 0
      BY <1>7, <2>4, LengthFacts, Size
    <2>7. c # <<>>
      <3>1. Len(c) # 0
        BY <2>6
      <3> QED
        BY <3>1
    <2>8. PICK m \in Nat : m = Len(s) /\ m > 0
      BY <2>1, EmptySeq
    <2>9. Len(Pending(r)) = m + n
      BY <2>5, <2>6, <2>8, ConcatProperties
    <2>10. m \in 1..(m + n - (N - 1))
      BY <2>6, <2>8, Size
    <2>11. Pending(r)' = Front(s) \o c
      BY <2>2, <2>3, <2>4 DEF Pending
    <2>12. Pending(r)' = SubSeq(Pending(r), 1, m - 1) \o SubSeq(Pending(r), m + 1, Len(Pending(r)))
      <3>1. Front(s) \o c
              = SubSeq(s \o c, 1, Len(s) - 1) \o SubSeq(s \o c, Len(s) + 1, Len(s \o c))
        BY <2>1, <2>7, LoseLast
      <3> QED
        BY <2>5, <2>8, <2>11, <3>1
    <2>13. m \in 1..(Len(Pending(r)) - (TTY_BUF_SIZE - 1))
      <3>1. Len(Pending(r)) - (TTY_BUF_SIZE - 1) = m + n - (N - 1)
        <4>1. TTY_BUF_SIZE = N
          BY DEF N
        <4> QED
          BY <2>9, <4>1, Size
      <3> QED
        BY <2>10, <3>1
    <2>14. Line!Overflow
      BY <1>1, <2>2, <2>12, <2>13, LineEnds
    <2> QED
      BY <2>14 DEF LineStep, Line!Next
  <1>8. CASE StepsBack(r)
    <2>1. /\ pc[r] = "front" /\ pc'[r] = "fill" /\ buffer' = StepBack(q) /\ UNCHANGED tmpbuf
      BY <1>1, <1>2, <1>3, <1>8 DEF StepsBack, Goes
    <2>2. Settled' = q
      BY <1>4, <2>1, SettledFacts, StepBackContent
    <2>3. Pending(r)' = Pending(r)
      BY <1>3, <1>4, <2>1, <2>2, SettledFacts DEF Pending
    <2> QED
      BY <1>5, <2>1, <2>3 DEF EndPoints
  <1>9. CASE Fills(r)
    <2>1. PICK s \in Seq(Chars) : s = tmpbuf[r] /\ s # <<>>
      BY <1>1, <1>2, <1>9, TypesParts DEF Holding, Fills
    <2>2. /\ pc[r] = "fill" /\ pc'[r] = "unread" /\ tmpbuf'[r] = Front(s)
          /\ buffer' = FillHead(q, Last(s)) /\ ~ tty_isempty_q(q)
      BY <1>1, <1>2, <1>3, <1>9, <2>1 DEF Fills, Goes, ReadingOf
    <2>3. PICK c \in Seq(Chars) : c = Content(Settled)
      BY SettledFacts, ContentFacts
    <2>4. Pending(r) = s \o c /\ Settled = Drop(q) /\ Settled' = buffer'
      BY <1>3, <1>4, <2>1, <2>2, <2>3, SettledFacts DEF Pending
    <2>5. Last(s) \in Chars
      BY <2>1, LastFront
    <2>6. Content(Settled') = <<Last(s)>> \o c
      BY <2>2, <2>3, <2>4, <2>5, FillContent
    <2>7. Pending(r)' = Front(s) \o (<<Last(s)>> \o c)
      BY <2>2, <2>6 DEF Pending
    <2>8. Pending(r)' = Pending(r)
      BY <2>1, <2>4, <2>7, ShiftLast
    <2> QED
      BY <1>5, <2>2, <2>8 DEF EndPoints
  <1> QED
    BY <1>1, <1>6, <1>7, <1>8, <1>9, <1>3 DEF PutsBack

LEMMA LineTask ==
    ASSUME Types, Roles, NEW r, Readers = {r}, r \notin Writers, SleepingOf(r), ReadingOf(r),
           \/ \E n \in Counts : tty_read(r, n) \/ _user_tty_write(r, n)
           \/ InKernel(r) \/ Resumes(r) \/ WakeBySignal(r) \/ SendSignal(r),
           orderly'
    PROVE  LineStep
  <1>1. r \in Tasks /\ r \in Readers /\ Readers \cap Writers = {}
    BY DEF Tasks
  <1>2. pc \in [Tasks -> Points] /\ nr \in [Tasks -> Nat]
    BY TypesParts DEF SleepTypes, DataTypes
  <1>3. wait_proc.buffer \in {r, NONE}
    BY <1>1 DEF Roles
  <1>4. ~ (Push(r) \/ Pushed(r) \/ Drain(r) \/ WriterPops(r) \/ Load(r) \/ WriterDrops(r)
             \/ WriterResumes(r))
    BY <1>1, WhoSteps
  <1>5. ASSUME UNCHANGED <<buffer, tmpbuf, got, nr, orderly>>,
               pc[r] \in {"pop", "asleep"}, pc'[r] \in {"pop", "asleep", "take", "panic"}
        PROVE  LineStep
    <2>1. SeenSame(r)
      BY <1>5, PendingSame DEF SeenSame, EndPoints
    <2> QED
      BY <2>1, LineViews DEF LineStep
  <1>6. CASE \E n \in Counts : tty_read(r, n) \/ _user_tty_write(r, n)
    <2>1. PICK n \in Counts : tty_read(r, n)
      BY <1>6 DEF _user_tty_write
    <2>2. n \in Nat
      BY TtyAssumption
    <2>3. /\ pc[r] = "user" /\ pc'[r] = "pop" /\ nr'[r] = n
          /\ UNCHANGED <<buffer, tmpbuf, got, orderly>>
      BY <1>1, <1>2, <2>1 DEF tty_read, queues, hist
    <2>4. Line!Call
      BY <2>2, <2>3, LineViews, PendingSame
    <2> QED
      BY <2>4 DEF LineStep, Line!Next
  <1>7. CASE sleep_if_empty(r)
    <2>1. pc[r] = "pop" /\ UNCHANGED <<buffer, tmpbuf, got, nr, orderly>>
      BY <1>7 DEF sleep_if_empty, queues, hist
    <2>2. pc'[r] \in {"asleep", "take", "panic"}
      BY <1>1, <1>2, <1>7 DEF sleep_if_empty, interruptible_sleep_on, Goes
    <2> QED
      BY <1>5, <2>1, <2>2
  <1>8. CASE ReaderResumes(r)
    <2>1. /\ pc[r] = "asleep" /\ pc'[r] = "pop"
          /\ UNCHANGED <<buffer, tmpbuf, got, nr, orderly>>
      BY <1>1, <1>2, <1>3, <1>8 DEF ReaderResumes, Resume, queues, hist
    <2> QED
      BY <1>5, <2>1
  <1>9. CASE Return(r)
    <2>1. /\ pc[r] = "return" /\ pc'[r] = "user"
          /\ UNCHANGED <<buffer, tmpbuf, got, nr, orderly>>
      BY <1>1, <1>2, <1>9 DEF Return, queues, hist
    <2>2. Line!Return
      BY <2>1, LineViews, PendingSame
    <2> QED
      BY <2>2 DEF LineStep, Line!Next
  <1>10. CASE WakeBySignal(r)
    <2>1. UNCHANGED <<buffer, tmpbuf, got, nr, orderly, pc>>
      BY <1>10 DEF WakeBySignal, queues, hist
    <2>2. SeenSame(r)
      BY <2>1, PendingSame DEF SeenSame
    <2> QED
      BY <2>2, LineViews DEF LineStep
  <1>11. CASE SendSignal(r)
    BY <1>1, <1>11 DEF SendSignal
  <1> QED
    BY <1>4, <1>6, <1>7, <1>8, <1>9, <1>10, <1>11, LineTake, LineUnread
       DEF InKernel, PutsBack, Resumes

LEMMA LineRefines ==
    ASSUME ReaderInv, OneReader, Next \/ UNCHANGED core
    PROVE  LineStep
  <1>1. PICK r : Readers = {r} /\ r \notin Writers /\ r \in Tasks
    BY DEF OneReader, Tasks
  <1>2. Readers \cap Writers = {} /\ Types /\ Roles /\ SleepingOf(r) /\ ReadingOf(r)
    BY <1>1, ReaderParts DEF ReaderInv, TtyInv
  <1>3. CASE ~ orderly'
    BY <1>1, <1>3, LineViews DEF LineStep, Line!Next
  <1>4. CASE orderly'
    <2>1. ASSUME NEW ch \in Keys, keyboard_interrupt(ch)
          PROVE  LineStep
      BY <1>1, <1>2, <1>4, <2>1, LineKey
    <2>2. ASSUME NEW t \in Tasks,
                 \/ \E n \in Counts : tty_read(t, n) \/ _user_tty_write(t, n)
                 \/ InKernel(t) \/ Resumes(t) \/ WakeBySignal(t) \/ SendSignal(t)
          PROVE  LineStep
      <3>1. CASE t = r
        BY <1>1, <1>2, <1>4, <2>2, <3>1, LineTask
      <3>2. CASE t # r
        <4>1. t \in Writers /\ r \in Readers
          BY <1>1, <3>2 DEF Tasks
        <4>2. Other(r)
          BY <1>2, <2>2, <4>1, WriterStep
        <4>3. SeenSame(r)
          BY <1>1, <1>2, <4>2, PendingSame DEF Other, SeenSame
        <4> QED
          BY <1>1, <4>3, LineViews DEF LineStep
      <3> QED
        BY <3>1, <3>2
    <2>3. CASE UNCHANGED core
      <3>1. SeenSame(r)
        BY <1>1, <1>2, <2>3, PendingSame DEF core, queues, hist, SeenSame
      <3> QED
        BY <1>1, <3>1, LineViews DEF LineStep
    <2> QED
      BY <2>1, <2>2, <2>3 DEF Next, TaskStep
  <1> QED
    BY <1>3, <1>4

LEMMA LineStarts ==
    ASSUME Init, OneReader
    PROVE  Line!Init
  <1>1. PICK r : Readers = {r} /\ r \in Tasks
    BY DEF OneReader, Tasks
  <1>2. (CHOOSE t \in Readers : TRUE) = r
    BY <1>1
  <1>3. buffer \in QueueOf(Chars) /\ tty_isempty_q(buffer)
    BY TypesInit, TypesParts DEF Init, DataTypes, Empty, tty_isempty_q
  <1>4. Settled = buffer
    BY <1>1 DEF Init, Settled, Filling
  <1>5. Content(Settled) = <<>> /\ tmpbuf[r] = <<>>
    BY <1>1, <1>3, <1>4, ContentFacts DEF Init
  <1>6. tmpbuf[r] \o Content(Settled) = <<>>
    BY <1>5
  <1> QED
    BY <1>1, <1>2, <1>6 DEF Init, Line!Init

\* With one reader the terminal implements LineInput, for any buffer size and
\* whatever is written meanwhile: while orderly holds, the circular queue, the
\* sleeps, the put-back loop and the interrupts between their steps keep every
\* character the buffer has room for and the order, and a read ends only with a
\* line.  orderly ends with a Backspace that hits the character being popped or
\* put back or the end of a line, with a signal to the reader, with a key that
\* takes the last free slot between tty_push_q_front's test and its move of
\* head, and with a character written behind the end of tmpbuf.
THEOREM LinesAreKept ==
    ASSUME OneReader
    PROVE  KeyboardSpec => LineDiscipline
  <1>1. KeyboardInit => Line!Init
    BY LineStarts DEF KeyboardInit
  <1>2. ReaderInv /\ [KeyboardNext]_<<vars, kvars>> => [Line!Next]_Line!vars
    BY LineRefines, KeyboardStep DEF LineStep
  <1> QED
    BY <1>1, <1>2, ReaderCorrect, PTL DEF KeyboardSpec, LineDiscipline, Line!Spec

-----------------------------------------------------------------------------
(* How often a character occurs.                                           *)

Below == {ss \in Nat \X Nat : ss[1] < ss[2]}

\* A set of naturals that is not empty has a least member.
LEMMA LeastMember ==
    ASSUME NEW T, T \subseteq Nat, T # {}
    PROVE  \E m \in T : \A k \in T : m <= k
  <1>1. IsWellFoundedOn(Below, Nat)
    BY NatLessThanWellFounded DEF OpToRel, Below
  <1>2. PICK m \in T : \A k \in T : <<k, m>> \notin Below
    BY <1>1, WFMin
  <1>3. \A k \in T : ~(k < m)
    BY <1>2 DEF Below
  <1> QED
    BY <1>3

LEMMA OccurAppend ==
    ASSUME NEW V, NEW s \in Seq(V), NEW x \in V, NEW ch
    PROVE  /\ IsFiniteSet(Positions(s, ch))
           /\ Occurrences(s, ch) \in Nat
           /\ Occurrences(Append(s, x), ch) = Occurrences(s, ch) + (IF x = ch THEN 1 ELSE 0)
  <1>1. PICK n \in Nat : n = Len(s)
    BY LenProperties
  <1>2. Positions(s, ch) \subseteq 1..n
    BY <1>1 DEF Positions
  <1>3. IsFiniteSet(1..n)
    <2>1. 1 \in Int /\ n \in Int
      OBVIOUS
    <2> QED
      BY <2>1, FS_Interval
  <1>4. IsFiniteSet(Positions(s, ch)) /\ Occurrences(s, ch) \in Nat
    BY <1>2, <1>3, FS_Subset, FS_CardinalityType DEF Occurrences
  <1>5. PICK l : l = Append(s, x) /\ Len(l) = n + 1 /\ l[n + 1] = x /\ \A i \in 1..n : l[i] = s[i]
    <2>1. /\ Len(Append(s, x)) = Len(s) + 1 /\ Append(s, x)[Len(s) + 1] = x
          /\ \A i \in 1..Len(s) : Append(s, x)[i] = s[i]
      BY AppendProperties
    <2> QED
      BY <1>1, <2>1
  <1>6. Positions(l, ch) = IF x = ch THEN Positions(s, ch) \cup {n + 1} ELSE Positions(s, ch)
    <2>1. 1..(n + 1) = (1..n) \cup {n + 1}
      OBVIOUS
    <2> QED
      BY <1>1, <1>5, <2>1 DEF Positions
  <1>7. n + 1 \notin Positions(s, ch)
    BY <1>2
  <1>8. Cardinality(Positions(s, ch) \cup {n + 1}) = Cardinality(Positions(s, ch)) + 1
    BY <1>4, <1>7, FS_AddElement
  <1>9. Occurrences(l, ch) = Occurrences(s, ch) + (IF x = ch THEN 1 ELSE 0)
    <2>1. CASE x = ch
      BY <1>6, <1>8, <2>1 DEF Occurrences
    <2>2. CASE x # ch
      <3>1. Occurrences(l, ch) = Occurrences(s, ch)
        BY <1>6, <2>2 DEF Occurrences
      <3> QED
        BY <1>4, <2>2, <3>1
    <2> QED
      BY <2>1, <2>2
  <1> QED
    BY <1>4, <1>5, <1>9

LEMMA OccurEmpty ==
    ASSUME NEW ch
    PROVE  Occurrences(<<>>, ch) = 0
  <1>1. Positions(<<>>, ch) = {}
    BY DEF Positions
  <1> QED
    BY <1>1, FS_EmptySet DEF Occurrences

LEMMA OccurType ==
    ASSUME NEW V, NEW s \in Seq(V), NEW ch
    PROVE  IsFiniteSet(Positions(s, ch)) /\ Occurrences(s, ch) \in Nat
  <1>1. s \in Seq(V \cup {0}) /\ 0 \in V \cup {0}
    BY SeqMonotonic
  <1> QED
    BY <1>1, OccurAppend

LEMMA OccurConcat ==
    ASSUME NEW V, NEW s \in Seq(V), NEW ch
    PROVE  \A t \in Seq(V) : Occurrences(s \o t, ch) = Occurrences(s, ch) + Occurrences(t, ch)
  <1> DEFINE Adds(t) == Occurrences(s \o t, ch) = Occurrences(s, ch) + Occurrences(t, ch)
             T == {n \in Nat : \E t \in Seq(V) : Len(t) = n /\ ~Adds(t)}
  <1>1. T = {}
    <2> SUFFICES ASSUME T # {}
                 PROVE  FALSE
      OBVIOUS
    <2>1. PICK n \in T : \A k \in T : n <= k
      <3>1. T \subseteq Nat
        OBVIOUS
      <3> HIDE DEF T
      <3> QED
        BY <3>1, LeastMember
    <2>2. PICK t \in Seq(V) : Len(t) = n /\ ~Adds(t)
      OBVIOUS
    <2>3. CASE t = <<>>
      <3>1. s \o t = s /\ Occurrences(t, ch) = 0 /\ Occurrences(s, ch) \in Nat
        BY <2>3, ConcatEmptySeq, OccurEmpty, OccurType
      <3> QED
        BY <2>2, <3>1
    <2>4. CASE t # <<>>
      <3>1. PICK f \in Seq(V), x \in V : t = Append(f, x)
        BY <2>4, SequenceEmptyOrAppend
      <3>2. Len(f) \in Nat /\ Len(f) < n
        BY <2>2, <3>1, AppendProperties, LenProperties
      <3>3. Adds(f)
        BY <2>1, <3>2
      <3>4. s \o t = Append(s \o f, x) /\ s \o f \in Seq(V)
        BY <3>1, ConcatAppend, ConcatProperties
      <3>5. PICK u \in Seq(V) : u = s \o f
        BY <3>4
      <3>6. Occurrences(s \o t, ch) = Occurrences(u, ch) + (IF x = ch THEN 1 ELSE 0)
        <4>1. Occurrences(Append(u, x), ch) = Occurrences(u, ch) + (IF x = ch THEN 1 ELSE 0)
          BY OccurAppend
        <4> QED
          BY <3>4, <3>5, <4>1
      <3>7. Occurrences(t, ch) = Occurrences(f, ch) + (IF x = ch THEN 1 ELSE 0)
        BY <3>1, OccurAppend
      <3>8. Occurrences(f, ch) \in Nat /\ Occurrences(s, ch) \in Nat
        BY OccurType
      <3> QED
        BY <2>2, <3>3, <3>5, <3>6, <3>7, <3>8
    <2> QED
      BY <2>3, <2>4
  <1>2. \A t \in Seq(V) : Len(t) \in Nat
    BY LenProperties
  <1> QED
    BY <1>1, <1>2

\* A character in front.
LEMMA OccurPrepend ==
    ASSUME NEW V, NEW s \in Seq(V), NEW x \in V, NEW ch
    PROVE  Occurrences(<<x>> \o s, ch) = (IF x = ch THEN 1 ELSE 0) + Occurrences(s, ch)
  <1>1. PICK d \in Seq(V) : d = <<x>>
    BY Singleton
  <1>2. PICK z \in Seq(V) : z = <<>>
    BY EmptySeq
  <1>3. Occurrences(Append(z, x), ch) = Occurrences(z, ch) + (IF x = ch THEN 1 ELSE 0)
    BY OccurAppend
  <1>4. Append(z, x) = d
    BY <1>1, <1>2
  <1>5. Occurrences(d, ch) = IF x = ch THEN 1 ELSE 0
    BY <1>2, <1>3, <1>4, OccurEmpty
  <1>6. Occurrences(d \o s, ch) = Occurrences(d, ch) + Occurrences(s, ch)
    BY OccurConcat
  <1> QED
    BY <1>1, <1>5, <1>6

\* What Forget takes out is there once less; what is not there stays so.
LEMMA OccurForget ==
    ASSUME NEW V, NEW s \in Seq(V), NEW e
    PROVE  /\ RemoveFirst(s, e) \in Seq(V)
           /\ \A ch : ch # e => Occurrences(RemoveFirst(s, e), ch) = Occurrences(s, ch)
           /\ Occurrences(s, e) > 0 => Occurrences(RemoveFirst(s, e), e) = Occurrences(s, e) - 1
  <1>1. PICK n \in Nat : n = Len(s)
    BY LenProperties
  <1>2. CASE \E i \in 1..n : s[i] = e
    <2> DEFINE I == {i \in 1..Len(s) : s[i] = e}
    <2>1. SelectInSeq(s, LAMBDA v : v = e) = Min(I)
      BY <1>1, <1>2 DEF SelectInSeq
    <2>2. Min(I) \in I
      <3>1. I \subseteq Nat /\ I # {}
        BY <1>1, <1>2
      <3> HIDE DEF I
      <3>2. \E m \in I : \A k \in I : m <= k
        BY <3>1, LeastMember
      <3> QED
        BY <3>2 DEF Min
    <2>3. PICK k \in 1..n : k = Min(I) /\ s[k] = e
      BY <1>1, <2>2
    <2>4. RemoveFirst(s, e) = SubSeq(s, 1, k - 1) \o SubSeq(s, k + 1, n)
      BY <1>1, <1>2, <2>1, <2>3 DEF RemoveFirst, RemoveAt
    <2>5. PICK a \in Seq(V) : a = SubSeq(s, 1, k - 1)
      <3>1. 1 \in Int /\ k - 1 \in Int /\ \A i \in 1..(k - 1) : s[i] \in V
        <4>1. \A i \in 1..(k - 1) : i \in 1..Len(s)
          BY <1>1
        <4> QED
          BY <4>1, ElementOfSeq
      <3> QED
        BY <3>1, SubSeqProperties
    <2>6. PICK b \in Seq(V) : b = SubSeq(s, k + 1, n)
      <3>1. k + 1 \in Int /\ n \in Int /\ \A i \in (k + 1)..n : s[i] \in V
        <4>1. \A i \in (k + 1)..n : i \in 1..Len(s)
          BY <1>1
        <4> QED
          BY <4>1, ElementOfSeq
      <3> QED
        BY <3>1, SubSeqProperties
    <2>7. e \in V
      BY <1>1, <2>3, ElementOfSeq
    <2>8. s = Append(a, e) \o b
      <3>1. 1 \in 1..Len(s) /\ k \in 1..Len(s) /\ 1 \in 1..(Len(s) + 1) /\ k \in (1 - 1)..Len(s)
            /\ n \in k..Len(s) /\ k \in 1..Len(s)
        BY <1>1
      <3>2. SubSeq(s, 1, k) = SubSeq(s, 1, k - 1) \o <<s[k]>>
        BY <3>1, SubSeqRecursiveSecond
      <3>3. Append(a, e) = SubSeq(s, 1, k)
        BY <2>3, <2>5, <2>7, <3>2, AppendIsConcat
      <3>4. SubSeq(s, 1, k) \o SubSeq(s, k + 1, n) = SubSeq(s, 1, n)
        BY <3>1, ConcatAdjacentSubSeq
      <3>5. SubSeq(s, 1, n) = s
        BY <1>1, SubSeqFull
      <3> QED
        BY <2>6, <3>3, <3>4, <3>5
    <2>9. ASSUME NEW ch
          PROVE  Occurrences(s, ch) = Occurrences(a \o b, ch) + (IF e = ch THEN 1 ELSE 0)
      <3>1. Append(a, e) \in Seq(V)
        BY <2>7, AppendProperties
      <3>2. Occurrences(s, ch) = Occurrences(Append(a, e), ch) + Occurrences(b, ch)
        BY <2>8, <3>1, OccurConcat
      <3>3. Occurrences(Append(a, e), ch) = Occurrences(a, ch) + (IF e = ch THEN 1 ELSE 0)
        BY <2>7, OccurAppend
      <3>4. Occurrences(a \o b, ch) = Occurrences(a, ch) + Occurrences(b, ch)
        BY OccurConcat
      <3>5. Occurrences(a, ch) \in Nat /\ Occurrences(b, ch) \in Nat
        BY OccurType
      <3> QED
        BY <3>2, <3>3, <3>4, <3>5
    <2>10. PICK r \in Seq(V) : r = a \o b /\ r = RemoveFirst(s, e)
      BY <2>4, <2>5, <2>6, ConcatProperties
    <2>11. \A ch : Occurrences(r, ch) \in Nat
      BY OccurType
    <2> QED
      BY <2>9, <2>10, <2>11
  <1>3. CASE ~ \E i \in 1..n : s[i] = e
    <2>1. RemoveFirst(s, e) = s
      BY <1>1, <1>3 DEF RemoveFirst
    <2>2. Positions(s, e) = {}
      BY <1>1, <1>3 DEF Positions
    <2>3. Occurrences(s, e) = 0
      BY <2>2, FS_EmptySet DEF Occurrences
    <2> QED
      BY <2>1, <2>3
  <1> QED
    BY <1>2, <1>3

-----------------------------------------------------------------------------
(* Any number of readers: characters are conserved.                        *)

\* What each reader was given and is to put back.
Held(g, b) == [t \in Readers |-> g[t] \o b[t]]
Hands(h, ch) == UNION {{t} \X Positions(h[t], ch) : t \in Readers}

LEMMA InHandsIsHands ==
    /\ \A ch : InHands(ch) = Hands(Held(got, tmpbuf), ch)
    /\ \A ch : (InHands(ch))' = Hands(Held(got', tmpbuf'), ch)
  BY DEF InHands, Hands, Held

\* What the others hold counts apart from one reader's own.
LEMMA HandsSplit ==
    ASSUME NEW h, NEW r \in Readers, NEW ch, \A t \in Readers : h[t] \in Seq(Chars)
    PROVE  \E k \in Nat : \A f :
              f[r] \in Seq(Chars) /\ (\A t \in Readers \ {r} : f[t] = h[t])
                  => Cardinality(Hands(f, ch)) = k + Occurrences(f[r], ch)
  <1> DEFINE Others == UNION {{t} \X Positions(h[t], ch) : t \in Readers \ {r}}
             Own(f) == {r} \X Positions(f[r], ch)
  <1>1. IsFiniteSet(Readers \ {r})
    <2>1. Readers \ {r} \subseteq Tasks
      BY DEF Tasks
    <2> QED
      BY <2>1, TtyAssumption, FS_Subset
  <1>2. \A t \in Readers : IsFiniteSet({t} \X Positions(h[t], ch))
    <2> TAKE t \in Readers
    <2>1. IsFiniteSet(Positions(h[t], ch)) /\ IsFiniteSet({t})
      BY OccurType, FS_Singleton
    <2> QED
      BY <2>1, FS_Product
  <1>3. IsFiniteSet(Others)
    <2> DEFINE F == {{t} \X Positions(h[t], ch) : t \in Readers \ {r}}
               each == [t \in Readers \ {r} |-> {t} \X Positions(h[t], ch)]
    <2>1. IsFiniteSet(F)
      <3>1. each \in Surjection(Readers \ {r}, F)
        BY DEF Surjection
      <3> HIDE DEF F, each
      <3> QED
        BY <1>1, <3>1, FS_Surjection
    <2>2. \A T \in F : IsFiniteSet(T)
      BY <1>2
    <2> HIDE DEF F
    <2>3. IsFiniteSet(UNION F)
      BY <2>1, <2>2, FS_UNION
    <2> QED
      BY <2>3 DEF F
  <1>4. ASSUME NEW f, f[r] \in Seq(Chars), \A t \in Readers \ {r} : f[t] = h[t]
        PROVE  Cardinality(Hands(f, ch)) = Cardinality(Others) + Occurrences(f[r], ch)
    <2>1. Hands(f, ch) = Others \cup Own(f)
      BY <1>4 DEF Hands
    <2>2. Others \cap Own(f) = {}
      OBVIOUS
    <2>3. IsFiniteSet(Own(f)) /\ Cardinality(Own(f)) = Occurrences(f[r], ch)
      <3>1. IsFiniteSet(Positions(f[r], ch)) /\ Occurrences(f[r], ch) \in Nat
        BY <1>4, OccurType
      <3>2. IsFiniteSet({r}) /\ Cardinality({r}) = 1
        BY FS_Singleton
      <3>3. /\ IsFiniteSet(Own(f))
            /\ Cardinality(Own(f)) = Cardinality({r}) * Cardinality(Positions(f[r], ch))
        BY <3>1, <3>2, FS_Product
      <3> QED
        BY <3>1, <3>2, <3>3 DEF Occurrences
    <2> HIDE DEF Others, Own
    <2>4. Cardinality(Others \cup Own(f))
              = Cardinality(Others) + Cardinality(Own(f)) - Cardinality(Others \cap Own(f))
      BY <1>3, <2>3, FS_Union
    <2>5. Cardinality(Others \cap Own(f)) = 0
      BY <2>2, FS_EmptySet
    <2>6. Cardinality(Others) \in Nat /\ Cardinality(Own(f)) \in Nat
      BY <1>3, <2>3, FS_CardinalityType
    <2> QED
      BY <2>1, <2>3, <2>4, <2>5, <2>6
  <1>5. Cardinality(Others) \in Nat
    BY <1>3, FS_CardinalityType
  <1> HIDE DEF Others
  <1> QED
    BY <1>4, <1>5

\* The counts of CharsConserved.
Conserved(h, c, a, ch) ==
    Cardinality(Hands(h, ch)) + Occurrences(c, ch) = Occurrences(a, ch)

LEMMA ConservedCounts ==
    /\ CharsConserved <=>
          (orderly => \A ch \in Keys : Conserved(Held(got, tmpbuf), Content(Settled), accepted, ch))
    /\ CharsConserved' <=>
          (orderly' => \A ch \in Keys :
                          Conserved(Held(got', tmpbuf'), Content(Settled'), accepted', ch))
  BY InHandsIsHands DEF CharsConserved, Conserved

LEMMA ConservedSame ==
    ASSUME CharsConserved, orderly' => orderly, UNCHANGED <<got, tmpbuf, accepted>>,
           Settled' = Settled
    PROVE  CharsConserved'
  BY ConservedCounts DEF Conserved

LEMMA SettledSame ==
    ASSUME buffer' = buffer, Filling' <=> Filling
    PROVE  Settled' = Settled
  BY DEF Settled

LEMMA HeldFacts ==
    ASSUME NEW g \in [Tasks -> Seq(Chars)], NEW b \in [Tasks -> Seq(Chars)]
    PROVE  /\ \A t \in Readers : Held(g, b)[t] = g[t] \o b[t] /\ Held(g, b)[t] \in Seq(Chars)
           /\ \A ch : Cardinality(Hands(Held(g, b), ch)) \in Nat
  <1>1. \A t \in Readers : Held(g, b)[t] = g[t] \o b[t] /\ Held(g, b)[t] \in Seq(Chars)
    <2> TAKE t \in Readers
    <2>1. g[t] \in Seq(Chars) /\ b[t] \in Seq(Chars)
      BY DEF Tasks
    <2>2. g[t] \o b[t] \in Seq(Chars)
      BY <2>1, ConcatProperties
    <2> QED
      BY <2>2 DEF Held
  <1>2. ASSUME NEW ch
        PROVE  Cardinality(Hands(Held(g, b), ch)) \in Nat
    <2>1. CASE Readers = {}
      <3>1. Hands(Held(g, b), ch) = {}
        BY <2>1 DEF Hands
      <3> QED
        BY <3>1, FS_EmptySet
    <2>2. CASE Readers # {}
      <3>1. PICK r \in Readers : TRUE
        BY <2>2
      <3>2. PICK f : f = Held(g, b)
        OBVIOUS
      <3>3. f[r] \in Seq(Chars) /\ \A t \in Readers : f[t] \in Seq(Chars)
        BY <1>1, <3>2
      <3>4. PICK k \in Nat : Cardinality(Hands(f, ch)) = k + Occurrences(f[r], ch)
        BY <3>3, HandsSplit
      <3>5. Occurrences(f[r], ch) \in Nat
        BY <3>3, OccurType
      <3> QED
        BY <3>2, <3>4, <3>5
    <2> QED
      BY <2>1, <2>2
  <1> QED
    BY <1>1, <1>2

LEMMA CharsTypes ==
    ASSUME CharsInv
    PROVE  /\ buffer \in QueueOf(Chars) /\ Content(Settled) \in Seq(Chars)
           /\ got \in [Tasks -> Seq(Chars)] /\ tmpbuf \in [Tasks -> Seq(Chars)]
           /\ accepted \in Seq(Chars)
           /\ pc \in [Tasks -> Points] /\ nr \in [Tasks -> Nat]
           /\ NONE \notin Tasks /\ Readers \subseteq Tasks
           /\ \A ch : Cardinality(Hands(Held(got, tmpbuf), ch)) \in Nat
           /\ orderly => (Filling => ~tty_isempty_q(buffer))
  <1>1. /\ buffer \in QueueOf(Chars)
        /\ got \in [Tasks -> Seq(Chars)] /\ tmpbuf \in [Tasks -> Seq(Chars)]
        /\ pc \in [Tasks -> Points] /\ nr \in [Tasks -> Nat]
    BY TypesParts DEF CharsInv, SleepTypes, DataTypes
  <1>2. Content(Settled) \in Seq(Chars)
    BY SettledFacts, ContentFacts DEF CharsInv
  <1>3. accepted \in Seq(Chars)
    BY DEF CharsInv, Popping, Chars
  <1>4. \A ch : Cardinality(Hands(Held(got, tmpbuf), ch)) \in Nat
    BY <1>1, HeldFacts
  <1>5. orderly => (Filling => ~tty_isempty_q(buffer))
    BY DEF CharsInv, Popping, Filling, Tasks
  <1> QED
    BY <1>1, <1>2, <1>3, <1>4, <1>5, TtyAssumption DEF Tasks

\* A character that is put into the buffer is accepted, or neither.
LEMMA PushConserves ==
    ASSUME CharsInv, NEW ch \in Keys,
           buffer' = tty_push_q(buffer, ch),
           accepted' = IF tty_isfull_q(buffer) THEN accepted ELSE Append(accepted, ch),
           UNCHANGED <<got, tmpbuf, orderly, pc>>
    PROVE  /\ CharsConserved'
           /\ accepted' \in Seq(Chars)
           /\ ~tty_isempty_q(buffer) => ~tty_isempty_q(buffer')
  <1>1. buffer \in QueueOf(Chars) /\ accepted \in Seq(Chars) /\ ch \in Chars
    BY CharsTypes DEF Chars
  <1>2. accepted' \in Seq(Chars)
    BY <1>1, AppendProperties
  <1>3. ~tty_isempty_q(buffer) => ~tty_isempty_q(buffer')
    <2>1. CASE tty_isfull_q(buffer)
      BY <1>1, <2>1, PushContent
    <2>2. CASE ~tty_isfull_q(buffer)
      <3>1. PICK d \in Seq(Chars) : d = Content(buffer)
        BY <1>1, ContentFacts
      <3>2. Content(buffer') = Append(d, ch) /\ buffer' \in QueueOf(Chars)
        BY <1>1, <2>2, <3>1, PushContent
      <3>3. Append(d, ch) # <<>>
        BY <1>1, AppendProperties
      <3> QED
        BY <3>2, <3>3, ContentFacts
    <2> QED
      BY <2>1, <2>2
  <1> SUFFICES CharsConserved'
    BY <1>2, <1>3
  <1>4. CASE ~orderly
    BY <1>4, ConservedCounts
  <1>5. CASE orderly /\ tty_isfull_q(buffer)
    <2>1. Settled' = Settled /\ accepted' = accepted
      BY <1>1, <1>5, CharsTypes, KeySettled DEF CharsInv
    <2> QED
      BY <2>1, ConservedSame DEF CharsInv
  <1>6. CASE orderly /\ ~tty_isfull_q(buffer)
    <2>1. PICK c \in Seq(Chars) : c = Content(Settled)
      BY CharsTypes
    <2>2. Content(Settled') = Append(c, ch) /\ accepted' = Append(accepted, ch)
      BY <1>1, <1>6, <2>1, CharsTypes, KeySettled DEF CharsInv
    <2>3. ASSUME NEW x \in Keys, Conserved(Held(got, tmpbuf), Content(Settled), accepted, x)
          PROVE  Conserved(Held(got, tmpbuf), Content(Settled'), accepted', x)
      <3>1. Occurrences(Append(c, ch), x) = Occurrences(c, x) + (IF ch = x THEN 1 ELSE 0)
        BY <1>1, OccurAppend
      <3>2. Occurrences(Append(accepted, ch), x) = Occurrences(accepted, x) + (IF ch = x THEN 1 ELSE 0)
        BY <1>1, OccurAppend
      <3>3. PICK k \in Nat : k = Cardinality(Hands(Held(got, tmpbuf), x))
        BY CharsTypes
      <3>4. Occurrences(c, x) \in Nat /\ Occurrences(accepted, x) \in Nat
        BY <1>1, OccurType
      <3>5. k + Occurrences(c, x) = Occurrences(accepted, x)
        BY <2>1, <2>3, <3>3 DEF Conserved
      <3>6. k + Occurrences(Append(c, ch), x) = Occurrences(Append(accepted, ch), x)
        BY <3>1, <3>2, <3>4, <3>5
      <3> QED
        BY <2>2, <3>3, <3>6 DEF Conserved
    <2> QED
      BY <1>6, <2>3, ConservedCounts DEF CharsInv
  <1> QED
    BY <1>4, <1>5, <1>6

\* A character that is taken away is forgotten: it was accepted once more than
\* readers hold it and the buffer keeps it.
LEMMA ForgetConserves ==
    ASSUME NEW a \in Seq(Chars), NEW e, NEW x, NEW n \in Nat, NEW m \in Nat,
           n = m + (IF e = x THEN 1 ELSE 0),
           n = Occurrences(a, x)
    PROVE  m = Occurrences(RemoveFirst(a, e), x)
  <1>1. CASE e = x
    <2>1. Occurrences(a, e) > 0
      BY <1>1
    <2>2. Occurrences(RemoveFirst(a, e), e) = Occurrences(a, e) - 1
      BY <2>1, OccurForget
    <2> QED
      BY <1>1, <2>2
  <1>2. CASE e # x
    <2>1. Occurrences(RemoveFirst(a, e), x) = Occurrences(a, x)
      BY <1>2, OccurForget
    <2> QED
      BY <1>2, <2>1
  <1> QED
    BY <1>1, <1>2

LEMMA EraseConserves ==
    ASSUME CharsInv, CanErase,
           buffer' = [buffer EXCEPT !.tail = (@ + TTY_BUF_SIZE - 1) % TTY_BUF_SIZE],
           accepted' = Forget(Last(Content(buffer))),
           orderly' => orderly /\ (Filling => Length(buffer) # 1),
           UNCHANGED <<got, tmpbuf, pc>>
    PROVE  /\ CharsConserved'
           /\ accepted' \in Seq(Chars)
           /\ Length(buffer) # 1 => ~tty_isempty_q(buffer')
  <1>1. buffer \in QueueOf(Chars) /\ accepted \in Seq(Chars) /\ ~tty_isempty_q(buffer)
    BY CharsTypes DEF CanErase
  <1>2. buffer' = Erased(buffer)
    BY DEF Erased
  <1>3. PICK e : e = Last(Content(buffer)) /\ accepted' = RemoveFirst(accepted, e)
    BY DEF Forget
  <1>4. accepted' \in Seq(Chars)
    BY <1>1, <1>3, OccurForget
  <1>5. Length(buffer) # 1 => ~tty_isempty_q(buffer')
    <2>1. Length(buffer') = Length(buffer) - 1 /\ buffer' \in QueueOf(Chars)
      BY <1>1, <1>2, ErasedContent
    <2>2. PICK n \in Nat : n = Length(buffer)
      BY <1>1, LengthFacts, Size
    <2>3. n # 1 => Length(buffer') # 0
      BY <2>1, <2>2
    <2> QED
      BY <2>1, <2>2, <2>3, LengthFacts
  <1> SUFFICES CharsConserved'
    BY <1>4, <1>5
  <1>6. CASE ~orderly'
    BY <1>6, ConservedCounts
  <1>7. CASE orderly'
    <2>1. orderly /\ (Filling => Length(buffer) # 1) /\ (Filling => ~tty_isempty_q(buffer))
      BY <1>7, CharsTypes
    <2>2. PICK c \in Seq(Chars) : c = Content(Settled)
      BY CharsTypes
    <2>3. c # <<>> /\ Last(c) = e /\ Content(Settled') = SubSeq(c, 1, Len(c) - 1)
      <3>1. 0 \in Chars
        BY DEF Chars
      <3> QED
        BY <1>1, <1>2, <1>3, <2>1, <2>2, <3>1, KeySettled DEF CharsInv
    <2>4. PICK f \in Seq(Chars) : f = SubSeq(c, 1, Len(c) - 1) /\ c = Append(f, e) /\ e \in Chars
      <3>1. PICK f \in Seq(Chars) : f = Front(c) /\ f = SubSeq(c, 1, Len(c) - 1)
        BY <2>3, LastFront
      <3>2. e \in Chars /\ c = f \o <<e>>
        BY <2>3, <3>1, LastFront
      <3>3. Append(f, e) = f \o <<e>>
        BY <3>2, AppendIsConcat
      <3> QED
        BY <3>1, <3>2, <3>3
    <2>5. ASSUME NEW x \in Keys, Conserved(Held(got, tmpbuf), c, accepted, x)
          PROVE  Conserved(Held(got, tmpbuf), f, accepted', x)
      <3>0. Occurrences(Append(f, e), x) = Occurrences(f, x) + (IF e = x THEN 1 ELSE 0)
        <4>1. PICK y \in Chars : y = e
          BY <2>4
        <4>2. Occurrences(Append(f, y), x) = Occurrences(f, x) + (IF y = x THEN 1 ELSE 0)
          BY OccurAppend
        <4> QED
          BY <4>1, <4>2
      <3>1. Occurrences(c, x) = Occurrences(f, x) + (IF e = x THEN 1 ELSE 0)
        BY <2>4, <3>0
      <3>2. PICK k \in Nat : k = Cardinality(Hands(Held(got, tmpbuf), x))
        BY CharsTypes
      <3>3. Occurrences(f, x) \in Nat /\ Occurrences(c, x) \in Nat
        BY OccurType
      <3>4. k + Occurrences(c, x) = Occurrences(accepted, x)
        BY <2>5, <3>2 DEF Conserved
      <3>5. k + Occurrences(c, x) = (k + Occurrences(f, x)) + (IF e = x THEN 1 ELSE 0)
        BY <3>1, <3>2, <3>3
      <3>6. k + Occurrences(c, x) \in Nat /\ k + Occurrences(f, x) \in Nat
        BY <3>3
      <3>7. k + Occurrences(f, x) = Occurrences(RemoveFirst(accepted, e), x)
        BY <1>1, <3>4, <3>5, <3>6, ForgetConserves
      <3> QED
        BY <1>3, <3>2, <3>7 DEF Conserved
    <2> QED
      BY <2>1, <2>2, <2>3, <2>4, <2>5, ConservedCounts DEF CharsInv
  <1> QED
    BY <1>6, <1>7

\* One reader's hands, before and after.
LEMMA HandsMove ==
    ASSUME NEW h, NEW g, NEW r \in Readers, NEW y \in Chars,
           \A t \in Readers : h[t] \in Seq(Chars) /\ g[t] \in Seq(Chars),
           \A t \in Readers \ {r} : g[t] = h[t],
           g[r] = Append(h[r], y), NEW x
    PROVE  Cardinality(Hands(g, x)) = Cardinality(Hands(h, x)) + (IF y = x THEN 1 ELSE 0)
  <1>1. PICK s \in Seq(Chars) : s = h[r]
    OBVIOUS
  <1>2. Occurrences(Append(s, y), x) = Occurrences(s, x) + (IF y = x THEN 1 ELSE 0)
    BY OccurAppend
  <1>3. Occurrences(s, x) \in Nat
    BY OccurType
  <1>4. PICK k \in Nat : \A f :
            f[r] \in Seq(Chars) /\ (\A t \in Readers \ {r} : f[t] = h[t])
                => Cardinality(Hands(f, x)) = k + Occurrences(f[r], x)
    BY HandsSplit
  <1>5. Cardinality(Hands(h, x)) = k + Occurrences(s, x)
    BY <1>1, <1>4
  <1>6. Append(s, y) \in Seq(Chars)
    BY AppendProperties
  <1>7. Cardinality(Hands(g, x)) = k + Occurrences(Append(s, y), x)
    BY <1>1, <1>4, <1>6
  <1> QED
    BY <1>2, <1>3, <1>5, <1>7

\* Only a task that has the processor moves head.
LEMMA Alone ==
    ASSUME CharsInv, NEW t \in Tasks, cpu \in {NONE, t}
    PROVE  \A u \in Tasks \ {t} : pc[u] \notin {"take", "front", "fill"}
  BY CharsTypes DEF CharsInv, Popping

LEMMA TakeConserves ==
    ASSUME CharsInv, NEW t \in Readers, Take(t)
    PROVE  CharsConserved'
  <1>1. t \in Tasks /\ pc[t] = "take" /\ cpu = t /\ orderly' = orderly /\ accepted' = accepted
        /\ buffer' = Drop(buffer)
    BY CharsTypes DEF Take
  <1>0. Settled = buffer /\ Settled' = buffer'
    <2>1. \E at : pc' = [pc EXCEPT ![t] = at] /\ at # "fill"
      BY <1>1 DEF Take, Goes
    <2>2. pc'[t] # "fill" /\ \A u \in Tasks \ {t} : pc'[u] = pc[u]
      BY <1>1, <2>1, CharsTypes
    <2>3. ~Filling /\ ~Filling'
      BY <1>1, <2>2, Alone DEF Filling, Tasks
    <2> QED
      BY <2>3 DEF Settled
  <1>2. CASE ~orderly
    BY <1>1, <1>2, ConservedCounts
  <1>3. CASE orderly
    <2>1. ~tty_isempty_q(buffer)
      BY <1>1, <1>3 DEF CharsInv, Popping
    <2>2. PICK c \in Seq(Chars) : c = Content(buffer) /\ c = Content(Settled) /\ c # <<>>
      BY <1>0, <2>1, CharsTypes, DropContent
    <2>3. PICK y \in Chars : y = Head(c)
      BY <2>2, HeadTailProperties
    <2>4. PICK u \in Seq(Chars) : u = Tail(c)
      BY <2>2, HeadTailProperties
    <2>5. tty_queue_head(buffer) = y /\ Content(Settled') = u
      BY <1>0, <1>1, <2>1, <2>2, <2>3, <2>4, CharsTypes, DropContent
    <2>6. \A x : Occurrences(c, x) = (IF y = x THEN 1 ELSE 0) + Occurrences(u, x)
      <3> TAKE x
      <3>1. PICK z \in Seq(Chars) : z = <<>>
        BY EmptySeq
      <3>2. Append(z, y) \o u = z \o c
        BY <2>2, <2>3, <2>4, ShiftHead
      <3>3. z \o c = c
        BY <3>1, ConcatEmptySeq
      <3>4. Append(z, y) = <<y>>
        BY <3>1
      <3>5. Occurrences(<<y>> \o u, x) = (IF y = x THEN 1 ELSE 0) + Occurrences(u, x)
        BY OccurPrepend
      <3> QED
        BY <3>2, <3>3, <3>4, <3>5
    <2> DEFINE h == Held(got, tmpbuf)
               g == Held(got', tmpbuf')
    <2>7. got' \in [Tasks -> Seq(Chars)] /\ tmpbuf' \in [Tasks -> Seq(Chars)]
      BY <1>1, TakeTypes DEF CharsInv, Kinds, DataTypes
    <2>8. /\ \A v \in Readers : h[v] = got[v] \o tmpbuf[v] /\ h[v] \in Seq(Chars)
          /\ \A v \in Readers : g[v] = got'[v] \o tmpbuf'[v] /\ g[v] \in Seq(Chars)
      BY <2>7, HeldFacts, CharsTypes
    <2> HIDE DEF h, g
    <2>9. g[t] = Append(h[t], y) /\ \A v \in Readers \ {t} : g[v] = h[v]
      <3>1. PICK s \in Seq(Chars) : s = tmpbuf[t]
        BY <1>1, CharsTypes
      <3>2. PICK w \in Seq(Chars) : w = got[t]
        BY <1>1, CharsTypes
      <3>3. CASE nr[t] <= 0
        <4>1. tmpbuf' = [tmpbuf EXCEPT ![t] = Append(s, y)] /\ got' = got
          BY <2>5, <3>1, <3>3 DEF Take
        <4>2. got'[t] = w /\ tmpbuf'[t] = Append(s, y)
              /\ \A v \in Readers \ {t} : got'[v] = got[v] /\ tmpbuf'[v] = tmpbuf[v]
          BY <1>1, <3>2, <4>1, CharsTypes
        <4>3. w \o Append(s, y) = Append(w \o s, y)
          BY ConcatAppend
        <4> QED
          BY <2>8, <3>1, <3>2, <4>2, <4>3
      <3>4. CASE ~(nr[t] <= 0)
        <4>1. got' = [got EXCEPT ![t] = Append(w, y)] /\ tmpbuf' = tmpbuf
          BY <2>5, <3>2, <3>4 DEF Take
        <4>2. got'[t] = Append(w, y) /\ tmpbuf'[t] = s
              /\ \A v \in Readers \ {t} : got'[v] = got[v] /\ tmpbuf'[v] = tmpbuf[v]
          BY <1>1, <3>1, <4>1, CharsTypes
        <4>3. s = <<>>
          <5>1. nr[t] # 0
            BY <3>4
          <5> QED
            BY <1>1, <3>1, <5>1 DEF CharsInv, Popping
        <4>4. w \o s = w
          BY <4>3, ConcatEmptySeq
        <4>5. Append(w, y) \o s = Append(w, y)
          BY <4>3, AppendProperties, ConcatEmptySeq
        <4> QED
          BY <2>8, <3>1, <3>2, <4>2, <4>4, <4>5
      <3> QED
        BY <3>3, <3>4
    <2>10. \A x : Cardinality(Hands(g, x)) = Cardinality(Hands(h, x)) + (IF y = x THEN 1 ELSE 0)
      BY <2>8, <2>9, HandsMove
    <2>11. ASSUME NEW x \in Keys, Conserved(h, Content(Settled), accepted, x)
           PROVE  Conserved(g, Content(Settled'), accepted', x)
      <3>1. PICK k \in Nat : k = Cardinality(Hands(h, x))
        BY CharsTypes DEF h
      <3>2. PICK m \in Nat : m = Occurrences(u, x)
        BY OccurType
      <3>3. k + Occurrences(c, x) = Occurrences(accepted, x)
        BY <2>2, <2>11, <3>1 DEF Conserved
      <3>4. Cardinality(Hands(g, x)) = k + (IF y = x THEN 1 ELSE 0)
        BY <2>10, <3>1
      <3>5. Occurrences(c, x) = (IF y = x THEN 1 ELSE 0) + m
        BY <2>6, <3>2
      <3>6. Cardinality(Hands(g, x)) + m = Occurrences(accepted, x)
        BY <3>3, <3>4, <3>5
      <3> QED
        BY <1>1, <2>5, <3>2, <3>6 DEF Conserved
    <2> QED
      BY <1>3, <2>11, ConservedCounts DEF CharsInv, h, g
  <1> QED
    BY <1>2, <1>3

\* The last character of tmpbuf leaves a reader's hands.
LEMMA HandsBack ==
    ASSUME CharsInv, NEW t \in Readers, tmpbuf[t] # <<>>,
           tmpbuf' = [tmpbuf EXCEPT ![t] = Front(@)], got' = got
    PROVE  \E y \in Chars :
              /\ y = Last(tmpbuf[t])
              /\ \A x : /\ Cardinality(Hands(Held(got', tmpbuf'), x)) \in Nat
                        /\ Cardinality(Hands(Held(got, tmpbuf), x))
                              = Cardinality(Hands(Held(got', tmpbuf'), x))
                                    + (IF y = x THEN 1 ELSE 0)
  <1>1. t \in Tasks
    BY CharsTypes
  <1>2. PICK s \in Seq(Chars) : s = tmpbuf[t] /\ s # <<>>
    BY <1>1, CharsTypes
  <1>3. PICK w \in Seq(Chars) : w = got[t]
    BY <1>1, CharsTypes
  <1>4. PICK f \in Seq(Chars) : f = Front(s)
    BY <1>2, LastFront
  <1>5. PICK y \in Chars : y = Last(s)
    BY <1>2, LastFront
  <1>6. s = Append(f, y)
    <2>1. s = f \o <<y>>
      BY <1>2, <1>4, <1>5, LastFront
    <2>2. Append(f, y) = f \o <<y>>
      BY AppendIsConcat
    <2> QED
      BY <2>1, <2>2
  <1>7. tmpbuf' = [tmpbuf EXCEPT ![t] = f]
    BY <1>2, <1>4
  <1> DEFINE h == Held(got, tmpbuf)
             g == Held(got', tmpbuf')
  <1>8. tmpbuf' \in [Tasks -> Seq(Chars)] /\ got' \in [Tasks -> Seq(Chars)]
    BY <1>1, <1>7, CharsTypes
  <1>9. /\ \A v \in Readers : h[v] = got[v] \o tmpbuf[v] /\ h[v] \in Seq(Chars)
        /\ \A v \in Readers : g[v] = got'[v] \o tmpbuf'[v] /\ g[v] \in Seq(Chars)
    BY <1>8, HeldFacts, CharsTypes
  <1>10. \A x : Cardinality(Hands(g, x)) \in Nat
    BY <1>8, HeldFacts
  <1> HIDE DEF h, g
  <1>11. h[t] = Append(g[t], y) /\ \A v \in Readers \ {t} : h[v] = g[v]
    <2>1. got'[t] = w /\ tmpbuf'[t] = f
          /\ \A v \in Readers \ {t} : got'[v] = got[v] /\ tmpbuf'[v] = tmpbuf[v]
      BY <1>1, <1>3, <1>7, CharsTypes
    <2>2. w \o Append(f, y) = Append(w \o f, y)
      BY ConcatAppend
    <2> QED
      BY <1>2, <1>3, <1>6, <1>9, <2>1, <2>2
  <1>12. \A x : Cardinality(Hands(h, x)) = Cardinality(Hands(g, x)) + (IF y = x THEN 1 ELSE 0)
    <2>1. PICK a, b : a = g /\ b = h
      OBVIOUS
    <2>2. \A v \in Readers : a[v] \in Seq(Chars) /\ b[v] \in Seq(Chars)
      BY <1>9, <2>1
    <2>3. b[t] = Append(a[t], y) /\ \A v \in Readers \ {t} : b[v] = a[v]
      BY <1>11, <2>1
    <2>4. \A x : Cardinality(Hands(b, x)) = Cardinality(Hands(a, x)) + (IF y = x THEN 1 ELSE 0)
      BY <2>2, <2>3, HandsMove
    <2> QED
      BY <2>1, <2>4
  <1> QED
    BY <1>2, <1>5, <1>10, <1>12 DEF h, g

\* A character the full queue does not take back is forgotten.
LEMMA UnreadConserves ==
    ASSUME CharsInv, NEW t \in Readers, Unread(t)
    PROVE  CharsConserved' /\ accepted' \in Seq(Chars)
  <1>1. t \in Tasks /\ cpu = t /\ pc[t] = "unread"
        /\ UNCHANGED <<orderly, got, buffer>>
    BY CharsTypes DEF Unread, queues
  <1>2. Settled' = Settled
    <2>1. \E at : pc' = [pc EXCEPT ![t] = at] /\ at # "fill"
      BY <1>1 DEF Unread, Goes
    <2>2. pc'[t] # "fill" /\ \A u \in Tasks \ {t} : pc'[u] = pc[u]
      BY <1>1, <2>1, CharsTypes
    <2>3. Filling' <=> Filling
      BY <1>1, <2>2 DEF Filling, Tasks
    <2> QED
      BY <1>1, <2>3, SettledSame
  <1>3. CASE UNCHANGED <<tmpbuf, accepted>>
    BY <1>1, <1>2, <1>3, ConservedSame, CharsTypes DEF CharsInv
  <1>4. CASE tmpbuf[t] # <<>> /\ tty_isfull_q(buffer)
    <2>1. tmpbuf' = [tmpbuf EXCEPT ![t] = Front(@)]
          /\ accepted' = RemoveFirst(accepted, Last(tmpbuf[t]))
      BY <1>4 DEF Unread, Forget
    <2>2. PICK y \in Chars :
              /\ y = Last(tmpbuf[t])
              /\ \A x : /\ Cardinality(Hands(Held(got', tmpbuf'), x)) \in Nat
                        /\ Cardinality(Hands(Held(got, tmpbuf), x))
                              = Cardinality(Hands(Held(got', tmpbuf'), x))
                                    + (IF y = x THEN 1 ELSE 0)
      BY <1>1, <1>4, <2>1, HandsBack
    <2>3. accepted \in Seq(Chars) /\ accepted' \in Seq(Chars)
      BY <2>1, CharsTypes, OccurForget
    <2>4. PICK c \in Seq(Chars) : c = Content(Settled)
      BY CharsTypes
    <2>5. ASSUME NEW x \in Keys, Conserved(Held(got, tmpbuf), c, accepted, x)
          PROVE  Conserved(Held(got', tmpbuf'), c, accepted', x)
      <3>1. PICK k \in Nat : k = Cardinality(Hands(Held(got', tmpbuf'), x))
        BY <2>2
      <3>2. PICK m \in Nat : m = Occurrences(c, x)
        BY OccurType
      <3>3. k + (IF y = x THEN 1 ELSE 0) + m = Occurrences(accepted, x)
        BY <2>2, <2>5, <3>1, <3>2 DEF Conserved
      <3>4. PICK n \in Nat : n = k + (IF y = x THEN 1 ELSE 0) + m
        OBVIOUS
      <3>5. n = (k + m) + (IF y = x THEN 1 ELSE 0) /\ k + m \in Nat /\ n = Occurrences(accepted, x)
        BY <3>3, <3>4
      <3>6. k + m = Occurrences(RemoveFirst(accepted, y), x)
        BY <2>3, <3>5, ForgetConserves
      <3> QED
        BY <2>1, <2>2, <3>1, <3>2, <3>6 DEF Conserved
    <2>6. CharsConserved'
      BY <1>1, <1>2, <2>4, <2>5, ConservedCounts DEF CharsInv
    <2> QED
      BY <2>3, <2>6
  <1> QED
    BY <1>3, <1>4 DEF Unread

\* While head stands before a slot that is not filled yet, the buffer is what
\* lies behind it.
LEMMA StepsBackConserves ==
    ASSUME CharsInv, NEW t \in Readers, StepsBack(t)
    PROVE  /\ CharsConserved'
           /\ accepted' = accepted /\ (orderly' => orderly)
           /\ orderly' => ~tty_isempty_q(buffer')
  <1>1. t \in Tasks /\ cpu = t /\ pc[t] = "front" /\ buffer' = StepBack(buffer)
        /\ orderly' = (orderly /\ ~tty_isfull_q(buffer)) /\ UNCHANGED <<got, tmpbuf, accepted>>
        /\ pc' = [pc EXCEPT ![t] = "fill"]
    BY CharsTypes DEF StepsBack, Goes
  <1>2. orderly' => orderly /\ ~tty_isfull_q(buffer)
    BY <1>1 DEF CharsInv, Types
  <1>3. pc'[t] = "fill" /\ ~Filling /\ Filling'
    <2>1. pc'[t] = "fill"
      BY <1>1, CharsTypes
    <2>2. \A u \in Tasks \ {t} : pc[u] # "fill"
      BY <1>1, Alone
    <2> QED
      BY <1>1, <2>1, <2>2 DEF Filling, Tasks
  <1>4. Drop(StepBack(buffer)) = buffer
        /\ (~tty_isfull_q(buffer) => ~tty_isempty_q(StepBack(buffer)))
    BY CharsTypes, StepBackContent
  <1>5. Settled' = Settled
    BY <1>1, <1>3, <1>4 DEF Settled
  <1>6. CharsConserved'
    BY <1>1, <1>2, <1>5, ConservedSame DEF CharsInv
  <1> QED
    BY <1>1, <1>2, <1>4, <1>6

\* The character goes from the reader's hands to the slot at head.
LEMMA FillsConserves ==
    ASSUME CharsInv, NEW t \in Readers, Fills(t)
    PROVE  CharsConserved'
  <1>1. t \in Tasks /\ cpu = t /\ pc[t] = "fill" /\ buffer' = FillHead(buffer, Last(tmpbuf[t]))
        /\ tmpbuf' = [tmpbuf EXCEPT ![t] = Front(@)] /\ UNCHANGED <<got, accepted, orderly>>
        /\ pc' = [pc EXCEPT ![t] = "unread"]
    BY CharsTypes DEF Fills, Goes, hist
  <1>2. CASE ~orderly
    BY <1>1, <1>2, ConservedCounts
  <1>3. CASE orderly
    <2>1. tmpbuf[t] # <<>>
      BY <1>1 DEF CharsInv, Types
    <2>2. PICK y \in Chars :
              /\ y = Last(tmpbuf[t])
              /\ \A x : /\ Cardinality(Hands(Held(got', tmpbuf'), x)) \in Nat
                        /\ Cardinality(Hands(Held(got, tmpbuf), x))
                              = Cardinality(Hands(Held(got', tmpbuf'), x))
                                    + (IF y = x THEN 1 ELSE 0)
      BY <1>1, <2>1, HandsBack
    <2>3. Filling /\ ~Filling' /\ ~tty_isempty_q(buffer)
      <3>1. pc'[t] = "unread" /\ \A u \in Tasks \ {t} : pc'[u] = pc[u] /\ pc[u] # "fill"
        BY <1>1, CharsTypes, Alone
      <3>2. Filling /\ ~Filling'
        BY <1>1, <3>1 DEF Filling, Tasks
      <3> QED
        BY <1>3, <3>2, CharsTypes
    <2>4. PICK c \in Seq(Chars) : c = Content(Settled) /\ c = Content(Drop(buffer))
      BY <2>3, CharsTypes DEF Settled
    <2>5. Content(Settled') = <<y>> \o c
      <3>1. buffer' = FillHead(buffer, y) /\ Settled' = buffer'
        BY <1>1, <2>2, <2>3 DEF Settled
      <3> QED
        BY <2>3, <2>4, <3>1, CharsTypes, FillContent
    <2>6. ASSUME NEW x \in Keys, Conserved(Held(got, tmpbuf), c, accepted, x)
          PROVE  Conserved(Held(got', tmpbuf'), <<y>> \o c, accepted, x)
      <3>1. PICK k \in Nat : k = Cardinality(Hands(Held(got', tmpbuf'), x))
        BY <2>2
      <3>2. PICK m \in Nat : m = Occurrences(c, x)
        BY OccurType
      <3>3. (k + (IF y = x THEN 1 ELSE 0)) + m = Occurrences(accepted, x)
        BY <2>2, <2>6, <3>1, <3>2 DEF Conserved
      <3>4. Occurrences(<<y>> \o c, x) = (IF y = x THEN 1 ELSE 0) + m
        BY <3>2, OccurPrepend
      <3>5. k + ((IF y = x THEN 1 ELSE 0) + m) = Occurrences(accepted, x)
        BY <3>3
      <3> QED
        BY <3>1, <3>4, <3>5 DEF Conserved
    <2> QED
      BY <1>1, <1>3, <2>4, <2>5, <2>6, ConservedCounts DEF CharsInv
  <1> QED
    BY <1>2, <1>3

-----------------------------------------------------------------------------
(* Any number of readers: who pops is alone and finds something.           *)

\* A step of task t.
LEMMA PoppingMoves ==
    ASSUME CharsInv, NEW t \in Tasks, cpu \in {NONE, t},
           \A u \in Tasks \ {t} : pc'[u] = pc[u] /\ tmpbuf'[u] = tmpbuf[u] /\ nr'[u] = nr[u],
           pc'[t] \in ReadPoints => t \in Readers,
           pc'[t] \in {"take", "front", "fill"} => cpu' = t,
           pc'[t] \in {"take", "fill"} => (orderly' => ~tty_isempty_q(buffer')),
           tmpbuf'[t] # <<>> => nr'[t] = 0 /\ pc'[t] \in ReadPoints \cup Stops,
           orderly' => signal' \cap Readers = {},
           accepted' \in Seq(Chars)
    PROVE  Popping'
  <1>1. \A u \in Tasks \ {t} : pc[u] \notin {"take", "front", "fill"}
    BY Alone
  <1>2. \A u \in Tasks : pc'[u] \in ReadPoints => u \in Readers
    BY DEF CharsInv, Popping
  <1>3. \A u \in Tasks : pc'[u] \in {"take", "front", "fill"} => cpu' = u
    BY <1>1
  <1>4. \A u \in Tasks : pc'[u] \in {"take", "fill"} => (orderly' => ~tty_isempty_q(buffer'))
    BY <1>1
  <1>5. \A u \in Tasks : tmpbuf'[u] # <<>> => nr'[u] = 0 /\ pc'[u] \in ReadPoints \cup Stops
    BY DEF CharsInv, Popping
  <1> QED
    BY <1>2, <1>3, <1>4, <1>5 DEF Popping, Chars

\* A step of task t that touches no character of the readers.
LEMMA Quiet ==
    ASSUME CharsInv, NEW t \in Tasks, cpu \in {NONE, t}, NEW at,
           pc' = [pc EXCEPT ![t] = at], pc[t] # "fill", at \notin {"front", "fill"},
           UNCHANGED <<buffer, got, tmpbuf, accepted>>,
           \A u \in Tasks \ {t} : nr'[u] = nr[u],
           at \in ReadPoints => t \in Readers,
           at = "take" => cpu' = t /\ (orderly' => ~tty_isempty_q(buffer)),
           tmpbuf[t] # <<>> => nr'[t] = 0 /\ at \in ReadPoints \cup Stops,
           orderly' => orderly /\ signal' \cap Readers = {}
    PROVE  Popping' /\ CharsConserved'
  <1>1. /\ pc'[t] = at /\ \A u \in Tasks \ {t} : pc'[u] = pc[u]
        /\ accepted \in Seq(Chars)
    BY CharsTypes
  <1>2. Popping'
    BY <1>1, PoppingMoves
  <1>3. Filling' <=> Filling
    BY <1>1 DEF Filling, Tasks
  <1>4. CharsConserved'
    BY <1>3, SettledSame, ConservedSame DEF CharsInv
  <1> QED
    BY <1>2, <1>4

LEMMA CharsKey ==
    ASSUME CharsInv, NEW ch \in Keys, keyboard_interrupt(ch)
    PROVE  CharsInv'
  <1>1. Types'
    BY TypesStep DEF CharsInv, Next
  <1>2. Key
    BY DEF keyboard_interrupt, Character, Enter, Backspace
  <1>3. ASSUME accepted' \in Seq(Chars), orderly' => orderly,
               \A t \in Readers :
                   orderly' /\ pc[t] \in {"take", "fill"} /\ ~tty_isempty_q(buffer)
                       => ~tty_isempty_q(buffer')
        PROVE  Popping'
    <2>1. UNCHANGED <<signal, cpu, pc, nr, tmpbuf>>
      BY <1>2 DEF Key
    <2>2. \A t \in Tasks : pc[t] \in {"take", "fill"} => t \in Readers
      BY DEF CharsInv, Popping, ReadPoints
    <2> QED
      BY <1>3, <2>1, <2>2 DEF CharsInv, Popping, Chars
  <1>4. CASE Character(ch) \/ Enter(ch)
    <2>1. /\ buffer' = tty_push_q(buffer, ch)
          /\ accepted' = IF tty_isfull_q(buffer) THEN accepted ELSE Append(accepted, ch)
          /\ UNCHANGED <<got, tmpbuf, orderly, pc>>
      BY <1>2, <1>4 DEF Character, Enter, Key
    <2>2. /\ CharsConserved' /\ accepted' \in Seq(Chars)
          /\ ~tty_isempty_q(buffer) => ~tty_isempty_q(buffer')
      BY <2>1, PushConserves
    <2> QED
      BY <1>1, <1>3, <2>1, <2>2 DEF CharsInv
  <1>5. CASE Backspace(ch) /\ CanErase
    <2>1. /\ buffer' = [buffer EXCEPT !.tail = (@ + TTY_BUF_SIZE - 1) % TTY_BUF_SIZE]
          /\ accepted' = Forget(Last(Content(buffer)))
          /\ orderly' = (orderly /\ ~Disturbs)
          /\ UNCHANGED <<got, tmpbuf, pc>>
      BY <1>2, <1>5 DEF Backspace, Key
    <2>2. orderly' => orderly /\ ~Disturbs
      BY <2>1, <1>1 DEF CharsInv, Types
    <2>4. \A t \in Readers : orderly' /\ pc[t] \in {"take", "fill"} => Length(buffer) # 1
      BY <2>2 DEF Disturbs
    <2>3. /\ CharsConserved' /\ accepted' \in Seq(Chars)
          /\ Length(buffer) # 1 => ~tty_isempty_q(buffer')
      <3>1. orderly' => orderly /\ (Filling => Length(buffer) # 1)
        BY <2>2, <2>4 DEF Filling
      <3> QED
        BY <1>5, <2>1, <3>1, EraseConserves
    <2>5. Popping'
      BY <1>3, <2>2, <2>3, <2>4
    <2> QED
      BY <1>1, <2>3, <2>5 DEF CharsInv
  <1>6. CASE Backspace(ch) /\ ~CanErase
    <2>1. UNCHANGED <<buffer, accepted, orderly, got, tmpbuf, pc>>
      BY <1>2, <1>6 DEF Backspace, Key
    <2>4. Settled' = Settled
      BY <2>1 DEF Settled, Filling
    <2>2. CharsConserved'
      BY <2>1, <2>4, ConservedSame DEF CharsInv
    <2>3. Popping'
      BY <1>3, <2>1, CharsTypes
    <2> QED
      BY <1>1, <2>2, <2>3 DEF CharsInv
  <1> QED
    BY <1>4, <1>5, <1>6 DEF keyboard_interrupt

\* The reader's own steps.
LEMMA CharsReader ==
    ASSUME CharsInv, NEW t \in Tasks, Take(t) \/ PutsBack(t)
    PROVE  Popping' /\ CharsConserved'
  <1>1. /\ cpu = t /\ pc[t] \in ReadPoints /\ t \in Readers
        /\ UNCHANGED <<cpu, signal>> /\ (orderly' => orderly)
    BY DEF Take, PutsBack, Unread, StepsBack, Fills, Overrun, Goes, hist, CharsInv, Popping,
           ReadPoints, Types
  <1>2. /\ pc \in [Tasks -> Points] /\ nr \in [Tasks -> Nat] /\ accepted \in Seq(Chars)
        /\ tmpbuf \in [Tasks -> Seq(Chars)]
    BY CharsTypes
  <1>3. orderly' => signal' \cap Readers = {}
    BY <1>1 DEF CharsInv, Popping
  <1>4. CASE Take(t)
    <2>1. CharsConserved'
      BY <1>1, <1>4, TakeConserves
    <2>2. accepted' = accepted
      BY <1>4 DEF Take
    <2>3. CASE nr[t] <= 0
      <3>1. /\ \E ch : tmpbuf' = [tmpbuf EXCEPT ![t] = Append(@, ch)]
            /\ \E at \in {"unread", "pop"} : pc' = [pc EXCEPT ![t] = at]
            /\ nr' = nr
        BY <1>4, <2>3 DEF Take, Goes
      <3>2. nr[t] = 0
        BY <1>2, <2>3
      <3>3. pc'[t] \in {"unread", "pop"}
        BY <1>2, <3>1
      <3>4. \A u \in Tasks \ {t} : pc'[u] = pc[u] /\ tmpbuf'[u] = tmpbuf[u] /\ nr'[u] = nr[u]
        BY <1>2, <3>1
      <3>5. Popping'
        BY <1>1, <1>2, <1>3, <2>2, <3>1, <3>2, <3>3, <3>4, PoppingMoves DEF ReadPoints
      <3> QED
        BY <2>1, <3>5
    <2>4. CASE ~(nr[t] <= 0)
      <3>1. /\ \E at \in {"return", "pop"} : pc' = [pc EXCEPT ![t] = at]
            /\ nr' = [nr EXCEPT ![t] = @ - 1]
            /\ tmpbuf' = tmpbuf
        BY <1>4, <2>4 DEF Take, Goes
      <3>2. nr[t] # 0
        BY <2>4
      <3>3. tmpbuf[t] = <<>>
        BY <3>2 DEF CharsInv, Popping
      <3>4. pc'[t] \in {"return", "pop"}
        BY <1>2, <3>1
      <3>5. \A u \in Tasks \ {t} : pc'[u] = pc[u] /\ tmpbuf'[u] = tmpbuf[u] /\ nr'[u] = nr[u]
        BY <1>2, <3>1
      <3>6. Popping'
        BY <1>1, <1>2, <1>3, <2>2, <3>1, <3>3, <3>4, <3>5, PoppingMoves DEF ReadPoints
      <3> QED
        BY <2>1, <3>6
    <2> QED
      BY <2>3, <2>4
  <1>5. CASE Unread(t)
    <2>1. CharsConserved' /\ accepted' \in Seq(Chars)
      BY <1>1, <1>5, UnreadConserves
    <2>2. CASE tmpbuf[t] = <<>>
      <3>1. pc' = [pc EXCEPT ![t] = "return"] /\ UNCHANGED <<tmpbuf, nr>>
        BY <1>5, <2>2 DEF Unread, Goes
      <3>2. /\ pc'[t] = "return"
            /\ \A u \in Tasks \ {t} : pc'[u] = pc[u] /\ tmpbuf'[u] = tmpbuf[u] /\ nr'[u] = nr[u]
        BY <1>2, <3>1
      <3>3. Popping'
        BY <1>1, <1>3, <2>1, <2>2, <3>1, <3>2, PoppingMoves DEF ReadPoints
      <3> QED
        BY <2>1, <3>3
    <2>3. CASE tmpbuf[t] # <<>>
      <3>1. /\ \E at \in {"unread", "front"} : pc' = [pc EXCEPT ![t] = at]
            /\ nr' = nr
            /\ \E f : tmpbuf' = [tmpbuf EXCEPT ![t] = f]
        <4>1. tmpbuf = [tmpbuf EXCEPT ![t] = tmpbuf[t]]
          BY <1>2
        <4> QED
          BY <1>5, <2>3, <4>1 DEF Unread, Goes
      <3>2. /\ pc'[t] \in {"unread", "front"} /\ nr'[t] = 0
            /\ \A u \in Tasks \ {t} : pc'[u] = pc[u] /\ tmpbuf'[u] = tmpbuf[u] /\ nr'[u] = nr[u]
        BY <1>2, <2>3, <3>1 DEF CharsInv, Popping
      <3>3. Popping'
        BY <1>1, <1>3, <2>1, <3>2, PoppingMoves DEF ReadPoints
      <3> QED
        BY <2>1, <3>3
    <2> QED
      BY <2>2, <2>3
  <1>6. CASE StepsBack(t)
    <2>1. /\ CharsConserved' /\ accepted' \in Seq(Chars)
          /\ orderly' => ~tty_isempty_q(buffer')
      BY <1>1, <1>2, <1>6, StepsBackConserves
    <2>2. /\ pc' = [pc EXCEPT ![t] = "fill"] /\ UNCHANGED <<tmpbuf, nr>> /\ pc[t] = "front"
      BY <1>6 DEF StepsBack, Goes
    <2>3. tmpbuf[t] # <<>> /\ nr[t] = 0
      BY <2>2 DEF CharsInv, Popping, Types
    <2>4. /\ pc'[t] = "fill"
          /\ \A u \in Tasks \ {t} : pc'[u] = pc[u] /\ tmpbuf'[u] = tmpbuf[u] /\ nr'[u] = nr[u]
      BY <1>2, <2>2
    <2>5. Popping'
      BY <1>1, <1>3, <2>1, <2>2, <2>3, <2>4, PoppingMoves DEF ReadPoints
    <2> QED
      BY <2>1, <2>5
  <1>7. CASE Fills(t)
    <2>1. CharsConserved'
      BY <1>1, <1>7, FillsConserves
    <2>2. /\ pc' = [pc EXCEPT ![t] = "unread"] /\ UNCHANGED <<nr, accepted>> /\ pc[t] = "fill"
          /\ tmpbuf' = [tmpbuf EXCEPT ![t] = Front(@)]
      BY <1>7 DEF Fills, Goes, hist
    <2>3. nr[t] = 0
      BY <2>2 DEF CharsInv, Popping, Types
    <2>4. /\ pc'[t] = "unread"
          /\ \A u \in Tasks \ {t} : pc'[u] = pc[u] /\ tmpbuf'[u] = tmpbuf[u] /\ nr'[u] = nr[u]
      BY <1>2, <2>2
    <2>5. Popping'
      BY <1>1, <1>2, <1>3, <2>2, <2>3, <2>4, PoppingMoves DEF ReadPoints
    <2> QED
      BY <2>1, <2>5
  <1>8. CASE Overrun(t)
    <2>1. /\ ~orderly' /\ pc' = [pc EXCEPT ![t] = "wild"] /\ nr[t] <= 0
          /\ UNCHANGED <<tmpbuf, nr, accepted>>
      BY <1>8 DEF Overrun, Goes
    <2>2. CharsConserved'
      BY <2>1, ConservedCounts
    <2>3. nr[t] = 0
      BY <1>2, <2>1
    <2>4. /\ pc'[t] = "wild" /\ "wild" \in Stops
          /\ \A u \in Tasks \ {t} : pc'[u] = pc[u] /\ tmpbuf'[u] = tmpbuf[u] /\ nr'[u] = nr[u]
      BY <1>2, <2>1 DEF Stops
    <2>5. Popping'
      BY <1>1, <1>2, <1>3, <2>1, <2>3, <2>4, PoppingMoves DEF ReadPoints
    <2> QED
      BY <2>2, <2>5
  <1> QED
    BY <1>4, <1>5, <1>6, <1>7, <1>8 DEF PutsBack

\* A step outside tty_pop_q and the put-back loop.
LEMMA Elsewhere ==
    ASSUME CharsInv, NEW t \in Tasks, cpu \in {NONE, t}, pc[t] \notin ReadPoints \cup Stops,
           NEW at, at \notin ReadPoints,
           pc' = [pc EXCEPT ![t] = at],
           UNCHANGED <<buffer, tmpbuf, hist>>,
           \A u \in Tasks \ {t} : nr'[u] = nr[u],
           signal' \subseteq signal
    PROVE  Popping' /\ CharsConserved'
  <1>1. tmpbuf[t] = <<>>
    BY DEF CharsInv, Popping
  <1>2. at \notin {"take", "front", "fill"} /\ pc[t] # "fill"
    BY DEF ReadPoints
  <1>3. UNCHANGED <<got, accepted, orderly>>
    BY DEF hist
  <1>4. orderly' => orderly /\ signal' \cap Readers = {}
    BY <1>3 DEF CharsInv, Popping
  <1> QED
    BY <1>1, <1>2, <1>3, <1>4, Quiet

LEMMA CharsTask ==
    ASSUME CharsInv, NEW t \in Tasks,
           \/ \E n \in Counts : tty_read(t, n) \/ _user_tty_write(t, n)
           \/ InKernel(t) \/ Resumes(t) \/ WakeBySignal(t) \/ SendSignal(t)
    PROVE  CharsInv'
  <1>1. Types'
    BY TypesStep DEF CharsInv, Next, TaskStep
  <1> SUFFICES Popping' /\ CharsConserved'
    BY <1>1 DEF CharsInv
  <1>2. /\ pc \in [Tasks -> Points] /\ nr \in [Tasks -> Nat] /\ accepted \in Seq(Chars)
        /\ orderly => signal \cap Readers = {}
    BY CharsTypes DEF CharsInv, Popping
  <1>3. ASSUME NEW n \in Counts, tty_read(t, n)
        PROVE  Popping' /\ CharsConserved'
    <2>1. /\ cpu = NONE /\ t \in Readers /\ pc[t] = "user" /\ pc' = [pc EXCEPT ![t] = "pop"]
          /\ nr' = [nr EXCEPT ![t] = n]
          /\ UNCHANGED <<buffer, signal, tmpbuf, got, accepted, orderly>>
      BY <1>3 DEF tty_read, queues, hist
    <2>2. tmpbuf[t] = <<>>
      BY <2>1 DEF CharsInv, Popping, ReadPoints, Stops
    <2>3. \A u \in Tasks \ {t} : nr'[u] = nr[u]
      BY <1>2, <2>1
    <2>4. orderly' => orderly /\ signal' \cap Readers = {}
      BY <1>2, <2>1
    <2>5. PICK at : at = "pop"
      OBVIOUS
    <2>6. /\ pc' = [pc EXCEPT ![t] = at] /\ at \notin {"take", "front", "fill"} /\ pc[t] # "fill"
      BY <2>1, <2>5
    <2> QED
      BY <2>1, <2>2, <2>3, <2>4, <2>6, Quiet
  <1>4. ASSUME NEW n \in Counts, _user_tty_write(t, n)
        PROVE  Popping' /\ CharsConserved'
    <2>1. /\ cpu = NONE /\ pc[t] = "user" /\ pc' = [pc EXCEPT ![t] = "push"]
          /\ nr' = [nr EXCEPT ![t] = n] /\ UNCHANGED <<buffer, signal, tmpbuf, hist>>
      BY <1>4 DEF _user_tty_write, queues
    <2>2. \A u \in Tasks \ {t} : nr'[u] = nr[u]
      BY <1>2, <2>1
    <2>3. pc[t] \notin ReadPoints \cup Stops /\ "push" \notin ReadPoints
      BY <2>1 DEF ReadPoints, Stops
    <2> QED
      BY <2>1, <2>2, <2>3, Elsewhere
  <1>5. CASE sleep_if_empty(t)
    <2>1. /\ cpu = t /\ pc[t] = "pop" /\ t \in Readers
          /\ UNCHANGED <<buffer, signal, nr, tmpbuf, got, accepted, orderly>>
      BY <1>5 DEF sleep_if_empty, queues, hist, CharsInv, Popping, ReadPoints
    <2>2. tmpbuf[t] # <<>> => nr[t] = 0
      BY DEF CharsInv, Popping
    <2>3. CASE t \notin signal /\ tty_isempty_q(buffer)
      <3>1. \E at \in {"asleep", "panic"} : pc' = [pc EXCEPT ![t] = at]
        BY <1>5, <2>3 DEF sleep_if_empty, interruptible_sleep_on
      <3> QED
        BY <1>2, <2>1, <2>2, <3>1, Quiet DEF ReadPoints, Stops
    <2>4. CASE ~(t \notin signal /\ tty_isempty_q(buffer))
      <3>1. pc' = [pc EXCEPT ![t] = "take"] /\ cpu' = cpu
        BY <1>5, <2>4 DEF sleep_if_empty, Goes
      <3>2. orderly => ~tty_isempty_q(buffer)
        BY <1>2, <2>1, <2>4
      <3>3. "take" \in ReadPoints
        BY DEF ReadPoints
      <3>4. \A u \in Tasks \ {t} : nr'[u] = nr[u]
        BY <2>1
      <3>5. orderly' => orderly /\ signal' \cap Readers = {}
        BY <1>2, <2>1
      <3>6. PICK at : at = "take"
        OBVIOUS
      <3>7. /\ pc' = [pc EXCEPT ![t] = at] /\ at \notin {"front", "fill"} /\ pc[t] # "fill"
            /\ at = "take" => cpu' = t /\ (orderly' => ~tty_isempty_q(buffer))
            /\ tmpbuf[t] # <<>> => nr'[t] = 0 /\ at \in ReadPoints \cup Stops
        BY <2>1, <2>2, <3>1, <3>2, <3>3, <3>5, <3>6
      <3> QED
        BY <2>1, <3>4, <3>5, <3>7, Quiet
    <2> QED
      BY <2>3, <2>4
  <1>6. CASE Push(t)
    <2>1. /\ cpu = t /\ pc[t] = "push"
          /\ UNCHANGED <<buffer, signal, tmpbuf, hist>>
          /\ \E at \in {"drain", "push", "pushed"} : pc' = [pc EXCEPT ![t] = at]
          /\ nr' = nr \/ nr' = [nr EXCEPT ![t] = @ - 1]
      BY <1>6 DEF Push, Goes
    <2>2. \A u \in Tasks \ {t} : nr'[u] = nr[u]
      BY <1>2, <2>1
    <2>3. pc[t] \notin ReadPoints \cup Stops /\ {"drain", "push", "pushed"} \cap ReadPoints = {}
      BY <2>1 DEF ReadPoints, Stops
    <2> QED
      BY <2>1, <2>2, <2>3, Elsewhere
  <1>7. CASE Pushed(t) \/ Drain(t) \/ Load(t) \/ WriterDrops(t) \/ Return(t)
    <2>1. /\ cpu = t /\ pc[t] \in {"pushed", "drain", "load", "drop", "return"}
          /\ UNCHANGED <<buffer, nr, tmpbuf, hist>> /\ signal' \subseteq signal
          /\ \E at \in {"push", "return", "wpop", "drop", "drain", "user"} :
                pc' = [pc EXCEPT ![t] = at]
      BY <1>7 DEF Pushed, Drain, Load, WriterDrops, Return, Goes, queues
    <2>2. pc[t] \notin ReadPoints \cup Stops
          /\ {"push", "return", "wpop", "drop", "drain", "user"} \cap ReadPoints = {}
      BY <2>1 DEF ReadPoints, Stops
    <2> QED
      BY <2>1, <2>2, Elsewhere
  <1>8. CASE WriterPops(t)
    <2>1. /\ cpu = t /\ pc[t] = "wpop"
          /\ UNCHANGED <<buffer, signal, nr, tmpbuf, hist>>
          /\ \E at \in {"wasleep", "load", "panic"} : pc' = [pc EXCEPT ![t] = at]
      BY <1>8 DEF WriterPops, interruptible_sleep_on, Goes, queues
    <2>2. pc[t] \notin ReadPoints \cup Stops /\ {"wasleep", "load", "panic"} \cap ReadPoints = {}
      BY <2>1 DEF ReadPoints, Stops
    <2> QED
      BY <2>1, <2>2, Elsewhere
  <1>9. CASE ReaderResumes(t)
    <2>1. /\ cpu = NONE /\ pc[t] = "asleep" /\ t \in Readers
          /\ UNCHANGED <<buffer, signal, nr, tmpbuf, got, accepted, orderly>>
          /\ pc' = pc \/ pc' = [pc EXCEPT ![t] = "pop"]
      BY <1>9 DEF ReaderResumes, Resume, queues, hist, CharsInv, Popping, ReadPoints
    <2>2. \E at \in {"pop", "asleep"} : pc' = [pc EXCEPT ![t] = at]
      BY <1>2, <2>1
    <2>3. tmpbuf[t] # <<>> => nr[t] = 0
      BY DEF CharsInv, Popping
    <2>4. {"pop", "asleep"} \subseteq ReadPoints
      BY DEF ReadPoints, Stops
    <2> QED
      BY <1>2, <2>1, <2>2, <2>3, <2>4, Quiet
  <1>10. CASE WriterResumes(t)
    <2>1. /\ cpu = NONE /\ pc[t] = "wasleep"
          /\ UNCHANGED <<buffer, signal, nr, tmpbuf, hist>>
          /\ pc' = pc \/ pc' = [pc EXCEPT ![t] = "wpop"]
      BY <1>10 DEF WriterResumes, Resume, queues
    <2>2. \E at \in {"wpop", "wasleep"} : pc' = [pc EXCEPT ![t] = at]
      BY <1>2, <2>1
    <2>3. pc[t] \notin ReadPoints \cup Stops /\ {"wpop", "wasleep"} \cap ReadPoints = {}
      BY <2>1 DEF ReadPoints, Stops
    <2> QED
      BY <2>1, <2>2, <2>3, Elsewhere
  <1>11. CASE WakeBySignal(t)
    <2>1. UNCHANGED <<buffer, signal, cpu, pc, nr, tmpbuf, got, accepted, orderly>>
      BY <1>11 DEF WakeBySignal, queues, hist
    <2>2. Popping'
      BY <2>1 DEF CharsInv, Popping
    <2>4. Settled' = Settled
      BY <2>1 DEF Settled, Filling
    <2>3. CharsConserved'
      BY <2>1, <2>4, ConservedSame DEF CharsInv
    <2> QED
      BY <2>2, <2>3
  <1>12. CASE SendSignal(t)
    <2>1. /\ cpu = NONE /\ UNCHANGED <<buffer, cpu, pc, nr, tmpbuf, got, accepted>>
          /\ signal' = signal \cup {t} /\ orderly' = (orderly /\ t \notin Readers)
      BY <1>12 DEF SendSignal, queues
    <2>2. orderly' => orderly /\ t \notin Readers
      BY <1>1, <2>1 DEF CharsInv, Types
    <2>3. orderly' => signal' \cap Readers = {}
      BY <1>2, <2>1, <2>2
    <2>4. Popping'
      BY <2>1, <2>2, <2>3 DEF CharsInv, Popping
    <2>6. Settled' = Settled
      BY <2>1 DEF Settled, Filling
    <2>5. CharsConserved'
      BY <2>1, <2>2, <2>6, ConservedSame DEF CharsInv
    <2> QED
      BY <2>4, <2>5
  <1> QED
    BY <1>3, <1>4, <1>5, <1>6, <1>7, <1>8, <1>9, <1>10, <1>11, <1>12, CharsReader
       DEF InKernel, Resumes, PutsBack

LEMMA CharsStep ==
    ASSUME CharsInv, Next \/ UNCHANGED core
    PROVE  CharsInv'
  <1>1. CASE Next
    BY <1>1, CharsKey, CharsTask DEF Next, TaskStep
  <1>2. CASE UNCHANGED core
    <2>1. UNCHANGED <<buffer, signal, cpu, pc, nr, tmpbuf, got, accepted, orderly>>
      BY <1>2 DEF core, queues, hist
    <2>2. Types'
      BY <1>2, TypesStep DEF CharsInv
    <2>3. Popping'
      BY <2>1 DEF CharsInv, Popping
    <2>5. Settled' = Settled
      BY <2>1 DEF Settled, Filling
    <2>4. CharsConserved'
      BY <2>1, <2>5, ConservedSame DEF CharsInv
    <2> QED
      BY <2>2, <2>3, <2>4 DEF CharsInv
  <1> QED
    BY <1>1, <1>2

LEMMA CharsStart ==
    ASSUME Init
    PROVE  CharsInv
  <1>1. Types
    BY TypesInit
  <1>2. /\ tty_isempty_q(buffer) /\ accepted = <<>> /\ signal = {}
        /\ \A t \in Tasks : pc[t] = "user" /\ got[t] = <<>> /\ tmpbuf[t] = <<>>
    BY DEF Init, Empty, tty_isempty_q
  <1>3. Popping
    <2>1. <<>> \in Seq(Chars)
      BY EmptySeq
    <2> QED
      BY <1>2, <2>1 DEF Popping, Chars, ReadPoints
  <1>4. Content(Settled) = <<>>
    <2>1. Content(buffer) = <<>>
      BY <1>1, <1>2, TypesParts, ContentFacts DEF DataTypes
    <2>2. ~Filling
      BY <1>2 DEF Filling, Tasks
    <2> QED
      BY <2>1, <2>2 DEF Settled
  <1>5. ASSUME NEW ch
        PROVE  Cardinality(Hands(Held(got, tmpbuf), ch)) = 0
    <2>1. \A t \in Readers : got[t] = <<>> /\ tmpbuf[t] = <<>>
      BY <1>2 DEF Tasks
    <2>2. \A t \in Readers : Held(got, tmpbuf)[t] = <<>>
      <3> TAKE t \in Readers
      <3>1. Held(got, tmpbuf)[t] = got[t] \o tmpbuf[t]
        BY DEF Held
      <3>2. PICK e \in Seq(Chars) : e = <<>>
        BY EmptySeq
      <3>3. e \o e = e
        BY <3>2, ConcatEmptySeq
      <3> QED
        BY <2>1, <3>1, <3>2, <3>3
    <2>3. Positions(<<>>, ch) = {}
      BY DEF Positions
    <2>4. Hands(Held(got, tmpbuf), ch) = {}
      BY <2>2, <2>3 DEF Hands
    <2> QED
      BY <2>4, FS_EmptySet
  <1>6. \A ch : Conserved(Held(got, tmpbuf), Content(Settled), accepted, ch)
    BY <1>2, <1>4, <1>5, OccurEmpty DEF Conserved
  <1>7. CharsConserved
    BY <1>6, ConservedCounts
  <1> QED
    BY <1>1, <1>3, <1>7 DEF CharsInv

\* CharsInv holds in every state, for any finite set of readers and writers, of
\* the terminal and with the keyboard driver's flags in front of it.
THEOREM CharsCorrect == (Spec => []CharsInv) /\ (KeyboardSpec => []CharsInv)
  <1>1. Init => CharsInv
    BY CharsStart
  <1>2. CharsInv /\ [Next]_vars => CharsInv'
    <2>1. UNCHANGED vars => UNCHANGED core
      BY DEF vars, core
    <2> QED
      BY <2>1, CharsStep
  <1>3. KeyboardInit => CharsInv
    BY <1>1 DEF KeyboardInit
  <1>4. CharsInv /\ [KeyboardNext]_<<vars, kvars>> => CharsInv'
    BY CharsStep, KeyboardStep
  <1>5. Spec => []CharsInv
    BY <1>1, <1>2, PTL DEF Spec
  <1>6. KeyboardSpec => []CharsInv
    BY <1>3, <1>4, PTL DEF KeyboardSpec
  <1> QED
    BY <1>5, <1>6

\* While orderly holds, no character that copy_to_buffer put into the buffer is
\* given out twice or lost, however many tasks call tty_read, but for those a
\* full buffer cannot take back: those each was given, those it is to put back
\* and those still in the circular queue are together the accepted ones,
\* wherever a task is between sleep_if_empty, the pop and the put-back.  The
\* key that comes between tty_push_q_front's test and its move of head, which
\* can empty the buffer, ends orderly and with it this promise.
THEOREM CharactersAreConserved == Spec => []CharsConserved
  <1>1. CharsInv => CharsConserved
    BY DEF CharsInv
  <1> QED
    BY <1>1, CharsCorrect, PTL

=============================================================================
