------------------------- MODULE ServedStreamsProofs -------------------------
(***************************************************************************)
(* Proofs about ServedStreams: TinyPB packets arrive whole and in order,   *)
(* whatever their contents, the sizes of the buffers and the cuts of the   *)
(* stream, and HTTP requests are answered in turn.  The lemmas go from the *)
(* buffer to the codec and the stream, for one protocol after the other.   *)
(***************************************************************************)
EXTENDS ServedStreams, FiniteSetsExt, SequencesExt, FiniteSetTheorems, SequenceTheorems,
        WellFoundedInduction, TLAPS

\* A buffer of bytes.
Buffers(Byte) == {b \in [mem : Seq(Byte), rd : Nat, wr : Nat] : TinyPb!InRange(b)}

LEMMA BufferFacts ==
  ASSUME NEW Byte, NEW b \in Buffers(Byte)
  PROVE  /\ b.mem \in Seq(Byte) /\ Len(b.mem) \in Nat
         /\ b.rd \in Nat /\ b.wr \in Nat /\ b.rd <= b.wr /\ b.wr <= Len(b.mem)
         /\ b = [mem |-> b.mem, rd |-> b.rd, wr |-> b.wr]
         /\ TinyPb!ReadAble(b) \in Nat /\ TinyPb!ReadAble(b) = b.wr - b.rd
         /\ \A i \in 1..Len(b.mem) : b.mem[i] \in Byte
  BY DEF Buffers, TinyPb!InRange, TinyPb!ReadAble

\* Bytes and two indexes in order make a buffer.
LEMMA BufferMade ==
  ASSUME NEW Byte, NEW m \in Seq(Byte), NEW r \in Nat, NEW w \in Nat, r <= w, w <= Len(m)
  PROVE  [mem |-> m, rd |-> r, wr |-> w] \in Buffers(Byte)
  BY DEF Buffers, TinyPb!InRange

\* A part of a sequence.
LEMMA PartOf ==
  ASSUME NEW S, NEW q \in Seq(S), NEW m \in Nat \ {0}, NEW n \in Nat, m <= n + 1, n <= Len(q)
  PROVE  /\ SubSeq(q, m, n) \in Seq(S) /\ Len(SubSeq(q, m, n)) = n - m + 1
         /\ \A i \in 1..(n - m + 1) : SubSeq(q, m, n)[i] = q[m + i - 1]
<1>1. \A i \in m..n : q[i] \in S
  OBVIOUS
<1>2. /\ SubSeq(q, m, n) \in Seq(S)
      /\ Len(SubSeq(q, m, n)) = IF m <= n THEN n - m + 1 ELSE 0
      /\ \A i \in 1..n - m + 1 : SubSeq(q, m, n)[i] = q[m + i - 1]
  BY <1>1, SubSeqProperties
<1>3. QED
  BY <1>2

\* What is to be read, byte by byte.
LEMMA ContentIs ==
  ASSUME NEW Byte, NEW b \in Buffers(Byte)
  PROVE  /\ TinyPb!Content(b) \in Seq(Byte) /\ Len(TinyPb!Content(b)) = b.wr - b.rd
         /\ \A i \in 1..(b.wr - b.rd) : TinyPb!Content(b)[i] = b.mem[b.rd + i]
<1>1. /\ b.mem \in Seq(Byte) /\ b.rd \in Nat /\ b.wr \in Nat
      /\ b.rd <= b.wr /\ b.wr <= Len(b.mem)
  BY BufferFacts
<1>2. b.rd + 1 \in Nat \ {0} /\ b.rd + 1 <= b.wr + 1 /\ b.wr - (b.rd + 1) + 1 = b.wr - b.rd
  BY <1>1
<1>3. /\ TinyPb!Content(b) \in Seq(Byte) /\ Len(TinyPb!Content(b)) = b.wr - b.rd
      /\ \A i \in 1..(b.wr - b.rd) : TinyPb!Content(b)[i] = b.mem[b.rd + 1 + i - 1]
  <2>1. /\ TinyPb!Content(b) \in Seq(Byte) /\ Len(TinyPb!Content(b)) = b.wr - (b.rd + 1) + 1
        /\ \A i \in 1..(b.wr - (b.rd + 1) + 1) : TinyPb!Content(b)[i] = b.mem[b.rd + 1 + i - 1]
    <3> DEFINE from == b.rd + 1
    <3>1. from \in Nat \ {0} /\ from <= b.wr + 1
      BY <1>2
    <3>2. TinyPb!Content(b) = SubSeq(b.mem, from, b.wr)
      BY DEF TinyPb!Content
    <3> HIDE DEF from
    <3>3. /\ SubSeq(b.mem, from, b.wr) \in Seq(Byte)
          /\ Len(SubSeq(b.mem, from, b.wr)) = b.wr - from + 1
          /\ \A i \in 1..(b.wr - from + 1) : SubSeq(b.mem, from, b.wr)[i] = b.mem[from + i - 1]
      BY <1>1, <3>1, PartOf
    <3>4. QED
      BY <3>2, <3>3, Zenon DEF from
  <2>2. QED
    BY <1>2, <2>1, Zenon
<1>4. \A i \in 1..(b.wr - b.rd) : b.rd + 1 + i - 1 = b.rd + i
  BY <1>1
<1>5. QED
  BY <1>3, <1>4

\* A new vector, as resizeBuffer and adjustBuffer make one: it has the first n bytes.
LEMMA MovedKeeps ==
  ASSUME NEW Byte, 0 \in Byte, NEW b \in Buffers(Byte), NEW size \in Nat, size >= TinyPb!ReadAble(b)
  PROVE  /\ TinyPb!Moved(b, size, TinyPb!ReadAble(b)) \in Buffers(Byte)
         /\ TinyPb!Content(TinyPb!Moved(b, size, TinyPb!ReadAble(b))) = TinyPb!Content(b)
         /\ TinyPb!Moved(b, size, TinyPb!ReadAble(b)).wr = TinyPb!ReadAble(b)
         /\ Len(TinyPb!Moved(b, size, TinyPb!ReadAble(b)).mem) = size
<1> DEFINE n == TinyPb!ReadAble(b)
           z == TinyPb!Zeroes(size - n)
           m == TinyPb!Content(b) \o z
           c == TinyPb!Moved(b, size, n)
<1>1. n \in Nat /\ n = b.wr - b.rd /\ size - n \in Nat /\ b.rd + n = b.wr
  BY BufferFacts
<1>2. z \in Seq(Byte) /\ Len(z) = size - n
  BY <1>1 DEF TinyPb!Zeroes
<1>3. TinyPb!Content(b) \in Seq(Byte) /\ Len(TinyPb!Content(b)) = n
  BY <1>1, ContentIs
<1>4. /\ m \in Seq(Byte) /\ Len(m) = size
      /\ \A i \in 1..n : m[i] = TinyPb!Content(b)[i]
  <2> HIDE DEF z, n
  <2>1. /\ m \in Seq(Byte) /\ Len(m) = n + (size - n)
        /\ \A i \in 1..(n + (size - n)) : m[i] = IF i <= n THEN TinyPb!Content(b)[i] ELSE z[i - n]
    BY <1>2, <1>3, ConcatProperties
  <2> HIDE DEF m
  <2>2. n + (size - n) = size /\ \A i \in 1..n : i \in 1..size /\ i <= n
    <3>1. PICK k \in Nat : k = n
      BY <1>1
    <3>2. size - k \in Nat
      BY <1>1, <3>1
    <3>3. k + (size - k) = size /\ \A i \in 1..k : i \in 1..size /\ i <= k
      BY <3>2
    <3>4. QED
      BY <3>1, <3>3, Zenon
  <2>3. QED
    BY <2>1, <2>2, Zenon
<1>5. c = [mem |-> m, rd |-> 0, wr |-> n]
  BY <1>1 DEF TinyPb!Moved, TinyPb!Content
<1> HIDE DEF m, c, n, z
<1>6. c \in Buffers(Byte)
  <2>1. 0 \in Nat /\ 0 <= n /\ n <= Len(m)
    BY <1>1, <1>4
  <2>2. [mem |-> m, rd |-> 0, wr |-> n] \in Buffers(Byte)
    BY <1>1, <1>4, <2>1, BufferMade
  <2>3. QED
    BY <1>5, <2>2
<1>7. c.mem = m /\ c.rd = 0 /\ c.wr = n
  BY <1>5
<1>8. /\ TinyPb!Content(c) \in Seq(Byte)
      /\ Len(TinyPb!Content(c)) = n
      /\ \A i \in 1..n : TinyPb!Content(c)[i] = m[i]
  BY <1>1, <1>6, <1>7, ContentIs
<1>9. TinyPb!Content(c) = TinyPb!Content(b)
  BY <1>3, <1>4, <1>8, SeqEqual
<1>10. QED
  BY <1>4, <1>6, <1>7, <1>9 DEF c, n

\* adjustBuffer moves the unread bytes to the front and changes none.
THEOREM AdjustKeeps ==
  ASSUME NEW Byte, 0 \in Byte, NEW b \in Buffers(Byte)
  PROVE  /\ TinyPb!AdjustBuffer(b) \in Buffers(Byte)
         /\ TinyPb!Content(TinyPb!AdjustBuffer(b)) = TinyPb!Content(b)
<1>1. Len(b.mem) \in Nat /\ Len(b.mem) >= TinyPb!ReadAble(b)
  BY BufferFacts
<1>2. CASE b.rd > Len(b.mem) \div 3
  BY <1>1, <1>2, MovedKeeps DEF TinyPb!AdjustBuffer
<1>3. CASE ~(b.rd > Len(b.mem) \div 3)
  BY <1>3 DEF TinyPb!AdjustBuffer
<1>4. QED
  BY <1>2, <1>3

\* resizeBuffer to a size that holds what is unread, as all its callers ask for, keeps it.
THEOREM ResizeKeeps ==
  ASSUME NEW Byte, 0 \in Byte, NEW b \in Buffers(Byte), NEW size \in Nat, size >= TinyPb!ReadAble(b)
  PROVE  /\ TinyPb!ResizeBuffer(b, size) \in Buffers(Byte)
         /\ TinyPb!Content(TinyPb!ResizeBuffer(b, size)) = TinyPb!Content(b)
         /\ TinyPb!ResizeBuffer(b, size).wr = TinyPb!ReadAble(b)
         /\ Len(TinyPb!ResizeBuffer(b, size).mem) = size
<1>1. TinyPb!ReadAble(b) \in Nat
  BY BufferFacts
<1>2. (IF size < TinyPb!ReadAble(b) THEN size ELSE TinyPb!ReadAble(b)) = TinyPb!ReadAble(b)
  BY <1>1
<1>3. TinyPb!ResizeBuffer(b, size) = TinyPb!Moved(b, size, TinyPb!ReadAble(b))
  BY <1>2 DEF TinyPb!ResizeBuffer
<1>4. QED
  BY <1>3, MovedKeeps

\* recycleRead of n bytes that are there takes them from the front.
THEOREM ReadTakes ==
  ASSUME NEW Byte, 0 \in Byte, NEW b \in Buffers(Byte), NEW n \in 0..TinyPb!ReadAble(b)
  PROVE  /\ TinyPb!RecycleRead(b, n) \in Buffers(Byte)
         /\ TinyPb!Content(TinyPb!RecycleRead(b, n))
              = SubSeq(TinyPb!Content(b), n + 1, TinyPb!ReadAble(b))
<1> DEFINE c == [b EXCEPT !.rd = @ + n]
<1>1. /\ b.mem \in Seq(Byte) /\ Len(b.mem) \in Nat /\ b.rd \in Nat /\ b.wr \in Nat
      /\ b.rd <= b.wr /\ b.wr <= Len(b.mem) /\ b = [mem |-> b.mem, rd |-> b.rd, wr |-> b.wr]
      /\ TinyPb!ReadAble(b) = b.wr - b.rd
  BY BufferFacts
<1>2. n \in Nat /\ b.rd + n \in Nat /\ b.rd + n <= b.wr
  BY <1>1
<1>3. c = [mem |-> b.mem, rd |-> b.rd + n, wr |-> b.wr]
  BY <1>1
<1>4. TinyPb!RecycleRead(b, n) = TinyPb!AdjustBuffer(c)
  BY <1>1, <1>2 DEF TinyPb!RecycleRead
<1> HIDE DEF c
<1>5. c \in Buffers(Byte)
  <2>1. [mem |-> b.mem, rd |-> b.rd + n, wr |-> b.wr] \in Buffers(Byte)
    BY <1>1, <1>2, BufferMade
  <2>2. QED
    BY <1>3, <2>1
<1>6. c.mem = b.mem /\ c.rd = b.rd + n /\ c.wr = b.wr
  BY <1>3
<1>7. /\ TinyPb!Content(c) \in Seq(Byte) /\ Len(TinyPb!Content(c)) = b.wr - (b.rd + n)
      /\ \A i \in 1..(b.wr - (b.rd + n)) : TinyPb!Content(c)[i] = b.mem[b.rd + n + i]
  BY <1>5, <1>6, ContentIs
<1> DEFINE rest == SubSeq(TinyPb!Content(b), n + 1, TinyPb!ReadAble(b))
<1>8. /\ TinyPb!Content(b) \in Seq(Byte) /\ Len(TinyPb!Content(b)) = TinyPb!ReadAble(b)
      /\ \A i \in 1..TinyPb!ReadAble(b) : TinyPb!Content(b)[i] = b.mem[b.rd + i]
  BY <1>1, ContentIs
<1>9. /\ n + 1 \in Nat \ {0} /\ TinyPb!ReadAble(b) \in Nat /\ n + 1 <= TinyPb!ReadAble(b) + 1
      /\ TinyPb!ReadAble(b) - (n + 1) + 1 = b.wr - (b.rd + n)
  <2>1. PICK rd \in Nat, wr \in Nat : rd = b.rd /\ wr = b.wr
    BY <1>1
  <2>2. rd + n <= wr /\ n \in Nat /\ TinyPb!ReadAble(b) = wr - rd
    BY <1>1, <1>2, <2>1, Zenon
  <2>3. /\ n + 1 \in Nat \ {0} /\ wr - rd \in Nat /\ n + 1 <= (wr - rd) + 1
        /\ (wr - rd) - (n + 1) + 1 = wr - (rd + n)
    BY <2>2
  <2>4. QED
    BY <2>1, <2>2, <2>3, Zenon
<1>10. /\ rest \in Seq(Byte) /\ Len(rest) = b.wr - (b.rd + n)
       /\ \A i \in 1..(b.wr - (b.rd + n)) : rest[i] = TinyPb!Content(b)[n + 1 + i - 1]
  <2> DEFINE from == n + 1
             last == TinyPb!ReadAble(b)
  <2>1. /\ from \in Nat \ {0} /\ last \in Nat /\ from <= last + 1 /\ last <= Len(TinyPb!Content(b))
        /\ last - from + 1 = b.wr - (b.rd + n) /\ TinyPb!Content(b) \in Seq(Byte)
    BY <1>8, <1>9
  <2>2. rest = SubSeq(TinyPb!Content(b), from, last)
    OBVIOUS
  <2> HIDE DEF from, last, rest
  <2>3. /\ SubSeq(TinyPb!Content(b), from, last) \in Seq(Byte)
        /\ Len(SubSeq(TinyPb!Content(b), from, last)) = last - from + 1
        /\ \A i \in 1..(last - from + 1) :
             SubSeq(TinyPb!Content(b), from, last)[i] = TinyPb!Content(b)[from + i - 1]
    BY <2>1, PartOf
  <2>4. QED
    BY <2>1, <2>2, <2>3, Zenon DEF from
<1> HIDE DEF rest
<1>11. \A i \in 1..(b.wr - (b.rd + n)) :
         n + 1 + i - 1 \in 1..TinyPb!ReadAble(b) /\ b.rd + (n + 1 + i - 1) = b.rd + n + i
  BY <1>1, <1>2
<1>12. \A i \in 1..(b.wr - (b.rd + n)) : rest[i] = TinyPb!Content(c)[i]
  BY <1>7, <1>8, <1>10, <1>11
<1>13. TinyPb!Content(c) = rest
  BY <1>7, <1>10, <1>12, SeqEqual
<1>14. QED
  BY <1>4, <1>5, <1>13, AdjustKeeps DEF rest

\* Bytes are stored behind the unread ones, which stay.
LEMMA StoredThere ==
  ASSUME NEW Byte, NEW b \in Buffers(Byte), NEW s \in Seq(Byte), b.wr + Len(s) <= Len(b.mem)
  PROVE  /\ [TinyPb!Stored(b, s) EXCEPT !.wr = @ + Len(s)] \in Buffers(Byte)
         /\ TinyPb!Content([TinyPb!Stored(b, s) EXCEPT !.wr = @ + Len(s)]) = TinyPb!Content(b) \o s
         /\ TinyPb!Stored(b, s).wr = b.wr /\ Len(TinyPb!Stored(b, s).mem) = Len(b.mem)
<1> DEFINE L == Len(b.mem)
           front == SubSeq(b.mem, 1, b.wr)
           back == SubSeq(b.mem, b.wr + Len(s) + 1, L)
           fs == front \o s
           all == fs \o back
           m == SubSeq(all, 1, L)
           c == [TinyPb!Stored(b, s) EXCEPT !.wr = @ + Len(s)]
<1>1. /\ b.mem \in Seq(Byte) /\ L \in Nat /\ b.rd \in Nat /\ b.wr \in Nat
      /\ b.rd <= b.wr /\ b.wr <= L /\ b = [mem |-> b.mem, rd |-> b.rd, wr |-> b.wr]
      /\ Len(s) \in Nat
  BY BufferFacts
<1>2. /\ front \in Seq(Byte) /\ Len(front) = b.wr
      /\ \A i \in 1..b.wr : front[i] = b.mem[i]
  <2>1. /\ front \in Seq(Byte) /\ Len(front) = b.wr - 1 + 1
        /\ \A i \in 1..(b.wr - 1 + 1) : front[i] = b.mem[1 + i - 1]
    BY <1>1, PartOf
  <2> HIDE DEF front
  <2>2. QED
    BY <1>1, <2>1
<1>3. back \in Seq(Byte) /\ Len(back) = L - (b.wr + Len(s))
  <2>1. /\ b.wr + Len(s) + 1 \in Nat \ {0} /\ b.wr + Len(s) + 1 <= L + 1 /\ L <= Len(b.mem)
        /\ L - (b.wr + Len(s) + 1) + 1 = L - (b.wr + Len(s))
    BY <1>1
  <2> DEFINE from == b.wr + Len(s) + 1
  <2>2. from \in Nat \ {0} /\ from <= L + 1 /\ L \in Nat /\ back = SubSeq(b.mem, from, L)
    BY <1>1, <2>1
  <2> HIDE DEF from, L, back
  <2>3. SubSeq(b.mem, from, L) \in Seq(Byte) /\ Len(SubSeq(b.mem, from, L)) = L - from + 1
    BY <1>1, <2>1, <2>2, PartOf
  <2>4. QED
    BY <2>1, <2>2, <2>3, Zenon DEF from
<1> HIDE DEF front, back
<1>4. /\ fs \in Seq(Byte) /\ Len(fs) = b.wr + Len(s)
      /\ \A i \in 1..(b.wr + Len(s)) : fs[i] = IF i <= b.wr THEN b.mem[i] ELSE s[i - b.wr]
  <2>1. /\ fs \in Seq(Byte) /\ Len(fs) = Len(front) + Len(s)
        /\ \A i \in 1..Len(front) + Len(s) :
             fs[i] = IF i <= Len(front) THEN front[i] ELSE s[i - Len(front)]
    BY <1>2, ConcatProperties
  <2> HIDE DEF fs
  <2>2. QED
    BY <1>1, <1>2, <2>1
<1> HIDE DEF fs
<1>5. /\ all \in Seq(Byte) /\ Len(all) = L
      /\ \A i \in 1..(b.wr + Len(s)) : all[i] = fs[i]
  <2>1. fs \in Seq(Byte) /\ back \in Seq(Byte)
    BY <1>3, <1>4
  <2>2. /\ all \in Seq(Byte) /\ Len(all) = Len(fs) + Len(back)
        /\ \A i \in 1..Len(fs) + Len(back) :
             all[i] = IF i <= Len(fs) THEN fs[i] ELSE back[i - Len(fs)]
    BY <2>1, ConcatProperties
  <2> HIDE DEF all
  <2>3. /\ Len(fs) = b.wr + Len(s) /\ Len(back) = L - (b.wr + Len(s))
        /\ b.wr + Len(s) \in Nat /\ L \in Nat /\ b.wr + Len(s) <= L
    BY <1>1, <1>3, <1>4
  <2>4. Len(fs) + Len(back) = L /\ \A i \in 1..(b.wr + Len(s)) : i \in 1..L
    BY <2>3
  <2>5. \A i \in 1..(b.wr + Len(s)) : i <= Len(fs)
    BY <2>3
  <2>6. QED
    BY <2>2, <2>4, <2>5
<1> HIDE DEF all
<1>6. m \in Seq(Byte) /\ Len(m) = L /\ \A i \in 1..L : m[i] = all[i]
  <2>1. /\ m \in Seq(Byte) /\ Len(m) = L - 1 + 1
        /\ \A i \in 1..(L - 1 + 1) : m[i] = all[1 + i - 1]
    BY <1>1, <1>5, PartOf
  <2> HIDE DEF m
  <2>2. QED
    BY <1>1, <2>1
<1>7. TinyPb!Stored(b, s) = [mem |-> m, rd |-> b.rd, wr |-> b.wr]
  <2>1. TinyPb!Stored(b, s) = [b EXCEPT !.mem = m]
    BY DEF TinyPb!Stored, m, all, fs, front, back
  <2> HIDE DEF m
  <2>2. QED
    BY <1>1, <2>1
<1> HIDE DEF m
<1>8. c = [mem |-> m, rd |-> b.rd, wr |-> b.wr + Len(s)]
  BY <1>7
<1> HIDE DEF c
<1>9. c \in Buffers(Byte)
  <2>1. b.wr + Len(s) \in Nat /\ b.rd <= b.wr + Len(s) /\ b.wr + Len(s) <= Len(m)
    BY <1>1, <1>6
  <2>2. QED
    BY <1>1, <1>6, <1>8, <2>1, BufferMade
<1>10. c.mem = m /\ c.rd = b.rd /\ c.wr = b.wr + Len(s)
  BY <1>8
<1>11. /\ TinyPb!Content(c) \in Seq(Byte) /\ Len(TinyPb!Content(c)) = b.wr + Len(s) - b.rd
       /\ \A i \in 1..(b.wr + Len(s) - b.rd) : TinyPb!Content(c)[i] = m[b.rd + i]
  <2>1. /\ TinyPb!Content(c) \in Seq(Byte) /\ Len(TinyPb!Content(c)) = c.wr - c.rd
        /\ \A i \in 1..(c.wr - c.rd) : TinyPb!Content(c)[i] = c.mem[c.rd + i]
    BY <1>9, ContentIs
  <2>2. c.wr - c.rd = b.wr + Len(s) - b.rd /\ c.mem = m /\ c.rd = b.rd
    BY <1>1, <1>10
  <2> HIDE DEF m
  <2>3. QED
    BY <2>1, <2>2
<1>12. /\ TinyPb!Content(b) \in Seq(Byte) /\ Len(TinyPb!Content(b)) = b.wr - b.rd
       /\ \A i \in 1..(b.wr - b.rd) : TinyPb!Content(b)[i] = b.mem[b.rd + i]
  BY ContentIs
<1> DEFINE want == TinyPb!Content(b) \o s
<1>13. /\ want \in Seq(Byte) /\ Len(want) = b.wr - b.rd + Len(s)
       /\ \A i \in 1..(b.wr - b.rd + Len(s)) :
            want[i] = IF i <= b.wr - b.rd THEN b.mem[b.rd + i] ELSE s[i - (b.wr - b.rd)]
  <2>1. /\ want \in Seq(Byte) /\ Len(want) = Len(TinyPb!Content(b)) + Len(s)
        /\ \A i \in 1..Len(TinyPb!Content(b)) + Len(s) :
             want[i] = IF i <= Len(TinyPb!Content(b)) THEN TinyPb!Content(b)[i]
                       ELSE s[i - Len(TinyPb!Content(b))]
    BY <1>12, ConcatProperties
  <2> HIDE DEF want
  <2>2. QED
    BY <1>1, <1>12, <2>1
<1> HIDE DEF want
<1>14. ASSUME NEW i \in 1..(b.wr + Len(s) - b.rd) PROVE TinyPb!Content(c)[i] = want[i]
  <2>1. /\ b.rd + i \in 1..L /\ b.rd + i \in 1..(b.wr + Len(s))
        /\ i \in 1..(b.wr - b.rd + Len(s)) /\ (b.rd + i) - b.wr = i - (b.wr - b.rd)
        /\ (b.rd + i <= b.wr) = (i <= b.wr - b.rd)
    BY <1>1
  <2>2. TinyPb!Content(c)[i] = fs[b.rd + i]
    BY <1>5, <1>6, <1>11, <2>1
  <2>3. TinyPb!Content(c)[i] = IF i <= b.wr - b.rd THEN b.mem[b.rd + i] ELSE s[i - (b.wr - b.rd)]
    BY <1>4, <2>1, <2>2
  <2>4. QED
    BY <1>13, <2>1, <2>3
<1>15. TinyPb!Content(c) = want
  <2>1. b.wr + Len(s) - b.rd = b.wr - b.rd + Len(s)
    BY <1>1
  <2>2. QED
    BY <1>11, <1>13, <1>14, <2>1, SeqEqual
<1>16. TinyPb!Stored(b, s).wr = b.wr /\ Len(TinyPb!Stored(b, s).mem) = Len(b.mem)
  BY <1>6, <1>7
<1>17. QED
  BY <1>9, <1>15, <1>16 DEF c, want

\* recycleWrite, after read() has stored the bytes where the write index is, appends them
\* to what is unread (TcpConnection::input).
THEOREM InputAppends ==
  ASSUME NEW Byte, 0 \in Byte, NEW b \in Buffers(Byte), NEW s \in Seq(Byte),
         Len(s) <= TinyPb!WriteAble(b)
  PROVE  /\ TinyPb!RecycleWrite(TinyPb!Stored(b, s), Len(s)) \in Buffers(Byte)
         /\ TinyPb!Content(TinyPb!RecycleWrite(TinyPb!Stored(b, s), Len(s)))
              = TinyPb!Content(b) \o s
<1>1. b.wr \in Nat /\ Len(b.mem) \in Nat /\ Len(s) \in Nat
  BY BufferFacts
<1>2. b.wr + Len(s) <= Len(b.mem)
  BY <1>1 DEF TinyPb!WriteAble
<1>3. TinyPb!RecycleWrite(TinyPb!Stored(b, s), Len(s))
        = TinyPb!AdjustBuffer([TinyPb!Stored(b, s) EXCEPT !.wr = @ + Len(s)])
  <2>1. TinyPb!Stored(b, s).wr = b.wr /\ Len(TinyPb!Stored(b, s).mem) = Len(b.mem)
    BY <1>2, StoredThere
  <2>2. ~(TinyPb!Stored(b, s).wr + Len(s) > Len(TinyPb!Stored(b, s).mem))
    BY <1>1, <1>2, <2>1
  <2>3. QED
    BY <2>2 DEF TinyPb!RecycleWrite
<1> DEFINE c == [TinyPb!Stored(b, s) EXCEPT !.wr = @ + Len(s)]
<1>4. c \in Buffers(Byte) /\ TinyPb!Content(c) = TinyPb!Content(b) \o s
  BY <1>2, StoredThere
<1>5. TinyPb!RecycleWrite(TinyPb!Stored(b, s), Len(s)) = TinyPb!AdjustBuffer(c)
  BY <1>3
<1> HIDE DEF c
<1>6. /\ TinyPb!AdjustBuffer(c) \in Buffers(Byte)
      /\ TinyPb!Content(TinyPb!AdjustBuffer(c)) = TinyPb!Content(c)
  BY <1>4, AdjustKeeps
<1>7. QED
  BY <1>4, <1>5, <1>6

\* writeToBuffer appends, whether the buffer grows or not: it grows by enough.
THEOREM WriteAppends ==
  ASSUME NEW Byte, 0 \in Byte, NEW b \in Buffers(Byte), NEW s \in Seq(Byte)
  PROVE  /\ TinyPb!WriteToBuffer(b, s) \in Buffers(Byte)
         /\ TinyPb!Content(TinyPb!WriteToBuffer(b, s)) = TinyPb!Content(b) \o s
<1>1. /\ b.rd \in Nat /\ b.wr \in Nat /\ b.rd <= b.wr /\ Len(b.mem) \in Nat /\ Len(s) \in Nat
      /\ TinyPb!ReadAble(b) = b.wr - b.rd
  BY BufferFacts
<1>2. CASE Len(s) > TinyPb!WriteAble(b)
  <2> DEFINE size == TinyPb!Grown(b, Len(s))
             c == TinyPb!ResizeBuffer(b, size)
  <2>1. size \in Nat /\ size >= b.wr + Len(s)
    <3>1. PICK k \in Nat : k = b.wr + Len(s)
      BY <1>1
    <3>2. (3 * k) \div 2 \in Nat /\ (3 * k) \div 2 >= k
      OBVIOUS
    <3>3. size = (3 * k) \div 2
      BY <3>1, Zenon DEF TinyPb!Grown
    <3>4. QED
      BY <3>1, <3>2, <3>3, Zenon
  <2>2. /\ c \in Buffers(Byte) /\ TinyPb!Content(c) = TinyPb!Content(b)
        /\ c.wr = b.wr - b.rd /\ Len(c.mem) = size
    <3> HIDE DEF size
    <3>1. size >= TinyPb!ReadAble(b)
      BY <1>1, <2>1
    <3>2. QED
      BY <1>1, <2>1, <3>1, ResizeKeeps
  <2>3. TinyPb!WriteToBuffer(b, s) = [TinyPb!Stored(c, s) EXCEPT !.wr = @ + Len(s)]
    BY <1>2 DEF TinyPb!WriteToBuffer
  <2> HIDE DEF c, size
  <2>4. c.wr + Len(s) <= Len(c.mem)
    BY <1>1, <2>1, <2>2
  <2>5. /\ [TinyPb!Stored(c, s) EXCEPT !.wr = @ + Len(s)] \in Buffers(Byte)
        /\ TinyPb!Content([TinyPb!Stored(c, s) EXCEPT !.wr = @ + Len(s)])
             = TinyPb!Content(c) \o s
    BY <2>2, <2>4, StoredThere
  <2>6. QED
    BY <2>2, <2>3, <2>5, Zenon
<1>3. CASE ~(Len(s) > TinyPb!WriteAble(b))
  <2>1. b.wr + Len(s) <= Len(b.mem)
    BY <1>1, <1>3 DEF TinyPb!WriteAble
  <2>2. TinyPb!WriteToBuffer(b, s) = [TinyPb!Stored(b, s) EXCEPT !.wr = @ + Len(s)]
    BY <1>3 DEF TinyPb!WriteToBuffer
  <2>3. QED
    BY <2>1, <2>2, StoredThere
<1>4. QED
  BY <1>2, <1>3

-----------------------------------------------------------------------------
(* Digits.                                                                 *)

\* Half of an even base, and of its square.
LEMMA Halves ==
  ASSUME NEW B \in Nat, B % 2 = 0
  PROVE  /\ B \div 2 \in Nat /\ B = 2 * (B \div 2)
         /\ (B * B) \div 2 = B * (B \div 2)
<1>1. B \div 2 \in Nat /\ B = 2 * (B \div 2)
  OBVIOUS
<1>2. PICK h \in Nat : h = B \div 2
  BY <1>1
<1>3. B = 2 * h
  BY <1>1, <1>2
<1>4. B * B = 2 * (B * h)
  BY <1>3
<1>5. B * h \in Nat
  OBVIOUS
<1>6. \A k \in Nat : (2 * k) \div 2 = k
  OBVIOUS
<1>7. QED
  BY <1>1, <1>2, <1>4, <1>5, <1>6

\* A smaller high digit leaves room for any low one.
LEMMA Less ==
  ASSUME NEW a \in Nat, NEW h \in Nat, NEW B \in Nat, a < h
  PROVE  a * B + B <= B * h
<1>1. PICK k \in Nat : h = a + 1 + k
  <2>1. h - a - 1 \in Nat /\ h = a + 1 + (h - a - 1)
    OBVIOUS
  <2>2. QED
    BY <2>1
<1>2. B * h = a * B + B + B * k
  BY <1>1
<1>3. B * k \in Nat
  OBVIOUS
<1>4. QED
  BY <1>2, <1>3

\* A number of two digits is in the lower half when its high digit is.
LEMMA HighDigit ==
  ASSUME NEW B \in Nat, NEW h \in Nat, NEW a \in Nat, NEW d \in 0..(B - 1)
  PROVE  /\ a < h => a * B + d < B * h
         /\ a >= h => a * B + d >= B * h
         /\ a * B + d \in Nat
<1>1. a * B \in Nat /\ B * h \in Nat
  OBVIOUS
<1>2. a < h => a * B + B <= B * h
  BY Less
<1>3. a >= h => a * B >= B * h
  <2> SUFFICES ASSUME a >= h PROVE a * B >= B * h
    OBVIOUS
  <2>1. CASE a = h
    BY <2>1
  <2>2. CASE h < a
    <3>1. h * B + B <= B * a
      BY <2>2, Less
    <3>2. h * B = B * h /\ B * a = a * B
      OBVIOUS
    <3>3. QED
      BY <1>1, <3>1, <3>2
  <2>3. QED
    BY <2>1, <2>2
<1>4. QED
  BY <1>1, <1>2, <1>3

\* A number below h * B has a high digit below h.
LEMMA DigitsOf ==
  ASSUME NEW B \in Nat, B > 3, NEW h \in Nat, h <= B, NEW n \in Nat, n < B * h
  PROVE  /\ n \div B \in 0..(h - 1) /\ n % B \in 0..(B - 1)
         /\ (n \div B) % B = n \div B
         /\ (n \div B) * B + (n % B) = n
<1>1. PICK q \in Int : q = n \div B
  OBVIOUS
<1>2. PICK r \in 0..(B - 1) : r = n % B
  OBVIOUS
<1>3. n = B * q + r
  BY <1>1, <1>2
<1>4. q * B + r = n
  BY <1>3
<1>5. q >= 0
  BY <1>3
<1>6. q < h
  <2>1. q \in Nat
    BY <1>5
  <2>2. q >= h => q * B + r >= B * h
    BY <2>1, HighDigit
  <2>3. QED
    BY <1>4, <2>1, <2>2
<1>7. q \in 0..(B - 1)
  BY <1>5, <1>6
<1>8. q % B = q
  BY <1>7
<1>9. QED
  BY <1>1, <1>2, <1>4, <1>5, <1>6, <1>8

-----------------------------------------------------------------------------
(* Sequences.                                                              *)

\* What follows the same front is the same.
LEMMA SameFront ==
  ASSUME NEW S, NEW U \in Seq(S), NEW V \in Seq(S), NEW W \in Seq(S), U \o V = U \o W
  PROVE  V = W
  BY ConcatSimplifications

\* \o as an operator that the provers do not look into.
Cat(a, b) == a \o b

\* The laws that the proofs use.
LEMMA CatFacts ==
  ASSUME NEW S
  PROVE  /\ \A a, b \in Seq(S) : Cat(a, b) \in Seq(S)
         /\ \A a, b, c \in Seq(S) : Cat(Cat(a, b), c) = Cat(a, Cat(b, c))
         /\ \A a, b, c \in Seq(S) : Cat(a, b) = Cat(a, c) => b = c
         /\ \A a, b \in Seq(S) : Cat(a, b) = a => b = <<>>
         /\ \A a, b \in Seq(S) : Cat(a, b) = <<>> => a = <<>>
<1>1. ASSUME NEW a \in Seq(S), NEW b \in Seq(S) PROVE Cat(a, b) \in Seq(S)
  BY ConcatProperties DEF Cat
<1>2. ASSUME NEW a \in Seq(S), NEW b \in Seq(S), NEW c \in Seq(S)
      PROVE  Cat(Cat(a, b), c) = Cat(a, Cat(b, c))
  BY ConcatAssociative DEF Cat
<1>3. ASSUME NEW a \in Seq(S), NEW b \in Seq(S), NEW c \in Seq(S), Cat(a, b) = Cat(a, c)
      PROVE  b = c
  BY <1>3, SameFront DEF Cat
<1>4. ASSUME NEW a \in Seq(S), NEW b \in Seq(S), Cat(a, b) = a PROVE b = <<>>
  BY <1>4, ConcatEqualIffEmpty DEF Cat
<1>5. ASSUME NEW a \in Seq(S), NEW b \in Seq(S), Cat(a, b) = <<>> PROVE a = <<>>
  BY <1>5, ConcatEqualIffEmpty DEF Cat
<1>6. QED
  BY <1>1, <1>2, <1>3, <1>4, <1>5

\* Where two ways to cut a sequence in two meet.
LEMMA Overlap ==
  ASSUME NEW S, NEW X \in Seq(S), NEW Y \in Seq(S), NEW U \in Seq(S), NEW V \in Seq(S),
         Cat(X, Y) = Cat(U, V), Len(X) >= Len(U)
  PROVE  /\ SubSeq(X, Len(U) + 1, Len(X)) \in Seq(S)
         /\ X = Cat(U, SubSeq(X, Len(U) + 1, Len(X)))
         /\ Cat(SubSeq(X, Len(U) + 1, Len(X)), Y) = V
         /\ \A i \in 1..Len(U) : X[i] = U[i]
<1>1. PICK lx \in Nat, lu \in Nat : lx = Len(X) /\ lu = Len(U)
  BY LenProperties
<1>2. lu <= lx
  BY <1>1
<1> DEFINE R == SubSeq(X, lu + 1, lx)
           F == SubSeq(X, 1, lu)
<1>3. R \in Seq(S) /\ F \in Seq(S) /\ Len(F) = lu /\ \A i \in 1..lu : F[i] = X[i]
  <2>1. /\ lu + 1 \in Nat \ {0} /\ lu + 1 <= lx + 1 /\ lx <= Len(X) /\ lu <= Len(X)
        /\ 1 \in Nat \ {0} /\ 1 <= lu + 1 /\ lu - 1 + 1 = lu /\ \A i \in 1..lu : 1 + i - 1 = i
    BY <1>1, <1>2
  <2>2. R \in Seq(S)
    BY <2>1, PartOf
  <2>3. /\ F \in Seq(S) /\ Len(F) = lu - 1 + 1
        /\ \A i \in 1..(lu - 1 + 1) : F[i] = X[1 + i - 1]
    BY <2>1, PartOf
  <2> HIDE DEF F, R
  <2>4. QED
    BY <2>1, <2>2, <2>3
<1>4. X = Cat(F, R)
  <2>1. 1 \in 1..(Len(X) + 1) /\ lu \in (1 - 1)..Len(X) /\ lx \in lu..Len(X)
    BY <1>1, <1>2
  <2>2. F \o R = SubSeq(X, 1, lx)
    BY <2>1, ConcatAdjacentSubSeq
  <2>3. SubSeq(X, 1, lx) = X
    BY <1>1, SubSeqFull
  <2>4. QED
    BY <2>2, <2>3 DEF Cat
<1> HIDE DEF F
<1>5. \A i \in 1..lu : X[i] = U[i]
  <2> SUFFICES ASSUME NEW i \in 1..lu PROVE X[i] = U[i]
    OBVIOUS
  <2>0. Len(Y) \in Nat /\ Len(V) \in Nat
    BY LenProperties
  <2>1. Cat(X, Y)[i] = X[i]
    <3>1. i \in 1..(Len(X) + Len(Y)) /\ i <= Len(X)
      BY <1>1, <1>2, <2>0
    <3>2. QED
      BY <3>1, ConcatProperties DEF Cat
  <2>2. Cat(U, V)[i] = U[i]
    <3>1. i \in 1..(Len(U) + Len(V)) /\ i <= Len(U)
      BY <1>1, <1>2, <2>0
    <3>2. QED
      BY <3>1, ConcatProperties DEF Cat
  <2>3. QED
    BY <2>1, <2>2
<1>6. F = U
  BY <1>1, <1>3, <1>5, SeqEqual
<1> HIDE DEF R
<1>7. X = Cat(U, R)
  BY <1>4, <1>6
<1>8. Cat(Cat(U, R), Y) = Cat(U, Cat(R, Y)) /\ Cat(R, Y) \in Seq(S)
  BY <1>3, CatFacts
<1>9. Cat(U, Cat(R, Y)) = Cat(U, V)
  BY <1>7, <1>8, Zenon
<1>10. Cat(R, Y) = V
  BY <1>8, <1>9, CatFacts
<1>11. QED
  BY <1>1, <1>3, <1>5, <1>7, <1>10 DEF R

\* The first part of a sequence, and the rest.
LEMMA Cut ==
  ASSUME NEW S, NEW q \in Seq(S), NEW n \in 0..Len(q)
  PROVE  /\ SubSeq(q, 1, n) \in Seq(S) /\ Len(SubSeq(q, 1, n)) = n
         /\ SubSeq(q, n + 1, Len(q)) \in Seq(S) /\ Len(SubSeq(q, n + 1, Len(q))) = Len(q) - n
         /\ q = SubSeq(q, 1, n) \o SubSeq(q, n + 1, Len(q))
<1>1. PICK l \in Nat : l = Len(q)
  BY LenProperties
<1>2. /\ n \in Nat /\ n <= l /\ n + 1 \in Nat \ {0} /\ n + 1 <= l + 1 /\ l <= Len(q)
      /\ 1 \in Nat \ {0} /\ 1 <= n + 1 /\ n <= Len(q) /\ n - 1 + 1 = n /\ l - (n + 1) + 1 = l - n
  BY <1>1
<1>3. SubSeq(q, 1, n) \in Seq(S) /\ Len(SubSeq(q, 1, n)) = n - 1 + 1
  BY <1>2, PartOf
<1>4. SubSeq(q, n + 1, l) \in Seq(S) /\ Len(SubSeq(q, n + 1, l)) = l - (n + 1) + 1
  BY <1>2, PartOf
<1>5. q = SubSeq(q, 1, n) \o SubSeq(q, n + 1, l)
  <2>1. 1 \in 1..(Len(q) + 1) /\ n \in (1 - 1)..Len(q) /\ l \in n..Len(q)
    BY <1>1, <1>2
  <2>2. SubSeq(q, 1, n) \o SubSeq(q, n + 1, l) = SubSeq(q, 1, l)
    BY <2>1, ConcatAdjacentSubSeq
  <2>3. SubSeq(q, 1, l) = q
    BY <1>1, SubSeqFull
  <2>4. QED
    BY <2>2, <2>3
<1>6. QED
  BY <1>1, <1>2, <1>3, <1>4, <1>5

-----------------------------------------------------------------------------
(* Induction, by the least number that is not in a set.                    *)

Below == OpToRel(<, Nat)

\* A set of numbers has a least one.
LEMMA LeastNat ==
  ASSUME NEW T \in SUBSET Nat, T # {}
  PROVE  \E n \in T : \A m \in T : n <= m
<1>1. IsWellFoundedOn(Below, Nat)
  BY NatLessThanWellFounded DEF Below
<1>2. \A m, n \in Nat : <<m, n>> \in Below <=> m < n
  BY DEF Below, OpToRel
<1>3. PICK n \in T : \A m \in T : ~(<<m, n>> \in Below)
  BY <1>1, WFMin
<1>4. \A m \in T : m \in Nat /\ n \in Nat /\ ~(m < n)
  BY <1>2, <1>3
<1>5. \A m \in T : n <= m
  BY <1>4
<1>6. QED
  BY <1>5

\* Induction over the numbers, for a set of them.
LEMMA Induct ==
  ASSUME NEW T \in SUBSET Nat, 0 \in T, \A n \in T : n + 1 \in T
  PROVE  T = Nat
<1> SUFFICES ASSUME T # Nat PROVE FALSE
  OBVIOUS
<1>1. PICK n \in Nat \ T : \A m \in Nat \ T : n <= m
  BY LeastNat
<1>2. n # 0 /\ n - 1 \in Nat
  BY <1>1
<1>3. n - 1 \in T
  BY <1>1, <1>2
<1>4. QED
  BY <1>1, <1>3

-----------------------------------------------------------------------------
(* FlattenSeq of the first k sequences of E.                               *)

Flat(E, k) == FlattenSeq([i \in 1..k |-> E[i]])

\* flatten of FlattenSeq.
Flattens(E, k, f) == f = [i \in 1..k |-> IF i = 1 THEN E[i] ELSE f[i - 1] \o E[i]]

\* There is one such function, ...
LEMMA FlattensUnique ==
  ASSUME NEW E, NEW k \in Nat, NEW f, NEW g, Flattens(E, k, f), Flattens(E, k, g)
  PROVE  f = g
<1>1. /\ \A i \in 1..k : f[i] = IF i = 1 THEN E[i] ELSE f[i - 1] \o E[i]
      /\ \A i \in 1..k : g[i] = IF i = 1 THEN E[i] ELSE g[i - 1] \o E[i]
      /\ f = [i \in 1..k |-> f[i]] /\ g = [i \in 1..k |-> g[i]]
  BY DEF Flattens
<1> DEFINE T == {n \in Nat : n \in 1..k => f[n] = g[n]}
<1>2. T \in SUBSET Nat /\ 0 \in T
  OBVIOUS
<1>3. ASSUME NEW n \in T PROVE n + 1 \in T
  <2>1. n \in Nat /\ (n \in 1..k => f[n] = g[n])
    BY <1>3
  <2>2. SUFFICES ASSUME n + 1 \in 1..k PROVE f[n + 1] = g[n + 1]
    BY <2>1
  <2>3. CASE n = 0
    <3>1. n + 1 = 1 /\ 1 \in 1..k
      BY <2>2, <2>3
    <3>2. QED
      BY <1>1, <3>1
  <2>4. CASE n # 0
    <3>1. n \in 1..k /\ n + 1 # 1 /\ (n + 1) - 1 = n
      BY <2>1, <2>2, <2>4
    <3>2. f[n + 1] = f[n] \o E[n + 1] /\ g[n + 1] = g[n] \o E[n + 1]
      BY <1>1, <2>2, <3>1
    <3>3. QED
      BY <2>1, <3>1, <3>2
  <2>5. QED
    BY <2>3, <2>4
<1>4. T = Nat
  <2> HIDE DEF T
  <2>1. QED
    BY <1>2, <1>3, Induct
<1>5. \A i \in 1..k : f[i] = g[i]
  BY <1>4
<1>6. QED
  BY <1>1, <1>5

\* ... and it exists, ...
LEMMA FlattensExists ==
  ASSUME NEW E
  PROVE  \A k \in Nat : \E f : Flattens(E, k, f)
<1> DEFINE T == {k \in Nat : \E f : Flattens(E, k, f)}
<1>1. 0 \in T
  <2>1. Flattens(E, 0, [i \in 1..0 |-> E[i]])
    BY DEF Flattens
  <2>2. QED
    BY <2>1
<1>2. ASSUME NEW k \in T PROVE k + 1 \in T
  <2>1. k \in Nat /\ \E f : Flattens(E, k, f)
    BY <1>2
  <2>2. PICK f : Flattens(E, k, f)
    BY <2>1
  <2>3. \A i \in 1..k : f[i] = IF i = 1 THEN E[i] ELSE f[i - 1] \o E[i]
    BY <2>2 DEF Flattens
  <2> DEFINE g == [i \in 1..(k + 1) |->
                     IF i <= k THEN f[i] ELSE IF i = 1 THEN E[i] ELSE f[i - 1] \o E[i]]
  <2>4. \A i \in 1..(k + 1) :
          g[i] = IF i <= k THEN f[i] ELSE IF i = 1 THEN E[i] ELSE f[i - 1] \o E[i]
    OBVIOUS
  <2>5. g = [i \in 1..(k + 1) |-> g[i]]
    OBVIOUS
  <2> HIDE DEF g
  <2>6. ASSUME NEW i \in 1..(k + 1)
        PROVE  g[i] = IF i = 1 THEN E[i] ELSE g[i - 1] \o E[i]
    <3>1. CASE i = 1
      <4>1. k >= 1 => f[1] = E[1]
        BY <2>1, <2>3
      <4>2. QED
        BY <2>1, <2>4, <3>1, <4>1
    <3>2. CASE i # 1
      <4>1. i - 1 \in 1..(k + 1) /\ i - 1 <= k /\ i \in Nat
        BY <2>1, <3>2
      <4>2. g[i - 1] = f[i - 1]
        BY <2>4, <4>1
      <4>3. CASE i <= k
        <5>1. i \in 1..k
          BY <4>1, <4>3
        <5>2. g[i] = f[i] /\ f[i] = f[i - 1] \o E[i]
          BY <2>3, <2>4, <3>2, <4>3, <5>1
        <5>3. QED
          BY <3>2, <4>2, <5>2
      <4>4. CASE ~(i <= k)
        <5>1. g[i] = f[i - 1] \o E[i]
          BY <2>4, <3>2, <4>4
        <5>2. QED
          BY <3>2, <4>2, <5>1
      <4>5. QED
        BY <4>3, <4>4
    <3>3. QED
      BY <3>1, <3>2
  <2>7. Flattens(E, k + 1, g)
    BY <2>5, <2>6 DEF Flattens
  <2>8. QED
    BY <2>1, <2>7
<1>3. T = Nat
  <2> HIDE DEF T
  <2>1. T \in SUBSET Nat
    BY DEF T
  <2>2. QED
    BY <1>1, <1>2, <2>1, Induct
<1>4. QED
  BY <1>3

\* ... so that FlattenSeq gives its last value.
LEMMA FlatIs ==
  ASSUME NEW E, NEW k \in Nat \ {0}, NEW f, Flattens(E, k, f)
  PROVE  Flat(E, k) = f[k]
<1> DEFINE seqs == [i \in 1..k |-> E[i]]
           P(g) == g = [i \in 1..k |-> IF i = 1 THEN seqs[i] ELSE g[i - 1] \o seqs[i]]
<1>1. Len(seqs) = k
  <2>1. seqs \in Seq({E[i] : i \in 1..k})
    OBVIOUS
  <2>2. DOMAIN seqs = 1..k
    OBVIOUS
  <2> HIDE DEF seqs
  <2>3. QED
    BY <2>1, <2>2, LenProperties
<1>2. \A g : P(g) <=> Flattens(E, k, g)
  <2> SUFFICES ASSUME NEW g PROVE P(g) <=> Flattens(E, k, g)
    OBVIOUS
  <2>1. [i \in 1..k |-> IF i = 1 THEN seqs[i] ELSE g[i - 1] \o seqs[i]]
          = [i \in 1..k |-> IF i = 1 THEN E[i] ELSE g[i - 1] \o E[i]]
    OBVIOUS
  <2>2. QED
    BY <2>1 DEF Flattens
<1>3. Flat(E, k) = (CHOOSE g : P(g))[k]
  BY <1>1, Zenon DEF Flat, FlattenSeq
<1> HIDE DEF P
<1>4. P(CHOOSE g : P(g))
  <2>1. P(f)
    BY <1>2
  <2>2. QED
    BY <2>1
<1>5. (CHOOSE g : P(g)) = f
  BY <1>2, <1>4, FlattensUnique
<1>6. QED
  BY <1>3, <1>5

\* FlattenSeq of nothing, and of one element.
LEMMA FlatZero ==
  ASSUME NEW E
  PROVE  Flat(E, 0) = <<>>
<1>1. [i \in 1..0 |-> E[i]] = <<>>
  OBVIOUS
<1>2. QED
  BY <1>1 DEF Flat, FlattenSeq

LEMMA FlatOne ==
  ASSUME NEW E
  PROVE  Flat(E, 1) = E[1]
<1>1. PICK f : Flattens(E, 1, f)
  BY FlattensExists
<1>2. 1 \in Nat \ {0}
  OBVIOUS
<1>3. Flat(E, 1) = f[1]
  BY <1>1, <1>2, FlatIs
<1>4. f[1] = E[1]
  BY <1>1 DEF Flattens
<1>5. QED
  BY <1>3, <1>4

\* One more element is put behind.
LEMMA FlatNext ==
  ASSUME NEW E, NEW k \in Nat \ {0}
  PROVE  Flat(E, k + 1) = Flat(E, k) \o E[k + 1]
<1>1. k \in Nat /\ k + 1 \in Nat \ {0} /\ k + 1 # 1 /\ (k + 1) - 1 = k /\ k \in 1..k
      /\ k + 1 \in 1..(k + 1) /\ (\A i \in 1..k : i \in 1..(k + 1))
      /\ (\A i \in 1..k : i # 1 => i - 1 \in 1..k)
  OBVIOUS
<1>2. PICK f : Flattens(E, k + 1, f)
  BY <1>1, FlattensExists
<1>3. \A i \in 1..(k + 1) : f[i] = IF i = 1 THEN E[i] ELSE f[i - 1] \o E[i]
  BY <1>2 DEF Flattens
<1> DEFINE g == [i \in 1..k |-> f[i]]
<1>4. \A i \in 1..k : g[i] = f[i]
  OBVIOUS
<1>5. g = [i \in 1..k |-> g[i]]
  OBVIOUS
<1> HIDE DEF g
<1>6. ASSUME NEW i \in 1..k PROVE g[i] = IF i = 1 THEN E[i] ELSE g[i - 1] \o E[i]
  BY <1>1, <1>3, <1>4
<1>7. Flattens(E, k, g)
  BY <1>5, <1>6 DEF Flattens
<1>8. Flat(E, k) = g[k]
  BY <1>7, FlatIs
<1>9. Flat(E, k + 1) = f[k + 1]
  BY <1>1, <1>2, FlatIs
<1>10. f[k + 1] = f[k] \o E[k + 1]
  BY <1>1, <1>3
<1>11. QED
  BY <1>1, <1>4, <1>8, <1>9, <1>10

\* Flat of k + 1 sequences has one more behind that of k.
LEMMA FlatStep ==
  ASSUME NEW S, NEW E, NEW n \in Nat, \A i \in 1..n : E[i] \in Seq(S)
  PROVE  /\ \A k \in 0..n : Flat(E, k) \in Seq(S)
         /\ \A k \in 0..(n - 1) : Flat(E, k + 1) = Flat(E, k) \o E[k + 1]
<1>1. ASSUME NEW k \in 0..(n - 1) PROVE Flat(E, k + 1) = Flat(E, k) \o E[k + 1]
  <2>1. CASE k = 0
    <3>1. E[1] \in Seq(S) /\ k + 1 = 1
      BY <2>1
    <3>2. <<>> \o E[1] = E[1]
      BY <3>1, ConcatEmptySeq
    <3>3. QED
      BY <2>1, <3>1, <3>2, FlatZero, FlatOne
  <2>2. CASE k # 0
    <3>1. k \in Nat \ {0}
      BY <2>2
    <3>2. QED
      BY <3>1, FlatNext
  <2>3. QED
    BY <2>1, <2>2
<1> DEFINE T == {k \in Nat : k <= n => Flat(E, k) \in Seq(S)}
<1>2. T \in SUBSET Nat
  OBVIOUS
<1>3. 0 \in T
  <2>1. <<>> \in Seq(S)
    OBVIOUS
  <2>2. QED
    BY <2>1, FlatZero
<1>4. ASSUME NEW k \in T PROVE k + 1 \in T
  <2>1. k \in Nat /\ (k <= n => Flat(E, k) \in Seq(S))
    BY <1>4
  <2>2. SUFFICES ASSUME k + 1 <= n PROVE Flat(E, k + 1) \in Seq(S)
    BY <2>1
  <2>3. k \in 0..(n - 1) /\ k <= n /\ k + 1 \in 1..n
    BY <2>1, <2>2
  <2>4. E[k + 1] \in Seq(S) /\ Flat(E, k) \in Seq(S) /\ Flat(E, k + 1) = Flat(E, k) \o E[k + 1]
    BY <1>1, <2>1, <2>3
  <2>5. Flat(E, k) \o E[k + 1] \in Seq(S)
    BY <2>4, ConcatProperties
  <2>6. QED
    BY <2>4, <2>5
<1>5. T = Nat
  <2> HIDE DEF T
  <2>1. QED
    BY <1>2, <1>3, <1>4, Induct
<1>6. \A k \in 0..n : Flat(E, k) \in Seq(S)
  BY <1>5
<1>7. QED
  BY <1>1, <1>6

Grows(S, E, j, k) == \E rest \in Seq(S) : Flat(E, k) = Flat(E, j) \o rest

\* Flat of k sequences begins with that of fewer.
LEMMA FlatGrows ==
  ASSUME NEW S, NEW E, NEW n \in Nat, \A i \in 1..n : E[i] \in Seq(S),
         NEW j \in 0..n
  PROVE  \A k \in j..n : Grows(S, E, j, k)
<1>1. /\ \A i \in 0..n : Flat(E, i) \in Seq(S)
      /\ \A i \in 0..(n - 1) : Flat(E, i + 1) = Flat(E, i) \o E[i + 1]
  BY FlatStep
<1> DEFINE T == {d \in Nat : j + d <= n => \E rest \in Seq(S) : Flat(E, j + d) = Flat(E, j) \o rest}
<1>2. T \in SUBSET Nat
  OBVIOUS
<1>3. 0 \in T
  <2>1. <<>> \in Seq(S) /\ Flat(E, j) \in Seq(S)
    BY <1>1
  <2>2. Flat(E, j) = Flat(E, j) \o <<>>
    BY <2>1, ConcatEmptySeq
  <2>3. j + 0 = j
    OBVIOUS
  <2>4. QED
    BY <2>1, <2>2, <2>3
<1>4. ASSUME NEW d \in T PROVE d + 1 \in T
  <2>1. d \in Nat /\ (j + d <= n => \E rest \in Seq(S) : Flat(E, j + d) = Flat(E, j) \o rest)
    BY <1>4
  <2>2. ASSUME j + (d + 1) <= n
        PROVE  \E rest \in Seq(S) : Flat(E, j + (d + 1)) = Flat(E, j) \o rest
    <3>1. PICK m \in Nat : m = j + d
      BY <2>1
    <3>2. m \in 0..(n - 1) /\ m <= n /\ j + (d + 1) = m + 1 /\ m + 1 \in 1..n
      BY <2>1, <2>2, <3>1
    <3>3. PICK front \in Seq(S) : front = Flat(E, j)
      BY <1>1
    <3>4. PICK rest \in Seq(S) : Flat(E, m) = front \o rest
      BY <2>1, <3>1, <3>2, <3>3
    <3>5. PICK e \in Seq(S) : e = E[m + 1]
      BY <3>2
    <3>6. Cat(Cat(front, rest), e) = Cat(front, Cat(rest, e))
      BY CatFacts
    <3>7. rest \o e \in Seq(S)
      BY ConcatProperties
    <3>8. Flat(E, m + 1) = Flat(E, m) \o e
      BY <1>1, <3>2, <3>5
    <3>9. Flat(E, m + 1) = Flat(E, j) \o (rest \o e)
      BY <3>3, <3>4, <3>6, <3>8, Zenon DEF Cat
    <3>10. QED
      BY <3>2, <3>7, <3>9
  <2>3. d + 1 \in Nat
    BY <2>1
  <2>4. QED
    BY <2>2, <2>3, Zenon
<1>5. T = Nat
  <2> HIDE DEF T
  <2>1. QED
    BY <1>2, <1>3, <1>4, Induct
<1>6. ASSUME NEW k \in j..n
      PROVE  \E rest \in Seq(S) : Flat(E, k) = Flat(E, j) \o rest
  <2>1. k - j \in Nat /\ j + (k - j) = k /\ k <= n
    OBVIOUS
  <2>2. k - j \in T
    BY <1>5, <2>1
  <2>3. QED
    BY <2>1, <2>2
<1>7. QED
  BY <1>6 DEF Grows

-----------------------------------------------------------------------------
(* Packets.                                                                *)

\* The packets of the first k messages.
PacketsOf(k) == TinyPb!Packets(SubSeq(Messages, 1, k))

Packet(i) == TinyPb!Encoded(Messages[i])

\* The codec's FlattenSeq is that of SequencesExt.
LEMMA SameFlatten ==
  ASSUME NEW q
  PROVE  TinyPb!FlattenSeq(q) = FlattenSeq(q)
  BY DEF TinyPb!FlattenSeq, FlattenSeq

\* The packets sent are the flattened ones, which FlatNext takes one by one.
LEMMA PacketsAre ==
  ASSUME NEW M, Messages \in Seq(M), NEW k \in 0..Len(Messages)
  PROVE  PacketsOf(k) = Flat([i \in 1..Len(Messages) |-> Packet(i)], k)
<1>1. PICK n \in Nat : n = Len(Messages)
  OBVIOUS
<1> DEFINE ms == SubSeq(Messages, 1, k)
           E == [i \in 1..n |-> Packet(i)]
<1>2. /\ k \in Nat /\ 1 \in Nat \ {0} /\ 1 <= k + 1 /\ k <= Len(Messages) /\ k - 1 + 1 = k
      /\ \A i \in 1..k : 1 + i - 1 = i /\ i \in 1..n
  BY <1>1
<1>3. /\ ms \in Seq(M) /\ Len(ms) = k - 1 + 1
      /\ \A i \in 1..(k - 1 + 1) : ms[i] = Messages[1 + i - 1]
  BY <1>2, PartOf
<1> HIDE DEF ms
<1>4. DOMAIN ms = 1..k /\ \A i \in 1..k : ms[i] = Messages[i]
  BY <1>2, <1>3
<1>5. \A i \in 1..k : E[i] = TinyPb!Encoded(ms[i])
  BY <1>2, <1>4 DEF Packet
<1> HIDE DEF E
<1>6. [i \in DOMAIN ms |-> TinyPb!Encoded(ms[i])] = [i \in 1..k |-> E[i]]
  BY <1>4, <1>5, Zenon
<1>7. PacketsOf(k) = TinyPb!FlattenSeq([i \in DOMAIN ms |-> TinyPb!Encoded(ms[i])])
  BY DEF PacketsOf, TinyPb!Packets, ms
<1>8. PacketsOf(k) = FlattenSeq([i \in 1..k |-> E[i]])
  BY <1>6, <1>7, SameFlatten, Zenon
<1>9. E = [i \in 1..Len(Messages) |-> Packet(i)]
  BY <1>1 DEF E
<1>10. PacketsOf(k) = Flat(E, k)
  BY <1>8 DEF Flat
<1>11. QED
  BY <1>9, <1>10, Zenon

\* p begins with q.
Begins(p, q) == Len(q) <= Len(p) /\ \A i \in 1..Len(q) : p[i] = q[i]

\* A sequence that begins with two parts begins with the first, and has the second behind it.
LEMMA BeginsWithPart ==
  ASSUME NEW S, NEW p \in Seq(S), NEW q \in Seq(S), NEW s \in Seq(S), Begins(p, q \o s)
  PROVE  /\ Begins(p, q)
         /\ \A i \in 1..Len(s) : p[Len(q) + i] = s[i]
<1>1. PICK lq \in Nat, ls \in Nat : lq = Len(q) /\ ls = Len(s)
  BY LenProperties
<1>2. /\ Len(q \o s) = lq + ls
      /\ \A i \in 1..(lq + ls) : (q \o s)[i] = IF i <= lq THEN q[i] ELSE s[i - lq]
  BY <1>1, ConcatProperties
<1>3. Len(p) \in Nat
  BY LenProperties
<1>4. lq + ls <= Len(p) /\ \A i \in 1..(lq + ls) : p[i] = (q \o s)[i]
  BY <1>2 DEF Begins
<1>5. lq <= Len(p)
  BY <1>3, <1>4
<1>6. \A i \in 1..lq : i \in 1..(lq + ls) /\ i <= lq
  OBVIOUS
<1>7. \A i \in 1..lq : p[i] = q[i]
  BY <1>2, <1>4, <1>6
<1>8. \A i \in 1..ls : lq + i \in 1..(lq + ls) /\ ~(lq + i <= lq) /\ (lq + i) - lq = i
  OBVIOUS
<1>9. \A i \in 1..ls : p[lq + i] = s[i]
  BY <1>2, <1>4, <1>8
<1>10. QED
  BY <1>1, <1>5, <1>7, <1>9 DEF Begins

\* What the assumption on Base gives.
LEMMA BaseFacts ==
  /\ Base \in Nat /\ Base > 3 /\ Base % 2 = 0
  /\ Base \div 2 \in Nat /\ Base = 2 * (Base \div 2) /\ (Base * Base) \div 2 = Base * (Base \div 2)
  /\ 0 \in TinyPb!Byte /\ 1 \in TinyPb!Byte /\ 2 \in TinyPb!Byte /\ 3 \in TinyPb!Byte
  /\ TinyPb!Byte = 0..(Base - 1)
<1>1. Base \in Nat /\ Base > 3 /\ Base % 2 = 0
  BY StreamsAssumption
<1>2. QED
  BY <1>1, Halves DEF TinyPb!Byte

\* A number is two bytes.
LEMMA NetIntBytes ==
  ASSUME NEW n \in Int
  PROVE  /\ TinyPb!NetInt(n) \in Seq(TinyPb!Byte) /\ Len(TinyPb!NetInt(n)) = 2
         /\ TinyPb!NetInt(n)[1] = (n \div Base) % Base /\ TinyPb!NetInt(n)[2] = n % Base
<1>1. Base \in Nat /\ Base > 3 /\ TinyPb!Byte = 0..(Base - 1)
  BY BaseFacts
<1>2. (n \div Base) % Base \in TinyPb!Byte /\ n % Base \in TinyPb!Byte
  BY <1>1
<1>3. QED
  BY <1>2 DEF TinyPb!NetInt

\* A message, and where its fields are in its packet.
Size(m) ==
  14 + Len(m.msg_req) + Len(m.service_full_name) + Len(m.err_info) + Len(m.pb_data)

Layout(m, p) ==
  LET ml == Len(m.msg_req)
      nl == Len(m.service_full_name)
      el == Len(m.err_info)
      dl == Len(m.pb_data)
  IN  /\ p[1] = 2
      /\ p[2] = TinyPb!NetInt(TinyPb!PkLen(m))[1] /\ p[3] = TinyPb!NetInt(TinyPb!PkLen(m))[2]
      /\ p[4] = TinyPb!NetInt(ml)[1] /\ p[5] = TinyPb!NetInt(ml)[2]
      /\ \A k \in 1..ml : p[5 + k] = m.msg_req[k]
      /\ p[6 + ml] = TinyPb!NetInt(nl)[1] /\ p[7 + ml] = TinyPb!NetInt(nl)[2]
      /\ \A k \in 1..nl : p[7 + ml + k] = m.service_full_name[k]
      /\ p[8 + ml + nl] = TinyPb!NetInt(m.err_code)[1]
      /\ p[9 + ml + nl] = TinyPb!NetInt(m.err_code)[2]
      /\ p[10 + ml + nl] = TinyPb!NetInt(el)[1] /\ p[11 + ml + nl] = TinyPb!NetInt(el)[2]
      /\ \A k \in 1..el : p[11 + ml + nl + k] = m.err_info[k]
      /\ \A k \in 1..dl : p[11 + ml + nl + el + k] = m.pb_data[k]
      /\ p[12 + ml + nl + el + dl] = 0 /\ p[13 + ml + nl + el + dl] = 1
      /\ p[14 + ml + nl + el + dl] = 3

\* The fields of a message have lengths that fit a packet.
LEMMA MessageFacts ==
  ASSUME NEW m, TinyPb!WellFormed(m)
  PROVE  /\ m.msg_req \in Seq(TinyPb!Byte) /\ m.service_full_name \in Seq(TinyPb!Byte)
         /\ m.err_info \in Seq(TinyPb!Byte) /\ m.pb_data \in Seq(TinyPb!Byte)
         /\ Len(m.msg_req) \in Nat \ {0} /\ Len(m.service_full_name) \in Nat
         /\ Len(m.err_info) \in Nat /\ Len(m.pb_data) \in Nat
         /\ m.err_code \in Int
         /\ m.err_code >= -(Base * (Base \div 2)) /\ m.err_code < Base * (Base \div 2)
         /\ m = [msg_req |-> m.msg_req, service_full_name |-> m.service_full_name,
                 err_code |-> m.err_code, err_info |-> m.err_info, pb_data |-> m.pb_data]
         /\ TinyPb!PkLen(m) = Size(m) /\ Size(m) \in Nat /\ Size(m) >= 15
         /\ Size(m) < Base * (Base \div 2)
<1>1. PICK half \in Int : half = (Base * Base) \div 2 /\ half = Base * (Base \div 2)
  BY BaseFacts
<1>2. /\ m \in [msg_req : Seq(TinyPb!Byte) \ {<<>>}, service_full_name : Seq(TinyPb!Byte),
                err_code : (-half)..(half - 1),
                err_info : Seq(TinyPb!Byte), pb_data : Seq(TinyPb!Byte)]
      /\ TinyPb!PkLen(m) < half
  BY <1>1 DEF TinyPb!WellFormed
<1>3. /\ m.msg_req \in Seq(TinyPb!Byte) /\ m.service_full_name \in Seq(TinyPb!Byte)
      /\ m.err_info \in Seq(TinyPb!Byte) /\ m.pb_data \in Seq(TinyPb!Byte)
      /\ m.msg_req # <<>> /\ m.err_code \in (-half)..(half - 1)
      /\ m = [msg_req |-> m.msg_req, service_full_name |-> m.service_full_name,
              err_code |-> m.err_code, err_info |-> m.err_info, pb_data |-> m.pb_data]
  BY <1>2
<1>4. /\ Len(m.msg_req) \in Nat \ {0} /\ Len(m.service_full_name) \in Nat
      /\ Len(m.err_info) \in Nat /\ Len(m.pb_data) \in Nat
  BY <1>3, EmptySeq, LenProperties
<1>5. m.err_code \in Int /\ m.err_code >= -half /\ m.err_code < half
  BY <1>3
<1>6. TinyPb!PkLen(m) = Size(m)
  BY <1>4 DEF TinyPb!PkLen, TinyPb!IntLen, Size
<1>7. Size(m) \in Nat /\ Size(m) >= 15
  <2>1. PICK a \in Nat \ {0}, b \in Nat, c \in Nat, d \in Nat :
          /\ a = Len(m.msg_req) /\ b = Len(m.service_full_name)
          /\ c = Len(m.err_info) /\ d = Len(m.pb_data)
    BY <1>4
  <2>2. Size(m) = 14 + a + b + c + d
    BY <2>1, Zenon DEF Size
  <2>3. QED
    BY <2>2
<1>8. QED
  BY <1>1, <1>2, <1>3, <1>4, <1>5, <1>6, <1>7

\* encodePbData lays the fields out one behind the other.
LEMMA EncodedLayout ==
  ASSUME NEW m, TinyPb!WellFormed(m)
  PROVE  /\ TinyPb!Encoded(m) \in Seq(TinyPb!Byte) /\ Len(TinyPb!Encoded(m)) = Size(m)
         /\ Layout(m, TinyPb!Encoded(m))
<1> DEFINE B == TinyPb!Byte
<1>1. PICK ml \in Nat, nl \in Nat, el \in Nat, dl \in Nat :
        /\ ml = Len(m.msg_req) /\ nl = Len(m.service_full_name)
        /\ el = Len(m.err_info) /\ dl = Len(m.pb_data)
  BY MessageFacts
<1>2. /\ m.msg_req \in Seq(B) /\ m.service_full_name \in Seq(B)
      /\ m.err_info \in Seq(B) /\ m.pb_data \in Seq(B)
      /\ m.err_code \in Int /\ TinyPb!PkLen(m) \in Int
  BY MessageFacts
<1>3. /\ TinyPb!NetInt(TinyPb!PkLen(m)) \in Seq(B) /\ Len(TinyPb!NetInt(TinyPb!PkLen(m))) = 2
      /\ TinyPb!NetInt(m.err_code) \in Seq(B) /\ Len(TinyPb!NetInt(m.err_code)) = 2
  BY <1>2, NetIntBytes
<1>4. \A n \in Nat : TinyPb!NetInt(n) \in Seq(B) /\ Len(TinyPb!NetInt(n)) = 2
  BY NetIntBytes
<1>5. TinyPb!NetInt(1)[1] = 0 /\ TinyPb!NetInt(1)[2] = 1
  <2>1. (1 \div Base) % Base = 0 /\ 1 % Base = 1
    BY BaseFacts
  <2>2. QED
    BY <2>1, NetIntBytes
<1> HIDE DEF B
<1>6. <<2>> \in Seq(B) /\ Len(<<2>>) = 1 /\ <<3>> \in Seq(B) /\ Len(<<3>>) = 1
  BY BaseFacts DEF B
<1> DEFINE q0 == <<2>>
           q1 == q0 \o TinyPb!NetInt(TinyPb!PkLen(m))
           q2 == q1 \o TinyPb!NetInt(ml)
           q3 == q2 \o m.msg_req
           q4 == q3 \o TinyPb!NetInt(nl)
           q5 == q4 \o m.service_full_name
           q6 == q5 \o TinyPb!NetInt(m.err_code)
           q7 == q6 \o TinyPb!NetInt(el)
           q8 == q7 \o m.err_info
           q9 == q8 \o m.pb_data
           q10 == q9 \o TinyPb!NetInt(1)
           q11 == q10 \o <<3>>
<1>7. TinyPb!Encoded(m) = q11
  BY <1>1 DEF TinyPb!Encoded, TinyPb!PB_START, TinyPb!PB_END
<1>8. q0 \in Seq(B) /\ Len(q0) = 1
  BY <1>6
<1> HIDE DEF q0
<1>9. q1 \in Seq(B) /\ Len(q1) = 3
  <2>1. TinyPb!NetInt(TinyPb!PkLen(m)) \in Seq(B) /\ Len(TinyPb!NetInt(TinyPb!PkLen(m))) = 2
    BY <1>3
  <2>2. q0 \in Seq(B)
    BY <1>8
  <2>3. q1 \in Seq(B) /\ Len(q1) = Len(q0) + Len(TinyPb!NetInt(TinyPb!PkLen(m)))
    BY <2>1, <2>2, ConcatProperties
  <2> HIDE DEF q1
  <2>4. QED
    BY <1>8, <2>1, <2>3
<1> HIDE DEF q1
<1>10. q2 \in Seq(B) /\ Len(q2) = 5
  <2>1. TinyPb!NetInt(ml) \in Seq(B) /\ Len(TinyPb!NetInt(ml)) = 2
    BY <1>4
  <2>2. q1 \in Seq(B)
    BY <1>9
  <2>3. q2 \in Seq(B) /\ Len(q2) = Len(q1) + Len(TinyPb!NetInt(ml))
    BY <2>1, <2>2, ConcatProperties
  <2> HIDE DEF q2
  <2>4. QED
    BY <1>9, <2>1, <2>3
<1> HIDE DEF q2
<1>11. q3 \in Seq(B) /\ Len(q3) = 5 + ml
  <2>1. m.msg_req \in Seq(B) /\ Len(m.msg_req) = ml
    BY <1>1, <1>2
  <2>2. q2 \in Seq(B)
    BY <1>10
  <2>3. q3 \in Seq(B) /\ Len(q3) = Len(q2) + Len(m.msg_req)
    BY <2>1, <2>2, ConcatProperties
  <2> HIDE DEF q3
  <2>4. QED
    BY <1>10, <2>1, <2>3
<1> HIDE DEF q3
<1>12. q4 \in Seq(B) /\ Len(q4) = 7 + ml
  <2>1. TinyPb!NetInt(nl) \in Seq(B) /\ Len(TinyPb!NetInt(nl)) = 2
    BY <1>4
  <2>2. q3 \in Seq(B)
    BY <1>11
  <2>3. q4 \in Seq(B) /\ Len(q4) = Len(q3) + Len(TinyPb!NetInt(nl))
    BY <2>1, <2>2, ConcatProperties
  <2> HIDE DEF q4
  <2>4. QED
    BY <1>11, <2>1, <2>3
<1> HIDE DEF q4
<1>13. q5 \in Seq(B) /\ Len(q5) = 7 + ml + nl
  <2>1. m.service_full_name \in Seq(B) /\ Len(m.service_full_name) = nl
    BY <1>1, <1>2
  <2>2. q4 \in Seq(B)
    BY <1>12
  <2>3. q5 \in Seq(B) /\ Len(q5) = Len(q4) + Len(m.service_full_name)
    BY <2>1, <2>2, ConcatProperties
  <2> HIDE DEF q5
  <2>4. QED
    BY <1>12, <2>1, <2>3
<1> HIDE DEF q5
<1>14. q6 \in Seq(B) /\ Len(q6) = 9 + ml + nl
  <2>1. TinyPb!NetInt(m.err_code) \in Seq(B) /\ Len(TinyPb!NetInt(m.err_code)) = 2
    BY <1>3
  <2>2. q5 \in Seq(B)
    BY <1>13
  <2>3. q6 \in Seq(B) /\ Len(q6) = Len(q5) + Len(TinyPb!NetInt(m.err_code))
    BY <2>1, <2>2, ConcatProperties
  <2> HIDE DEF q6
  <2>4. QED
    BY <1>13, <2>1, <2>3
<1> HIDE DEF q6
<1>15. q7 \in Seq(B) /\ Len(q7) = 11 + ml + nl
  <2>1. TinyPb!NetInt(el) \in Seq(B) /\ Len(TinyPb!NetInt(el)) = 2
    BY <1>4
  <2>2. q6 \in Seq(B)
    BY <1>14
  <2>3. q7 \in Seq(B) /\ Len(q7) = Len(q6) + Len(TinyPb!NetInt(el))
    BY <2>1, <2>2, ConcatProperties
  <2> HIDE DEF q7
  <2>4. QED
    BY <1>14, <2>1, <2>3
<1> HIDE DEF q7
<1>16. q8 \in Seq(B) /\ Len(q8) = 11 + ml + nl + el
  <2>1. m.err_info \in Seq(B) /\ Len(m.err_info) = el
    BY <1>1, <1>2
  <2>2. q7 \in Seq(B)
    BY <1>15
  <2>3. q8 \in Seq(B) /\ Len(q8) = Len(q7) + Len(m.err_info)
    BY <2>1, <2>2, ConcatProperties
  <2> HIDE DEF q8
  <2>4. QED
    BY <1>15, <2>1, <2>3
<1> HIDE DEF q8
<1>17. q9 \in Seq(B) /\ Len(q9) = 11 + ml + nl + el + dl
  <2>1. m.pb_data \in Seq(B) /\ Len(m.pb_data) = dl
    BY <1>1, <1>2
  <2>2. q8 \in Seq(B)
    BY <1>16
  <2>3. q9 \in Seq(B) /\ Len(q9) = Len(q8) + Len(m.pb_data)
    BY <2>1, <2>2, ConcatProperties
  <2> HIDE DEF q9
  <2>4. QED
    BY <1>16, <2>1, <2>3
<1> HIDE DEF q9
<1>18. q10 \in Seq(B) /\ Len(q10) = 13 + ml + nl + el + dl
  <2>1. TinyPb!NetInt(1) \in Seq(B) /\ Len(TinyPb!NetInt(1)) = 2
    BY <1>4
  <2>2. q9 \in Seq(B)
    BY <1>17
  <2>3. q10 \in Seq(B) /\ Len(q10) = Len(q9) + Len(TinyPb!NetInt(1))
    BY <2>1, <2>2, ConcatProperties
  <2> HIDE DEF q10
  <2>4. Len(q10) = (11 + ml + nl + el + dl) + 2
    BY <1>17, <2>1, <2>3, Zenon
  <2>5. (11 + ml + nl + el + dl) + 2 = 13 + ml + nl + el + dl
    OBVIOUS
  <2>6. QED
    BY <2>3, <2>4, <2>5, Zenon
<1> HIDE DEF q10
<1>19. q11 \in Seq(B) /\ Len(q11) = 14 + ml + nl + el + dl
  <2>1. <<3>> \in Seq(B) /\ Len(<<3>>) = 1
    BY <1>6
  <2>2. q10 \in Seq(B)
    BY <1>18
  <2>3. q11 \in Seq(B) /\ Len(q11) = Len(q10) + Len(<<3>>)
    BY <2>1, <2>2, ConcatProperties
  <2> HIDE DEF q11
  <2>4. QED
    BY <1>18, <2>1, <2>3
<1> HIDE DEF q11
<1>20. PICK p \in Seq(B) : p = q11
  BY <1>19
<1>21. Begins(p, q11)
  BY <1>20, LenProperties DEF Begins
<1>22. Begins(p, q10) /\ p[14 + ml + nl + el + dl] = 3
  <2>1. <<3>> \in Seq(B) /\ Len(<<3>>) = 1
    BY <1>6
  <2>2. Begins(p, q10 \o <<3>>)
    BY <1>21 DEF q11
  <2>3. Begins(p, q10) /\ \A k \in 1..Len(<<3>>) : p[Len(q10) + k] = <<3>>[k]
    BY <1>18, <2>1, <2>2, BeginsWithPart
  <2>4. 1 \in 1..1 /\ (13 + ml + nl + el + dl) + 1 = 14 + ml + nl + el + dl /\ <<3>>[1] = 3
    OBVIOUS
  <2>5. QED
    BY <1>18, <2>1, <2>3, <2>4
<1>23. /\ Begins(p, q9)
       /\ p[12 + ml + nl + el + dl] = TinyPb!NetInt(1)[1]
       /\ p[13 + ml + nl + el + dl] = TinyPb!NetInt(1)[2]
  <2>1. TinyPb!NetInt(1) \in Seq(B) /\ Len(TinyPb!NetInt(1)) = 2
    BY <1>4
  <2>2. Begins(p, q9 \o TinyPb!NetInt(1))
    BY <1>22 DEF q10
  <2>3. Begins(p, q9) /\ \A k \in 1..Len(TinyPb!NetInt(1)) : p[Len(q9) + k] = TinyPb!NetInt(1)[k]
    BY <1>17, <2>1, <2>2, BeginsWithPart
  <2>4. /\ 1 \in 1..2
        /\ 2 \in 1..2
        /\ (11 + ml + nl + el + dl) + 1 = 12 + ml + nl + el + dl
        /\ (11 + ml + nl + el + dl) + 2 = 13 + ml + nl + el + dl
    OBVIOUS
  <2>5. QED
    BY <1>17, <2>1, <2>3, <2>4
<1>24. Begins(p, q8) /\ \A k \in 1..dl : p[11 + ml + nl + el + k] = m.pb_data[k]
  <2>1. m.pb_data \in Seq(B) /\ Len(m.pb_data) = dl
    BY <1>1, <1>2
  <2>2. Begins(p, q8 \o m.pb_data)
    BY <1>23 DEF q9
  <2>3. Begins(p, q8) /\ \A k \in 1..Len(m.pb_data) : p[Len(q8) + k] = m.pb_data[k]
    BY <1>16, <2>1, <2>2, BeginsWithPart
  <2>5. QED
    BY <1>16, <2>1, <2>3
<1>25. Begins(p, q7) /\ \A k \in 1..el : p[11 + ml + nl + k] = m.err_info[k]
  <2>1. m.err_info \in Seq(B) /\ Len(m.err_info) = el
    BY <1>1, <1>2
  <2>2. Begins(p, q7 \o m.err_info)
    BY <1>24 DEF q8
  <2>3. Begins(p, q7) /\ \A k \in 1..Len(m.err_info) : p[Len(q7) + k] = m.err_info[k]
    BY <1>15, <2>1, <2>2, BeginsWithPart
  <2>5. QED
    BY <1>15, <2>1, <2>3
<1>26. /\ Begins(p, q6)
       /\ p[10 + ml + nl] = TinyPb!NetInt(el)[1]
       /\ p[11 + ml + nl] = TinyPb!NetInt(el)[2]
  <2>1. TinyPb!NetInt(el) \in Seq(B) /\ Len(TinyPb!NetInt(el)) = 2
    BY <1>4
  <2>2. Begins(p, q6 \o TinyPb!NetInt(el))
    BY <1>25 DEF q7
  <2>3. Begins(p, q6) /\ \A k \in 1..Len(TinyPb!NetInt(el)) : p[Len(q6) + k] = TinyPb!NetInt(el)[k]
    BY <1>14, <2>1, <2>2, BeginsWithPart
  <2>4. /\ 1 \in 1..2
        /\ 2 \in 1..2
        /\ (9 + ml + nl) + 1 = 10 + ml + nl
        /\ (9 + ml + nl) + 2 = 11 + ml + nl
    OBVIOUS
  <2>5. QED
    BY <1>14, <2>1, <2>3, <2>4
<1>27. /\ Begins(p, q5)
       /\ p[8 + ml + nl] = TinyPb!NetInt(m.err_code)[1]
       /\ p[9 + ml + nl] = TinyPb!NetInt(m.err_code)[2]
  <2>1. TinyPb!NetInt(m.err_code) \in Seq(B) /\ Len(TinyPb!NetInt(m.err_code)) = 2
    BY <1>3
  <2>2. Begins(p, q5 \o TinyPb!NetInt(m.err_code))
    BY <1>26 DEF q6
  <2>3. /\ Begins(p, q5)
        /\ \A k \in 1..Len(TinyPb!NetInt(m.err_code)) :
             p[Len(q5) + k] = TinyPb!NetInt(m.err_code)[k]
    BY <1>13, <2>1, <2>2, BeginsWithPart
  <2>4. /\ 1 \in 1..2
        /\ 2 \in 1..2
        /\ (7 + ml + nl) + 1 = 8 + ml + nl
        /\ (7 + ml + nl) + 2 = 9 + ml + nl
    OBVIOUS
  <2>5. QED
    BY <1>13, <2>1, <2>3, <2>4
<1>28. Begins(p, q4) /\ \A k \in 1..nl : p[7 + ml + k] = m.service_full_name[k]
  <2>1. m.service_full_name \in Seq(B) /\ Len(m.service_full_name) = nl
    BY <1>1, <1>2
  <2>2. Begins(p, q4 \o m.service_full_name)
    BY <1>27 DEF q5
  <2>3. /\ Begins(p, q4)
        /\ \A k \in 1..Len(m.service_full_name) : p[Len(q4) + k] = m.service_full_name[k]
    BY <1>12, <2>1, <2>2, BeginsWithPart
  <2>5. QED
    BY <1>12, <2>1, <2>3
<1>29. Begins(p, q3) /\ p[6 + ml] = TinyPb!NetInt(nl)[1] /\ p[7 + ml] = TinyPb!NetInt(nl)[2]
  <2>1. TinyPb!NetInt(nl) \in Seq(B) /\ Len(TinyPb!NetInt(nl)) = 2
    BY <1>4
  <2>2. Begins(p, q3 \o TinyPb!NetInt(nl))
    BY <1>28 DEF q4
  <2>3. Begins(p, q3) /\ \A k \in 1..Len(TinyPb!NetInt(nl)) : p[Len(q3) + k] = TinyPb!NetInt(nl)[k]
    BY <1>11, <2>1, <2>2, BeginsWithPart
  <2>4. 1 \in 1..2 /\ 2 \in 1..2 /\ (5 + ml) + 1 = 6 + ml /\ (5 + ml) + 2 = 7 + ml
    OBVIOUS
  <2>5. QED
    BY <1>11, <2>1, <2>3, <2>4
<1>30. Begins(p, q2) /\ \A k \in 1..ml : p[5 + k] = m.msg_req[k]
  <2>1. m.msg_req \in Seq(B) /\ Len(m.msg_req) = ml
    BY <1>1, <1>2
  <2>2. Begins(p, q2 \o m.msg_req)
    BY <1>29 DEF q3
  <2>3. Begins(p, q2) /\ \A k \in 1..Len(m.msg_req) : p[Len(q2) + k] = m.msg_req[k]
    BY <1>10, <2>1, <2>2, BeginsWithPart
  <2>5. QED
    BY <1>10, <2>1, <2>3
<1>31. Begins(p, q1) /\ p[4] = TinyPb!NetInt(ml)[1] /\ p[5] = TinyPb!NetInt(ml)[2]
  <2>1. TinyPb!NetInt(ml) \in Seq(B) /\ Len(TinyPb!NetInt(ml)) = 2
    BY <1>4
  <2>2. Begins(p, q1 \o TinyPb!NetInt(ml))
    BY <1>30 DEF q2
  <2>3. Begins(p, q1) /\ \A k \in 1..Len(TinyPb!NetInt(ml)) : p[Len(q1) + k] = TinyPb!NetInt(ml)[k]
    BY <1>9, <2>1, <2>2, BeginsWithPart
  <2>4. 1 \in 1..2 /\ 2 \in 1..2 /\ (3) + 1 = 4 /\ (3) + 2 = 5
    OBVIOUS
  <2>5. QED
    BY <1>9, <2>1, <2>3, <2>4
<1>32. /\ Begins(p, q0)
       /\ p[2] = TinyPb!NetInt(TinyPb!PkLen(m))[1]
       /\ p[3] = TinyPb!NetInt(TinyPb!PkLen(m))[2]
  <2>1. TinyPb!NetInt(TinyPb!PkLen(m)) \in Seq(B) /\ Len(TinyPb!NetInt(TinyPb!PkLen(m))) = 2
    BY <1>3
  <2>2. Begins(p, q0 \o TinyPb!NetInt(TinyPb!PkLen(m)))
    BY <1>31 DEF q1
  <2>3. /\ Begins(p, q0)
        /\ \A k \in 1..Len(TinyPb!NetInt(TinyPb!PkLen(m))) :
             p[Len(q0) + k] = TinyPb!NetInt(TinyPb!PkLen(m))[k]
    BY <1>8, <2>1, <2>2, BeginsWithPart
  <2>4. 1 \in 1..2 /\ 2 \in 1..2 /\ (1) + 1 = 2 /\ (1) + 2 = 3
    OBVIOUS
  <2>5. QED
    BY <1>8, <2>1, <2>3, <2>4
<1>33. p[1] = 2
  <2>1. q0[1] = 2
    BY DEF q0
  <2>2. 1 \in 1..Len(q0)
    BY <1>8
  <2>3. QED
    BY <1>32, <2>1, <2>2 DEF Begins
<1>34. Layout(m, p)
  BY <1>1, <1>5, <1>33, <1>32, <1>31, <1>30, <1>29, <1>28, <1>27, <1>26, <1>25, <1>24, <1>23,
     <1>22, Zenon DEF Layout
<1>35. Size(m) = 14 + ml + nl + el + dl
  BY <1>1 DEF Size
<1>36. QED
  BY <1>7, <1>19, <1>20, <1>34, <1>35, Zenon DEF B

\* Quotient and remainder of a number that is written as such.
LEMMA Remainder ==
  ASSUME NEW B \in Nat, B > 3, NEW k \in Int, NEW d \in 0..(B - 1)
  PROVE  ((B * k) + d) \div B = k /\ ((B * k) + d) % B = d
<1>1. PICK n \in Int : n = (B * k) + d
  OBVIOUS
<1>2. PICK q \in Int : q = n \div B
  OBVIOUS
<1>3. PICK r \in 0..(B - 1) : r = n % B
  OBVIOUS
<1>4. n = (B * q) + r
  BY <1>2, <1>3
<1>5. q = k
  <2>1. CASE q < k
    <3>1. PICK j \in Nat : k = q + 1 + j
      <4>1. k - q - 1 \in Nat /\ k = q + 1 + (k - q - 1)
        BY <2>1
      <4>2. QED
        BY <4>1
    <3>2. B * k = (B * q) + B + (B * j)
      BY <3>1
    <3>3. B * j \in Nat
      OBVIOUS
    <3>4. QED
      BY <1>1, <1>4, <3>2, <3>3
  <2>2. CASE k < q
    <3>1. PICK j \in Nat : q = k + 1 + j
      <4>1. q - k - 1 \in Nat /\ q = k + 1 + (q - k - 1)
        BY <2>2
      <4>2. QED
        BY <4>1
    <3>2. B * q = (B * k) + B + (B * j)
      BY <3>1
    <3>3. B * j \in Nat
      OBVIOUS
    <3>4. QED
      BY <1>1, <1>4, <3>2, <3>3
  <2>3. QED
    BY <2>1, <2>2
<1>6. r = d
  BY <1>1, <1>4, <1>5
<1>7. QED
  BY <1>1, <1>2, <1>3, <1>5, <1>6

\* getInt32FromNetByte gives back what encodePbData has written, also when it is negative.
LEMMA IntRead ==
  ASSUME NEW b, NEW i, NEW x, NEW n \in Int,
         n >= -(Base * (Base \div 2)), n < Base * (Base \div 2),
         TinyPb!At(b, i, x) = TinyPb!NetInt(n)[1], TinyPb!At(b, i + 1, x) = TinyPb!NetInt(n)[2]
  PROVE  TinyPb!IntAt(b, i, x) = n
<1>1. PICK B \in Nat, h \in Nat : B = Base /\ h = Base \div 2 /\ B > 3 /\ B = 2 * h
  BY BaseFacts
<1>2. n >= -(B * h) /\ n < B * h /\ (Base * Base) \div 2 = B * h
  BY <1>1, BaseFacts
<1>3. PICK q \in Int : q = n \div B
  BY <1>1
<1>4. PICK r \in 0..(B - 1) : r = n % B
  BY <1>1
<1>5. n = (B * q) + r
  BY <1>1, <1>3, <1>4
<1>6. B * B = (B * h) + (B * h) /\ B * h \in Nat /\ h <= B
  BY <1>1
<1>7. TinyPb!At(b, i, x) = q % B /\ TinyPb!At(b, i + 1, x) = r
  BY <1>1, <1>3, <1>4, NetIntBytes
<1>8. CASE n >= 0
  <2>1. q % B = q /\ (q * B) + r = n
    <3>1. n \in Nat /\ n < B * h /\ h <= B /\ B > 3
      BY <1>1, <1>2, <1>6, <1>8
    <3>2. (n \div B) % B = n \div B /\ ((n \div B) * B) + (n % B) = n
      BY <3>1, DigitsOf
    <3>3. QED
      BY <1>3, <1>4, <3>2
  <2>2. ~(n >= B * h)
    BY <1>2, <1>6
  <2>3. (TinyPb!At(b, i, x) * Base) + TinyPb!At(b, i + 1, x) = n
    BY <1>1, <1>7, <2>1
  <2>4. QED
    BY <1>2, <2>2, <2>3 DEF TinyPb!IntAt
<1>9. CASE n < 0
  <2>1. q <= -1
    <3>1. CASE q >= 0
      <4>1. B * q >= 0
        BY <3>1
      <4>2. QED
        BY <1>5, <1>9, <4>1
    <3>2. QED
      BY <3>1
  <2>2. q >= -h
    <3>1. CASE q < -h
      <4>1. PICK j \in Nat : q = -h - 1 - j
        <5>1. -h - 1 - q \in Nat /\ q = -h - 1 - (-h - 1 - q)
          BY <3>1
        <5>2. QED
          BY <5>1
      <4>2. B * q = -(B * h) - B - (B * j)
        BY <4>1
      <4>3. B * j \in Nat
        OBVIOUS
      <4>4. QED
        BY <1>2, <1>5, <1>6, <4>2, <4>3
    <3>2. QED
      BY <3>1
  <2>3. q + B \in 0..(B - 1) /\ q = (B * (-1)) + (q + B)
    BY <1>1, <2>1, <2>2
  <2>4. q % B = q + B
    <3>1. PICK d \in 0..(B - 1) : d = q + B /\ q = (B * (-1)) + d
      BY <2>3
    <3>2. -1 \in Int
      OBVIOUS
    <3>3. ((B * (-1)) + d) % B = d
      BY <1>1, <3>2, Remainder
    <3>4. QED
      BY <3>1, <3>3
  <2>5. ((q + B) * B) + r = n + (B * B)
    BY <1>5
  <2>6. n + (B * B) >= B * h /\ n + (B * B) - (B * B) = n
    BY <1>2, <1>6
  <2>7. (TinyPb!At(b, i, x) * Base) + TinyPb!At(b, i + 1, x) = n + (B * B)
    BY <1>1, <1>7, <2>4, <2>5
  <2>8. QED
    BY <1>1, <1>2, <2>6, <2>7 DEF TinyPb!IntAt
<1>10. QED
  BY <1>8, <1>9

\* What decode sees of the bytes to be read.
LEMMA ContentAt ==
  ASSUME NEW Byte, NEW b \in Buffers(Byte), NEW x, NEW i \in 1..Len(TinyPb!Content(b))
  PROVE  TinyPb!At(b, b.rd + i - 1, x) = TinyPb!Content(b)[i]
<1>1. /\ b.rd \in Nat /\ b.wr \in Nat /\ b.rd <= b.wr /\ b.wr <= Len(b.mem) /\ Len(b.mem) \in Nat
  BY BufferFacts
<1>2. /\ Len(TinyPb!Content(b)) = b.wr - b.rd
      /\ \A k \in 1..(b.wr - b.rd) : TinyPb!Content(b)[k] = b.mem[b.rd + k]
  BY ContentIs
<1>3. i \in 1..(b.wr - b.rd)
  BY <1>2
<1>4. b.rd + i - 1 \in 0..(Len(b.mem) - 1) /\ (b.rd + i - 1) + 1 = b.rd + i
  <2>1. PICK rd \in Nat, wr \in Nat, l \in Nat : rd = b.rd /\ wr = b.wr /\ l = Len(b.mem)
    BY <1>1
  <2>2. wr <= l /\ i \in 1..(wr - rd)
    BY <1>1, <1>3, <2>1, Zenon
  <2>3. i \in Int /\ rd + i - 1 \in 0..(l - 1) /\ (rd + i - 1) + 1 = rd + i
    BY <2>2
  <2>4. QED
    BY <2>1, <2>3, Zenon
<1>5. QED
  BY <1>2, <1>3, <1>4 DEF TinyPb!At

\* The codec's Cardinality is that of FiniteSets.
LEMMA SameCardinality ==
  ASSUME NEW T
  PROVE  TinyPb!Cardinality(T) = Cardinality(T)
  BY DEF TinyPb!Cardinality, Cardinality

\* A string without a NUL survives the array of characters.
LEMMA CStringKeeps ==
  ASSUME NEW S, NEW q \in Seq(S), TinyPb!NulFree(q)
  PROVE  TinyPb!CString(q) = q
<1>1. PICK n \in Nat : n = Len(q)
  BY LenProperties
<1>2. DOMAIN q = 1..n
  BY <1>1, LenProperties
<1>3. {k \in DOMAIN q : \A j \in 1..k : q[j] # 0} = 1..n
  BY <1>2 DEF TinyPb!NulFree
<1>4. Cardinality(1..n) = n
  <2>1. 1 \in Int /\ n \in Int /\ (IF 1 > n THEN 0 ELSE n - 1 + 1) = n
    OBVIOUS
  <2>2. QED
    BY <2>1, FS_Interval
<1>5. TinyPb!CString(q) = SubSeq(q, 1, n)
  <2>1. TinyPb!CString(q)
          = SubSeq(q, 1, TinyPb!Cardinality({k \in DOMAIN q : \A j \in 1..k : q[j] # 0}))
    BY DEF TinyPb!CString
  <2>2. QED
    BY <1>3, <1>4, <2>1, SameCardinality, Zenon
<1>6. QED
  BY <1>1, <1>5, SubSeqFull

\* The bytes of the front packet, when they have all come.
LEMMA BytesAre ==
  ASSUME NEW b, NEW i \in Int, NEW n \in Nat, NEW x, NEW S, NEW q \in Seq(S), Len(q) = n,
         \A k \in 1..n : TinyPb!At(b, i + k - 1, x) = q[k]
  PROVE  TinyPb!Bytes(b, i, n, x) = q
<1>1. TinyPb!Bytes(b, i, n, x) = [k \in 1..n |-> q[k]]
  BY DEF TinyPb!Bytes
<1>2. q = [k \in 1..n |-> q[k]]
  BY LenProperties
<1>3. QED
  BY <1>1, <1>2, Zenon

\* decode of a buffer that begins with a whole packet: it is that packet, whatever comes
\* behind it, and the buffer loses just its bytes.
THEOREM DecodeWhole ==
  ASSUME NEW m, TinyPb!WellFormed(m), NEW b \in Buffers(TinyPb!Byte), NEW x,
         Begins(TinyPb!Content(b), TinyPb!Encoded(m))
  PROVE  TinyPb!Decode(b, x) =
           {[decode_succ |-> TRUE, buf |-> TinyPb!RecycleRead(b, Size(m)), msg |-> m]}
<1>1. PICK p \in Seq(TinyPb!Byte) : p = TinyPb!Encoded(m)
  BY EncodedLayout
<1>2. PICK ml \in Nat \ {0}, nl \in Nat, el \in Nat, dl \in Nat :
        /\ ml = Len(m.msg_req) /\ nl = Len(m.service_full_name)
        /\ el = Len(m.err_info) /\ dl = Len(m.pb_data)
  BY MessageFacts
<1>3. PICK pk \in Nat : pk = Size(m)
  BY MessageFacts
<1>4. pk = 14 + ml + nl + el + dl
  BY <1>2, <1>3, Zenon DEF Size
<1>5. Len(p) = pk /\ TinyPb!PkLen(m) = pk
  BY <1>1, <1>3, EncodedLayout, MessageFacts, Zenon
<1>6. PICK s \in Nat : s = b.rd
  BY BufferFacts
<1>7. PICK l \in Nat : l = Len(TinyPb!Content(b)) /\ b.wr = s + l
  BY <1>6, BufferFacts, ContentIs
<1>8. pk <= l /\ \A i \in 1..pk : TinyPb!Content(b)[i] = p[i]
  BY <1>1, <1>5, <1>7 DEF Begins
<1>9. \A i \in 1..pk : TinyPb!At(b, s + i - 1, x) = p[i]
  <2> SUFFICES ASSUME NEW i \in 1..pk PROVE TinyPb!At(b, s + i - 1, x) = p[i]
    OBVIOUS
  <2>1. i \in 1..Len(TinyPb!Content(b))
    BY <1>7, <1>8
  <2>2. TinyPb!At(b, b.rd + i - 1, x) = TinyPb!Content(b)[i]
    BY <2>1, ContentAt
  <2>3. QED
    BY <1>6, <1>8, <2>2
<1>10. PICK half \in Nat : half = Base * (Base \div 2)
  BY BaseFacts
<1>11. pk < half /\ ml < half /\ nl < half /\ el < half /\ m.err_code \in Int
       /\ m.err_code >= -half /\ m.err_code < half /\ half > 0
  <2>1. pk < half /\ m.err_code \in Int /\ m.err_code >= -half /\ m.err_code < half
    BY <1>3, <1>10, MessageFacts
  <2>2. QED
    BY <1>4, <2>1
<1>12. /\ p[1] = 2
       /\ p[2] = TinyPb!NetInt(pk)[1] /\ p[3] = TinyPb!NetInt(pk)[2]
       /\ p[4] = TinyPb!NetInt(ml)[1] /\ p[5] = TinyPb!NetInt(ml)[2]
       /\ \A k \in 1..ml : p[5 + k] = m.msg_req[k]
       /\ p[6 + ml] = TinyPb!NetInt(nl)[1] /\ p[7 + ml] = TinyPb!NetInt(nl)[2]
       /\ \A k \in 1..nl : p[7 + ml + k] = m.service_full_name[k]
       /\ p[8 + ml + nl] = TinyPb!NetInt(m.err_code)[1]
       /\ p[9 + ml + nl] = TinyPb!NetInt(m.err_code)[2]
       /\ p[10 + ml + nl] = TinyPb!NetInt(el)[1] /\ p[11 + ml + nl] = TinyPb!NetInt(el)[2]
       /\ \A k \in 1..el : p[11 + ml + nl + k] = m.err_info[k]
       /\ \A k \in 1..dl : p[11 + ml + nl + el + k] = m.pb_data[k]
       /\ p[14 + ml + nl + el + dl] = 3
  <2>1. Layout(m, p)
    BY <1>1, EncodedLayout
  <2>2. QED
    BY <1>2, <1>5, <2>1 DEF Layout
<1>13. ASSUME NEW i \in Nat, NEW n \in Int, n >= -half, n < half, i >= 2, i + 1 <= pk,
              p[i] = TinyPb!NetInt(n)[1], p[i + 1] = TinyPb!NetInt(n)[2]
       PROVE  TinyPb!IntAt(b, s + i - 1, x) = n
  <2>0. i >= 2 /\ i + 1 <= pk
    BY <1>13
  <2>1. /\ i \in 1..pk /\ i + 1 \in 1..pk /\ s + (i + 1) - 1 = (s + i - 1) + 1
        /\ s + i - 1 \in Int
    BY <2>0
  <2>2. /\ TinyPb!At(b, s + i - 1, x) = TinyPb!NetInt(n)[1]
        /\ TinyPb!At(b, (s + i - 1) + 1, x) = TinyPb!NetInt(n)[2]
    BY <1>9, <1>13, <2>1
  <2>3. n >= -(Base * (Base \div 2)) /\ n < Base * (Base \div 2)
    BY <1>10, <1>13
  <2>4. QED
    BY <2>2, <2>3, IntRead
<1>14. TinyPb!IntAt(b, s + 1, x) = pk
  <2>1. 2 \in Nat /\ 2 >= 2 /\ 2 + 1 <= pk /\ 2 + 1 = 3 /\ s + 2 - 1 = s + 1 /\ pk >= -half
    BY <1>4
  <2>2. TinyPb!IntAt(b, s + 2 - 1, x) = pk
    BY <1>11, <1>12, <1>13, <2>1
  <2>3. QED
    BY <2>1, <2>2, Zenon
<1>15. TinyPb!IntAt(b, s + 3, x) = ml
  <2>1. 4 \in Nat /\ 4 >= 2 /\ 4 + 1 <= pk /\ 4 + 1 = 5 /\ s + 4 - 1 = s + 3 /\ ml >= -half
    BY <1>4
  <2>2. TinyPb!IntAt(b, s + 4 - 1, x) = ml
    BY <1>11, <1>12, <1>13, <2>1
  <2>3. QED
    BY <2>1, <2>2, Zenon
<1>16. TinyPb!IntAt(b, s + 5 + ml, x) = nl
  <2>1. PICK i \in Nat : i = 6 + ml
    OBVIOUS
  <2>2. i >= 2 /\ i + 1 <= pk /\ i + 1 = 7 + ml /\ s + i - 1 = s + 5 + ml /\ nl >= -half
    BY <1>4, <2>1
  <2>3. TinyPb!IntAt(b, s + i - 1, x) = nl
    BY <1>11, <1>12, <1>13, <2>1, <2>2
  <2>4. QED
    BY <2>2, <2>3, Zenon
<1>17. TinyPb!IntAt(b, s + 7 + ml + nl, x) = m.err_code
  <2>1. PICK i \in Nat : i = 8 + ml + nl
    OBVIOUS
  <2>2. i >= 2 /\ i + 1 <= pk /\ i + 1 = 9 + ml + nl /\ s + i - 1 = s + 7 + ml + nl
    BY <1>4, <2>1
  <2>3. TinyPb!IntAt(b, s + i - 1, x) = m.err_code
    BY <1>11, <1>12, <1>13, <2>1, <2>2
  <2>4. QED
    BY <2>2, <2>3, Zenon
<1>18. TinyPb!IntAt(b, s + 9 + ml + nl, x) = el
  <2>1. PICK i \in Nat : i = 10 + ml + nl
    OBVIOUS
  <2>2. i >= 2 /\ i + 1 <= pk /\ i + 1 = 11 + ml + nl /\ s + i - 1 = s + 9 + ml + nl
        /\ el >= -half
    BY <1>4, <2>1
  <2>3. TinyPb!IntAt(b, s + i - 1, x) = el
    BY <1>11, <1>12, <1>13, <2>1, <2>2
  <2>4. QED
    BY <2>2, <2>3, Zenon
<1>19. ASSUME NEW i \in Nat, NEW n \in Nat, NEW q \in Seq(TinyPb!Byte), Len(q) = n,
              i + n <= pk, \A k \in 1..n : p[i + k] = q[k]
       PROVE  TinyPb!Bytes(b, s + i, n, x) = q
  <2>1. ASSUME NEW k \in 1..n PROVE TinyPb!At(b, (s + i) + k - 1, x) = q[k]
    <3>1. i + k \in 1..pk /\ s + (i + k) - 1 = (s + i) + k - 1
      BY <1>19
    <3>2. TinyPb!At(b, s + (i + k) - 1, x) = p[i + k]
      BY <1>9, <3>1
    <3>3. QED
      BY <1>19, <3>1, <3>2
  <2>2. PICK j \in Int : j = s + i
    OBVIOUS
  <2>3. \A k \in 1..n : TinyPb!At(b, j + k - 1, x) = q[k]
    BY <2>1, <2>2
  <2>4. TinyPb!Bytes(b, j, n, x) = q
    BY <1>19, <2>3, BytesAre
  <2>5. QED
    BY <2>2, <2>4
<1>20. /\ TinyPb!Bytes(b, s + 5, ml, x) = m.msg_req
       /\ TinyPb!Bytes(b, s + 7 + ml, nl, x) = m.service_full_name
       /\ TinyPb!Bytes(b, s + 11 + ml + nl, el, x) = m.err_info
       /\ TinyPb!Bytes(b, s + 11 + ml + nl + el, dl, x) = m.pb_data
  <2>1. /\ m.msg_req \in Seq(TinyPb!Byte) /\ m.service_full_name \in Seq(TinyPb!Byte)
        /\ m.err_info \in Seq(TinyPb!Byte) /\ m.pb_data \in Seq(TinyPb!Byte)
    BY MessageFacts
  <2>2. /\ 5 + ml <= pk /\ (7 + ml) + nl <= pk /\ (11 + ml + nl) + el <= pk
        /\ (11 + ml + nl + el) + dl <= pk
        /\ s + (7 + ml) = s + 7 + ml /\ s + (11 + ml + nl) = s + 11 + ml + nl
        /\ s + (11 + ml + nl + el) = s + 11 + ml + nl + el
        /\ 5 \in Nat /\ 7 + ml \in Nat /\ 11 + ml + nl \in Nat /\ 11 + ml + nl + el \in Nat
    BY <1>4
  <2>3. TinyPb!Bytes(b, s + 5, ml, x) = m.msg_req
    BY <1>2, <1>12, <1>19, <2>1, <2>2
  <2>4. TinyPb!Bytes(b, s + (7 + ml), nl, x) = m.service_full_name
    <3>1. PICK i \in Nat : i = 7 + ml
      BY <2>2
    <3>2. \A k \in 1..nl : p[i + k] = m.service_full_name[k]
      BY <1>12, <3>1
    <3>3. TinyPb!Bytes(b, s + i, nl, x) = m.service_full_name
      BY <1>2, <1>19, <2>1, <2>2, <3>1, <3>2
    <3>4. QED
      BY <3>1, <3>3
  <2>5. TinyPb!Bytes(b, s + (11 + ml + nl), el, x) = m.err_info
    <3>1. PICK i \in Nat : i = 11 + ml + nl
      BY <2>2
    <3>2. \A k \in 1..el : p[i + k] = m.err_info[k]
      BY <1>12, <3>1
    <3>3. TinyPb!Bytes(b, s + i, el, x) = m.err_info
      BY <1>2, <1>19, <2>1, <2>2, <3>1, <3>2
    <3>4. QED
      BY <3>1, <3>3
  <2>6. TinyPb!Bytes(b, s + (11 + ml + nl + el), dl, x) = m.pb_data
    <3>1. PICK i \in Nat : i = 11 + ml + nl + el
      BY <2>2
    <3>2. \A k \in 1..dl : p[i + k] = m.pb_data[k]
      BY <1>12, <3>1
    <3>3. TinyPb!Bytes(b, s + i, dl, x) = m.pb_data
      BY <1>2, <1>19, <2>1, <2>2, <3>1, <3>2
    <3>4. QED
      BY <3>1, <3>3
  <2>7. QED
    BY <2>2, <2>3, <2>4, <2>5, <2>6, Zenon
<1>21. /\ TinyPb!CString(m.msg_req) = m.msg_req
       /\ TinyPb!CString(m.service_full_name) = m.service_full_name
       /\ TinyPb!CString(m.err_info) = m.err_info
  BY MessageFacts, CStringKeeps DEF TinyPb!WellFormed
<1>22. ASSUME NEW r
       PROVE  TinyPb!Fields(b, s, s + pk - 1, r, x) =
                [decode_succ |-> TRUE, buf |-> r, msg |-> m]
  <2>1. TinyPb!Fields(b, s, s + pk - 1, r, x) =
          [decode_succ |-> TRUE, buf |-> r,
           msg |-> [msg_req |-> TinyPb!CString(TinyPb!Bytes(b, s + 5, ml, x)),
                    service_full_name |->
                      TinyPb!CString(TinyPb!Bytes(b, s + 7 + ml, nl, x)),
                    err_code |-> TinyPb!IntAt(b, s + 7 + ml + nl, x),
                    err_info |-> TinyPb!CString(TinyPb!Bytes(b, s + 11 + ml + nl, el, x)),
                    pb_data |-> TinyPb!Bytes(b, s + 11 + ml + nl + el, dl, x)]]
    <3>1. s + 1 + 2 = s + 3 /\ s + 1 + 2 * 2 = s + 5
      OBVIOUS
    <3>2. s + 5 + ml + 2 = s + 7 + ml /\ s + 7 + ml + nl + 2 = s + 9 + ml + nl
          /\ s + 7 + ml + nl + 2 * 2 = s + 11 + ml + nl
      OBVIOUS
    <3>3. TinyPb!PbDataLen(pk, ml, nl, el) = dl
      BY <1>4 DEF TinyPb!PbDataLen, TinyPb!IntLen
    <3>4. /\ ~(s + 3 >= s + pk - 1) /\ ml # 0 /\ ~(s + 7 + ml >= s + pk - 1) /\ ~(nl > pk)
          /\ ~(s + 9 + ml + nl >= s + pk - 1) /\ ~(s + 11 + ml + nl + el >= s + pk - 1)
      BY <1>4
    <3> DEFINE ML == TinyPb!IntAt(b, s + 1 + 2, x)
               MI == s + 1 + 2 * 2
               NL == TinyPb!IntAt(b, MI + ML, x)
               NI == MI + ML + 2
               CI == NI + NL
               EL == TinyPb!IntAt(b, CI + 2, x)
               II == CI + 2 * 2
               PK == TinyPb!IntAt(b, s + 1, x)
    <3>5. TinyPb!Fields(b, s, s + pk - 1, r, x) =
            IF \/ s + 1 + 2 >= s + pk - 1 \/ ML = 0
               \/ NI >= s + pk - 1 \/ NL > PK
               \/ CI + 2 >= s + pk - 1 \/ II + EL >= s + pk - 1
            THEN TinyPb!Undecoded(r)
            ELSE [decode_succ |-> TRUE, buf |-> r,
                  msg |-> [msg_req |-> TinyPb!CString(TinyPb!Bytes(b, MI, ML, x)),
                           service_full_name |-> TinyPb!CString(TinyPb!Bytes(b, NI, NL, x)),
                           err_code |-> TinyPb!IntAt(b, CI, x),
                           err_info |-> TinyPb!CString(TinyPb!Bytes(b, II, EL, x)),
                           pb_data |-> TinyPb!Bytes(b, II + EL,
                                                    TinyPb!PbDataLen(PK, ML, NL, EL), x)]]
      BY Zenon DEF TinyPb!Fields, TinyPb!IntLen
    <3>6. ML = ml /\ MI = s + 5
      BY <1>15, <3>1
    <3> HIDE DEF ML, MI
    <3>7. NL = nl /\ NI = s + 7 + ml
      BY <1>16, <3>2, <3>6
    <3> HIDE DEF NL, NI
    <3>8. CI = s + 7 + ml + nl
      BY <3>7
    <3>9. CI + 2 = s + 9 + ml + nl
      BY <3>2, <3>8, Zenon
    <3>10. II = s + 11 + ml + nl
      BY <3>2, <3>8, Zenon
    <3>11. EL = el
      BY <1>18, <3>9, Zenon
    <3>12. PK = pk
      BY <1>14
    <3> HIDE DEF CI, II, EL, PK
    <3>13. ~(\/ s + 1 + 2 >= s + pk - 1 \/ ML = 0
             \/ NI >= s + pk - 1 \/ NL > PK
             \/ CI + 2 >= s + pk - 1 \/ II + EL >= s + pk - 1)
      BY <3>1, <3>4, <3>6, <3>7, <3>9, <3>10, <3>11, <3>12, Zenon
    <3>14. QED
      BY <3>3, <3>5, <3>6, <3>7, <3>8, <3>10, <3>11, <3>12, <3>13, Zenon
  <2>2. m = [msg_req |-> m.msg_req, service_full_name |-> m.service_full_name,
             err_code |-> m.err_code, err_info |-> m.err_info, pb_data |-> m.pb_data]
    BY MessageFacts
  <2>3. QED
    BY <1>17, <1>20, <1>21, <2>1, <2>2, Zenon
<1>23. TinyPb!EndOf(b, s, x) = s + pk - 1
  BY <1>14 DEF TinyPb!EndOf
<1>24. TinyPb!WholePacket(b, s, x)
  <2>1. 1 \in 1..pk /\ s + 1 - 1 = s /\ pk \in 1..pk /\ s + 1 < b.wr /\ s + pk - 1 < b.wr
    BY <1>4, <1>7, <1>8
  <2>2. TinyPb!At(b, s, x) = 2
    BY <1>9, <1>12, <2>1
  <2>3. p[pk] = 3
    BY <1>4, <1>12
  <2>4. TinyPb!At(b, s + pk - 1, x) = 3
    BY <1>9, <2>1, <2>3
  <2>5. QED
    BY <1>23, <2>1, <2>2, <2>4, Zenon DEF TinyPb!WholePacket, TinyPb!PB_START, TinyPb!PB_END
<1>25. {i \in TinyPb!Starts(b, x) : \A j \in TinyPb!Starts(b, x) : i <= j} = {s}
  <2>1. s \in b.rd..(b.wr - 1)
    BY <1>4, <1>6, <1>7, <1>8
  <2>2. s \in TinyPb!Starts(b, x)
    BY <1>24, <2>1 DEF TinyPb!Starts
  <2>3. \A j \in TinyPb!Starts(b, x) : j \in Int /\ s <= j
    BY <1>6, <1>7 DEF TinyPb!Starts
  <2>4. ASSUME NEW T, s \in T, \A j \in T : j \in Int /\ s <= j
        PROVE  {i \in T : \A j \in T : i <= j} = {s}
    <3>1. \A i \in T : (\A j \in T : i <= j) => i = s
      BY <2>4
    <3>2. QED
      BY <2>4, <3>1, Zenon
  <2>5. QED
    BY <2>2, <2>3, <2>4
<1>26. TinyPb!Starts(b, x) # {}
  BY <1>25
<1>27. TinyPb!EndOf(b, s, x) + 1 - s = pk
  BY <1>23
<1>28. TinyPb!Decode(b, x) =
         {TinyPb!Fields(b, i, TinyPb!EndOf(b, i, x),
                        TinyPb!RecycleRead(b, TinyPb!EndOf(b, i, x) + 1 - i), x) : i \in {s}}
  BY <1>25, <1>26, Zenon DEF TinyPb!Decode
<1>29. TinyPb!Decode(b, x) = {TinyPb!Fields(b, s, s + pk - 1, TinyPb!RecycleRead(b, pk), x)}
  BY <1>23, <1>27, <1>28
<1>30. QED
  BY <1>3, <1>22, <1>29, Zenon

\* What lies in the vector, or what is read behind it, is a byte.
LEMMA AtIsByte ==
  ASSUME NEW b \in Buffers(TinyPb!Byte), NEW x \in TinyPb!Byte, NEW i \in Int
  PROVE  TinyPb!At(b, i, x) \in TinyPb!Byte
<1>1. /\ Len(b.mem) \in Nat /\ \A k \in 1..Len(b.mem) : b.mem[k] \in TinyPb!Byte
  BY BufferFacts
<1>2. i \in 0..(Len(b.mem) - 1) => i + 1 \in 1..Len(b.mem)
  BY <1>1
<1>3. QED
  BY <1>1, <1>2 DEF TinyPb!At

\* decode of a buffer that holds a part of the front packet: it finds nothing, and takes
\* nothing.
THEOREM DecodePart ==
  ASSUME NEW p \in Seq(TinyPb!Byte), TinyPb!NoPacketInside(p),
         NEW b \in Buffers(TinyPb!Byte), NEW x \in TinyPb!Byte,
         Begins(p, TinyPb!Content(b)), Len(TinyPb!Content(b)) < Len(p)
  PROVE  \A d \in TinyPb!Decode(b, x) :
           ~d.decode_succ /\ (d.buf = b \/ d.buf = TinyPb!RecycleRead(b, 0))
<1>1. PICK pk \in Nat : pk = Len(p)
  BY LenProperties
<1>2. PICK s \in Nat : s = b.rd
  BY BufferFacts
<1>3. PICK l \in Nat : l = Len(TinyPb!Content(b)) /\ b.wr = s + l
  BY <1>2, BufferFacts, ContentIs
<1>4. l < pk /\ \A i \in 1..l : p[i] = TinyPb!Content(b)[i]
  BY <1>1, <1>3 DEF Begins
<1>5. \A i \in 1..l : TinyPb!At(b, s + i - 1, x) = p[i]
  <2> SUFFICES ASSUME NEW i \in 1..l PROVE TinyPb!At(b, s + i - 1, x) = p[i]
    OBVIOUS
  <2>1. TinyPb!At(b, b.rd + i - 1, x) = TinyPb!Content(b)[i]
    BY <1>3, ContentAt
  <2>2. QED
    BY <1>2, <1>4, <2>1
<1>6. \A i \in 1..pk : p[i] \in TinyPb!Byte
  BY <1>1
<1>7. PICK B \in Nat, h \in Nat :
        /\ B = Base /\ h = Base \div 2 /\ B > 3 /\ B = 2 * h
        /\ (Base * Base) \div 2 = B * h /\ TinyPb!Byte = 0..(B - 1)
  BY BaseFacts
<1>8. ASSUME NEW i \in TinyPb!Starts(b, x) PROVE TinyPb!EndOf(b, i, x) = i - 1
  <2>1. /\ i \in b.rd..(b.wr - 1) /\ TinyPb!At(b, i, x) = 2 /\ i + 1 < b.wr
        /\ TinyPb!EndOf(b, i, x) < b.wr /\ TinyPb!At(b, TinyPb!EndOf(b, i, x), x) = 3
    BY <1>8 DEF TinyPb!Starts, TinyPb!WholePacket, TinyPb!PB_START, TinyPb!PB_END
  <2>2. PICK j \in Nat : j = i - s + 1
    BY <1>2, <1>3, <2>1
  <2>0. i >= s /\ i + 1 < s + l /\ l < pk /\ i \in Int
    BY <1>2, <1>3, <1>4, <2>1
  <2>3. /\ i = s + j - 1 /\ j \in 1..l /\ j + 1 \in 1..l /\ j \in 1..(pk - 2)
        /\ i + 1 = s + (j + 1) - 1 /\ i + 2 = s + (j + 2) - 1 /\ i \in Int
        /\ j \in 1..pk /\ j + 1 \in 1..pk /\ j + 2 \in 1..pk
    BY <2>0, <2>2
  <2>4. p[j] = 2 /\ TinyPb!At(b, i + 1, x) = p[j + 1]
    <3>1. TinyPb!At(b, s + j - 1, x) = p[j] /\ TinyPb!At(b, s + (j + 1) - 1, x) = p[j + 1]
      BY <1>5, <2>3
    <3>2. QED
      BY <2>1, <2>3, <3>1
  <2>5. PICK hi \in 0..(B - 1) : hi = p[j + 1]
    BY <1>6, <1>7, <2>3
  <2>6. PICK lo \in 0..(B - 1) : lo = TinyPb!At(b, i + 2, x)
    <3>1. i + 2 \in Int
      BY <2>3
    <3>2. TinyPb!At(b, i + 2, x) \in TinyPb!Byte
      BY <3>1, AtIsByte
    <3>3. QED
      BY <1>7, <3>2
  <2>7. /\ p[j + 1] < Base \div 2
        /\ \/ (p[j + 1] * Base) + p[j + 2] = 0
           \/ j + ((p[j + 1] * Base) + p[j + 2]) - 1 >= Len(p)
           \/ p[j + ((p[j + 1] * Base) + p[j + 2]) - 1] # 3
    BY <1>1, <2>3, <2>4 DEF TinyPb!NoPacketInside, TinyPb!PB_START, TinyPb!PB_END
  <2>8. hi < h
    BY <1>7, <2>5, <2>7
  <2>9. PICK n \in Nat : n = (hi * B) + lo /\ n < B * h
    BY <1>7, <2>8, HighDigit
  <2>10. TinyPb!IntAt(b, i + 1, x) = n
    <3>1. (i + 1) + 1 = i + 2
      BY <2>3
    <3>2. (TinyPb!At(b, i + 1, x) * Base) + TinyPb!At(b, (i + 1) + 1, x) = n
      BY <1>7, <2>4, <2>5, <2>6, <2>9, <3>1
    <3>3. ~(n >= B * h)
      <4>1. B * h \in Nat
        OBVIOUS
      <4>2. QED
        BY <2>9, <4>1
    <3>4. QED
      BY <1>7, <3>2, <3>3 DEF TinyPb!IntAt
  <2>11. TinyPb!EndOf(b, i, x) = i + n - 1
    BY <2>10 DEF TinyPb!EndOf
  <2>12. SUFFICES ASSUME n # 0 PROVE FALSE
    BY <2>3, <2>11
  <2>13. j + n - 1 \in 1..l /\ s + (j + n - 1) - 1 = i + n - 1
    BY <1>3, <2>1, <2>3, <2>11, <2>12
  <2>14. p[j + n - 1] = 3
    <3>1. TinyPb!At(b, s + (j + n - 1) - 1, x) = p[j + n - 1]
      BY <1>5, <2>13
    <3>2. QED
      BY <2>1, <2>11, <2>13, <3>1
  <2>15. CASE j + 2 <= l
    <3>1. j + 2 \in 1..l
      BY <2>3, <2>15
    <3>2. TinyPb!At(b, s + (j + 2) - 1, x) = p[j + 2]
      BY <1>5, <3>1
    <3>3. p[j + 2] = lo
      BY <2>3, <2>6, <3>2
    <3>4. (p[j + 1] * Base) + p[j + 2] = n
      BY <1>7, <2>5, <2>9, <3>3
    <3>5. \/ n = 0 \/ j + n - 1 >= pk \/ p[j + n - 1] # 3
      BY <1>1, <2>7, <3>4
    <3>6. j + n - 1 < pk
      BY <1>4, <2>13
    <3>7. QED
      BY <2>12, <2>13, <2>14, <3>5, <3>6
  <2>16. CASE ~(j + 2 <= l)
    <3>1. n \in 1..2
      BY <2>3, <2>12, <2>13, <2>16
    <3>2. hi = 0
      <4>1. CASE hi >= 1
        <5>1. PICK k \in Nat : hi = 1 + k
          <6>1. hi - 1 \in Nat /\ hi = 1 + (hi - 1)
            BY <4>1
          <6>2. QED
            BY <6>1
        <5>2. hi * B = B + (k * B) /\ k * B \in Nat
          BY <5>1
        <5>3. QED
          BY <1>7, <2>9, <3>1, <5>2
      <4>2. QED
        BY <4>1
    <3>3. CASE n = 1
      BY <2>4, <2>14, <3>3
    <3>4. CASE n = 2
      <4>1. j + n - 1 = j + 1
        BY <3>4
      <4>2. p[j + 1] = 3
        BY <2>14, <4>1, Zenon
      <4>3. hi = 3
        BY <2>5, <4>2, Zenon
      <4>4. QED
        BY <3>2, <4>3
    <3>5. QED
      BY <3>1, <3>3, <3>4
  <2>17. QED
    BY <2>15, <2>16
<1>9. CASE TinyPb!Starts(b, x) = {}
  <2>1. TinyPb!Decode(b, x) = {[decode_succ |-> FALSE, buf |-> b]}
    BY <1>9 DEF TinyPb!Decode, TinyPb!Undecoded
  <2>2. QED
    BY <2>1
<1>10. CASE TinyPb!Starts(b, x) # {}
  <2> SUFFICES ASSUME NEW d \in TinyPb!Decode(b, x)
               PROVE  ~d.decode_succ /\ d.buf = TinyPb!RecycleRead(b, 0)
    OBVIOUS
  <2>1. PICK i \in TinyPb!Starts(b, x) :
          d = TinyPb!Fields(b, i, TinyPb!EndOf(b, i, x),
                            TinyPb!RecycleRead(b, TinyPb!EndOf(b, i, x) + 1 - i), x)
    BY <1>10 DEF TinyPb!Decode
  <2>2. i \in Int
    BY <1>2, <1>3 DEF TinyPb!Starts
  <2>3. TinyPb!EndOf(b, i, x) = i - 1
    BY <1>8
  <2>4. TinyPb!EndOf(b, i, x) + 1 - i = 0
    BY <2>2, <2>3
  <2>5. d = TinyPb!Fields(b, i, i - 1, TinyPb!RecycleRead(b, 0), x)
    BY <2>1, <2>3, <2>4, Zenon
  <2>6. i + 1 + 2 >= i - 1
    BY <2>2
  <2>7. d = TinyPb!Undecoded(TinyPb!RecycleRead(b, 0))
    BY <2>5, <2>6 DEF TinyPb!Fields, TinyPb!IntLen
  <2>8. QED
    BY <2>7 DEF TinyPb!Undecoded
<1>11. QED
  BY <1>9, <1>10

\* The messages are a sequence.
LEMMA MessagesFacts ==
  /\ Messages \in Seq({Messages[i] : i \in DOMAIN Messages})
  /\ Len(Messages) \in Nat /\ DOMAIN Messages = 1..Len(Messages)
<1>1. Messages \in Seq({Messages[i] : i \in DOMAIN Messages})
  BY StreamsAssumption
<1>2. QED
  BY <1>1, LenProperties

\* The packet of a message has the length it carries.
LEMMA PacketFacts ==
  ASSUME TinyPb!ProperMessages, NEW i \in 1..Len(Messages)
  PROVE  /\ TinyPb!WellFormed(Messages[i]) /\ TinyPb!NoPacketInside(Packet(i))
         /\ Packet(i) \in Seq(TinyPb!Byte) /\ Len(Packet(i)) = Size(Messages[i])
         /\ TinyPb!PkLen(Messages[i]) = Size(Messages[i])
         /\ Size(Messages[i]) \in Nat /\ Size(Messages[i]) >= 15
<1>1. TinyPb!WellFormed(Messages[i]) /\ TinyPb!NoPacketInside(Packet(i))
  BY MessagesFacts DEF TinyPb!ProperMessages, Packet
<1>2. QED
  BY <1>1, EncodedLayout, MessageFacts DEF Packet

\* The packets sent, one after the other.
LEMMA PacketsOfFacts ==
  ASSUME TinyPb!ProperMessages
  PROVE  /\ PacketsOf(0) = <<>>
         /\ \A k \in 0..Len(Messages) : PacketsOf(k) \in Seq(TinyPb!Byte)
         /\ \A k \in 0..(Len(Messages) - 1) : PacketsOf(k + 1) = PacketsOf(k) \o Packet(k + 1)
         /\ \A j \in 0..Len(Messages) : \A k \in j..Len(Messages) :
              \E rest \in Seq(TinyPb!Byte) : PacketsOf(k) = PacketsOf(j) \o rest
<1>1. PICK n \in Nat : n = Len(Messages)
  BY MessagesFacts
<1> DEFINE E == [i \in 1..n |-> Packet(i)]
<1>2. \A k \in 0..n : PacketsOf(k) = Flat(E, k)
  BY <1>1, MessagesFacts, PacketsAre
<1>3. \A i \in 1..n : E[i] = Packet(i) /\ E[i] \in Seq(TinyPb!Byte)
  BY <1>1, PacketFacts
<1> HIDE DEF E
<1>4. /\ \A k \in 0..n : Flat(E, k) \in Seq(TinyPb!Byte)
      /\ \A k \in 0..(n - 1) : Flat(E, k + 1) = Flat(E, k) \o E[k + 1]
  BY <1>3, FlatStep
<1>5. \A j \in 0..n : \A k \in j..n :
        \E rest \in Seq(TinyPb!Byte) : Flat(E, k) = Flat(E, j) \o rest
  <2>1. PICK S : S = TinyPb!Byte
    OBVIOUS
  <2>2. \A i \in 1..n : E[i] \in Seq(S)
    BY <1>3, <2>1
  <2>3. ASSUME NEW j \in 0..n
        PROVE  \A k \in j..n : Grows(S, E, j, k)
    BY <2>2, FlatGrows
  <2>4. QED
    BY <2>1, <2>3, Zenon DEF Grows
<1>6. Flat(E, 0) = <<>>
  BY FlatZero
<1>7. PacketsOf(0) = <<>>
  BY <1>2, <1>6
<1>8. \A k \in 0..n : PacketsOf(k) \in Seq(TinyPb!Byte)
  BY <1>2, <1>4
<1>9. ASSUME NEW k \in 0..(n - 1) PROVE PacketsOf(k + 1) = PacketsOf(k) \o Packet(k + 1)
  <2>1. k \in 0..n /\ k + 1 \in 0..n /\ k + 1 \in 1..n
    OBVIOUS
  <2>2. PacketsOf(k + 1) = Flat(E, k + 1) /\ PacketsOf(k) = Flat(E, k) /\ E[k + 1] = Packet(k + 1)
    BY <1>2, <1>3, <2>1
  <2>3. QED
    BY <1>4, <2>2, Zenon
<1>10. ASSUME NEW j \in 0..n, NEW k \in j..n
       PROVE  \E rest \in Seq(TinyPb!Byte) : PacketsOf(k) = PacketsOf(j) \o rest
  <2>1. k \in 0..n
    OBVIOUS
  <2>2. PacketsOf(j) = Flat(E, j) /\ PacketsOf(k) = Flat(E, k)
    BY <1>2, <2>1
  <2>3. QED
    BY <1>5, <2>2, Zenon
<1>11. QED
  BY <1>1, <1>7, <1>8, <1>9, <1>10

\* What comes behind P, when that is P alone, and when it is p and more.
LEMMA NothingBehind ==
  ASSUME NEW S, NEW P \in Seq(S), NEW q \in Seq(S), NEW so \in Seq(S), NEW out \in Seq(S),
         Cat(Cat(Cat(P, q), so), out) = P
  PROVE  q = <<>>
<1>1. Cat(P, Cat(q, Cat(so, out))) = P
  BY CatFacts
<1>2. Cat(q, Cat(so, out)) = <<>>
  BY <1>1, CatFacts
<1>3. QED
  BY <1>2, CatFacts

\* q has p in front, or is a part of it.
InFront(p, q) ==
  /\ Len(q) >= Len(p) => Begins(q, p) /\ q = Cat(p, SubSeq(q, Len(p) + 1, Len(q)))
  /\ Len(q) < Len(p) => Begins(p, q)

\* What is behind P begins with p, or is the beginning of p.
LEMMA FrontBehind ==
  ASSUME NEW S, NEW P \in Seq(S), NEW q \in Seq(S), NEW so \in Seq(S), NEW out \in Seq(S),
         NEW p \in Seq(S), NEW rest \in Seq(S),
         Cat(Cat(Cat(P, q), so), out) = Cat(Cat(P, p), rest)
  PROVE  InFront(p, q)
<1>1. PICK back \in Seq(S) : back = Cat(so, out)
  BY CatFacts
<1>2. Cat(P, Cat(q, back)) = Cat(P, Cat(p, rest))
  <2>1. PICK pq \in Seq(S) : pq = Cat(P, q)
    BY CatFacts
  <2>2. Cat(Cat(pq, so), out) = Cat(pq, back)
    BY <1>1, CatFacts
  <2>3. Cat(pq, back) = Cat(P, Cat(q, back))
    BY <2>1, CatFacts
  <2>4. Cat(Cat(P, p), rest) = Cat(P, Cat(p, rest))
    BY CatFacts
  <2>5. QED
    BY <2>1, <2>2, <2>3, <2>4, Zenon
<1>3. Cat(q, back) = Cat(p, rest)
  BY <1>2, CatFacts
<1>5. Len(q) \in Nat /\ Len(p) \in Nat
  BY LenProperties
<1>6. ASSUME Len(q) >= Len(p)
      PROVE  Begins(q, p) /\ q = Cat(p, SubSeq(q, Len(p) + 1, Len(q)))
  <2>1. /\ q = Cat(p, SubSeq(q, Len(p) + 1, Len(q)))
        /\ \A i \in 1..Len(p) : q[i] = p[i]
    BY <1>3, <1>6, Overlap
  <2>2. QED
    BY <1>5, <1>6, <2>1 DEF Begins
<1>7. ASSUME Len(q) < Len(p) PROVE Begins(p, q)
  <2>1. Len(p) >= Len(q) /\ Cat(p, rest) = Cat(q, back)
    BY <1>3, <1>5, <1>7
  <2>2. \A i \in 1..Len(q) : p[i] = q[i]
    BY <2>1, Overlap
  <2>3. QED
    BY <1>5, <1>7, <2>2 DEF Begins
<1>8. QED
  BY <1>6, <1>7 DEF InFront

\* What has been decoded and what is on its way are the packets sent: r messages have been
\* decoded, k sent.
Flow(r, k, in, so, out) ==
  Cat(Cat(Cat(PacketsOf(r), in), so), out) = PacketsOf(k)

\* What in front of the stream is the packet that is decoded next.
LEMMA FrontPacket ==
  ASSUME TinyPb!ProperMessages, NEW k \in 0..Len(Messages), NEW r \in 0..k,
         NEW in \in Seq(TinyPb!Byte), NEW so \in Seq(TinyPb!Byte), NEW out \in Seq(TinyPb!Byte),
         Flow(r, k, in, so, out), in # <<>>
  PROVE  /\ r < k
         /\ InFront(Packet(r + 1), in)
<1>1. PICK n \in Nat : n = Len(Messages)
  BY MessagesFacts
<1>2. r \in 0..n /\ k \in 0..n /\ r \in Nat /\ k \in Nat
  BY <1>1
<1>3. PICK P \in Seq(TinyPb!Byte) : P = PacketsOf(r)
  BY <1>1, <1>2, PacketsOfFacts
<1>4. Cat(Cat(Cat(P, in), so), out) = PacketsOf(k)
  BY <1>3 DEF Flow
<1>5. PICK S : S = TinyPb!Byte
  OBVIOUS
<1>6. P \in Seq(S) /\ in \in Seq(S) /\ so \in Seq(S) /\ out \in Seq(S)
  BY <1>5
<1>7. r < k
  <2>1. CASE r = k
    <3>1. Cat(Cat(Cat(P, in), so), out) = P
      BY <1>3, <1>4, <2>1
    <3>2. in = <<>>
      BY <1>6, <3>1, NothingBehind
    <3>3. QED
      BY <3>2
  <2>2. QED
    BY <1>2, <2>1
<1>8. r + 1 \in 0..n /\ k \in (r + 1)..n /\ r \in 0..(n - 1) /\ r + 1 \in 1..n
  BY <1>2, <1>7
<1>9. PICK p \in Seq(TinyPb!Byte) : p = Packet(r + 1)
  BY <1>1, <1>8, PacketFacts
<1>10. PICK rest \in Seq(TinyPb!Byte) : PacketsOf(k) = PacketsOf(r + 1) \o rest
  BY <1>1, <1>8, PacketsOfFacts
<1>11. PacketsOf(r + 1) = P \o p
  BY <1>1, <1>3, <1>8, <1>9, PacketsOfFacts
<1>12. Cat(Cat(Cat(P, in), so), out) = Cat(Cat(P, p), rest)
  BY <1>4, <1>10, <1>11, Zenon DEF Cat
<1>13. p \in Seq(S) /\ rest \in Seq(S)
  BY <1>5
<1>14. InFront(p, in)
  BY <1>6, <1>12, <1>13, FrontBehind
<1>15. QED
  BY <1>7, <1>9, <1>14

\* The stream of packets.  k messages have been sent and the messages rc received; out and
\* in are the buffers, so the socket.  While the receiver waits for more, and its last read
\* left room in the buffer, the next packet is not whole.
StreamInv(k, out, so, st, in, full, rc) ==
  /\ k \in 0..Len(Messages) /\ Len(rc) \in 0..k /\ rc = SubSeq(Messages, 1, Len(rc))
  /\ out \in Buffers(TinyPb!Byte) /\ so \in Seq(TinyPb!Byte) /\ in \in Buffers(TinyPb!Byte)
  /\ Flow(Len(rc), k, TinyPb!Content(in), so, TinyPb!Content(out))
  /\ st \in {"input", "reading"} /\ ~full /\ Len(rc) < Len(Messages) =>
       Len(TinyPb!Content(in)) < TinyPb!PkLen(Messages[Len(rc) + 1])

\* The unread bytes are as many as readAble() says.
LEMMA ContentBytes ==
  ASSUME NEW b \in Buffers(TinyPb!Byte)
  PROVE  /\ TinyPb!Content(b) \in Seq(TinyPb!Byte)
         /\ Len(TinyPb!Content(b)) = TinyPb!ReadAble(b) /\ TinyPb!ReadAble(b) \in Nat
<1>1. b.rd \in Nat /\ b.wr \in Nat /\ TinyPb!ReadAble(b) \in Nat /\ TinyPb!ReadAble(b) = b.wr - b.rd
  BY BufferFacts
<1>2. TinyPb!Content(b) \in Seq(TinyPb!Byte) /\ Len(TinyPb!Content(b)) = b.wr - b.rd
  BY ContentIs
<1>3. QED
  BY <1>1, <1>2

\* encode appends the next packet.
LEMMA EncodeStream ==
  ASSUME TinyPb!ProperMessages, NEW k, NEW out, NEW so, NEW st, NEW in, NEW full, NEW rc,
         StreamInv(k, out, so, st, in, full, rc), k < Len(Messages)
  PROVE  StreamInv(k + 1, TinyPb!WriteToBuffer(out, TinyPb!Encoded(Messages[k + 1])), so, st, in,
                   full, rc)
<1>1. PICK n \in Nat : n = Len(Messages)
  BY MessagesFacts
<1>2. /\ k \in 0..n /\ Len(rc) \in 0..k /\ out \in Buffers(TinyPb!Byte)
      /\ so \in Seq(TinyPb!Byte) /\ in \in Buffers(TinyPb!Byte)
      /\ Flow(Len(rc), k, TinyPb!Content(in), so, TinyPb!Content(out))
  BY <1>1 DEF StreamInv
<1>3. /\ k + 1 \in 1..n /\ k \in 0..(n - 1) /\ k + 1 \in 0..n /\ Len(rc) \in 0..(k + 1)
      /\ Len(rc) \in 0..n /\ k \in Nat
  BY <1>1, <1>2
<1>4. PICK e \in Seq(TinyPb!Byte) : e = Packet(k + 1)
  BY <1>1, <1>3, PacketFacts
<1> DEFINE new == TinyPb!WriteToBuffer(out, e)
<1>5. new \in Buffers(TinyPb!Byte) /\ TinyPb!Content(new) = Cat(TinyPb!Content(out), e)
  BY <1>2, BaseFacts, WriteAppends DEF Cat
<1> HIDE DEF new
<1>6. PacketsOf(k + 1) = Cat(PacketsOf(k), e) /\ PacketsOf(Len(rc)) \in Seq(TinyPb!Byte)
  BY <1>1, <1>3, <1>4, PacketsOfFacts DEF Cat
<1>7. Flow(Len(rc), k + 1, TinyPb!Content(in), so, TinyPb!Content(new))
  <2>1. PICK P \in Seq(TinyPb!Byte), c \in Seq(TinyPb!Byte), o \in Seq(TinyPb!Byte) :
          P = PacketsOf(Len(rc)) /\ c = TinyPb!Content(in) /\ o = TinyPb!Content(out)
    BY <1>2, <1>6, ContentBytes
  <2>2. PICK front \in Seq(TinyPb!Byte) : front = Cat(Cat(P, c), so)
    BY <1>2, CatFacts
  <2>3. Cat(front, o) = PacketsOf(k)
    BY <1>2, <2>1, <2>2 DEF Flow
  <2>4. Cat(front, Cat(o, e)) = Cat(Cat(front, o), e)
    BY CatFacts
  <2>5. QED
    BY <1>5, <1>6, <2>1, <2>2, <2>3, <2>4, Zenon DEF Flow
<1>8. new = TinyPb!WriteToBuffer(out, TinyPb!Encoded(Messages[k + 1]))
  BY <1>4 DEF new, Packet
<1>9. StreamInv(k + 1, new, so, st, in, full, rc)
  BY <1>1, <1>3, <1>5, <1>7, Zenon DEF StreamInv
<1>10. QED
  BY <1>8, <1>9, Zenon

\* A write takes n bytes from the write buffer to the socket.
LEMMA OutputStream ==
  ASSUME TinyPb!ProperMessages, NEW k, NEW out, NEW so, NEW st, NEW in, NEW full, NEW rc,
         StreamInv(k, out, so, st, in, full, rc), NEW n \in Nat, n <= TinyPb!ReadAble(out)
  PROVE  StreamInv(k, TinyPb!RecycleRead(out, n), so \o SubSeq(TinyPb!Content(out), 1, n), st, in,
                   full, rc)
<1>1. PICK l \in Nat : l = Len(Messages)
  BY MessagesFacts
<1>2. /\ k \in 0..l /\ Len(rc) \in 0..k /\ out \in Buffers(TinyPb!Byte)
      /\ so \in Seq(TinyPb!Byte) /\ in \in Buffers(TinyPb!Byte)
      /\ Flow(Len(rc), k, TinyPb!Content(in), so, TinyPb!Content(out))
  BY <1>1 DEF StreamInv
<1>3. Len(rc) \in 0..l
  BY <1>1, <1>2
<1>4. PICK o \in Seq(TinyPb!Byte) : o = TinyPb!Content(out)
  BY <1>2, ContentBytes
<1>5. n \in 0..TinyPb!ReadAble(out) /\ n \in 0..Len(o) /\ Len(o) = TinyPb!ReadAble(out)
  BY <1>2, <1>4, ContentBytes
<1>6. PICK a \in Seq(TinyPb!Byte), z \in Seq(TinyPb!Byte) :
        a = SubSeq(o, 1, n) /\ z = SubSeq(o, n + 1, Len(o)) /\ o = Cat(a, z)
  <2>1. /\ SubSeq(o, 1, n) \in Seq(TinyPb!Byte) /\ SubSeq(o, n + 1, Len(o)) \in Seq(TinyPb!Byte)
        /\ o = SubSeq(o, 1, n) \o SubSeq(o, n + 1, Len(o))
    BY <1>5, Cut
  <2>2. QED
    BY <2>1, Zenon DEF Cat
<1> DEFINE new == TinyPb!RecycleRead(out, n)
<1>7. new \in Buffers(TinyPb!Byte) /\ TinyPb!Content(new) = z
  <2>1. /\ new \in Buffers(TinyPb!Byte)
        /\ TinyPb!Content(new) = SubSeq(TinyPb!Content(out), n + 1, TinyPb!ReadAble(out))
    BY <1>2, <1>5, BaseFacts, ReadTakes
  <2> HIDE DEF new
  <2>2. QED
    BY <1>4, <1>5, <1>6, <2>1, Zenon
<1> HIDE DEF new
<1>8. PICK t \in Seq(TinyPb!Byte) : t = Cat(so, a)
  BY <1>2, CatFacts
<1>9. Flow(Len(rc), k, TinyPb!Content(in), t, TinyPb!Content(new))
  <2>1. PICK P \in Seq(TinyPb!Byte), c \in Seq(TinyPb!Byte) :
          P = PacketsOf(Len(rc)) /\ c = TinyPb!Content(in)
    BY <1>1, <1>2, <1>3, ContentBytes, PacketsOfFacts
  <2>2. PICK front \in Seq(TinyPb!Byte) : front = Cat(P, c)
    BY CatFacts
  <2>3. Cat(Cat(front, so), Cat(a, z)) = PacketsOf(k)
    BY <1>2, <1>4, <1>6, <2>1, <2>2 DEF Flow
  <2>4. PICK fs \in Seq(TinyPb!Byte) : fs = Cat(front, so)
    BY <1>2, CatFacts
  <2>5. Cat(fs, Cat(a, z)) = Cat(Cat(fs, a), z)
    BY CatFacts
  <2>6. Cat(Cat(front, so), a) = Cat(front, Cat(so, a))
    BY <1>2, CatFacts
  <2>7. Cat(Cat(front, t), z) = PacketsOf(k)
    BY <1>8, <2>3, <2>4, <2>5, <2>6, Zenon
  <2>8. QED
    BY <1>7, <2>1, <2>2, <2>7, Zenon DEF Flow
<1>10. t = so \o SubSeq(TinyPb!Content(out), 1, n)
  BY <1>4, <1>6, <1>8 DEF Cat
<1>11. StreamInv(k, new, t, st, in, full, rc)
  BY <1>7, <1>9, Zenon DEF StreamInv
<1>12. QED
  BY <1>10, <1>11, Zenon DEF new

\* What m_read_buffer is when read_hook is called: the unread bytes are the same.
Roomy(b) ==
  IF TinyPb!WriteAble(b) = 0 THEN TinyPb!ResizeBuffer(b, 2 * Len(b.mem)) ELSE b

LEMMA RoomyKeeps ==
  ASSUME NEW b \in Buffers(TinyPb!Byte)
  PROVE  Roomy(b) \in Buffers(TinyPb!Byte) /\ TinyPb!Content(Roomy(b)) = TinyPb!Content(b)
<1>1. PICK size \in Nat : size = 2 * Len(b.mem)
  BY BufferFacts
<1>2. size >= TinyPb!ReadAble(b)
  BY <1>1, BufferFacts
<1>3. QED
  BY <1>1, <1>2, BaseFacts, ResizeKeeps DEF Roomy

\* A read that blocks may enlarge the buffer.
LEMMA BlocksStream ==
  ASSUME NEW k, NEW out, NEW so, NEW st, NEW in, NEW full, NEW rc,
         StreamInv(k, out, so, st, in, full, rc), st = "input"
  PROVE  StreamInv(k, out, so, "reading", Roomy(in), full, rc)
<1>1. in \in Buffers(TinyPb!Byte)
  BY DEF StreamInv
<1>2. Roomy(in) \in Buffers(TinyPb!Byte) /\ TinyPb!Content(Roomy(in)) = TinyPb!Content(in)
  BY <1>1, RoomyKeeps
<1>3. QED
  BY <1>2, Zenon DEF StreamInv

\* A read takes n bytes from the socket to the read buffer.
LEMMA InputStream ==
  ASSUME TinyPb!ProperMessages, NEW k, NEW out, NEW so, NEW st, NEW in, NEW full, NEW rc,
         StreamInv(k, out, so, st, in, full, rc), NEW n \in Nat, n <= Len(so),
         n <= TinyPb!WriteAble(Roomy(in)), NEW next, NEW all \in BOOLEAN,
         all \/ next = "execute"
  PROVE  StreamInv(k, out, SubSeq(so, n + 1, Len(so)), next,
                   TinyPb!RecycleWrite(TinyPb!Stored(Roomy(in), SubSeq(so, 1, n)), n), all, rc)
<1>1. PICK l \in Nat : l = Len(Messages)
  BY MessagesFacts
<1>2. /\ k \in 0..l /\ Len(rc) \in 0..k /\ out \in Buffers(TinyPb!Byte)
      /\ so \in Seq(TinyPb!Byte) /\ in \in Buffers(TinyPb!Byte)
      /\ Flow(Len(rc), k, TinyPb!Content(in), so, TinyPb!Content(out))
  BY <1>1 DEF StreamInv
<1>3. Len(rc) \in 0..l
  BY <1>1, <1>2
<1>4. n \in 0..Len(so)
  BY <1>2, LenProperties
<1>5. PICK a \in Seq(TinyPb!Byte), z \in Seq(TinyPb!Byte) :
        a = SubSeq(so, 1, n) /\ z = SubSeq(so, n + 1, Len(so)) /\ so = Cat(a, z) /\ Len(a) = n
  <2>1. /\ SubSeq(so, 1, n) \in Seq(TinyPb!Byte)
        /\ SubSeq(so, n + 1, Len(so)) \in Seq(TinyPb!Byte) /\ Len(SubSeq(so, 1, n)) = n
        /\ so = SubSeq(so, 1, n) \o SubSeq(so, n + 1, Len(so))
    BY <1>2, <1>4, Cut
  <2>2. PICK a \in Seq(TinyPb!Byte) : a = SubSeq(so, 1, n)
    BY <2>1
  <2>3. PICK z \in Seq(TinyPb!Byte) : z = SubSeq(so, n + 1, Len(so))
    BY <2>1
  <2>4. so = Cat(a, z) /\ Len(a) = n
    BY <2>1, <2>2, <2>3, Zenon DEF Cat
  <2>5. QED
    BY <2>2, <2>3, <2>4, Zenon
<1> DEFINE new == TinyPb!RecycleWrite(TinyPb!Stored(Roomy(in), a), n)
<1>6. new \in Buffers(TinyPb!Byte) /\ TinyPb!Content(new) = Cat(TinyPb!Content(in), a)
  <2>1. PICK b \in Buffers(TinyPb!Byte) : b = Roomy(in) /\ TinyPb!Content(b) = TinyPb!Content(in)
    BY <1>2, RoomyKeeps
  <2>2. Len(a) <= TinyPb!WriteAble(b)
    BY <1>5, <2>1
  <2>3. /\ TinyPb!RecycleWrite(TinyPb!Stored(b, a), Len(a)) \in Buffers(TinyPb!Byte)
        /\ TinyPb!Content(TinyPb!RecycleWrite(TinyPb!Stored(b, a), Len(a)))
             = TinyPb!Content(b) \o a
    BY <2>2, BaseFacts, InputAppends
  <2>4. QED
    BY <1>5, <2>1, <2>3, Zenon DEF Cat
<1> HIDE DEF new
<1>7. Flow(Len(rc), k, TinyPb!Content(new), z, TinyPb!Content(out))
  <2>1. PICK P \in Seq(TinyPb!Byte), c \in Seq(TinyPb!Byte), o \in Seq(TinyPb!Byte) :
          P = PacketsOf(Len(rc)) /\ c = TinyPb!Content(in) /\ o = TinyPb!Content(out)
    BY <1>1, <1>2, <1>3, ContentBytes, PacketsOfFacts
  <2>2. Cat(Cat(Cat(P, c), Cat(a, z)), o) = PacketsOf(k)
    BY <1>2, <1>5, <2>1 DEF Flow
  <2>3. PICK front \in Seq(TinyPb!Byte) : front = Cat(P, c)
    BY CatFacts
  <2>4. Cat(front, Cat(a, z)) = Cat(Cat(front, a), z)
    BY CatFacts
  <2>5. Cat(Cat(P, c), a) = Cat(P, Cat(c, a))
    BY CatFacts
  <2>6. Cat(Cat(Cat(P, Cat(c, a)), z), o) = PacketsOf(k)
    BY <2>2, <2>3, <2>4, <2>5, Zenon
  <2>7. QED
    BY <1>6, <2>1, <2>6, Zenon DEF Flow
<1>8. ~(next \in {"input", "reading"} /\ ~all)
  OBVIOUS
<1>9. StreamInv(k, out, z, next, new, all, rc)
  BY <1>6, <1>7, <1>8, Zenon DEF StreamInv
<1>10. QED
  BY <1>5, <1>9, Zenon DEF new

\* One turn of execute(): decode gives the next message and takes its packet, if that is
\* whole; it gives nothing and takes nothing, if it is not.
LEMMA ExecuteStream ==
  ASSUME TinyPb!ProperMessages, NEW k, NEW out, NEW so, NEW st, NEW in, NEW full, NEW rc,
         StreamInv(k, out, so, st, in, full, rc), TinyPb!ReadAble(in) > 0,
         NEW d \in TinyPb!Decoded(in)
  PROVE  StreamInv(k, out, so, TinyPb!After(d.decode_succ), d.buf, full,
                   IF d.decode_succ THEN Append(rc, d.msg) ELSE rc)
<1>1. PICK l \in Nat : l = Len(Messages)
  BY MessagesFacts
<1>2. /\ k \in 0..l /\ Len(rc) \in 0..k /\ out \in Buffers(TinyPb!Byte)
      /\ so \in Seq(TinyPb!Byte) /\ in \in Buffers(TinyPb!Byte)
      /\ Flow(Len(rc), k, TinyPb!Content(in), so, TinyPb!Content(out))
      /\ rc = SubSeq(Messages, 1, Len(rc))
  BY <1>1 DEF StreamInv
<1>3. PICK r \in Nat : r = Len(rc)
  <2>1. k \in 0..l /\ Len(rc) \in 0..k
    BY <1>2
  <2>2. k \in Nat
    BY <2>1
  <2>3. Len(rc) \in Nat
    BY <2>1, <2>2
  <2>4. QED
    BY <2>3, Zenon
<1>4. r \in 0..k /\ r \in 0..l
  BY <1>2, <1>3
<1>5. PICK c \in Seq(TinyPb!Byte), o \in Seq(TinyPb!Byte) :
        /\ c = TinyPb!Content(in) /\ o = TinyPb!Content(out)
        /\ Len(c) = TinyPb!ReadAble(in) /\ Len(c) \in Nat
  BY <1>2, ContentBytes
<1>6. c # <<>>
  BY <1>5
<1>7. r < k /\ InFront(Packet(r + 1), c)
  <2>1. Flow(r, k, c, so, o)
    BY <1>2, <1>3, <1>5
  <2>2. k \in 0..Len(Messages)
    BY <1>1, <1>2
  <2>3. QED
    BY <1>2, <1>4, <1>6, <2>1, <2>2, FrontPacket
<1>8. r + 1 \in 1..l /\ r + 1 \in 0..k /\ r \in 0..(l - 1) /\ r < l
  BY <1>2, <1>4, <1>7
<1>9. PICK m : m = Messages[r + 1]
  OBVIOUS
<1>10. PICK p \in Seq(TinyPb!Byte) : p = Packet(r + 1) /\ p = TinyPb!Encoded(m)
  BY <1>1, <1>8, <1>9, PacketFacts DEF Packet
<1>11. /\ TinyPb!WellFormed(m) /\ TinyPb!NoPacketInside(p)
       /\ Size(m) \in Nat /\ Len(p) = Size(m) /\ TinyPb!PkLen(m) = Size(m)
  BY <1>1, <1>8, <1>9, <1>10, PacketFacts
<1>12. PICK x \in TinyPb!Byte : d \in TinyPb!Decode(in, x)
  BY BaseFacts DEF TinyPb!Decoded, TinyPb!PB_END
<1>13. CASE Len(c) >= Len(p)
  <2>1. Begins(c, p) /\ c = Cat(p, SubSeq(c, Len(p) + 1, Len(c)))
    BY <1>7, <1>10, <1>13 DEF InFront
  <2>2. d = [decode_succ |-> TRUE, buf |-> TinyPb!RecycleRead(in, Size(m)), msg |-> m]
    <3>1. Begins(TinyPb!Content(in), TinyPb!Encoded(m))
      BY <1>5, <1>10, <2>1
    <3>2. TinyPb!Decode(in, x) =
            {[decode_succ |-> TRUE, buf |-> TinyPb!RecycleRead(in, Size(m)), msg |-> m]}
      BY <1>2, <1>11, <3>1, DecodeWhole
    <3>3. QED
      BY <1>12, <3>2
  <2>3. PICK b \in Buffers(TinyPb!Byte), rest \in Seq(TinyPb!Byte) :
          /\ b = TinyPb!RecycleRead(in, Size(m)) /\ rest = TinyPb!Content(b)
          /\ c = Cat(p, rest)
    <3>1. Size(m) \in 0..TinyPb!ReadAble(in)
      BY <1>5, <1>11, <1>13
    <3>2. /\ TinyPb!RecycleRead(in, Size(m)) \in Buffers(TinyPb!Byte)
          /\ TinyPb!Content(TinyPb!RecycleRead(in, Size(m)))
               = SubSeq(TinyPb!Content(in), Size(m) + 1, TinyPb!ReadAble(in))
      BY <1>2, <3>1, BaseFacts, ReadTakes
    <3>3. TinyPb!Content(TinyPb!RecycleRead(in, Size(m))) = SubSeq(c, Len(p) + 1, Len(c))
      BY <1>5, <1>11, <3>2
    <3>4. QED
      BY <2>1, <3>2, <3>3, ContentBytes, Zenon
  <2>4. Flow(r + 1, k, rest, so, o)
    <3>1. PICK P \in Seq(TinyPb!Byte) : P = PacketsOf(r)
      BY <1>1, <1>4, PacketsOfFacts
    <3>2. PacketsOf(r + 1) = Cat(P, p)
      BY <1>1, <1>8, <1>10, <3>1, PacketsOfFacts DEF Cat
    <3>3. Cat(Cat(Cat(P, Cat(p, rest)), so), o) = PacketsOf(k)
      BY <1>2, <1>3, <1>5, <2>3, <3>1 DEF Flow
    <3>4. Cat(Cat(P, p), rest) = Cat(P, Cat(p, rest))
      BY CatFacts
    <3>5. QED
      BY <3>2, <3>3, <3>4, Zenon DEF Flow
  <2>5. Append(rc, m) = SubSeq(Messages, 1, r + 1) /\ Len(Append(rc, m)) = r + 1
    <3>1. PICK M : M = {Messages[i] : i \in DOMAIN Messages}
      OBVIOUS
    <3>2. Messages \in Seq(M)
      BY <3>1, MessagesFacts
    <3>3. /\ 1 \in 1..Len(Messages) /\ r + 1 \in 1..Len(Messages) /\ (r + 1) - 1 = r
          /\ r \in 0..Len(Messages)
      BY <1>1, <1>8
    <3>4. SubSeq(Messages, 1, r + 1) = SubSeq(Messages, 1, r) \o <<m>>
      BY <1>9, <3>2, <3>3, SubSeqRecursiveSecond
    <3>5. SubSeq(Messages, 1, r) \in Seq(M) /\ Len(SubSeq(Messages, 1, r)) = r
      BY <3>2, <3>3, Cut
    <3>6. m \in M
      BY <1>9, <3>2, <3>3
    <3>7. rc = SubSeq(Messages, 1, r)
      BY <1>2, <1>3
    <3>8. /\ Append(rc, m) = rc \o <<m>> /\ Len(Append(rc, m)) = Len(rc) + 1
      BY <3>5, <3>6, <3>7, AppendIsConcat, AppendProperties
    <3>9. QED
      BY <1>3, <3>4, <3>7, <3>8
  <2>6. StreamInv(k, out, so, "execute", b, full, Append(rc, m))
    <3>1. ~("execute" \in {"input", "reading"})
      OBVIOUS
    <3>2. k \in 0..Len(Messages) /\ Len(Append(rc, m)) \in 0..k
      BY <1>1, <1>2, <1>8, <2>5
    <3>3. Append(rc, m) = SubSeq(Messages, 1, Len(Append(rc, m)))
      BY <2>5, Zenon
    <3>4. Flow(Len(Append(rc, m)), k, TinyPb!Content(b), so, TinyPb!Content(out))
      BY <1>5, <2>3, <2>4, <2>5, Zenon
    <3>5. QED
      BY <1>2, <3>1, <3>2, <3>3, <3>4, Zenon DEF StreamInv
  <2>7. d.decode_succ = TRUE /\ d.buf = b /\ d.msg = m
    BY <2>2, <2>3
  <2>8. QED
    BY <2>6, <2>7 DEF TinyPb!After
<1>14. CASE ~(Len(c) >= Len(p))
  <2>1. Len(c) < Len(p)
    BY <1>5, <1>11, <1>14
  <2>2. Begins(p, c)
    BY <1>7, <1>10, <2>1 DEF InFront
  <2>3. ~d.decode_succ /\ (d.buf = in \/ d.buf = TinyPb!RecycleRead(in, 0))
    BY <1>2, <1>5, <1>11, <1>12, <2>1, <2>2, DecodePart
  <2>4. d.buf \in Buffers(TinyPb!Byte) /\ TinyPb!Content(d.buf) = c
    <3>1. 0 \in 0..TinyPb!ReadAble(in) /\ 0 + 1 = 1
      BY <1>5
    <3>2. /\ TinyPb!RecycleRead(in, 0) \in Buffers(TinyPb!Byte)
          /\ TinyPb!Content(TinyPb!RecycleRead(in, 0))
               = SubSeq(TinyPb!Content(in), 0 + 1, TinyPb!ReadAble(in))
      BY <1>2, <3>1, BaseFacts, ReadTakes
    <3>3. TinyPb!Content(TinyPb!RecycleRead(in, 0)) = SubSeq(c, 1, Len(c))
      BY <1>5, <3>1, <3>2, Zenon
    <3>4. SubSeq(c, 1, Len(c)) = c
      BY SubSeqFull
    <3>5. QED
      BY <1>2, <1>5, <2>3, <3>2, <3>3, <3>4, Zenon
  <2>5. Len(c) < TinyPb!PkLen(Messages[Len(rc) + 1])
    BY <1>3, <1>9, <1>11, <2>1
  <2>6. StreamInv(k, out, so, "input", d.buf, full, rc)
    BY <1>5, <2>4, <2>5, Zenon DEF StreamInv
  <2>7. QED
    BY <2>3, <2>6 DEF TinyPb!After
<1>15. QED
  BY <1>13, <1>14

\* Nothing is left: what comes next is longer than nothing.
LEMMA DoneStream ==
  ASSUME TinyPb!ProperMessages, NEW k, NEW out, NEW so, NEW st, NEW in, NEW full, NEW rc,
         StreamInv(k, out, so, st, in, full, rc), TinyPb!ReadAble(in) = 0
  PROVE  StreamInv(k, out, so, "input", in, full, rc)
<1>1. in \in Buffers(TinyPb!Byte) /\ Len(rc) \in 0..k /\ k \in 0..Len(Messages)
  BY DEF StreamInv
<1>2. Len(TinyPb!Content(in)) = 0
  BY <1>1, ContentBytes
<1>3. Len(rc) < Len(Messages) => TinyPb!PkLen(Messages[Len(rc) + 1]) > 0
  <2>1. PICK l \in Nat : l = Len(Messages)
    BY MessagesFacts
  <2>2. PICK r \in Nat : r = Len(rc)
    BY <1>1
  <2>3. ASSUME r < l PROVE TinyPb!PkLen(Messages[r + 1]) > 0
    <3>1. r + 1 \in 1..l
      BY <2>3
    <3>2. /\ TinyPb!PkLen(Messages[r + 1]) = Size(Messages[r + 1])
          /\ Size(Messages[r + 1]) \in Nat /\ Size(Messages[r + 1]) >= 15
      BY <2>1, <3>1, PacketFacts
    <3>3. QED
      BY <3>2
  <2>4. QED
    BY <2>1, <2>2, <2>3
<1>4. Len(rc) < Len(Messages) =>
        Len(TinyPb!Content(in)) < TinyPb!PkLen(Messages[Len(rc) + 1])
  BY <1>2, <1>3
<1>5. QED
  BY <1>4, Zenon DEF StreamInv

\* The inductive invariant.
IInv == Packets => StreamInv(sent, out_buf, socket, pc, in_buf, filled, received)

\* Nothing has been sent, and the buffers are empty.
LEMMA InitIInv == ASSUME TinyPb!ProperMessages, Init PROVE IInv
<1>1. CASE m_protocal_type = "Http_Protocal"
  <2>1. ~Packets
    BY <1>1 DEF Packets
  <2>2. QED
    BY <2>1 DEF IInv
<1>2. CASE m_protocal_type = "TinyPb_Protocal" /\ TinyPb!Init
  <2>1. PICK b : b = TinyPb!NewBuffer(BufSize)
    OBVIOUS
  <2>2. /\ sent = 0 /\ out_buf = b /\ socket = <<>> /\ in_buf = b /\ received = <<>>
    BY <1>2, <2>1 DEF TinyPb!Init
  <2>3. b \in Buffers(TinyPb!Byte) /\ TinyPb!Content(b) = <<>>
    <3>1. PICK size \in Nat : size = BufSize
      BY StreamsAssumption
    <3>2. PICK m : m = [i \in 1..size |-> 0]
      OBVIOUS
    <3>3. m \in Seq(TinyPb!Byte) /\ Len(m) = size
      BY <3>2, BaseFacts
    <3>4. b = [mem |-> m, rd |-> 0, wr |-> 0]
      BY <2>1, <3>1, <3>2 DEF TinyPb!NewBuffer
    <3>5. b \in Buffers(TinyPb!Byte)
      <4>1. PICK S : S = TinyPb!Byte
        OBVIOUS
      <4>2. m \in Seq(S) /\ 0 \in Nat /\ 0 <= 0 /\ 0 <= Len(m)
        BY <3>3, <4>1
      <4>3. [mem |-> m, rd |-> 0, wr |-> 0] \in Buffers(S)
        BY <4>2, BufferMade
      <4>4. QED
        BY <3>4, <4>1, <4>3, Zenon
    <3>6. TinyPb!Content(b) \in Seq(TinyPb!Byte) /\ Len(TinyPb!Content(b)) = 0
      <4>1. TinyPb!ReadAble(b) = 0
        BY <3>4 DEF TinyPb!ReadAble
      <4>2. QED
        BY <3>5, <4>1, ContentBytes
    <3>7. TinyPb!Content(b) = <<>>
      BY <3>6, EmptySeq
    <3>8. QED
      BY <3>5, <3>7
  <2>4. /\ 0 \in 0..Len(Messages) /\ Len(<<>>) \in 0..0 /\ Len(<<>>) = 0
        /\ SubSeq(Messages, 1, 0) = <<>>
    BY MessagesFacts
  <2>5. Flow(0, 0, <<>>, <<>>, <<>>)
    <3>1. <<>> \in Seq(TinyPb!Byte)
      OBVIOUS
    <3>2. Cat(<<>>, <<>>) = <<>>
      BY <3>1, ConcatEmptySeq DEF Cat
    <3>3. QED
      BY <3>2, PacketsOfFacts, Zenon DEF Flow
  <2>6. pc = "input" /\ filled = FALSE
    BY <1>2 DEF TinyPb!Init
  <2>7. Len(received) < Len(Messages) =>
          Len(TinyPb!Content(in_buf)) < TinyPb!PkLen(Messages[Len(received) + 1])
    <3>1. PICK l \in Nat : l = Len(Messages)
      BY MessagesFacts
    <3>2. ASSUME 0 < l PROVE 0 < TinyPb!PkLen(Messages[1])
      <4>1. 1 \in 1..Len(Messages)
        BY <3>1, <3>2
      <4>2. /\ TinyPb!PkLen(Messages[1]) = Size(Messages[1])
            /\ Size(Messages[1]) \in Nat /\ Size(Messages[1]) >= 15
        BY <4>1, PacketFacts
      <4>3. QED
        BY <4>2
    <3>3. Len(received) = 0 /\ Len(TinyPb!Content(in_buf)) = 0
      BY <2>2, <2>3
    <3>4. QED
      BY <3>1, <3>2, <3>3
  <2>8. StreamInv(sent, out_buf, socket, pc, in_buf, filled, received)
    <3>1. sent \in 0..Len(Messages) /\ Len(received) \in 0..sent
      BY <2>2, <2>4, Zenon
    <3>2. received = SubSeq(Messages, 1, Len(received))
      BY <2>2, <2>4, Zenon
    <3>3. Flow(Len(received), sent, TinyPb!Content(in_buf), socket, TinyPb!Content(out_buf))
      BY <2>2, <2>3, <2>4, <2>5, Zenon
    <3>4. out_buf \in Buffers(TinyPb!Byte) /\ in_buf \in Buffers(TinyPb!Byte)
      BY <2>2, <2>3, Zenon
    <3>5. socket \in Seq(TinyPb!Byte)
      BY <2>2
    <3>6. QED
      BY <2>7, <3>1, <3>2, <3>3, <3>4, <3>5, Zenon DEF StreamInv
  <2>9. QED
    BY <2>8 DEF IInv
<1>3. QED
  BY <1>1, <1>2, Zenon DEF Init

\* Every step of a connection keeps the invariant.
LEMMA NextIInv == ASSUME TinyPb!ProperMessages, IInv, [Next]_vars PROVE IInv'
<1>1. CASE HttpArrive \/ HttpServe
  <2>1. ~Packets'
    BY <1>1 DEF HttpArrive, HttpServe, Packets
  <2>2. QED
    BY <2>1 DEF IInv
<1>2. CASE TinyPbNext
  <2>1. TinyPb!Next /\ Packets
    BY <1>2 DEF TinyPbNext, Packets
  <2>2. StreamInv(sent, out_buf, socket, pc, in_buf, filled, received)
    BY <2>1 DEF IInv
  <2>3. /\ out_buf \in Buffers(TinyPb!Byte) /\ socket \in Seq(TinyPb!Byte)
        /\ in_buf \in Buffers(TinyPb!Byte)
    BY <2>2 DEF StreamInv
  <2> SUFFICES StreamInv(sent', out_buf', socket', pc', in_buf', filled', received')
    BY DEF IInv
  <2>4. CASE TinyPb!Encode
    BY <2>2, <2>4, EncodeStream DEF TinyPb!Encode, TinyPb!inVars
  <2>5. CASE TinyPb!StartOutput
    BY <2>2, <2>5, Zenon DEF TinyPb!StartOutput, TinyPb!inVars
  <2>6. CASE TinyPb!InputBlocks
    <3>1. TinyPb!ReadInto = Roomy(in_buf)
      BY DEF TinyPb!ReadInto, Roomy
    <3>2. /\ pc = "input" /\ pc' = "reading" /\ in_buf' = Roomy(in_buf)
          /\ sent' = sent /\ out_buf' = out_buf /\ socket' = socket /\ filled' = filled
          /\ received' = received
      BY <2>6, <3>1 DEF TinyPb!InputBlocks, TinyPb!outVars
    <3>3. StreamInv(sent, out_buf, socket, "reading", Roomy(in_buf), filled, received)
      BY <2>2, <3>2, BlocksStream
    <3>4. QED
      BY <3>2, <3>3, Zenon
  <2>7. CASE TinyPb!Execute
    <3>1. PICK d \in TinyPb!Decoded(in_buf) :
            /\ in_buf' = d.buf
            /\ received' = IF d.decode_succ THEN Append(received, d.msg) ELSE received
            /\ pc' = TinyPb!After(d.decode_succ)
      BY <2>7 DEF TinyPb!Execute
    <3>2. /\ TinyPb!ReadAble(in_buf) > 0
          /\ sent' = sent /\ out_buf' = out_buf /\ socket' = socket /\ filled' = filled
      BY <2>7 DEF TinyPb!Execute, TinyPb!outVars
    <3>3. StreamInv(sent, out_buf, socket, TinyPb!After(d.decode_succ), d.buf, filled,
                    IF d.decode_succ THEN Append(received, d.msg) ELSE received)
      BY <2>2, <3>2, ExecuteStream
    <3>4. QED
      BY <3>1, <3>2, <3>3, Zenon
  <2>8. CASE TinyPb!ExecuteDone
    <3>1. /\ TinyPb!ReadAble(in_buf) = 0 /\ pc' = "input"
          /\ sent' = sent /\ out_buf' = out_buf /\ socket' = socket /\ in_buf' = in_buf
          /\ filled' = filled /\ received' = received
      BY <2>8 DEF TinyPb!ExecuteDone, TinyPb!outVars
    <3>2. StreamInv(sent, out_buf, socket, "input", in_buf, filled, received)
      BY <2>2, <3>1, DoneStream
    <3>3. QED
      BY <3>1, <3>2, Zenon
  <2>9. ASSUME NEW n \in 1..Len(TinyPb!Content(out_buf)), TinyPb!Output(n)
        PROVE  StreamInv(sent', out_buf', socket', pc', in_buf', filled', received')
    <3>1. n \in Nat /\ n <= TinyPb!ReadAble(out_buf)
      BY <2>3, ContentBytes
    <3>2. /\ socket' = socket \o SubSeq(TinyPb!Content(out_buf), 1, n)
          /\ out_buf' = TinyPb!RecycleRead(out_buf, n)
          /\ sent' = sent /\ pc' = pc /\ in_buf' = in_buf /\ filled' = filled
          /\ received' = received
      BY <2>9, Zenon DEF TinyPb!Output, TinyPb!inVars
    <3>3. StreamInv(sent, TinyPb!RecycleRead(out_buf, n),
                    socket \o SubSeq(TinyPb!Content(out_buf), 1, n), pc, in_buf, filled, received)
      BY <2>2, <3>1, OutputStream
    <3>4. QED
      BY <3>2, <3>3, Zenon
  <2>10. ASSUME NEW n \in 1..Len(socket), TinyPb!Input(n)
         PROVE  StreamInv(sent', out_buf', socket', pc', in_buf', filled', received')
    <3>1. TinyPb!ReadInto = Roomy(in_buf)
      BY DEF TinyPb!ReadInto, Roomy
    <3>2. n \in Nat /\ n <= Len(socket) /\ n <= TinyPb!WriteAble(Roomy(in_buf))
      BY <2>3, <2>10, <3>1, LenProperties DEF TinyPb!Input
    <3>3. /\ socket' = SubSeq(socket, n + 1, Len(socket))
          /\ in_buf' = TinyPb!RecycleWrite(TinyPb!Stored(Roomy(in_buf), SubSeq(socket, 1, n)), n)
          /\ filled' = (n = TinyPb!WriteAble(Roomy(in_buf)))
          /\ pc' = IF n = TinyPb!WriteAble(Roomy(in_buf)) THEN "input" ELSE "execute"
          /\ sent' = sent /\ out_buf' = out_buf /\ received' = received
      BY <2>10, <3>1, Zenon DEF TinyPb!Input, TinyPb!outVars
    <3>4. PICK all \in BOOLEAN : all = (n = TinyPb!WriteAble(Roomy(in_buf)))
      OBVIOUS
    <3>5. filled' = all /\ (all \/ pc' = "execute")
      BY <3>3, <3>4, Zenon
    <3>6. PICK next : next = pc'
      OBVIOUS
    <3>7. StreamInv(sent, out_buf, SubSeq(socket, n + 1, Len(socket)), next,
            TinyPb!RecycleWrite(TinyPb!Stored(Roomy(in_buf), SubSeq(socket, 1, n)), n), all,
            received)
      BY <2>2, <3>2, <3>5, <3>6, InputStream
    <3>8. QED
      BY <3>3, <3>5, <3>6, <3>7, Zenon
  <2>11. QED
    BY <2>1, <2>4, <2>5, <2>6, <2>7, <2>8, <2>9, <2>10, Zenon DEF TinyPb!Next
<1>3. CASE UNCHANGED vars
  <2>1. UNCHANGED <<m_protocal_type, sent, out_buf, socket, pc, in_buf, filled, received>>
    BY <1>3 DEF vars, TinyPb!vars, TinyPb!outVars, TinyPb!inVars
  <2>2. QED
    BY <2>1, Zenon DEF IInv, Packets
<1>4. QED
  BY <1>1, <1>2, <1>3 DEF Next

\* BytesConserved and WaitsOnlyWhenFilled say it of the bytes and of the wait.
LEMMA IInvSays ==
  ASSUME TinyPb!ProperMessages, IInv
  PROVE  BytesConserved /\ WaitsOnlyWhenFilled
<1>1. ASSUME Packets PROVE TinyPb!BytesConserved /\ TinyPb!WaitsOnlyWhenFilled
  <2>1. StreamInv(sent, out_buf, socket, pc, in_buf, filled, received)
    BY <1>1 DEF IInv
  <2>2. /\ received = SubSeq(Messages, 1, Len(received))
        /\ Flow(Len(received), sent, TinyPb!Content(in_buf), socket, TinyPb!Content(out_buf))
        /\ in_buf \in Buffers(TinyPb!Byte)
    BY <2>1 DEF StreamInv
  <2>3. TinyPb!BytesConserved
    <3>1. PacketsOf(Len(received)) = TinyPb!Packets(received)
      BY <2>2, Zenon DEF PacketsOf
    <3>2. QED
      BY <2>2, <3>1, Zenon DEF Flow, Cat, PacketsOf, TinyPb!BytesConserved
  <2>4. TinyPb!WaitsOnlyWhenFilled
    <3>1. Len(TinyPb!Content(in_buf)) = TinyPb!ReadAble(in_buf) /\ TinyPb!ReadAble(in_buf) \in Nat
      BY <2>2, ContentBytes
    <3>2. SUFFICES ASSUME pc = "reading", Len(received) < Len(Messages), ~filled,
                          TinyPb!ReadAble(in_buf) >= TinyPb!PkLen(Messages[Len(received) + 1])
                   PROVE  FALSE
      BY DEF TinyPb!WaitsOnlyWhenFilled
    <3>3. Len(TinyPb!Content(in_buf)) < TinyPb!PkLen(Messages[Len(received) + 1])
      BY <2>1, <3>2 DEF StreamInv
    <3>4. TinyPb!PkLen(Messages[Len(received) + 1]) \in Nat
      <4>1. Len(received) \in 0..sent /\ sent \in 0..Len(Messages) /\ Len(Messages) \in Nat
        BY <2>1, MessagesFacts DEF StreamInv
      <4>2. Len(received) + 1 \in 1..Len(Messages)
        BY <3>2, <4>1
      <4>3. QED
        BY <4>2, PacketFacts
    <3>5. QED
      BY <3>1, <3>2, <3>3, <3>4
  <2>5. QED
    BY <2>3, <2>4
<1>2. QED
  BY <1>1 DEF BytesConserved, WaitsOnlyWhenFilled

\* The invariant holds always.
LEMMA SpecIInv == ASSUME TinyPb!ProperMessages PROVE Spec => []IInv
<1>1. Init => IInv
  BY InitIInv
<1>2. IInv /\ [Next]_vars => IInv'
  BY NextIInv
<1>3. QED
  BY <1>1, <1>2, PTL DEF Spec

\* The TinyPB stream of a server loses, repeats and reorders no byte, however it is cut: what
\* has been decoded, and what waits in the buffers and the socket, are the packets sent.
THEOREM SpecBytesConserved == ASSUME TinyPb!ProperMessages PROVE Spec => []BytesConserved
<1>1. IInv => BytesConserved
  BY IInvSays
<1>2. QED
  BY <1>1, SpecIInv, PTL

\* A whole packet in the read buffer is decoded before the coroutine waits for more, unless
\* the last read filled the buffer.
THEOREM SpecWaitsOnlyWhenFilled ==
  ASSUME TinyPb!ProperMessages PROVE Spec => []WaitsOnlyWhenFilled
<1>1. IInv => WaitsOnlyWhenFilled
  BY IInvSays
<1>2. QED
  BY <1>1, SpecIInv, PTL

-----------------------------------------------------------------------------
(* HTTP: the tokens of a request.                                          *)

\* The kinds of tokens are apart.
LEMMA TokenFacts ==
  /\ Http!CR \in Http!Tokens /\ Http!LF \in Http!Tokens /\ Http!Byte \in Http!Tokens
  /\ Http!Lines \subseteq Http!Tokens /\ Http!Headers \subseteq Http!Tokens
  /\ Http!CR # Http!LF
  /\ Http!CR.kind = "CR" /\ Http!LF.kind = "LF"
  /\ \A x \in Http!Lines : x.kind = "line" /\ x # Http!CR
  /\ \A x \in Http!Headers : x.kind = "header" /\ x.length \in Nat /\ x # Http!CR
<1>1. Http!CR.kind = "CR" /\ Http!LF.kind = "LF"
  BY DEF Http!CR, Http!LF
<1>2. \A x \in Http!Lines : x.kind = "line"
  BY DEF Http!Lines
<1>3. \A x \in Http!Headers : x.kind = "header" /\ x.length \in Nat
  BY DEF Http!Headers
<1>4. /\ Http!CR \in Http!Tokens /\ Http!LF \in Http!Tokens /\ Http!Byte \in Http!Tokens
      /\ Http!Lines \subseteq Http!Tokens /\ Http!Headers \subseteq Http!Tokens
  BY Zenon DEF Http!Tokens
<1>5. QED
  BY <1>1, <1>2, <1>3, <1>4

\* A line with its end.
LEMMA LineEnd ==
  ASSUME NEW x \in Http!Tokens
  PROVE  /\ <<x>> \o Http!CRLF \in Seq(Http!Tokens) /\ Len(<<x>> \o Http!CRLF) = 3
         /\ (<<x>> \o Http!CRLF)[1] = x /\ (<<x>> \o Http!CRLF)[2] = Http!CR
         /\ (<<x>> \o Http!CRLF)[3] = Http!LF
<1>1. PICK S : S = Http!Tokens
  OBVIOUS
<1>2. PICK c \in S, l \in S : c = Http!CR /\ l = Http!LF
  BY <1>1, TokenFacts
<1>3. x \in S
  BY <1>1
<1>9. <<x>> \in Seq(S) /\ <<c, l>> \in Seq(S)
  BY <1>3
<1>4. PICK a \in Seq(S) : a = <<x>>
  BY <1>9, Zenon
<1>10. Len(a) = 1 /\ a[1] = x
  BY <1>4
<1>8. PICK b \in Seq(S) : b = <<c, l>>
  BY <1>9, Zenon
<1>11. Len(b) = 2 /\ b[1] = c /\ b[2] = l
  BY <1>8
<1>5. /\ a \o b \in Seq(S) /\ Len(a \o b) = 3
      /\ (a \o b)[1] = x /\ (a \o b)[2] = c /\ (a \o b)[3] = l
  <2>5. /\ a \o b \in Seq(S) /\ Len(a \o b) = Len(a) + Len(b)
        /\ \A i \in 1..(Len(a) + Len(b)) :
             (a \o b)[i] = IF i <= Len(a) THEN a[i] ELSE b[i - Len(a)]
    BY ConcatProperties
  <2>1. /\ a \o b \in Seq(S) /\ Len(a \o b) = 1 + 2
        /\ \A i \in 1..(1 + 2) : (a \o b)[i] = IF i <= 1 THEN a[i] ELSE b[i - 1]
    BY <1>10, <1>11, <2>5, Zenon
  <2>2. /\ 1 \in 1..(1 + 2) /\ 2 \in 1..(1 + 2) /\ 3 \in 1..(1 + 2) /\ 1 <= 1 /\ ~(2 <= 1)
        /\ ~(3 <= 1) /\ 2 - 1 = 1 /\ 3 - 1 = 2 /\ 1 + 2 = 3
    OBVIOUS
  <2>3. (a \o b)[1] = a[1] /\ (a \o b)[2] = b[1] /\ (a \o b)[3] = b[2]
    BY <2>1, <2>2
  <2>4. QED
    BY <1>10, <1>11, <2>1, <2>2, <2>3, Zenon
<1>6. <<x>> \o Http!CRLF = a \o b
  BY <1>2, <1>4, <1>8, Zenon DEF Http!CRLF
<1>7. QED
  BY <1>1, <1>2, <1>5, <1>6, Zenon

\* q has k header lines with their ends.
HeadersAt(q, hs, k) ==
  /\ Len(q) = 3 * k
  /\ \A i \in 1..k : /\ q[(3 * i) - 2] = hs[i]
                     /\ q[(3 * i) - 1] = Http!CR
                     /\ q[3 * i] = Http!LF

\* One more is put behind.
LEMMA OneMoreHeader ==
  ASSUME NEW S, NEW f \in Seq(S), NEW e \in Seq(S), NEW hs, NEW k \in Nat,
         HeadersAt(f, hs, k), Len(e) = 3,
         e[1] = hs[k + 1], e[2] = Http!CR, e[3] = Http!LF
  PROVE  HeadersAt(f \o e, hs, k + 1)
<1>1. PICK a \in Nat : a = 3 * k
  OBVIOUS
<1>2. Len(f) = a
  BY <1>1 DEF HeadersAt
<1>11. /\ Len(f \o e) = Len(f) + Len(e)
       /\ \A i \in 1..(Len(f) + Len(e)) : (f \o e)[i] = IF i <= Len(f) THEN f[i] ELSE e[i - Len(f)]
  BY ConcatProperties
<1>3. PICK g : g = f \o e
  OBVIOUS
<1>4. /\ Len(g) = a + 3
      /\ \A i \in 1..(a + 3) : g[i] = IF i <= a THEN f[i] ELSE e[i - a]
  BY <1>2, <1>3, <1>11, Zenon
<1>5. ASSUME NEW i \in 1..k
      PROVE  /\ g[(3 * i) - 2] = hs[i] /\ g[(3 * i) - 1] = Http!CR
             /\ g[3 * i] = Http!LF
  <2>1. f[(3 * i) - 2] = hs[i] /\ f[(3 * i) - 1] = Http!CR /\ f[3 * i] = Http!LF
    BY DEF HeadersAt
  <2>2. /\ (3 * i) - 2 \in 1..(a + 3) /\ (3 * i) - 1 \in 1..(a + 3) /\ 3 * i \in 1..(a + 3)
        /\ (3 * i) - 2 <= a /\ (3 * i) - 1 <= a /\ 3 * i <= a
    BY <1>1
  <2>3. /\ g[(3 * i) - 2] = f[(3 * i) - 2] /\ g[(3 * i) - 1] = f[(3 * i) - 1]
        /\ g[3 * i] = f[3 * i]
    BY <1>4, <2>2
  <2>4. QED
    BY <2>1, <2>3, Zenon
<1>6. /\ g[(3 * (k + 1)) - 2] = hs[k + 1] /\ g[(3 * (k + 1)) - 1] = Http!CR
      /\ g[3 * (k + 1)] = Http!LF
  <2>1. /\ (3 * (k + 1)) - 2 = a + 1 /\ (3 * (k + 1)) - 1 = a + 2 /\ 3 * (k + 1) = a + 3
    BY <1>1
  <2>2. /\ a + 1 \in 1..(a + 3) /\ a + 2 \in 1..(a + 3) /\ a + 3 \in 1..(a + 3)
        /\ ~(a + 1 <= a) /\ ~(a + 2 <= a) /\ ~(a + 3 <= a)
        /\ (a + 1) - a = 1 /\ (a + 2) - a = 2 /\ (a + 3) - a = 3
    OBVIOUS
  <2>3. g[a + 1] = e[1]
    BY <1>4, <2>2
  <2>4. g[a + 2] = e[2]
    BY <1>4, <2>2
  <2>5. g[a + 3] = e[3]
    BY <1>4, <2>2
  <2>6. QED
    BY <2>1, <2>3, <2>4, <2>5, Zenon
<1>7. \A i \in 1..(k + 1) : i \in 1..k \/ i = k + 1
  OBVIOUS
<1>8. Len(g) = 3 * (k + 1)
  BY <1>1, <1>4
<1>9. \A i \in 1..(k + 1) : /\ g[(3 * i) - 2] = hs[i] /\ g[(3 * i) - 1] = Http!CR
                             /\ g[3 * i] = Http!LF
  BY <1>5, <1>6, <1>7, Zenon
<1>10. QED
  BY <1>3, <1>8, <1>9, Zenon DEF HeadersAt

\* The header lines with their ends.
Block(hs) == [i \in 1..Len(hs) |-> <<hs[i]>> \o Http!CRLF]

\* They are there, one behind the other.
LEMMA HeaderBlock ==
  ASSUME NEW hs \in Seq(Http!Headers), NEW n \in Nat, n = Len(hs)
  PROVE  /\ Flat(Block(hs), n) \in Seq(Http!Tokens)
         /\ HeadersAt(Flat(Block(hs), n), hs, n)
<1>1. PICK S : S = Http!Tokens
  OBVIOUS
<1>2. PICK E : E = Block(hs)
  OBVIOUS
<1>3. \A i \in 1..n : /\ E[i] \in Seq(S) /\ Len(E[i]) = 3
                      /\ E[i][1] = hs[i] /\ E[i][2] = Http!CR /\ E[i][3] = Http!LF
  <2> SUFFICES ASSUME NEW i \in 1..n
               PROVE  /\ E[i] \in Seq(S) /\ Len(E[i]) = 3
                      /\ E[i][1] = hs[i] /\ E[i][2] = Http!CR /\ E[i][3] = Http!LF
    OBVIOUS
  <2>1. hs[i] \in Http!Tokens
    BY TokenFacts
  <2>2. E[i] = <<hs[i]>> \o Http!CRLF
    BY <1>2 DEF Block
  <2>3. QED
    BY <1>1, <2>1, <2>2, LineEnd, Zenon
<1>12. \A i \in 1..n : E[i] \in Seq(S)
  BY <1>3, Zenon
<1>4. /\ \A k \in 0..n : Flat(E, k) \in Seq(S)
      /\ \A k \in 0..(n - 1) : Flat(E, k + 1) = Flat(E, k) \o E[k + 1]
  BY <1>12, FlatStep
<1> DEFINE T == {k \in Nat : k <= n => HeadersAt(Flat(E, k), hs, k)}
<1>5. T \in SUBSET Nat
  OBVIOUS
<1>6. 0 \in T
  <2>1. Flat(E, 0) = <<>>
    BY FlatZero
  <2>2. HeadersAt(<<>>, hs, 0)
    BY DEF HeadersAt
  <2>3. QED
    BY <2>1, <2>2
<1>7. ASSUME NEW k \in T PROVE k + 1 \in T
  <2>1. k \in Nat /\ (k <= n => HeadersAt(Flat(E, k), hs, k))
    BY <1>7
  <2>2. SUFFICES ASSUME k + 1 <= n PROVE HeadersAt(Flat(E, k + 1), hs, k + 1)
    BY <2>1
  <2>3. k \in 0..n /\ k \in 0..(n - 1) /\ k + 1 \in 1..n /\ k <= n
    BY <2>1, <2>2
  <2>4. PICK f \in Seq(S) : f = Flat(E, k)
    BY <1>4, <2>3
  <2>5. PICK e \in Seq(S) : e = E[k + 1]
    BY <1>3, <2>3
  <2>6. Flat(E, k + 1) = f \o e
    BY <1>4, <2>3, <2>4, <2>5
  <2>7. Len(e) = 3 /\ e[1] = hs[k + 1] /\ e[2] = Http!CR /\ e[3] = Http!LF
    BY <1>3, <2>3, <2>5
  <2>8. HeadersAt(f, hs, k)
    BY <2>1, <2>3, <2>4
  <2> HIDE DEF T
  <2>9. HeadersAt(f \o e, hs, k + 1)
    BY <2>1, <2>7, <2>8, OneMoreHeader
  <2>10. QED
    BY <2>6, <2>9, Zenon
<1>8. T = Nat
  <2> HIDE DEF T
  <2>1. QED
    BY <1>5, <1>6, <1>7, Induct
<1>9. HeadersAt(Flat(E, n), hs, n)
  BY <1>8
<1>10. n \in 0..n
  OBVIOUS
<1>11. QED
  BY <1>1, <1>2, <1>4, <1>9, <1>10, Zenon

\* The Http module's FlattenSeq is that of SequencesExt.
LEMMA SameHttpFlatten ==
  ASSUME NEW q
  PROVE  Http!FlattenSeq(q) = FlattenSeq(q)
  BY DEF Http!FlattenSeq, FlattenSeq

\* Where the parts of a request with n headers are in its tokens.
Shape(p, line, hs, n) ==
  /\ Len(p) >= 3 * n + 5
  /\ p[1] = line /\ p[2] = Http!CR /\ p[3] = Http!LF
  /\ \A i \in 1..n : /\ p[3 * i + 1] = hs[i]
                     /\ p[3 * i + 2] = Http!CR
                     /\ p[3 * i + 3] = Http!LF
  /\ p[3 * n + 4] = Http!CR /\ p[3 * n + 5] = Http!LF

\* BytesOf puts them there.
LEMMA RequestShape ==
  ASSUME NEW r \in Http!Requests, NEW n \in Nat, n = Len(r.headers)
  PROVE  /\ Http!BytesOf(r) \in Seq(Http!Tokens)
         /\ Len(Http!BytesOf(r)) = 3 * n + 5 + r.body
         /\ Shape(Http!BytesOf(r), r.line, r.headers, n)
<1>1. PICK hs \in Seq(Http!Headers) : hs = r.headers
  BY DEF Http!Requests
<1>2. PICK S : S = Http!Tokens
  OBVIOUS
<1>3. PICK m \in Nat : m = r.body
  BY DEF Http!Requests
<1>4. r.line \in Http!Tokens
  BY TokenFacts DEF Http!Requests
<1>5. PICK a : a = <<r.line>> \o Http!CRLF
  OBVIOUS
<1>6. a \in Seq(S) /\ Len(a) = 3 /\ a[1] = r.line /\ a[2] = Http!CR /\ a[3] = Http!LF
  BY <1>2, <1>4, <1>5, LineEnd, Zenon
<1>7. PICK f : f = Flat(Block(hs), n)
  OBVIOUS
<1>8. f \in Seq(S) /\ HeadersAt(f, hs, n)
  BY <1>1, <1>2, <1>7, HeaderBlock, Zenon
<1>9. PICK e : e = Http!CRLF
  OBVIOUS
<1>10. e \in Seq(S) /\ Len(e) = 2 /\ e[1] = Http!CR /\ e[2] = Http!LF
  <2>1. PICK c \in S, l \in S : c = Http!CR /\ l = Http!LF
    BY <1>2, TokenFacts
  <2>2. <<c, l>> \in Seq(S) /\ Len(<<c, l>>) = 2 /\ <<c, l>>[1] = c /\ <<c, l>>[2] = l
    OBVIOUS
  <2>3. e = <<c, l>>
    BY <1>9, <2>1, Zenon DEF Http!CRLF
  <2>4. QED
    BY <2>1, <2>2, <2>3, Zenon
<1>11. PICK b : b = [i \in 1..m |-> Http!Byte]
  OBVIOUS
<1>12. b \in Seq(S) /\ Len(b) = m
  <2>1. Http!Byte \in S
    BY <1>2, TokenFacts, Zenon
  <2>2. PICK x \in S : x = Http!Byte
    BY <2>1, Zenon
  <2>3. [i \in 1..m |-> x] \in Seq(S) /\ Len([i \in 1..m |-> x]) = m
    OBVIOUS
  <2>4. QED
    BY <1>11, <2>2, <2>3, Zenon
<1>13. f = Http!FlattenSeq([i \in DOMAIN hs |-> <<hs[i]>> \o Http!CRLF])
  <2>1. DOMAIN hs = 1..n /\ Len(hs) = n
    BY <1>1
  <2>2. [i \in 1..n |-> Block(hs)[i]] = [i \in DOMAIN hs |-> <<hs[i]>> \o Http!CRLF]
    BY <2>1 DEF Block
  <2>3. QED
    BY <1>7, <2>2, SameHttpFlatten, Zenon DEF Flat
<1>14. Http!BytesOf(r) = (((a \o f) \o e) \o b)
  BY <1>1, <1>3, <1>5, <1>9, <1>11, <1>13, Zenon DEF Http!BytesOf
<1>15. PICK q1 : q1 = a \o f
  OBVIOUS
<1>16. PICK q2 : q2 = q1 \o e
  OBVIOUS
<1>17. PICK p : p = q2 \o b
  OBVIOUS
<1>18. PICK k \in Nat : k = 3 * n
  OBVIOUS
<1>19. Len(f) = k
  BY <1>8, <1>18 DEF HeadersAt
<1>20. q1 \in Seq(S) /\ Len(q1) = 3 + k
  <2>1. Len(a \o f) = Len(a) + Len(f) /\ a \o f \in Seq(S)
    BY <1>6, <1>8, ConcatProperties
  <2>2. QED
    BY <1>6, <1>15, <1>19, <2>1, Zenon
<1>21. q2 \in Seq(S) /\ Len(q2) = 3 + k + 2
  <2>1. Len(q1 \o e) = Len(q1) + Len(e) /\ q1 \o e \in Seq(S)
    BY <1>10, <1>20, ConcatProperties
  <2>2. QED
    BY <1>10, <1>16, <1>20, <2>1, Zenon
<1>22. p \in Seq(S) /\ Len(p) = (3 + k + 2) + m
  <2>1. Len(q2 \o b) = Len(q2) + Len(b) /\ q2 \o b \in Seq(S)
    BY <1>12, <1>21, ConcatProperties
  <2>2. QED
    BY <1>12, <1>17, <1>21, <2>1, Zenon
<1>23. Begins(p, q2 \o b)
  <2>1. Len(p) <= Len(p)
    BY <1>22, LenProperties
  <2>2. Begins(p, p)
    BY <2>1, Zenon DEF Begins
  <2>3. QED
    BY <1>17, <2>2, Zenon
<1>24. Begins(p, q1 \o e)
  BY <1>12, <1>16, <1>21, <1>22, <1>23, BeginsWithPart, Zenon
<1>25. Begins(p, a \o f) /\ \A i \in 1..Len(e) : p[Len(q1) + i] = e[i]
  BY <1>10, <1>15, <1>20, <1>22, <1>24, BeginsWithPart, Zenon
<1>26. Begins(p, a) /\ \A i \in 1..Len(f) : p[Len(a) + i] = f[i]
  BY <1>6, <1>8, <1>22, <1>25, BeginsWithPart, Zenon
<1>27. p[1] = r.line /\ p[2] = Http!CR /\ p[3] = Http!LF
  BY <1>6, <1>26 DEF Begins
<1>28. \A i \in 1..n : /\ p[3 * i + 1] = hs[i] /\ p[3 * i + 2] = Http!CR
                       /\ p[3 * i + 3] = Http!LF
  <2> SUFFICES ASSUME NEW i \in 1..n
               PROVE  /\ p[3 * i + 1] = hs[i] /\ p[3 * i + 2] = Http!CR
                      /\ p[3 * i + 3] = Http!LF
    OBVIOUS
  <2>1. f[(3 * i) - 2] = hs[i] /\ f[(3 * i) - 1] = Http!CR /\ f[3 * i] = Http!LF
    BY <1>8 DEF HeadersAt
  <2>2. /\ (3 * i) - 2 \in 1..k /\ (3 * i) - 1 \in 1..k /\ 3 * i \in 1..k
        /\ 3 + ((3 * i) - 2) = 3 * i + 1 /\ 3 + ((3 * i) - 1) = 3 * i + 2
        /\ 3 + 3 * i = 3 * i + 3
    BY <1>18
  <2>3. \A j \in 1..k : p[3 + j] = f[j]
    BY <1>6, <1>19, <1>26, Zenon
  <2>4. QED
    BY <2>1, <2>2, <2>3
<1>29. p[k + 4] = Http!CR /\ p[k + 5] = Http!LF
  <2>1. p[(3 + k) + 1] = e[1] /\ p[(3 + k) + 2] = e[2]
    <3>1. \A i \in 1..2 : p[(3 + k) + i] = e[i]
      BY <1>10, <1>20, <1>25, Zenon
    <3>2. QED
      BY <3>1
  <2>2. (3 + k) + 1 = k + 4 /\ (3 + k) + 2 = k + 5
    OBVIOUS
  <2>3. QED
    BY <1>10, <2>1, <2>2, Zenon
<1>30. Len(p) = 3 * n + 5 + m /\ Len(p) >= 3 * n + 5
  BY <1>18, <1>22
<1>31. Shape(p, r.line, hs, n)
  BY <1>18, <1>27, <1>28, <1>29, <1>30, Zenon DEF Shape
<1>32. Http!BytesOf(r) = p
  BY <1>14, <1>15, <1>16, <1>17, Zenon
<1>33. QED
  BY <1>1, <1>2, <1>3, <1>22, <1>30, <1>31, <1>32, Zenon

-----------------------------------------------------------------------------
(* HTTP: what find finds.                                                  *)

\* The places where s occurs in q.
Places(q, s) ==
  {i \in 1..(Len(q) - Len(s) + 1) : SubSeq(q, i, i + Len(s) - 1) = s}

\* Find is the first of them, or 0.
LEMMA FindIs ==
  ASSUME NEW S, NEW q \in Seq(S), NEW s \in Seq(S)
  PROVE  /\ Places(q, s) = {} => Http!Find(q, s) = 0
         /\ \A i \in Places(q, s) :
              (\A j \in Places(q, s) : i <= j) => Http!Find(q, s) = i
         /\ Places(q, s) # {} => Http!Find(q, s) \in Places(q, s)
         /\ Http!Find(q, s) \in Nat
<1>1. PICK T : T = Places(q, s)
  OBVIOUS
<1>2. Http!Find(q, s) = IF T = {} THEN 0 ELSE CHOOSE i \in T : \A j \in T : i <= j
  BY <1>1 DEF Http!Find, Places
<1>3. Len(q) \in Nat /\ Len(s) \in Nat
  BY LenProperties
<1>4. T \in SUBSET Nat
  BY <1>1, <1>3 DEF Places
<1>5. ASSUME NEW i \in T, \A j \in T : i <= j
      PROVE  Http!Find(q, s) = i
  <2>1. PICK k \in T : k = CHOOSE i_1 \in T : \A j \in T : i_1 <= j
    BY <1>5, Zenon
  <2>2. \A j \in T : k <= j
    BY <1>5, <2>1, Zenon
  <2>3. k <= i /\ i <= k /\ k \in Nat /\ i \in Nat
    BY <1>4, <1>5, <2>2
  <2>4. k = i
    BY <2>3
  <2>5. QED
    BY <1>2, <1>5, <2>1, <2>4, Zenon
<1>6. ASSUME T # {} PROVE Http!Find(q, s) \in T
  <2>1. PICK i \in T : \A j \in T : i <= j
    BY <1>4, <1>6, LeastNat
  <2>2. QED
    BY <1>5, <2>1, Zenon
<1>7. T = {} => Http!Find(q, s) = 0
  BY <1>2, Zenon
<1>8. Http!Find(q, s) \in Nat
  <2>1. CASE T = {}
    BY <1>7, <2>1
  <2>2. CASE T # {}
    <3>1. Http!Find(q, s) \in T
      BY <1>6, <2>2, Zenon
    <3>2. QED
      BY <1>4, <3>1
  <2>3. QED
    BY <2>1, <2>2
<1>9. QED
  BY <1>1, <1>5, <1>6, <1>7, <1>8, Zenon

\* Where the end of a line is.
LEMMA LineEndPlaces ==
  ASSUME NEW q \in Seq(Http!Tokens), NEW n \in Nat, n = Len(q)
  PROVE  /\ Http!CRLF \in Seq(Http!Tokens)
         /\ Places(q, Http!CRLF) = {i \in 1..(n - 1) : q[i] = Http!CR /\ q[i + 1] = Http!LF}
<1>1. PICK S : S = Http!Tokens
  OBVIOUS
<1>2. PICK c \in S : c = Http!CR
  BY <1>1, TokenFacts
<1>3. PICK l \in S : l = Http!LF
  BY <1>1, TokenFacts
<1>4. <<c, l>> \in Seq(S) /\ Len(<<c, l>>) = 2 /\ <<c, l>>[1] = c /\ <<c, l>>[2] = l
  OBVIOUS
<1>5. PICK s \in Seq(S) : s = <<c, l>>
  BY <1>4, Zenon
<1>6. s = Http!CRLF
  BY <1>2, <1>3, <1>5, Zenon DEF Http!CRLF
<1>7. Len(s) = 2 /\ s[1] = c /\ s[2] = l
  BY <1>4, <1>5, Zenon
<1>8. ASSUME NEW i \in 1..(n - 1)
      PROVE  SubSeq(q, i, i + 2 - 1) = s <=> (q[i] = c /\ q[i + 1] = l)
  <2>1. i \in Nat \ {0} /\ i + 1 \in Nat /\ i <= i + 1 + 1 /\ i + 1 <= n /\ i + 2 - 1 = i + 1
        /\ (i + 1) - i + 1 = 2 /\ i + 1 - 1 = i /\ i + 2 - 1 = i + 1 /\ 1 \in 1..2 /\ 2 \in 1..2
    BY <1>8
  <2>2. PICK t : t = SubSeq(q, i, i + 1)
    OBVIOUS
  <2>3. /\ t \in Seq(S) /\ Len(t) = (i + 1) - i + 1
        /\ \A k \in 1..((i + 1) - i + 1) : t[k] = q[i + k - 1]
    BY <1>1, <2>1, <2>2, PartOf
  <2>4. Len(t) = 2 /\ t[1] = q[i] /\ t[2] = q[i + 1]
    BY <2>1, <2>3
  <2>5. t = s <=> t[1] = c /\ t[2] = l
    BY <1>7, <2>3, <2>4
  <2>6. QED
    BY <2>1, <2>2, <2>4, <2>5, Zenon
<1>9. n - 2 + 1 = n - 1
  OBVIOUS
<1>10. Places(q, s) = {i \in 1..(n - 1) : SubSeq(q, i, i + 2 - 1) = s}
  BY <1>7, <1>9, Zenon DEF Places
<1>11. Places(q, s) = {i \in 1..(n - 1) : q[i] = c /\ q[i + 1] = l}
  BY <1>8, <1>10, Zenon
<1>12. QED
  BY <1>1, <1>2, <1>3, <1>6, <1>11, Zenon

\* Where the end of the headers is.
LEMMA HeadersEndPlaces ==
  ASSUME NEW q \in Seq(Http!Tokens), NEW n \in Nat, n = Len(q)
  PROVE  /\ Http!CRLF_DOUBLE \in Seq(Http!Tokens)
         /\ Places(q, Http!CRLF_DOUBLE) =
              {i \in 1..(n - 3) : /\ q[i] = Http!CR /\ q[i + 1] = Http!LF
                                  /\ q[i + 2] = Http!CR /\ q[i + 3] = Http!LF}
<1>1. PICK S : S = Http!Tokens
  OBVIOUS
<1>2. PICK c \in S : c = Http!CR
  BY <1>1, TokenFacts
<1>3. PICK l \in S : l = Http!LF
  BY <1>1, TokenFacts
<1>4. /\ <<c, l>> \o <<c, l>> \in Seq(S) /\ Len(<<c, l>> \o <<c, l>>) = 4
      /\ (<<c, l>> \o <<c, l>>)[1] = c /\ (<<c, l>> \o <<c, l>>)[2] = l
      /\ (<<c, l>> \o <<c, l>>)[3] = c /\ (<<c, l>> \o <<c, l>>)[4] = l
  OBVIOUS
<1>5. PICK s \in Seq(S) : s = <<c, l>> \o <<c, l>>
  BY <1>4, Zenon
<1>6. s = Http!CRLF_DOUBLE
  BY <1>2, <1>3, <1>5, Zenon DEF Http!CRLF_DOUBLE, Http!CRLF
<1>7. Len(s) = 4 /\ s[1] = c /\ s[2] = l /\ s[3] = c /\ s[4] = l
  BY <1>4, <1>5, Zenon
<1>8. ASSUME NEW i \in 1..(n - 3)
      PROVE  SubSeq(q, i, i + 4 - 1) = s
               <=> (q[i] = c /\ q[i + 1] = l /\ q[i + 2] = c /\ q[i + 3] = l)
  <2>1. /\ i \in Nat \ {0} /\ i + 3 \in Nat /\ i <= i + 3 + 1 /\ i + 3 <= n /\ i + 4 - 1 = i + 3
        /\ (i + 3) - i + 1 = 4 /\ i + 1 - 1 = i /\ i + 2 - 1 = i + 1 /\ i + 3 - 1 = i + 2
        /\ 1 \in 1..4 /\ 2 \in 1..4 /\ 3 \in 1..4 /\ 4 \in 1..4
    BY <1>8
  <2>2. PICK t : t = SubSeq(q, i, i + 3)
    OBVIOUS
  <2>3. /\ t \in Seq(S) /\ Len(t) = (i + 3) - i + 1
        /\ \A k \in 1..((i + 3) - i + 1) : t[k] = q[i + k - 1]
    BY <1>1, <2>1, <2>2, PartOf
  <2>4. Len(t) = 4 /\ t[1] = q[i] /\ t[2] = q[i + 1] /\ t[3] = q[i + 2] /\ t[4] = q[i + 3]
    BY <2>1, <2>3
  <2>5. t = s <=> t[1] = c /\ t[2] = l /\ t[3] = c /\ t[4] = l
    BY <1>7, <2>3, <2>4
  <2>6. QED
    BY <2>1, <2>2, <2>4, <2>5, Zenon
<1>9. n - 4 + 1 = n - 3
  OBVIOUS
<1>10. Places(q, s) = {i \in 1..(n - 3) : SubSeq(q, i, i + 4 - 1) = s}
  BY <1>7, <1>9, Zenon DEF Places
<1>11. Places(q, s) = {i \in 1..(n - 3) : /\ q[i] = c /\ q[i + 1] = l
                                         /\ q[i + 2] = c /\ q[i + 3] = l}
  BY <1>8, <1>10, Zenon
<1>12. QED
  BY <1>1, <1>2, <1>3, <1>6, <1>11, Zenon

\* The indexes of the headers that announce a length.
Announcing(block) ==
  {i \in DOMAIN block : block[i].kind = "header" /\ block[i].length > 0}

\* The greatest of a set of indexes.
LEMMA GreatestIndex ==
  ASSUME NEW n \in Nat, NEW T \in SUBSET (1..n), T # {}
  PROVE  \E i \in T : \A j \in T : j <= i
<1> DEFINE U == {k \in Nat : \E i \in T : i = n - k}
<1>1. U \in SUBSET Nat
  OBVIOUS
<1>2. \A i \in T : i \in 1..n /\ n - i \in Nat /\ i = n - (n - i)
  OBVIOUS
<1>3. \A i \in T : n - i \in U
  BY <1>2
<1>4. U # {}
  BY <1>3
<1>5. PICK k \in U : \A m \in U : k <= m
  <2> HIDE DEF U
  <2>1. QED
    BY <1>1, <1>4, LeastNat
<1>6. PICK i \in T : i = n - k
  BY <1>5
<1>7. \A j \in T : k <= n - j
  BY <1>3, <1>5
<1>8. k \in Nat
  BY <1>5
<1>9. \A j \in T : j <= i
  BY <1>2, <1>6, <1>7, <1>8
<1>10. QED
  BY <1>6, <1>9

\* ContentLength is the length in the last of them, or 0.
LEMMA ContentLengthIs ==
  ASSUME NEW q \in Seq(Http!Tokens)
  PROVE  /\ Announcing(q) = {} => Http!ContentLength[q] = 0
         /\ \A i \in Announcing(q) :
              (\A j \in Announcing(q) : j <= i) => Http!ContentLength[q] = q[i].length
         /\ Http!ContentLength[q] \in Nat
<1>1. PICK T : T = Announcing(q)
  OBVIOUS
<1>2. Http!ContentLength[q] = IF T = {} THEN 0 ELSE q[Http!Max(T)].length
  BY <1>1, Zenon DEF Http!ContentLength, Announcing
<1>3. PICK n \in Nat : n = Len(q)
  BY LenProperties
<1>4. T \in SUBSET (1..n)
  BY <1>1, <1>3, LenProperties DEF Announcing
<1>5. ASSUME NEW i \in T, \A j \in T : j <= i
      PROVE  Http!Max(T) = i
  <2>1. Http!Max(T) = CHOOSE x \in T : \A y \in T : x >= y
    BY DEF Http!Max
  <2>2. \A j \in T : i >= j
    BY <1>4, <1>5
  <2>3. PICK k \in T : k = Http!Max(T) /\ \A j \in T : k >= j
    BY <1>5, <2>1, <2>2, Zenon
  <2>4. k >= i /\ i >= k /\ k \in 1..n /\ i \in 1..n
    BY <1>4, <1>5, <2>2, <2>3, Zenon
  <2>5. QED
    BY <2>3, <2>4
<1>6. ASSUME T # {} PROVE Http!ContentLength[q] \in Nat
  <2>1. PICK i \in T : \A j \in T : j <= i
    BY <1>3, <1>4, <1>6, GreatestIndex
  <2>2. Http!ContentLength[q] = q[i].length
    BY <1>2, <1>5, <1>6, <2>1, Zenon
  <2>3. i \in 1..n /\ q[i] \in Http!Tokens
    BY <1>3, <1>4, <2>1, LenProperties, ElementOfSeq
  <2>4. q[i].kind = "header"
    BY <1>1, <2>1 DEF Announcing
  <2>5. q[i] \in Http!Headers
    BY <2>3, <2>4, TokenFacts DEF Http!Tokens, Http!Byte
  <2>6. QED
    BY <2>2, <2>5, TokenFacts
<1>7. T = {} => Http!ContentLength[q] = 0
  BY <1>2, Zenon
<1>8. \A i \in T : (\A j \in T : j <= i) => Http!ContentLength[q] = q[i].length
  BY <1>2, <1>5, Zenon
<1>9. QED
  BY <1>1, <1>6, <1>7, <1>8, 0 \in Nat, Zenon

\* A sequence over a set is one over a larger set.
LEMMA SeqWider ==
  ASSUME NEW S, NEW T, S \subseteq T, NEW q \in Seq(S)
  PROVE  q \in Seq(T)
<1>1. \A i \in 1..Len(q) : q[i] \in T
  BY ElementOfSeq
<1>2. PICK n \in Nat : n = Len(q) /\ DOMAIN q = 1..n
  BY LenProperties
<1>3. q = [i \in 1..n |-> q[i]]
  BY <1>2
<1>4. [i \in 1..n |-> q[i]] \in Seq(T)
  BY <1>1, <1>2
<1>5. QED
  BY <1>3, <1>4, Zenon

\* block has n header lines, with an end between each two.
BlockOf(block, hs, n) ==
  /\ Len(block) = 3 * n - 2
  /\ \A i \in 1..n : block[3 * i - 2] = hs[i]
  /\ \A j \in 1..(3 * n - 2) :
       (\E i \in 1..n : j = 3 * i - 2) \/ block[j].kind # "header"

\* The length that lines between line ends announce is that of the lines.
LEMMA BlockLength ==
  ASSUME NEW hs \in Seq(Http!Headers), NEW n \in Nat, n = Len(hs),
         NEW block \in Seq(Http!Tokens), BlockOf(block, hs, n)
  PROVE  Http!ContentLength[block] = Http!ContentLength[hs]
<1>9. /\ Len(block) = 3 * n - 2
      /\ \A i \in 1..n : block[3 * i - 2] = hs[i]
      /\ \A j \in 1..(3 * n - 2) :
           (\E i \in 1..n : j = 3 * i - 2) \/ block[j].kind # "header"
  BY DEF BlockOf
<1>1. hs \in Seq(Http!Tokens)
  <2>1. PICK S, T : S = Http!Headers /\ T = Http!Tokens
    OBVIOUS
  <2>2. S \subseteq T /\ hs \in Seq(S)
    BY <2>1, TokenFacts
  <2>3. hs \in Seq(T)
    BY <2>2, SeqWider
  <2>4. QED
    BY <2>1, <2>3, Zenon
<1>2. DOMAIN hs = 1..n /\ DOMAIN block = 1..(3 * n - 2)
  BY <1>9, LenProperties
<1>3. \A i \in 1..n : 3 * i - 2 \in 1..(3 * n - 2)
  OBVIOUS
<1>4. ASSUME NEW i \in Announcing(hs)
      PROVE  i \in 1..n /\ 3 * i - 2 \in Announcing(block)
  <2>1. i \in 1..n /\ hs[i].kind = "header" /\ hs[i].length > 0
    BY <1>2 DEF Announcing
  <2>2. 3 * i - 2 \in DOMAIN block /\ block[3 * i - 2] = hs[i]
    BY <1>2, <1>3, <1>9, <2>1
  <2>3. QED
    BY <2>1, <2>2, Zenon DEF Announcing
<1>5. ASSUME NEW j \in Announcing(block)
      PROVE  \E i \in Announcing(hs) : j = 3 * i - 2
  <2>1. j \in 1..(3 * n - 2) /\ block[j].kind = "header" /\ block[j].length > 0
    BY <1>2 DEF Announcing
  <2>2. PICK i \in 1..n : j = 3 * i - 2
    BY <1>9, <2>1
  <2>3. block[j] = hs[i]
    BY <1>9, <2>2
  <2>4. i \in Announcing(hs)
    BY <1>2, <2>1, <2>3, Zenon DEF Announcing
  <2>5. QED
    BY <2>2, <2>4
<1>6. CASE Announcing(hs) = {}
  <2>1. Announcing(block) = {}
    BY <1>5, <1>6, Zenon
  <2>2. QED
    BY <1>1, <1>6, <2>1, ContentLengthIs, Zenon
<1>7. CASE Announcing(hs) # {}
  <2>1. Announcing(hs) \in SUBSET (1..n)
    BY <1>4
  <2>2. PICK i \in Announcing(hs) : \A j \in Announcing(hs) : j <= i
    BY <1>7, <2>1, GreatestIndex
  <2>3. Http!ContentLength[hs] = hs[i].length
    BY <1>1, <2>2, ContentLengthIs, Zenon
  <2>4. \A j \in Announcing(block) : j <= 3 * i - 2
    <3> SUFFICES ASSUME NEW j \in Announcing(block) PROVE j <= 3 * i - 2
      OBVIOUS
    <3>1. PICK k \in Announcing(hs) : j = 3 * k - 2
      BY <1>5
    <3>2. k <= i /\ k \in 1..n /\ i \in 1..n
      BY <2>1, <2>2, Zenon
    <3>3. QED
      BY <3>1, <3>2
  <2>5. 3 * i - 2 \in Announcing(block) /\ i \in 1..n
    BY <1>4
  <2>6. Http!ContentLength[block] = block[3 * i - 2].length
    BY <2>4, <2>5, ContentLengthIs, Zenon
  <2>7. block[3 * i - 2] = hs[i]
    BY <1>9, <2>5
  <2>8. QED
    BY <2>3, <2>6, <2>7, Zenon
<1>8. QED
  BY <1>6, <1>7, Zenon

-----------------------------------------------------------------------------
(* HTTP: decode.                                                           *)

\* q agrees with p as far as both go.
Agrees(q, p) == \A i \in 1..Len(p) : i <= Len(q) => q[i] = p[i]

\* Where the end of a request line is found, however much of the request is there.
LEMMA LineFound ==
  ASSUME NEW line \in Http!Lines, NEW hs, NEW n \in Nat, NEW p \in Seq(Http!Tokens),
         Shape(p, line, hs, n), NEW q \in Seq(Http!Tokens), Agrees(q, p)
  PROVE  /\ Len(q) >= 3 => Http!Find(q, Http!CRLF) = 2
         /\ Len(q) < 3 => Http!Find(q, Http!CRLF) = 0
<1>1. PICK m \in Nat : m = Len(q)
  BY LenProperties
<1>2. PICK k \in Nat : k = Len(p)
  BY LenProperties
<1>3. k >= 5
  BY <1>2 DEF Shape
<1>4. \A i \in 1..k : i <= m => q[i] = p[i]
  BY <1>1, <1>2 DEF Agrees
<1>5. p[1] = line /\ p[2] = Http!CR /\ p[3] = Http!LF
  BY DEF Shape
<1>6. line # Http!CR /\ Http!CR # Http!LF
  BY TokenFacts
<1>7. PICK T : T = Places(q, Http!CRLF)
  OBVIOUS
<1>8. T = {i \in 1..(m - 1) : q[i] = Http!CR /\ q[i + 1] = Http!LF}
  BY <1>1, <1>7, LineEndPlaces, Zenon
<1>9. Http!CRLF \in Seq(Http!Tokens)
  BY <1>1, LineEndPlaces
<1>10. \A i \in T : i >= 2 /\ i <= m - 1
  <2>1. \A i \in T : i \in 1..(m - 1) /\ q[i] = Http!CR
    BY <1>8, Zenon
  <2>2. m >= 1 => q[1] = line
    BY <1>3, <1>4, <1>5
  <2>3. QED
    BY <1>6, <2>1, <2>2
<1>11. CASE m >= 3
  <2>1. 2 \in 1..(m - 1) /\ 2 + 1 = 3
    BY <1>11
  <2>2. q[2] = Http!CR /\ q[3] = Http!LF
    BY <1>3, <1>4, <1>5, <1>11
  <2>3. 2 \in T
    BY <1>8, <2>1, <2>2, Zenon
  <2>4. \A j \in T : 2 <= j
    BY <1>8, <1>10
  <2>5. Http!Find(q, Http!CRLF) = 2
    BY <1>7, <1>9, <2>3, <2>4, FindIs, Zenon
  <2>6. QED
    BY <1>1, <1>11, <2>5
<1>12. CASE m < 3
  <2>1. T = {}
    BY <1>8, <1>10, <1>12
  <2>2. Http!Find(q, Http!CRLF) = 0
    BY <1>7, <1>9, <2>1, FindIs, Zenon
  <2>3. QED
    BY <1>1, <1>12, <2>2
<1>13. QED
  BY <1>11, <1>12

\* No line among the headers is empty.
LEMMA NoEmptyLine ==
  ASSUME NEW line, NEW hs \in Seq(Http!Headers), NEW n \in Nat, n = Len(hs),
         NEW p, Shape(p, line, hs, n), NEW k \in 4..(3 * n + 1)
  PROVE  p[k] # Http!CR \/ p[k + 2] # Http!CR
<1>1. PICK i \in 1..n : k = 3 * i + 1 \/ (k = 3 * i + 2 /\ i + 1 \in 1..n) \/ k = 3 * i + 3
  <2>1. (k - 1) \div 3 \in 1..n /\ k - 1 = 3 * ((k - 1) \div 3) + ((k - 1) % 3)
        /\ (k - 1) % 3 \in 0..2
    OBVIOUS
  <2>2. PICK i \in 1..n : k - 1 = 3 * i \/ k - 1 = 3 * i + 1 \/ k - 1 = 3 * i + 2
    BY <2>1
  <2>3. QED
    BY <2>2
<1>2. \A j \in 1..n : /\ p[3 * j + 1] = hs[j]
                     /\ p[3 * j + 2] = Http!CR
                     /\ p[3 * j + 3] = Http!LF
  BY DEF Shape
<1>3. \A j \in 1..n : hs[j] # Http!CR
  BY TokenFacts, ElementOfSeq
<1>4. CASE k = 3 * i + 1
  BY <1>2, <1>3, <1>4
<1>5. CASE k = 3 * i + 2 /\ i + 1 \in 1..n
  <2>1. k + 2 = 3 * (i + 1) + 1
    BY <1>5
  <2>2. p[k + 2] = hs[i + 1]
    BY <1>2, <1>5, <2>1
  <2>3. QED
    BY <1>3, <1>5, <2>2
<1>6. CASE k = 3 * i + 3
  BY <1>2, <1>6, TokenFacts
<1>7. QED
  BY <1>1, <1>4, <1>5, <1>6

\* What is behind the request line of q, which has m tokens: n headers, if it is all there.
Behind(rest, q, m, n) ==
  /\ rest \in Seq(Http!Tokens) /\ Len(rest) = m - 3
  /\ \A i \in 1..(m - 3) : rest[i] = q[i + 3]
  /\ m >= 3 * n + 5 => Http!Find(rest, Http!CRLF_DOUBLE) = 3 * n - 1
  /\ m < 3 * n + 5 => Http!Find(rest, Http!CRLF_DOUBLE) = 0

\* Behind a request line, the end of its headers is found when it is there.
LEMMA HeadersFound ==
  ASSUME NEW line, NEW hs \in Seq(Http!Headers), NEW n \in Nat \ {0}, n = Len(hs),
         NEW p \in Seq(Http!Tokens), Shape(p, line, hs, n),
         NEW q \in Seq(Http!Tokens), Agrees(q, p), NEW m \in Nat, m = Len(q), m >= 4,
         NEW rest, rest = SubSeq(q, 4, m)
  PROVE  Behind(rest, q, m, n)
<1>1. PICK S : S = Http!Tokens
  OBVIOUS
<1>2. PICK w \in Nat : w = m - 3
  OBVIOUS
<1>3. rest \in Seq(S) /\ Len(rest) = w /\ \A i \in 1..w : rest[i] = q[i + 3]
  <2>1. /\ 4 \in Nat \ {0} /\ 4 <= m + 1 /\ m <= Len(q) /\ m - 4 + 1 = w
        /\ \A i \in 1..w : 4 + i - 1 = i + 3
    BY <1>2
  <2>2. /\ rest \in Seq(S) /\ Len(rest) = m - 4 + 1
        /\ \A i \in 1..(m - 4 + 1) : rest[i] = q[4 + i - 1]
    BY <1>1, <2>1, PartOf
  <2>3. \A i \in 1..w : rest[i] = q[4 + i - 1]
    BY <2>1, <2>2, Zenon
  <2>4. QED
    BY <2>1, <2>2, <2>3, Zenon
<1>4. PICK k \in Nat : k = Len(p)
  BY LenProperties
<1>5. k >= 3 * n + 5
  BY <1>4 DEF Shape
<1>6. \A i \in 1..k : i <= m => q[i] = p[i]
  BY <1>4 DEF Agrees
<1>7. PICK T : T = Places(rest, Http!CRLF_DOUBLE)
  OBVIOUS
<1>15. rest \in Seq(Http!Tokens) /\ w = Len(rest)
  BY <1>1, <1>3, Zenon
<1>8. /\ T = {i \in 1..(w - 3) : /\ rest[i] = Http!CR /\ rest[i + 1] = Http!LF
                                 /\ rest[i + 2] = Http!CR /\ rest[i + 3] = Http!LF}
      /\ Http!CRLF_DOUBLE \in Seq(Http!Tokens)
  BY <1>7, <1>15, HeadersEndPlaces, Zenon
<1>9. ASSUME NEW i \in T PROVE i >= 3 * n - 1 /\ i + 6 <= m /\ i \in Nat
  <2>1. i \in 1..(w - 3) /\ rest[i] = Http!CR /\ rest[i + 2] = Http!CR
    BY <1>8, Zenon
  <2>2. /\ i \in 1..w /\ i + 2 \in 1..w /\ (i + 2) + 3 = (i + 3) + 2 /\ i + 6 <= m
        /\ i \in Nat /\ i >= 1
    BY <1>2, <2>1
  <2>3. q[i + 3] = Http!CR /\ q[(i + 3) + 2] = Http!CR
    BY <1>3, <2>1, <2>2
  <2>4. SUFFICES ASSUME i < 3 * n - 1 PROVE FALSE
    BY <2>2
  <2>5. /\ i + 3 \in 4..(3 * n + 1) /\ i + 3 \in 1..k /\ i + 3 <= m
        /\ (i + 3) + 2 \in 1..k /\ (i + 3) + 2 <= m
    BY <1>5, <2>2, <2>4
  <2>6. p[i + 3] = Http!CR /\ p[(i + 3) + 2] = Http!CR
    BY <1>6, <2>3, <2>5
  <2>7. QED
    BY <2>5, <2>6, NoEmptyLine
<1>10. ASSUME m >= 3 * n + 5 PROVE Http!Find(rest, Http!CRLF_DOUBLE) = 3 * n - 1
  <2>12. 3 * n - 1 \in Nat
    OBVIOUS
  <2>1. PICK j \in Nat : j = 3 * n - 1
    BY <2>12, Zenon
  <2>2. /\ j \in 1..(w - 3) /\ j \in 1..w /\ j + 1 \in 1..w /\ j + 2 \in 1..w /\ j + 3 \in 1..w
        /\ j + 3 = 3 * n + 2 /\ (j + 1) + 3 = 3 * n + 3 /\ (j + 2) + 3 = 3 * n + 4
        /\ (j + 3) + 3 = 3 * n + 5
    BY <1>2, <1>10, <2>1
  <2>3. /\ 3 * n + 2 \in 1..k /\ 3 * n + 3 \in 1..k /\ 3 * n + 4 \in 1..k /\ 3 * n + 5 \in 1..k
        /\ 3 * n + 2 <= m /\ 3 * n + 3 <= m /\ 3 * n + 4 <= m /\ 3 * n + 5 <= m
    BY <1>5, <1>10
  <2>4. /\ p[3 * n + 2] = Http!CR /\ p[3 * n + 3] = Http!LF
        /\ p[3 * n + 4] = Http!CR /\ p[3 * n + 5] = Http!LF
    <3>1. n \in 1..n
      OBVIOUS
    <3>2. QED
      BY <3>1 DEF Shape
  <2>5. /\ q[3 * n + 2] = Http!CR /\ q[3 * n + 3] = Http!LF
        /\ q[3 * n + 4] = Http!CR /\ q[3 * n + 5] = Http!LF
    BY <1>6, <2>3, <2>4
  <2>6. /\ rest[j] = q[j + 3] /\ rest[j + 1] = q[(j + 1) + 3]
        /\ rest[j + 2] = q[(j + 2) + 3] /\ rest[j + 3] = q[(j + 3) + 3]
    BY <1>3, <2>2
  <2>7. /\ rest[j] = Http!CR /\ rest[j + 1] = Http!LF
        /\ rest[j + 2] = Http!CR /\ rest[j + 3] = Http!LF
    BY <2>2, <2>5, <2>6, Zenon
  <2>8. j \in T
    BY <1>8, <2>2, <2>7, Zenon
  <2>9. \A i \in T : j <= i
    BY <1>9, <2>1
  <2>10. Http!Find(rest, Http!CRLF_DOUBLE) = j
    <3>1. PICK g \in Seq(Http!Tokens) : g = rest
      BY <1>15, Zenon
    <3>2. PICK s \in Seq(Http!Tokens) : s = Http!CRLF_DOUBLE
      BY <1>8, Zenon
    <3>3. j \in Places(g, s) /\ \A i \in Places(g, s) : j <= i
      BY <1>7, <2>8, <2>9, <3>1, <3>2, Zenon
    <3>4. Http!Find(g, s) = j
      BY <3>3, FindIs
    <3>5. QED
      BY <3>1, <3>2, <3>4, Zenon
  <2>11. QED
    BY <2>1, <2>10
<1>11. ASSUME m < 3 * n + 5 PROVE Http!Find(rest, Http!CRLF_DOUBLE) = 0
  <2>1. T = {}
    BY <1>9, <1>11
  <2>2. Http!Find(rest, Http!CRLF_DOUBLE) = 0
    BY <1>7, <1>8, <1>15, <2>1, FindIs, Zenon
  <2>3. QED
    BY <2>2
<1>12. PICK F : F = Http!Find(rest, Http!CRLF_DOUBLE)
  OBVIOUS
<1>13. /\ m >= 3 * n + 5 => F = 3 * n - 1
       /\ m < 3 * n + 5 => F = 0
  BY <1>10, <1>11, <1>12
<1>14. QED
  BY <1>1, <1>2, <1>3, <1>12, <1>13, Zenon DEF Behind

\* The header block of a request announces the length its headers announce.
LEMMA BlockOfRequest ==
  ASSUME NEW line, NEW hs \in Seq(Http!Headers), NEW n \in Nat \ {0}, n = Len(hs),
         NEW p \in Seq(Http!Tokens), Shape(p, line, hs, n),
         NEW q \in Seq(Http!Tokens), Agrees(q, p), NEW m \in Nat, m = Len(q),
         m >= 3 * n + 5, NEW rest, Behind(rest, q, m, n)
  PROVE  Http!ContentLength[SubSeq(rest, 1, (3 * n - 1) - 1)] = Http!ContentLength[hs]
<1>18. /\ rest \in Seq(Http!Tokens) /\ Len(rest) = m - 3
       /\ \A i \in 1..(m - 3) : rest[i] = q[i + 3]
  BY DEF Behind
<1>1. PICK S : S = Http!Tokens
  OBVIOUS
<1>2. PICK b : b = SubSeq(rest, 1, (3 * n - 1) - 1)
  OBVIOUS
<1>16. 3 * n - 2 \in Nat
  OBVIOUS
<1>3. PICK j \in Nat : j = 3 * n - 2
  BY <1>16, Zenon
<1>4. j = (3 * n - 1) - 1 /\ j <= Len(rest) /\ j >= 1 /\ j - 1 + 1 = j /\ 1 <= j + 1
  BY <1>3, <1>18
<1>5. b \in Seq(S) /\ Len(b) = j /\ \A i \in 1..j : b[i] = rest[i]
  <2>1. /\ SubSeq(rest, 1, j) \in Seq(S) /\ Len(SubSeq(rest, 1, j)) = j - 1 + 1
        /\ \A i \in 1..(j - 1 + 1) : SubSeq(rest, 1, j)[i] = rest[1 + i - 1]
    BY <1>1, <1>4, <1>18, PartOf
  <2>2. \A i \in 1..j : 1 + i - 1 = i
    OBVIOUS
  <2>3. b = SubSeq(rest, 1, j)
    BY <1>2, <1>4
  <2>4. QED
    BY <1>4, <2>1, <2>2, <2>3
<1>6. PICK k \in Nat : k = Len(p)
  BY LenProperties
<1>7. k >= 3 * n + 5
  BY <1>6 DEF Shape
<1>8. \A i \in 1..j : b[i] = p[i + 3]
  <2>1. \A i \in 1..k : i <= m => q[i] = p[i]
    BY <1>6 DEF Agrees
  <2>2. \A i \in 1..j : i + 3 \in 1..k /\ i + 3 <= m /\ i \in 1..(m - 3)
    BY <1>3, <1>7
  <2>3. QED
    BY <1>5, <1>18, <2>1, <2>2
<1>9. \A i \in 1..n : /\ p[3 * i + 1] = hs[i] /\ p[3 * i + 2] = Http!CR
                     /\ p[3 * i + 3] = Http!LF
  BY DEF Shape
<1>10. \A i \in 1..n : b[3 * i - 2] = hs[i]
  <2>1. \A i \in 1..n : 3 * i - 2 \in 1..j /\ (3 * i - 2) + 3 = 3 * i + 1
    BY <1>3
  <2>2. QED
    BY <1>8, <1>9, <2>1
<1>11. \A i \in 1..j : (\E e \in 1..n : i = 3 * e - 2) \/ b[i].kind # "header"
  <2> SUFFICES ASSUME NEW i \in 1..j, ~(\E e \in 1..n : i = 3 * e - 2)
               PROVE  b[i].kind # "header"
    OBVIOUS
  <2>1. PICK e \in 1..n : i + 3 = 3 * e + 1 \/ i + 3 = 3 * e + 2 \/ i + 3 = 3 * e + 3
    <3>1. (i + 2) \div 3 \in 1..n /\ i + 2 = 3 * ((i + 2) \div 3) + ((i + 2) % 3)
          /\ (i + 2) % 3 \in 0..2
      BY <1>3
    <3>2. PICK e \in 1..n : i + 2 = 3 * e \/ i + 2 = 3 * e + 1 \/ i + 2 = 3 * e + 2
      BY <3>1
    <3>3. QED
      BY <3>2
  <2>2. i + 3 # 3 * e + 1
    <3>1. i # 3 * e - 2
      OBVIOUS
    <3>2. QED
      BY <3>1
  <2>3. b[i] = Http!CR \/ b[i] = Http!LF
    <3>1. b[i] = p[i + 3]
      BY <1>8
    <3>2. p[3 * e + 2] = Http!CR /\ p[3 * e + 3] = Http!LF
      BY <1>9
    <3>3. i + 3 = 3 * e + 2 \/ i + 3 = 3 * e + 3
      BY <2>1, <2>2, Zenon
    <3>4. QED
      BY <3>1, <3>2, <3>3, Zenon
  <2>4. QED
    BY <2>3, TokenFacts
<1>12. Len(b) = 3 * n - 2 /\ b \in Seq(Http!Tokens)
  BY <1>1, <1>3, <1>5
<1>13. \A i \in 1..(3 * n - 2) : (\E e \in 1..n : i = 3 * e - 2) \/ b[i].kind # "header"
  BY <1>3, <1>11
<1>17. BlockOf(b, hs, n)
  BY <1>10, <1>12, <1>13, Zenon DEF BlockOf
<1>14. Http!ContentLength[b] = Http!ContentLength[hs]
  BY <1>12, <1>17, BlockLength
<1>15. QED
  BY <1>2, <1>14, Zenon

\* What decode finds in a request.
RequestOf(r) ==
  [method |-> r.line.method, path |-> Http!PathOf(r.line), body |-> r.body]

\* decode, on so much of a plain request as there is: it takes the whole request and no
\* more, or nothing.
THEOREM DecodeRequest ==
  ASSUME NEW r \in Http!Requests, Http!Plain(r), NEW q \in Seq(Http!Tokens),
         Agrees(q, Http!BytesOf(r))
  PROVE  /\ Len(q) >= Len(Http!BytesOf(r)) =>
              Http!Decode(q) = Http!Result(TRUE, RequestOf(r), Len(Http!BytesOf(r)))
         /\ Len(q) < Len(Http!BytesOf(r)) =>
              Http!Decode(q) \in {Http!Undecoded, Http!NeedMoreData}
         /\ Len(Http!BytesOf(r)) \in Nat \ {0}
<1>1. PICK hs \in Seq(Http!Headers) : hs = r.headers
  BY DEF Http!Requests
<1>2. PICK n \in Nat : n = Len(hs)
  BY LenProperties
<1>3. n # 0
  <2>1. hs # <<>>
    BY <1>1 DEF Http!Plain
  <2>2. QED
    BY <1>2, <2>1, EmptySeq
<1>4. PICK body \in Nat : body = r.body
  BY DEF Http!Requests
<1>5. PICK line \in Http!Lines : line = r.line
  BY DEF Http!Requests
<1>6. Http!LineParses(line) /\ Http!ContentLength[hs] = body /\ (body > 0 => line.method = "POST")
  BY <1>1, <1>4, <1>5, Zenon DEF Http!Plain
<1>7. PICK p \in Seq(Http!Tokens) : p = Http!BytesOf(r)
  BY <1>1, <1>2, RequestShape
<1>8. Len(p) = 3 * n + 5 + body /\ Shape(p, line, hs, n)
  BY <1>1, <1>2, <1>4, <1>5, <1>7, RequestShape
<1>9. PICK m \in Nat : m = Len(q)
  BY LenProperties
<1>16. PICK lp : lp = 3 * n + 5 + body
  OBVIOUS
<1>17. n \in Nat \ {0} /\ lp \in Nat \ {0} /\ lp = Len(p)
  BY <1>3, <1>8, <1>16
<1>18. PICK D, W, U, N : /\ D = Http!Decode(q) /\ W = Http!Result(TRUE, RequestOf(r), lp)
                         /\ U = Http!Undecoded /\ N = Http!NeedMoreData
  OBVIOUS
<1>21. lp \in Nat
  BY <1>17
<1> DEFINE Claim == (m >= lp => D = W) /\ (m < lp => D = U \/ D = N)
<1>10. Agrees(q, p)
  BY <1>7
<1>11. /\ m >= 3 => Http!Find(q, Http!CRLF) = 2
       /\ m < 3 => Http!Find(q, Http!CRLF) = 0
  BY <1>8, <1>9, <1>10, LineFound
<1>12. ASSUME m < 3 PROVE Claim
  <2>1. Http!Decode(q) = Http!Undecoded
    BY <1>11, <1>12, Zenon DEF Http!Decode
  <2>2. m < lp
    BY <1>12, <1>16
  <2>3. D = U
    BY <1>18, <2>1, Zenon
  <2>4. QED
    BY <1>21, <2>2, <2>3
<1>13. ASSUME m = 3 PROVE Claim
  <2>1. Http!Find(q, Http!CRLF) = 2 /\ 2 = m - 1 /\ 2 # 0
    BY <1>11, <1>13
  <2>2. Http!Decode(q) = Http!NeedMoreData
    BY <1>9, <2>1, Zenon DEF Http!Decode
  <2>3. m < lp
    BY <1>3, <1>13, <1>16
  <2>4. D = N
    BY <1>18, <2>2, Zenon
  <2>5. QED
    BY <1>21, <2>3, <2>4
<1>14. ASSUME m >= 4 PROVE Claim
  <2>1. Http!Find(q, Http!CRLF) = 2 /\ 2 # m - 1 /\ 2 # 0 /\ 2 + 2 = 4
    BY <1>11, <1>14
  <2>2. q[1] = line
    <3>1. 1 \in 1..Len(p) /\ 1 <= Len(q)
      BY <1>8, <1>9, <1>14
    <3>2. q[1] = p[1]
      BY <1>10, <3>1 DEF Agrees
    <3>3. QED
      BY <1>8, <3>2 DEF Shape
  <2>3. Http!Decode(q) = Http!DecodeHeader(q, line, 2)
    BY <1>6, <1>9, <2>1, <2>2, Zenon DEF Http!Decode
  <2>4. PICK rest : rest = SubSeq(q, 4, m)
    OBVIOUS
  <2>12. Behind(rest, q, m, n)
    BY <1>2, <1>8, <1>9, <1>10, <1>14, <1>17, <2>4, HeadersFound
  <2>5. /\ rest \in Seq(Http!Tokens) /\ Len(rest) = m - 3
        /\ \A i \in 1..(m - 3) : rest[i] = q[i + 3]
        /\ m >= 3 * n + 5 => Http!Find(rest, Http!CRLF_DOUBLE) = 3 * n - 1
        /\ m < 3 * n + 5 => Http!Find(rest, Http!CRLF_DOUBLE) = 0
    BY <2>12 DEF Behind
  <2>6. PICK j : j = Http!Find(rest, Http!CRLF_DOUBLE)
    OBVIOUS
  <2>7. Http!Decode(q) =
          IF j = 0 THEN Http!Undecoded
          ELSE Http!DecodeContent(q, line, 2 + 1 + j + 3,
                                  Http!ContentLength[SubSeq(rest, 1, j - 1)])
    BY <1>9, <2>1, <2>3, <2>4, <2>6, Zenon DEF Http!DecodeHeader
  <2>8. CASE m < 3 * n + 5
    <3>1. j = 0
      BY <2>5, <2>6, <2>8
    <3>2. Http!Decode(q) = Http!Undecoded
      BY <2>7, <3>1, Zenon
    <3>3. m < lp
      BY <1>16, <2>8
    <3>4. D = U
      BY <1>18, <3>2, Zenon
    <3>5. QED
      BY <1>21, <3>3, <3>4
  <2>9. CASE m >= 3 * n + 5
    <3>1. j = 3 * n - 1
      BY <2>5, <2>6, <2>9
    <3>2. Http!ContentLength[SubSeq(rest, 1, (3 * n - 1) - 1)] = body
      <4>2. Http!ContentLength[SubSeq(rest, 1, (3 * n - 1) - 1)] = Http!ContentLength[hs]
        BY <1>2, <1>8, <1>9, <1>10, <1>17, <2>9, <2>12, BlockOfRequest
      <4>3. QED
        BY <1>6, <4>2, Zenon
    <3>3. PICK head \in Nat : head = 3 * n + 5
      OBVIOUS
    <3>4. j # 0 /\ 2 + 1 + j + 3 = head
      BY <1>3, <3>1, <3>3
    <3>5. Http!Decode(q) = Http!DecodeContent(q, line, head, body)
      BY <2>7, <3>1, <3>2, <3>4, Zenon
    <3>6. CASE m < head + body
      <4>1. m - head < body
        BY <3>6
      <4>2. Http!Decode(q) = Http!Undecoded
        BY <1>9, <3>5, <4>1, Zenon DEF Http!DecodeContent
      <4>3. m < lp
        BY <1>16, <3>3, <3>6
      <4>4. D = U
        BY <1>18, <4>2, Zenon
      <4>5. QED
        BY <1>21, <4>3, <4>4
    <3>7. CASE m >= head + body
      <4>1. ~(m - head < body)
        BY <3>7
      <4>2. Http!Consumed(line.method, body) = body
        BY <1>6 DEF Http!Consumed
      <4>3. Http!Decode(q) = Http!Result(TRUE, [method |-> line.method, path |-> Http!PathOf(line),
                                                body |-> body], head + body)
        BY <1>9, <3>5, <4>1, <4>2, Zenon DEF Http!DecodeContent
      <4>4. RequestOf(r) = [method |-> line.method, path |-> Http!PathOf(line), body |-> body]
        BY <1>4, <1>5, Zenon DEF RequestOf
      <4>5. head + body = lp /\ ~(m < lp)
        BY <1>16, <3>3, <3>7
      <4>6. Http!Decode(q) = Http!Result(TRUE, RequestOf(r), lp)
        BY <4>3, <4>4, <4>5, Zenon
      <4>7. D = W
        BY <1>18, <4>6, Zenon
      <4>8. QED
        BY <1>21, <4>5, <4>7
    <3>8. m < head + body \/ m >= head + body
      BY <3>3
    <3>9. QED
      BY <3>6, <3>7, <3>8, Zenon
  <2>10. m < 3 * n + 5 \/ m >= 3 * n + 5
    OBVIOUS
  <2>11. QED
    BY <2>8, <2>9, <2>10, Zenon
<1>15. Claim
  <2>1. m < 3 \/ m = 3 \/ m >= 4
    OBVIOUS
  <2>2. QED
    BY <1>12, <1>13, <1>14, <2>1, Zenon
<1>19. lp = Len(Http!BytesOf(r))
  BY <1>7, <1>17, Zenon
<1>20. QED
  BY <1>9, <1>15, <1>17, <1>18, <1>19, Zenon

\* What decode takes is a number, and is not more than there is before the content.
LEMMA DecodeTakes ==
  ASSUME NEW q \in Seq(Http!Tokens)
  PROVE  Http!Decode(q).consumed \in Nat
<1>1. PICK S : S = Http!Tokens
  OBVIOUS
<1>2. PICK m \in Nat : m = Len(q)
  BY LenProperties
<1>3. Http!Undecoded.consumed = 0 /\ Http!NeedMoreData.consumed = 0
  BY DEF Http!Undecoded, Http!NeedMoreData, Http!Result
<1>4. PICK i : i = Http!Find(q, Http!CRLF)
  OBVIOUS
<1>5. i # 0 => i \in 1..(m - 1)
  <2>1. /\ Http!CRLF \in Seq(Http!Tokens)
        /\ Places(q, Http!CRLF) = {k \in 1..(m - 1) : q[k] = Http!CR /\ q[k + 1] = Http!LF}
    BY <1>2, LineEndPlaces
  <2>2. /\ Places(q, Http!CRLF) = {} => i = 0
        /\ Places(q, Http!CRLF) # {} => i \in Places(q, Http!CRLF)
    BY <1>4, <2>1, FindIs, Zenon
  <2>3. QED
    BY <2>1, <2>2, Zenon
<1>6. CASE i = 0 \/ i = m - 1 \/ i # 2 \/ ~Http!LineParses(q[1])
  <2>1. Http!Decode(q) = Http!Undecoded \/ Http!Decode(q) = Http!NeedMoreData
    BY <1>2, <1>4, <1>6, Zenon DEF Http!Decode
  <2>2. QED
    BY <1>3, <2>1, 0 \in Nat, Zenon
<1>7. CASE ~(i = 0 \/ i = m - 1 \/ i # 2 \/ ~Http!LineParses(q[1]))
  <2>1. i = 2 /\ 2 \in 1..(m - 1) /\ 2 + 2 = 4
    BY <1>5, <1>7
  <2>2. PICK rest : rest = SubSeq(q, 4, m)
    OBVIOUS
  <2>3. rest \in Seq(S)
    <3>1. 4 \in Nat \ {0} /\ 4 <= m + 1 /\ m <= Len(q)
      BY <1>2, <2>1
    <3>2. QED
      BY <1>1, <2>2, <3>1, PartOf
  <2>4. PICK w \in Nat : w = Len(rest)
    BY <2>3, LenProperties
  <2>5. PICK j : j = Http!Find(rest, Http!CRLF_DOUBLE)
    OBVIOUS
  <2>6. j # 0 => j \in 1..(w - 3)
    <3>1. /\ Http!CRLF_DOUBLE \in Seq(Http!Tokens)
          /\ Places(rest, Http!CRLF_DOUBLE) =
               {k \in 1..(w - 3) : /\ rest[k] = Http!CR /\ rest[k + 1] = Http!LF
                                   /\ rest[k + 2] = Http!CR /\ rest[k + 3] = Http!LF}
      BY <1>1, <2>3, <2>4, HeadersEndPlaces
    <3>2. /\ Places(rest, Http!CRLF_DOUBLE) = {} => j = 0
          /\ Places(rest, Http!CRLF_DOUBLE) # {} => j \in Places(rest, Http!CRLF_DOUBLE)
      BY <1>1, <2>3, <2>5, <3>1, FindIs, Zenon
    <3>3. QED
      BY <3>1, <3>2, Zenon
  <2>7. PICK b : b = SubSeq(rest, 1, j - 1)
    OBVIOUS
  <2>8. PICK c : c = Http!ContentLength[b]
    OBVIOUS
  <2>9. Http!Decode(q) = IF j = 0 THEN Http!Undecoded
                         ELSE Http!DecodeContent(q, q[1], 2 + 1 + j + 3, c)
    BY <1>2, <1>4, <1>7, <2>1, <2>2, <2>5, <2>7, <2>8, Zenon DEF Http!Decode, Http!DecodeHeader
  <2>10. CASE j = 0
    BY <1>3, <2>9, <2>10, 0 \in Nat, Zenon
  <2>11. CASE j # 0
    <3>1. j \in 1..(w - 3)
      BY <2>6, <2>11
    <3>2. b \in Seq(S)
      <4>1. j - 1 \in Nat /\ 1 \in Nat \ {0} /\ 1 <= (j - 1) + 1 /\ j - 1 <= Len(rest)
        BY <2>4, <3>1
      <4>2. QED
        BY <2>3, <2>7, <4>1, PartOf
    <3>3. c \in Nat
      BY <1>1, <2>8, <3>2, ContentLengthIs
    <3>4. PICK head \in Nat : head = 2 + 1 + j + 3
      BY <3>1
    <3>5. Http!Decode(q) = Http!DecodeContent(q, q[1], head, c)
      BY <2>9, <2>11, <3>4, Zenon
    <3>6. PICK e \in Nat : e = Http!Consumed(q[1].method, c)
      BY <3>3 DEF Http!Consumed
    <3>7. Http!Decode(q) = Http!Undecoded \/ Http!Decode(q).consumed = head + e
      BY <3>5, <3>6 DEF Http!DecodeContent, Http!Result
    <3>8. QED
      BY <1>3, <3>7
  <2>12. QED
    BY <2>10, <2>11
<1>8. QED
  BY <1>6, <1>7

-----------------------------------------------------------------------------
(* HTTP: the stream of requests.                                           *)

\* The tokens of each request of a stream.
Each(rs) == [i \in 1..Len(rs) |-> Http!BytesOf(rs[i])]

\* Each has its tokens, and the stream is made of them.
LEMMA EachFacts ==
  ASSUME NEW rs \in Seq(Http!Requests), NEW n \in Nat, n = Len(rs)
  PROVE  /\ \A i \in 1..n : rs[i] \in Http!Requests /\ Each(rs)[i] = Http!BytesOf(rs[i])
         /\ \A i \in 1..n : Each(rs)[i] \in Seq(Http!Tokens)
         /\ Http!BytesOfAll(rs) = Flat(Each(rs), n)
<1>1. ASSUME NEW i \in 1..n
      PROVE  /\ rs[i] \in Http!Requests /\ Each(rs)[i] = Http!BytesOf(rs[i])
             /\ Http!BytesOf(rs[i]) \in Seq(Http!Tokens)
  <2>1. rs[i] \in Http!Requests
    BY ElementOfSeq
  <2>2. PICK k \in Nat : k = Len(rs[i].headers)
    <3>1. rs[i].headers \in Seq(Http!Headers)
      BY <2>1 DEF Http!Requests
    <3>2. QED
      BY <3>1, LenProperties
  <2>3. Http!BytesOf(rs[i]) \in Seq(Http!Tokens)
    BY <2>1, <2>2, RequestShape
  <2>4. Each(rs)[i] = Http!BytesOf(rs[i])
    BY DEF Each
  <2>5. QED
    BY <2>1, <2>3, <2>4
<1>2. Http!BytesOfAll(rs) = Flat(Each(rs), n)
  <2>1. DOMAIN rs = 1..n
    BY LenProperties
  <2>2. [i \in 1..n |-> Each(rs)[i]] = [i \in DOMAIN rs |-> Http!BytesOf(rs[i])]
    BY <2>1 DEF Each
  <2>3. QED
    BY <2>2, SameHttpFlatten, Zenon DEF Flat, Http!BytesOfAll
<1>3. QED
  BY <1>1, <1>2, Zenon

\* What is behind the first w requests of a stream is in the buffer and in the socket.
HttpFlow(rs, w, in, so) ==
  Cat(Cat(Flat(Each(rs), w), in), so) = Flat(Each(rs), Len(rs))

\* What in front of the buffer is the request that is decoded next.
LEMMA FrontRequest ==
  ASSUME NEW rs \in Seq(Http!Requests), NEW w \in Nat, w < Len(rs),
         NEW in \in Seq(Http!Tokens), NEW so \in Seq(Http!Tokens), HttpFlow(rs, w, in, so)
  PROVE  InFront(Http!BytesOf(rs[w + 1]), in)
<1>1. PICK n \in Nat : n = Len(rs)
  BY LenProperties
<1>2. PICK S : S = Http!Tokens
  OBVIOUS
<1>3. PICK E : E = Each(rs)
  OBVIOUS
<1>4. \A i \in 1..n : E[i] \in Seq(S)
  BY <1>1, <1>2, <1>3, EachFacts, Zenon
<1>5. /\ \A k \in 0..n : Flat(E, k) \in Seq(S)
      /\ \A k \in 0..(n - 1) : Flat(E, k + 1) = Flat(E, k) \o E[k + 1]
  BY <1>4, FlatStep
<1>6. w \in 0..n /\ w \in 0..(n - 1) /\ w + 1 \in 1..n /\ w + 1 \in 0..n /\ n \in (w + 1)..n
  BY <1>1
<1>7. PICK P \in Seq(S) : P = Flat(E, w)
  BY <1>5, <1>6
<1>8. PICK p \in Seq(S) : p = E[w + 1]
  BY <1>4, <1>6
<1>9. Flat(E, w + 1) = Cat(P, p)
  BY <1>5, <1>6, <1>7, <1>8, Zenon DEF Cat
<1>10. PICK rest \in Seq(S) : Flat(E, n) = Cat(Flat(E, w + 1), rest)
  <2>1. \A k \in (w + 1)..n : Grows(S, E, w + 1, k)
    BY <1>4, <1>6, FlatGrows
  <2>2. Grows(S, E, w + 1, n)
    BY <1>6, <2>1
  <2>3. QED
    BY <2>2, Zenon DEF Grows, Cat
<1>11. in \in Seq(S) /\ so \in Seq(S) /\ <<>> \in Seq(S)
  BY <1>2
<1>12. Cat(Cat(P, in), so) = Cat(Cat(P, p), rest)
  BY <1>1, <1>3, <1>7, <1>9, <1>10, Zenon DEF HttpFlow
<1>13. Cat(Cat(Cat(P, in), so), <<>>) = Cat(Cat(P, in), so)
  <2>1. PICK q \in Seq(S) : q = Cat(Cat(P, in), so)
    BY <1>11, CatFacts
  <2>2. Cat(q, <<>>) = q
    BY ConcatEmptySeq DEF Cat
  <2>3. QED
    BY <2>1, <2>2, Zenon
<1>14. Cat(Cat(Cat(P, in), so), <<>>) = Cat(Cat(P, p), rest)
  BY <1>12, <1>13, Zenon
<1>15. InFront(p, in)
  BY <1>11, <1>14, FrontBehind
<1>16. p = Http!BytesOf(rs[w + 1])
  BY <1>1, <1>3, <1>6, <1>8, EachFacts, Zenon
<1>17. QED
  BY <1>15, <1>16, Zenon

\* When it has been taken, the next one is in front.
LEMMA RequestTaken ==
  ASSUME NEW rs \in Seq(Http!Requests), NEW w \in Nat, w < Len(rs),
         NEW in \in Seq(Http!Tokens), NEW so \in Seq(Http!Tokens), HttpFlow(rs, w, in, so),
         NEW rest \in Seq(Http!Tokens), in = Cat(Http!BytesOf(rs[w + 1]), rest)
  PROVE  HttpFlow(rs, w + 1, rest, so)
<1>1. PICK n \in Nat : n = Len(rs)
  BY LenProperties
<1>2. PICK S : S = Http!Tokens
  OBVIOUS
<1>3. PICK E : E = Each(rs)
  OBVIOUS
<1>4. \A i \in 1..n : E[i] \in Seq(S)
  BY <1>1, <1>2, <1>3, EachFacts, Zenon
<1>5. /\ \A k \in 0..n : Flat(E, k) \in Seq(S)
      /\ \A k \in 0..(n - 1) : Flat(E, k + 1) = Flat(E, k) \o E[k + 1]
  BY <1>4, FlatStep
<1>6. w \in 0..n /\ w \in 0..(n - 1) /\ w + 1 \in 1..n
  BY <1>1
<1>7. PICK P \in Seq(S) : P = Flat(E, w)
  BY <1>5, <1>6
<1>8. PICK p \in Seq(S) : p = E[w + 1]
  BY <1>4, <1>6
<1>9. Flat(E, w + 1) = Cat(P, p)
  BY <1>5, <1>6, <1>7, <1>8, Zenon DEF Cat
<1>10. p = Http!BytesOf(rs[w + 1])
  BY <1>1, <1>3, <1>6, <1>8, EachFacts, Zenon
<1>11. rest \in Seq(S)
  BY <1>2
<1>12. Cat(P, Cat(p, rest)) = Cat(Cat(P, p), rest)
  BY <1>11, CatFacts
<1>13. in = Cat(p, rest)
  BY <1>10, Zenon
<1>14. Cat(Cat(P, in), so) = Flat(E, Len(rs))
  BY <1>3, <1>7, Zenon DEF HttpFlow
<1>15. Cat(Cat(Cat(P, p), rest), so) = Flat(E, Len(rs))
  BY <1>12, <1>13, <1>14, Zenon
<1>16. QED
  BY <1>3, <1>9, <1>15, Zenon DEF HttpFlow

\* A sequence that has p in front, or is a part of it, agrees with it.
LEMMA InFrontAgrees ==
  ASSUME NEW S, NEW p \in Seq(S), NEW q \in Seq(S), InFront(p, q)
  PROVE  Agrees(q, p)
<1>1. PICK lp \in Nat, lq \in Nat : lp = Len(p) /\ lq = Len(q)
  BY LenProperties
<1>2. lq >= lp => \A i \in 1..lp : q[i] = p[i]
  BY <1>1 DEF InFront, Begins
<1>3. lq < lp => \A i \in 1..lq : p[i] = q[i]
  BY <1>1 DEF InFront, Begins
<1>4. \A i \in 1..lp : i <= lq => q[i] = p[i]
  BY <1>2, <1>3
<1>5. QED
  BY <1>1, <1>4 DEF Agrees

-----------------------------------------------------------------------------
(* HTTP: the invariant.                                                    *)

\* The codes of responses.
ResponseCodes == {"uninitialised", "servlet", "404"}

\* dispatch always yields one.
LEMMA DispatchCode ==
  ASSUME NEW request
  PROVE  Http!Dispatch(request) \in ResponseCodes
<1>1. CASE request.path = ""
  BY <1>1 DEF Http!Dispatch, ResponseCodes
<1>2. CASE request.path # "" /\ request.path \in Servlets
  BY <1>2 DEF Http!Dispatch, ResponseCodes
<1>3. CASE request.path # "" /\ request.path \notin Servlets
  BY <1>3 DEF Http!Dispatch, ResponseCodes
<1>4. QED
  BY <1>1, <1>2, <1>3, Zenon

\* The first k requests are plain.
PlainTo(rs, k) == \A i \in 1..k : Http!Plain(rs[i])

\* The first k of the responses written are those to the first k requests, and while there
\* are fewer the next request is in front.
AnsweredTo(rs, so, in, written, k) ==
  /\ \A i \in 1..k : i <= Len(written) => written[i] = Http!Dispatch(RequestOf(rs[i]))
  /\ Len(written) < k => HttpFlow(rs, Len(written), in, so)

\* So far every plain request has been answered in its turn.
InTurn(rs, so, in, written) ==
  \A k \in 0..Len(rs) : PlainTo(rs, k) => AnsweredTo(rs, so, in, written, k)

\* decode says that it has a request, and takes nothing.
Stuck(in) == Http!Decode(in).decode_succ /\ Http!Decode(in).consumed = 0

\* One more response, of the request that decode has taken.
LEMMA OneMoreResponse ==
  ASSUME NEW rs \in Seq(Http!Requests), NEW so \in Seq(Http!Tokens),
         NEW in \in Seq(Http!Tokens), NEW written \in Seq(ResponseCodes),
         InTurn(rs, so, in, written), ~Stuck(in), Http!Decode(in).decode_succ,
         NEW rest, rest = SubSeq(in, Http!Decode(in).consumed + 1, Len(in)),
         NEW code \in ResponseCodes, code = Http!Dispatch(Http!Decode(in).request),
         NEW more \in Seq(ResponseCodes), more = Append(written, code)
  PROVE  InTurn(rs, so, rest, more)
<1>1. PICK w \in Nat : w = Len(written)
  BY LenProperties
<1>2. /\ Len(more) = w + 1 /\ more[w + 1] = code
      /\ \A i \in 1..w : more[i] = written[i]
  BY <1>1, AppendProperties
<1>3. SUFFICES ASSUME NEW k \in 0..Len(rs), PlainTo(rs, k)
               PROVE  AnsweredTo(rs, so, rest, more, k)
  BY DEF InTurn
<1>4. AnsweredTo(rs, so, in, written, k)
  BY <1>3 DEF InTurn
<1>5. PICK n \in Nat : n = Len(rs)
  BY LenProperties
<1>6. k \in Nat /\ k <= n
  BY <1>5
<1>7. \A i \in 1..k : i <= w => written[i] = Http!Dispatch(RequestOf(rs[i]))
  BY <1>1, <1>4, Zenon DEF AnsweredTo
<1>8. CASE w >= k
  <2>1. \A i \in 1..k : i \in 1..w /\ i <= w
    BY <1>6, <1>8
  <2>2. \A i \in 1..k : more[i] = Http!Dispatch(RequestOf(rs[i]))
    BY <1>2, <1>7, <2>1
  <2>3. ~(Len(more) < k)
    BY <1>2, <1>6, <1>8
  <2>4. QED
    BY <2>2, <2>3, Zenon DEF AnsweredTo
<1>9. CASE w < k
  <2>1. w + 1 \in 1..k /\ w + 1 \in 1..n /\ w < n
    BY <1>6, <1>9
  <2>2. PICK r \in Http!Requests : r = rs[w + 1]
    BY <1>5, <2>1, ElementOfSeq
  <2>3. Http!Plain(r)
    BY <1>3, <2>1, <2>2 DEF PlainTo
  <2>4. HttpFlow(rs, w, in, so)
    BY <1>1, <1>4, <1>9, Zenon DEF AnsweredTo
  <2>5. InFront(Http!BytesOf(r), in)
    BY <1>5, <2>1, <2>2, <2>4, FrontRequest
  <2>6. PICK p \in Seq(Http!Tokens) : p = Http!BytesOf(r)
    <3>1. Each(rs)[w + 1] = Http!BytesOf(r) /\ Each(rs)[w + 1] \in Seq(Http!Tokens)
      BY <1>5, <2>1, <2>2, EachFacts, Zenon
    <3>2. QED
      BY <3>1, Zenon
  <2>7. Agrees(in, Http!BytesOf(r))
    <3>1. PICK S : S = Http!Tokens
      OBVIOUS
    <3>2. p \in Seq(S) /\ in \in Seq(S) /\ InFront(p, in)
      BY <2>5, <2>6, <3>1, Zenon
    <3>3. Agrees(in, p)
      BY <3>2, InFrontAgrees
    <3>4. QED
      BY <2>6, <3>3, Zenon
  <2>8. /\ Len(in) >= Len(p) => Http!Decode(in) = Http!Result(TRUE, RequestOf(r), Len(p))
        /\ Len(in) < Len(p) => Http!Decode(in) \in {Http!Undecoded, Http!NeedMoreData}
        /\ Len(p) \in Nat \ {0}
    BY <2>3, <2>6, <2>7, DecodeRequest, Zenon
  <2>9. ~(Len(in) < Len(p))
    <3>1. SUFFICES ASSUME Http!Decode(in) \in {Http!Undecoded, Http!NeedMoreData} PROVE FALSE
      BY <2>8
    <3>2. CASE Http!Decode(in) = Http!Undecoded
      BY <3>2 DEF Http!Undecoded, Http!Result
    <3>3. CASE Http!Decode(in) = Http!NeedMoreData
      BY <3>3 DEF Http!NeedMoreData, Http!Result, Stuck
    <3>4. QED
      BY <3>1, <3>2, <3>3
  <2>10. Len(in) >= Len(p)
    BY <2>8, <2>9, LenProperties
  <2>11. Http!Decode(in).consumed = Len(p) /\ Http!Decode(in).request = RequestOf(r)
    BY <2>8, <2>10 DEF Http!Result
  <2>12. rest = SubSeq(in, Len(p) + 1, Len(in)) /\ code = Http!Dispatch(RequestOf(r))
    BY <2>11, Zenon
  <2>13. in = Cat(p, rest)
    BY <2>5, <2>6, <2>10, <2>12, Zenon DEF InFront
  <2>14. rest \in Seq(Http!Tokens)
    <3>1. Len(p) \in 0..Len(in)
      BY <2>8, <2>10, LenProperties
    <3>2. QED
      <4>1. PICK S : S = Http!Tokens
        OBVIOUS
      <4>2. in \in Seq(S)
        BY <4>1
      <4>3. PICK lp \in 0..Len(in) : lp = Len(p)
        BY <3>1
      <4>4. SubSeq(in, lp + 1, Len(in)) \in Seq(S)
        BY <4>2, Cut
      <4>5. QED
        BY <2>12, <4>1, <4>3, <4>4, Zenon
  <2>15. HttpFlow(rs, w + 1, rest, so)
    <3>1. in = Cat(Http!BytesOf(rs[w + 1]), rest)
      BY <2>2, <2>6, <2>13, Zenon
    <3>2. QED
      BY <1>5, <2>1, <2>4, <2>14, <3>1, RequestTaken
  <2>16. \A i \in 1..k : i <= w + 1 => more[i] = Http!Dispatch(RequestOf(rs[i]))
    <3>1. more[w + 1] = Http!Dispatch(RequestOf(rs[w + 1]))
      BY <1>2, <2>2, <2>12, Zenon
    <3>2. \A i \in 1..k : i <= w + 1 => i = w + 1 \/ (i \in 1..w /\ i <= w)
      BY <1>6
    <3>3. QED
      BY <1>2, <1>7, <3>1, <3>2, Zenon
  <2>17. QED
    BY <1>2, <2>15, <2>16, Zenon DEF AnsweredTo
<1>10. w >= k \/ w < k
  BY <1>6
<1>11. QED
  BY <1>8, <1>9, <1>10, Zenon

\* The stream of requests rs: so is in the socket, in and out are the buffers, and rp has
\* been written.
HttpInv(rs, so, st, in, out, rp) ==
  /\ rs \in Seq(Http!Requests) /\ so \in Seq(Http!Tokens) /\ in \in Seq(Http!Tokens)
  /\ out \in Seq(ResponseCodes) /\ rp \in Seq(ResponseCodes)
  /\ (st = "execute" /\ Stuck(in)) \/ InTurn(rs, so, in, rp \o out)

\* A turn of execute that has decoded a request.
LEMMA ExecuteHttp ==
  ASSUME NEW rs, NEW so, NEW st, NEW in, NEW out, NEW rp,
         HttpInv(rs, so, st, in, out, rp), st = "execute", Http!Decode(in).decode_succ,
         NEW rest, rest = SubSeq(in, Http!Decode(in).consumed + 1, Len(in)),
         NEW code, code = Http!Dispatch(Http!Decode(in).request),
         NEW same \in BOOLEAN, same => Stuck(in)
  PROVE  HttpInv(rs, so, st, rest, IF same THEN out ELSE Append(out, code), rp)
<1>1. /\ rs \in Seq(Http!Requests) /\ so \in Seq(Http!Tokens) /\ in \in Seq(Http!Tokens)
      /\ out \in Seq(ResponseCodes) /\ rp \in Seq(ResponseCodes)
  BY DEF HttpInv
<1>2. code \in ResponseCodes
  BY DispatchCode
<1>3. PICK more : more = IF same THEN out ELSE Append(out, code)
  OBVIOUS
<1>4. more \in Seq(ResponseCodes)
  BY <1>1, <1>2, <1>3, AppendProperties
<1>5. PICK c \in Nat : c = Http!Decode(in).consumed
  BY <1>1, DecodeTakes
<1>6. rest \in Seq(Http!Tokens)
  <2>1. PICK S : S = Http!Tokens
    OBVIOUS
  <2>2. in \in Seq(S)
    BY <1>1, <2>1
  <2>3. SubSeq(in, c + 1, Len(in)) \in Seq(S)
    BY <2>2
  <2>4. QED
    BY <1>5, <2>1, <2>3, Zenon
<1>7. CASE Stuck(in)
  <2>1. c = 0
    BY <1>5, <1>7 DEF Stuck
  <2>2. rest = in
    <3>1. SubSeq(in, 1, Len(in)) = in /\ c + 1 = 1
      BY <1>1, <2>1, SubSeqFull
    <3>2. QED
      BY <1>5, <3>1, Zenon
  <2>3. QED
    BY <1>1, <1>3, <1>4, <1>7, <2>2, Zenon DEF HttpInv
<1>8. CASE ~Stuck(in)
  <2>1. more = Append(out, code)
    BY <1>3, <1>8
  <2>2. InTurn(rs, so, in, rp \o out)
    BY <1>8 DEF HttpInv
  <2>3. PICK w \in Seq(ResponseCodes) : w = rp \o out
    BY <1>1, ConcatProperties
  <2>4. rp \o more = Append(w, code) /\ rp \o more \in Seq(ResponseCodes)
    <3>1. PICK S : S = ResponseCodes
      OBVIOUS
    <3>2. rp \in Seq(S) /\ out \in Seq(S) /\ <<code>> \in Seq(S) /\ w \in Seq(S)
      BY <1>1, <1>2, <3>1
    <3>3. more = out \o <<code>> /\ Append(w, code) = w \o <<code>>
      BY <1>2, <2>1, <3>1, <3>2, AppendIsConcat
    <3>4. rp \o (out \o <<code>>) = (rp \o out) \o <<code>>
      BY <3>2, ConcatAssociative
    <3>5. rp \o more \in Seq(ResponseCodes)
      BY <1>1, <1>4, ConcatProperties
    <3>6. QED
      BY <2>3, <3>3, <3>4, <3>5, Zenon
  <2>5. InTurn(rs, so, rest, rp \o more)
    <3>1. PICK v \in Seq(ResponseCodes) : v = rp \o more
      BY <2>4
    <3>2. v = Append(w, code) /\ InTurn(rs, so, in, w)
      BY <2>2, <2>3, <2>4, <3>1, Zenon
    <3>3. InTurn(rs, so, rest, v)
      BY <1>1, <1>2, <1>8, <3>2, OneMoreResponse
    <3>4. QED
      BY <3>1, <3>3, Zenon
  <2>6. QED
    BY <1>1, <1>3, <1>4, <1>6, <2>5, Zenon DEF HttpInv
<1>9. QED
  BY <1>7, <1>8

\* More has arrived.
LEMMA InputHttp ==
  ASSUME NEW rs, NEW so, NEW st, NEW in, NEW out, NEW rp,
         HttpInv(rs, so, st, in, out, rp), st # "execute", NEW n \in Nat, n <= Len(so)
  PROVE  HttpInv(rs, SubSeq(so, n + 1, Len(so)), "execute", in \o SubSeq(so, 1, n), out, rp)
<1>1. /\ rs \in Seq(Http!Requests) /\ so \in Seq(Http!Tokens) /\ in \in Seq(Http!Tokens)
      /\ out \in Seq(ResponseCodes) /\ rp \in Seq(ResponseCodes)
      /\ InTurn(rs, so, in, rp \o out)
  BY DEF HttpInv
<1>2. PICK S : S = Http!Tokens
  OBVIOUS
<1>3. so \in Seq(S) /\ in \in Seq(S)
  BY <1>1, <1>2
<1>4. n \in 0..Len(so)
  OBVIOUS
<1>11. /\ SubSeq(so, 1, n) \in Seq(S) /\ SubSeq(so, n + 1, Len(so)) \in Seq(S)
       /\ so = Cat(SubSeq(so, 1, n), SubSeq(so, n + 1, Len(so)))
  BY <1>3, <1>4, Cut DEF Cat
<1>12. PICK s \in Seq(S) : s = SubSeq(so, 1, n)
  BY <1>11, Zenon
<1>13. PICK rest \in Seq(S) : rest = SubSeq(so, n + 1, Len(so))
  BY <1>11, Zenon
<1>5. s = SubSeq(so, 1, n) /\ rest = SubSeq(so, n + 1, Len(so)) /\ so = Cat(s, rest)
  BY <1>11, <1>12, <1>13, Zenon
<1>6. Cat(in, s) \in Seq(S)
  BY <1>3, CatFacts
<1>7. PICK written : written = rp \o out
  OBVIOUS
<1>8. InTurn(rs, rest, Cat(in, s), written)
  <2>1. SUFFICES ASSUME NEW k \in 0..Len(rs), PlainTo(rs, k)
                 PROVE  AnsweredTo(rs, rest, Cat(in, s), written, k)
    BY DEF InTurn
  <2>2. AnsweredTo(rs, so, in, written, k)
    BY <1>1, <1>7, <2>1 DEF InTurn
  <2>3. ASSUME Len(written) < k
        PROVE  HttpFlow(rs, Len(written), Cat(in, s), rest)
    <3>1. HttpFlow(rs, Len(written), in, so)
      BY <2>2, <2>3, Zenon DEF AnsweredTo
    <3>2. PICK w : w = Len(written)
      OBVIOUS
    <3>3. w \in 0..Len(rs)
      <4>1. rp \o out \in Seq(ResponseCodes)
        BY <1>1, ConcatProperties
      <4>2. w \in Nat
        BY <1>7, <3>2, <4>1, LenProperties
      <4>3. k \in Nat /\ k <= Len(rs) /\ Len(rs) \in Nat
        BY <1>1, LenProperties
      <4>4. w < k
        BY <2>3, <3>2
      <4>5. QED
        BY <4>2, <4>3, <4>4
    <3>4. PICK P \in Seq(S) : P = Flat(Each(rs), w)
      <4>1. PICK n_1 \in Nat : n_1 = Len(rs)
        BY <1>1, LenProperties
      <4>2. PICK E : E = Each(rs)
        OBVIOUS
      <4>3. \A i \in 1..n_1 : E[i] \in Seq(S)
        BY <1>1, <1>2, <4>1, <4>2, EachFacts, Zenon
      <4>4. \A i \in 0..n_1 : Flat(E, i) \in Seq(S)
        BY <4>3, FlatStep
      <4>5. QED
        BY <3>3, <4>1, <4>2, <4>4
    <3>5. Cat(Cat(P, in), Cat(s, rest)) = Cat(Cat(P, Cat(in, s)), rest)
      <4>1. PICK a \in Seq(S) : a = Cat(P, in)
        BY <1>3, CatFacts
      <4>2. Cat(a, Cat(s, rest)) = Cat(Cat(a, s), rest)
        BY CatFacts
      <4>3. Cat(a, s) = Cat(P, Cat(in, s))
        BY <1>3, <4>1, CatFacts
      <4>4. QED
        BY <4>1, <4>2, <4>3, Zenon
    <3>6. QED
      BY <1>5, <3>1, <3>2, <3>4, <3>5, Zenon DEF HttpFlow
  <2>4. QED
    BY <2>2, <2>3, Zenon DEF AnsweredTo
<1>9. HttpInv(rs, rest, "execute", Cat(in, s), out, rp)
  BY <1>1, <1>2, <1>5, <1>6, <1>7, <1>8, Zenon DEF HttpInv
<1>10. QED
  BY <1>5, <1>9, Zenon DEF Cat

\* The responses have been written.
LEMMA OutputHttp ==
  ASSUME NEW rs, NEW so, NEW st, NEW in, NEW out, NEW rp,
         HttpInv(rs, so, st, in, out, rp), st # "execute", NEW next
  PROVE  HttpInv(rs, so, next, in, <<>>, rp \o out)
<1>1. /\ rs \in Seq(Http!Requests) /\ so \in Seq(Http!Tokens) /\ in \in Seq(Http!Tokens)
      /\ out \in Seq(ResponseCodes) /\ rp \in Seq(ResponseCodes)
      /\ InTurn(rs, so, in, rp \o out)
  BY DEF HttpInv
<1>2. rp \o out \in Seq(ResponseCodes) /\ <<>> \in Seq(ResponseCodes)
  BY <1>1, ConcatProperties
<1>3. (rp \o out) \o <<>> = rp \o out
  BY <1>2, ConcatEmptySeq
<1>4. QED
  BY <1>1, <1>2, <1>3, Zenon DEF HttpInv

\* The inductive invariant of the requests.
HttpIInv == ~Packets => HttpInv(requests, socket, pc, in_buf, out_buf, responses)

\* Nothing has arrived.
LEMMA InitHttpIInv == ASSUME Init PROVE HttpIInv
<1>1. CASE m_protocal_type = "TinyPb_Protocal"
  BY <1>1 DEF HttpIInv, Packets
<1>2. CASE m_protocal_type = "Http_Protocal" /\ Http!Init
  <2>1. /\ requests \in Streams /\ socket = Http!BytesOfAll(requests)
        /\ in_buf = <<>> /\ out_buf = <<>> /\ responses = <<>>
    BY <1>2 DEF Http!Init
  <2>2. PICK rs \in Seq(Http!Requests) : rs = requests
    BY <2>1, StreamsAssumption
  <2>3. PICK n \in Nat : n = Len(rs)
    BY LenProperties
  <2>4. PICK E : E = Each(rs)
    OBVIOUS
  <2>5. socket = Flat(E, n) /\ \A i \in 1..n : E[i] \in Seq(Http!Tokens)
    BY <2>1, <2>2, <2>3, <2>4, EachFacts, Zenon
  <2>6. Flat(E, n) \in Seq(Http!Tokens)
    <3>1. PICK S : S = Http!Tokens
      OBVIOUS
    <3>2. \A i \in 1..n : E[i] \in Seq(S)
      BY <2>5, <3>1, Zenon
    <3>3. \A k \in 0..n : Flat(E, k) \in Seq(S)
      BY <3>2, FlatStep
    <3>4. n \in 0..n
      OBVIOUS
    <3>5. QED
      BY <3>1, <3>3, <3>4, Zenon
  <2>7. HttpFlow(rs, 0, <<>>, socket)
    <3>1. PICK so \in Seq(Http!Tokens) : so = socket
      BY <2>5, <2>6, Zenon
    <3>2. <<>> \in Seq(Http!Tokens)
      OBVIOUS
    <3>3. Cat(<<>>, <<>>) = <<>> /\ Cat(<<>>, so) = so
      BY <3>2, ConcatEmptySeq DEF Cat
    <3>4. Flat(E, 0) = <<>>
      BY FlatZero
    <3>5. QED
      BY <2>3, <2>4, <2>5, <3>1, <3>3, <3>4, Zenon DEF HttpFlow
  <2>8. <<>> \o <<>> = <<>> /\ Len(<<>>) = 0
    OBVIOUS
  <2>9. InTurn(rs, socket, <<>>, <<>>)
    <3>1. SUFFICES ASSUME NEW k \in 0..Len(rs) PROVE AnsweredTo(rs, socket, <<>>, <<>>, k)
      BY DEF InTurn
    <3>2. \A i \in 1..k : ~(i <= 0)
      OBVIOUS
    <3>3. QED
      BY <2>7, <2>8, <3>2, Zenon DEF AnsweredTo
  <2>10. <<>> \in Seq(ResponseCodes) /\ <<>> \in Seq(Http!Tokens)
    OBVIOUS
  <2>11. HttpInv(requests, socket, pc, in_buf, out_buf, responses)
    BY <2>1, <2>2, <2>5, <2>6, <2>8, <2>9, <2>10, Zenon DEF HttpInv
  <2>12. QED
    BY <2>11 DEF HttpIInv
<1>3. QED
  BY <1>1, <1>2, Zenon DEF Init

\* Nothing is decoded from an empty buffer.
LEMMA EmptyNotStuck == ~Stuck(<<>>)
<1>8. <<>> \in Seq(Http!Tokens)
  OBVIOUS
<1>1. PICK q \in Seq(Http!Tokens) : q = <<>>
  BY <1>8, Zenon
<1>2. PICK n \in Nat : n = 0 /\ n = Len(q)
  BY <1>1
<1>3. /\ Http!CRLF \in Seq(Http!Tokens)
      /\ Places(q, Http!CRLF) = {i \in 1..(n - 1) : q[i] = Http!CR /\ q[i + 1] = Http!LF}
  BY <1>2, LineEndPlaces
<1>4. Places(q, Http!CRLF) = {}
  BY <1>2, <1>3
<1>5. Http!Find(q, Http!CRLF) = 0
  BY <1>3, <1>4, FindIs, Zenon
<1>6. Http!Decode(q) = Http!Undecoded
  BY <1>5, Zenon DEF Http!Decode
<1>7. QED
  BY <1>1, <1>6 DEF Stuck, Http!Undecoded, Http!Result

\* The steps of a connection of an HTTP server.
LEMMA StepHttp ==
  ASSUME HttpInv(requests, socket, pc, in_buf, out_buf, responses), Http!Arrive \/ Http!Serve
  PROVE  HttpInv(requests, socket, pc, in_buf, out_buf, responses)'
<1> SUFFICES HttpInv(requests', socket', pc', in_buf', out_buf', responses')
  OBVIOUS
<1>1. ASSUME NEW n \in 1..Len(socket), Http!Input(n)
      PROVE  HttpInv(requests', socket', pc', in_buf', out_buf', responses')
  <2>1. n \in Nat /\ n <= Len(socket) /\ pc # "execute"
    BY <1>1, LenProperties DEF Http!Input
  <2>2. /\ in_buf' = in_buf \o SubSeq(socket, 1, n)
        /\ socket' = SubSeq(socket, n + 1, Len(socket))
        /\ pc' = "execute" /\ requests' = requests /\ out_buf' = out_buf
        /\ responses' = responses
    BY <1>1 DEF Http!Input
  <2>3. HttpInv(requests, SubSeq(socket, n + 1, Len(socket)), "execute",
                in_buf \o SubSeq(socket, 1, n), out_buf, responses)
    BY <2>1, InputHttp
  <2>4. QED
    BY <2>2, <2>3, Zenon
<1>2. CASE Http!Execute /\ Http!Decode(in_buf).decode_succ
  <2>1. PICK same \in BOOLEAN :
          same = (Http!Spins /\ out_buf # <<>> /\ Http!Last(out_buf) = "uninitialised")
    OBVIOUS
  <2>2. same => Stuck(in_buf)
    BY <2>1 DEF Http!Spins, Stuck
  <2>3. PICK code : code = Http!Dispatch(Http!Decode(in_buf).request)
    OBVIOUS
  <2>4. PICK rest : rest = SubSeq(in_buf, Http!Decode(in_buf).consumed + 1, Len(in_buf))
    OBVIOUS
  <2>5. /\ pc = "execute" /\ pc' = pc /\ in_buf' = rest
        /\ out_buf' = IF same THEN out_buf ELSE Append(out_buf, code)
        /\ requests' = requests /\ socket' = socket /\ responses' = responses
    BY <1>2, <2>1, <2>3, <2>4, Zenon DEF Http!Execute
  <2>6. HttpInv(requests, socket, pc, rest, IF same THEN out_buf ELSE Append(out_buf, code),
                responses)
    BY <1>2, <2>2, <2>3, <2>4, <2>5, ExecuteHttp
  <2>7. QED
    BY <2>5, <2>6, Zenon
<1>3. CASE Http!Execute /\ ~Http!Decode(in_buf).decode_succ
  <2>1. UNCHANGED <<requests, socket, in_buf, out_buf, responses>>
    BY <1>3 DEF Http!Execute
  <2>2. HttpInv(requests, socket, pc', in_buf, out_buf, responses)
    BY <1>3, Zenon DEF HttpInv, Stuck
  <2>3. QED
    BY <2>1, <2>2, Zenon
<1>4. CASE Http!ExecuteDone
  <2>1. UNCHANGED <<requests, socket, in_buf, out_buf, responses>> /\ ~Stuck(in_buf)
    BY <1>4, EmptyNotStuck DEF Http!ExecuteDone
  <2>2. HttpInv(requests, socket, pc', in_buf, out_buf, responses)
    BY <2>1, Zenon DEF HttpInv
  <2>3. QED
    BY <2>1, <2>2, Zenon
<1>5. CASE Http!Output
  <2>1. /\ pc # "execute" /\ responses' = responses \o out_buf /\ out_buf' = <<>>
        /\ requests' = requests /\ socket' = socket /\ in_buf' = in_buf
    BY <1>5 DEF Http!Output, Http!Recycled
  <2>2. HttpInv(requests, socket, pc', in_buf, <<>>, responses \o out_buf)
    BY <2>1, OutputHttp
  <2>3. QED
    BY <2>1, <2>2, Zenon
<1>6. QED
  BY <1>1, <1>2, <1>3, <1>4, <1>5, Zenon DEF Http!Arrive, Http!Serve

\* Every step of a connection keeps it.
LEMMA NextHttpIInv == ASSUME HttpIInv, [Next]_vars PROVE HttpIInv'
<1>1. CASE TinyPbNext
  <2>1. Packets'
    BY <1>1 DEF TinyPbNext, Packets
  <2>2. QED
    BY <2>1 DEF HttpIInv
<1>2. CASE HttpArrive \/ HttpServe
  <2>1. ~Packets /\ (Http!Arrive \/ Http!Serve)
    BY <1>2 DEF HttpArrive, HttpServe, Packets
  <2>2. HttpInv(requests, socket, pc, in_buf, out_buf, responses)
    BY <2>1 DEF HttpIInv
  <2>3. HttpInv(requests, socket, pc, in_buf, out_buf, responses)'
    BY <2>1, <2>2, StepHttp
  <2>4. QED
    BY <2>3 DEF HttpIInv
<1>3. CASE UNCHANGED vars
  <2>1. UNCHANGED <<m_protocal_type, requests, socket, pc, in_buf, out_buf, responses>>
    BY <1>3 DEF vars, TinyPb!vars, TinyPb!outVars, TinyPb!inVars, Http!vars
  <2>2. QED
    BY <2>1, Zenon DEF HttpIInv, Packets
<1>4. QED
  BY <1>1, <1>2, <1>3 DEF Next

\* How many requests are before the first that is not plain.
LEMMA PlainOnesFacts ==
  ASSUME NEW rs \in Seq(Http!Requests)
  PROVE  \E k \in 0..Len(rs) : PlainTo(rs, k) /\ Http!PlainOnes(rs) = SubSeq(rs, 1, k)
<1>1. PICK n \in Nat : n = Len(rs)
  BY LenProperties
<1>2. DOMAIN rs = 1..n
  BY <1>1, LenProperties
<1>3. PICK M : M = {Len(rs)} \cup {i - 1 : i \in {k \in DOMAIN rs : ~Http!Plain(rs[k])}}
  OBVIOUS
<1>4. M \in SUBSET (0..n) /\ M # {}
  BY <1>1, <1>2, <1>3
<1>5. \A i \in 1..n : ~Http!Plain(rs[i]) => i - 1 \in M
  BY <1>2, <1>3
<1>6. PICK k : k = Http!Min(M)
  OBVIOUS
<1>7. k \in M /\ \A m \in M : k <= m
  <2>1. M \in SUBSET Nat
    BY <1>4
  <2>2. PICK l \in M : \A m \in M : l <= m
    BY <1>4, <2>1, LeastNat
  <2>3. k = CHOOSE x \in M : \A y \in M : x <= y
    BY <1>6 DEF Http!Min
  <2>4. QED
    BY <2>2, <2>3, Zenon
<1>8. k \in 0..n
  BY <1>4, <1>7
<1>9. PlainTo(rs, k)
  <2>1. SUFFICES ASSUME NEW i \in 1..k, ~Http!Plain(rs[i]) PROVE FALSE
    BY DEF PlainTo
  <2>2. i \in 1..n /\ i - 1 < k /\ i - 1 \in Nat /\ k \in Nat
    BY <1>8
  <2>3. k <= i - 1
    BY <1>5, <1>7, <2>1, <2>2
  <2>4. QED
    BY <2>2, <2>3
<1>10. Http!PlainOnes(rs) = SubSeq(rs, 1, k)
  BY <1>3, <1>6, Zenon DEF Http!PlainOnes
<1>11. QED
  BY <1>1, <1>8, <1>9, <1>10

\* AnsweredInOrder says it of the responses.
LEMMA HttpIInvSays == ASSUME HttpIInv PROVE AnsweredInOrder
<1>1. SUFFICES ASSUME ~Packets, ~Http!Spins,
                      NEW expected, expected = Http!Codes(Http!PlainOnes(requests)),
                      NEW part,
                      part = SubSeq(Http!Written, 1,
                                    Http!Min({Len(Http!Written), Len(expected)}))
               PROVE  Http!IsPrefix(part, expected)
  BY Zenon DEF AnsweredInOrder, Http!AnsweredInOrder
<1>2. HttpInv(requests, socket, pc, in_buf, out_buf, responses)
  BY <1>1 DEF HttpIInv
<1>3. PICK rs \in Seq(Http!Requests) : rs = requests
  BY <1>2 DEF HttpInv
<1>4. PICK w \in Seq(ResponseCodes) : w = responses \o out_buf
  BY <1>2, ConcatProperties DEF HttpInv
<1>5. InTurn(rs, socket, in_buf, w)
  BY <1>1, <1>2, <1>3, <1>4, Zenon DEF HttpInv, Stuck, Http!Spins
<1>6. PICK k \in 0..Len(rs) : PlainTo(rs, k) /\ Http!PlainOnes(rs) = SubSeq(rs, 1, k)
  BY PlainOnesFacts
<1>7. \A i \in 1..k : i <= Len(w) => w[i] = Http!Dispatch(RequestOf(rs[i]))
  BY <1>5, <1>6 DEF InTurn, AnsweredTo
<1>8. k \in Nat
  BY <1>6, LenProperties
<1>9. PICK ps : ps = SubSeq(rs, 1, k)
  OBVIOUS
<1>10. Len(ps) = k /\ DOMAIN ps = 1..k /\ \A i \in 1..k : ps[i] = rs[i]
  <2>1. PICK S : S = Http!Requests
    OBVIOUS
  <2>2. rs \in Seq(S) /\ 1 \in Nat \ {0} /\ 1 <= k + 1 /\ k <= Len(rs)
    BY <1>6, <1>8, <2>1, LenProperties
  <2>3. /\ ps \in Seq(S) /\ Len(ps) = k - 1 + 1
        /\ \A i \in 1..(k - 1 + 1) : ps[i] = rs[1 + i - 1]
    BY <1>8, <1>9, <2>2, PartOf
  <2>4. k - 1 + 1 = k /\ \A i \in 1..k : 1 + i - 1 = i
    BY <1>8
  <2>5. DOMAIN ps = 1..Len(ps)
    BY <2>3, LenProperties
  <2>6. QED
    BY <2>3, <2>4, <2>5
<1>11. expected = [i \in 1..k |-> Http!Dispatch(RequestOf(ps[i]))]
  BY <1>1, <1>3, <1>6, <1>9, <1>10, Zenon DEF Http!Codes, RequestOf
<1>12. /\ expected \in Seq(ResponseCodes) /\ Len(expected) = k
       /\ \A i \in 1..k : expected[i] = Http!Dispatch(RequestOf(rs[i]))
  <2>1. \A i \in 1..k : Http!Dispatch(RequestOf(ps[i])) \in ResponseCodes
    BY DispatchCode
  <2>2. QED
    BY <1>8, <1>10, <1>11, <2>1
<1>13. PICK lw \in Nat : lw = Len(w)
  BY LenProperties
<1>14. PICK m \in Nat : m = Http!Min({lw, k}) /\ m <= lw /\ m <= k
  <2>1. Http!Min({lw, k}) = CHOOSE x \in {lw, k} : \A y \in {lw, k} : x <= y
    BY DEF Http!Min
  <2>2. PICK l \in {lw, k} : \A y \in {lw, k} : l <= y
    <3>1. lw <= k \/ k <= lw
      BY <1>8
    <3>2. lw <= lw /\ k <= k
      BY <1>8
    <3>3. QED
      BY <3>1, <3>2
  <2>3. Http!Min({lw, k}) \in {lw, k} /\ \A y \in {lw, k} : Http!Min({lw, k}) <= y
    BY <2>1, <2>2, Zenon
  <2>4. QED
    BY <1>8, <2>3
<1>15. part = SubSeq(w, 1, m)
  BY <1>1, <1>4, <1>12, <1>13, <1>14, Zenon DEF Http!Written
<1>16. Len(part) = m /\ part \in Seq(ResponseCodes) /\ \A i \in 1..m : part[i] = w[i]
  <2>1. /\ 1 \in Nat \ {0} /\ 1 <= m + 1 /\ m <= Len(w) /\ m - 1 + 1 = m
        /\ \A i \in 1..m : 1 + i - 1 = i
    BY <1>13, <1>14
  <2>2. /\ part \in Seq(ResponseCodes) /\ Len(part) = m - 1 + 1
        /\ \A i \in 1..(m - 1 + 1) : part[i] = w[1 + i - 1]
    BY <1>15, <2>1, PartOf
  <2>3. QED
    BY <2>1, <2>2
<1>17. \A i \in 1..m : part[i] = expected[i]
  <2>1. \A i \in 1..m : i \in 1..k /\ i <= Len(w)
    BY <1>8, <1>13, <1>14
  <2>2. QED
    BY <1>7, <1>12, <1>16, <2>1
<1>19. Len(part) <= Len(expected) /\ SubSeq(part, 1, Len(part)) = SubSeq(expected, 1, Len(part))
  <2>1. Len(part) <= Len(expected)
    BY <1>12, <1>14, <1>16
  <2>2. SubSeq(part, 1, Len(part)) = part
    BY <1>16, SubSeqFull
  <2>3. SubSeq(expected, 1, m) = part
    <3>1. /\ 1 \in Nat \ {0} /\ 1 <= m + 1 /\ m <= Len(expected) /\ m - 1 + 1 = m
          /\ \A i \in 1..m : 1 + i - 1 = i
      BY <1>12, <1>14
    <3>2. PICK q : q = SubSeq(expected, 1, m)
      OBVIOUS
    <3>3. /\ q \in Seq(ResponseCodes) /\ Len(q) = m - 1 + 1
          /\ \A i \in 1..(m - 1 + 1) : q[i] = expected[1 + i - 1]
      BY <1>12, <3>1, <3>2, PartOf
    <3>4. Len(q) = m /\ \A i \in 1..m : q[i] = part[i]
      BY <1>17, <3>1, <3>3
    <3>5. q = part
      BY <1>16, <3>3, <3>4, SeqEqual
    <3>6. QED
      BY <3>2, <3>5
  <2>4. QED
    BY <1>16, <2>1, <2>2, <2>3, Zenon
<1>20. QED
  BY <1>19, Zenon DEF Http!IsPrefix

\* Whatever an HTTP peer sends and however it is cut, the plain requests it begins with are
\* answered one by one, in order, each by its servlet, unless a read has ended right behind a
\* request line.
THEOREM SpecAnsweredInOrder == Spec => []AnsweredInOrder
<1>1. Init => HttpIInv
  BY InitHttpIInv
<1>2. HttpIInv /\ [Next]_vars => HttpIInv'
  BY NextHttpIInv
<1>3. HttpIInv => AnsweredInOrder
  BY HttpIInvSays
<1>4. QED
  BY <1>1, <1>2, <1>3, PTL DEF Spec
=============================================================================
