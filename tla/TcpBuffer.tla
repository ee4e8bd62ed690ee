------------------------------ MODULE TcpBuffer ------------------------------
(***************************************************************************)
(* TcpBuffer: a vector of bytes with a read and a write index.  Indexes    *)
(* count from 0 as in the code: byte i of m_buffer is mem[i + 1].          *)
(***************************************************************************)
EXTENDS Integers, Sequences

\* The constructor: m_buffer.resize(size), zeroes.
NewBuffer(size) == [mem |-> [k \in 1..size |-> 0], rd |-> 0, wr |-> 0]

ReadAble(b)  == b.wr - b.rd
WriteAble(b) == Len(b.mem) - b.wr

\* The bytes still to be read.
Content(b) == SubSeq(b.mem, b.rd + 1, b.wr)

\* The indexes are where the memcpys of the class need them.
InRange(b) == 0 <= b.rd /\ b.rd <= b.wr /\ b.wr <= Len(b.mem)

Zeroes(n) == [k \in 1..n |-> 0]

\* A new vector that begins with the first n readable bytes.  The mutant copies
\* from the beginning of the old one.
MovedFromZero(b, size, n) ==
  [mem |-> SubSeq(b.mem, 1, n) \o Zeroes(size - n), rd |-> 0, wr |-> n]

Moved(b, size, n) ==
  [mem |-> SubSeq(b.mem, b.rd + 1, b.rd + n) \o Zeroes(size - n), rd |-> 0, wr |-> n]

ResizeBuffer(b, size) ==
  Moved(b, size, IF size < ReadAble(b) THEN size ELSE ReadAble(b))

AdjustBuffer(b) ==
  IF b.rd > Len(b.mem) \div 3 THEN Moved(b, Len(b.mem), ReadAble(b)) ELSE b

RecycleRead(b, n) ==
  IF b.rd + n > Len(b.mem) THEN b ELSE AdjustBuffer([b EXCEPT !.rd = @ + n])

RecycleWrite(b, n) ==
  IF b.wr + n > Len(b.mem) THEN b ELSE AdjustBuffer([b EXCEPT !.wr = @ + n])

\* The bytes s are stored from the write index on, which does not move.
Stored(b, s) ==
  [b EXCEPT !.mem = SubSeq(SubSeq(@, 1, b.wr) \o s \o SubSeq(@, b.wr + Len(s) + 1, Len(@)),
                           1, Len(@))]

\* new_size of writeToBuffer.
Grown(b, n) == (3 * (b.wr + n)) \div 2

WriteToBuffer(b, s) ==
  LET c == IF Len(s) > WriteAble(b) THEN ResizeBuffer(b, Grown(b, Len(s))) ELSE b
  IN  [Stored(c, s) EXCEPT !.wr = @ + Len(s)]
=============================================================================
