---------------------------- MODULE TinyPbStream ----------------------------
(***************************************************************************)
(* A stream of TinyPB packets from one TcpConnection to another: the       *)
(* packets are encoded into the write buffer, output() writes as much as   *)
(* the socket takes, input() reads what has arrived, execute() decodes it. *)
(* The coroutine switches of the hooks are in CoroutineScheduler; a write  *)
(* or read that fails, and the end of the connection, in TcpClient and     *)
(* TcpServer.                                                              *)
(***************************************************************************)
EXTENDS TinyPbCodec, SequencesExt

CONSTANTS
  Messages,  \* the messages, in the order they are sent
  BufSize    \* buff_size of both connections

VARIABLES
  sent,       \* how many messages have been encoded
  out_pc,     \* the sender executes, or is in output()
  out_buf,    \* m_write_buffer
  socket,     \* bytes between write and read
  pc,         \* the receiver: in input(), in its read_hook's Yield, in execute()
  in_buf,     \* m_read_buffer
  filled,     \* the last read got as much as it asked for
  received    \* the messages decoded

outVars == <<sent, out_pc, out_buf>>
inVars  == <<pc, in_buf, filled, received>>
vars == <<outVars, socket, inVars>>

TypeOK ==
  /\ sent \in 0..Len(Messages)
  /\ out_pc \in {"execute", "output"}
  /\ pc \in {"input", "reading", "execute"}
  /\ filled \in BOOLEAN
  /\ \A b \in {out_buf, in_buf} : InRange(b) /\ \A k \in DOMAIN b.mem : b.mem[k] \in Byte
  /\ \A k \in DOMAIN socket : socket[k] \in Byte

Init ==
  /\ sent = 0 /\ out_pc = "execute" /\ out_buf = NewBuffer(BufSize)
  /\ socket = <<>>
  /\ pc = "input" /\ in_buf = NewBuffer(BufSize) /\ filled = FALSE /\ received = <<>>

\* encode, by the dispatcher or by sendAndRecvTinyPb.
Encode ==
  /\ out_pc = "execute" /\ sent < Len(Messages)
  /\ out_buf' = WriteToBuffer(out_buf, Encoded(Messages[sent + 1]))
  /\ sent' = sent + 1
  /\ UNCHANGED <<out_pc, socket, inVars>>

StartOutput ==
  /\ out_pc = "execute" /\ ReadAble(out_buf) > 0
  /\ out_pc' = "output"
  /\ UNCHANGED <<sent, out_buf, socket, inVars>>

\* One turn of output(): write_hook takes n bytes.
Output(n) ==
  /\ out_pc = "output" /\ n <= ReadAble(out_buf)
  /\ socket' = socket \o SubSeq(Content(out_buf), 1, n)
  /\ out_buf' = RecycleRead(out_buf, n)
  /\ out_pc' = IF n = ReadAble(out_buf) THEN "execute" ELSE "output"
  /\ UNCHANGED <<sent, inVars>>

\* m_read_buffer when read_hook is called.
ReadInto == IF WriteAble(in_buf) = 0 THEN ResizeBuffer(in_buf, 2 * Len(in_buf.mem)) ELSE in_buf

\* Nothing has arrived yet: read_hook yields.
InputBlocks ==
  /\ pc = "input"
  /\ in_buf' = ReadInto
  /\ pc' = "reading"
  /\ UNCHANGED <<outVars, socket, filled, received>>

\* One turn of the loop of input(): read_hook returns n bytes.  When that is all it
\* asked for, the loop reads again.
Input(n) ==
  /\ pc \in {"input", "reading"}
  /\ n <= Len(socket) /\ n <= WriteAble(ReadInto)
  /\ socket' = SubSeq(socket, n + 1, Len(socket))
  /\ in_buf' = RecycleWrite(Stored(ReadInto, SubSeq(socket, 1, n)), n)
  /\ filled' = (n = WriteAble(ReadInto))
  /\ pc' = IF n = WriteAble(ReadInto) THEN "input" ELSE "execute"
  /\ UNCHANGED <<outVars, received>>

\* Where execute() goes on after decode.  The mutant stops after the first packet.
AfterFirst(succ) == "input"

After(succ) == IF succ THEN "execute" ELSE "input"

\* One turn of execute().
Execute ==
  /\ pc = "execute" /\ ReadAble(in_buf) > 0
  /\ \E d \in Decoded(in_buf) :
       /\ in_buf' = d.buf
       /\ received' = IF d.decode_succ THEN Append(received, d.msg) ELSE received
       /\ pc' = After(d.decode_succ)
  /\ UNCHANGED <<outVars, socket, filled>>

\* Nothing is left to execute.
ExecuteDone ==
  /\ pc = "execute" /\ ReadAble(in_buf) = 0
  /\ pc' = "input"
  /\ UNCHANGED <<outVars, socket, in_buf, filled, received>>

Next ==
  \/ Encode \/ StartOutput \/ InputBlocks \/ Execute \/ ExecuteDone
  \/ \E n \in 1..Len(Content(out_buf)) : Output(n)
  \/ \E n \in 1..Len(socket) : Input(n)

-----------------------------------------------------------------------------
(* Properties                                                              *)

\* A message that decode can give back: its strings have no NUL, and its numbers fit.
NulFree(s) == \A k \in DOMAIN s : s[k] # 0

WellFormed(m) ==
  /\ m \in [msg_req : Seq(Byte) \ {<<>>}, service_full_name : Seq(Byte),
            err_code : (-((Base * Base) \div 2))..((Base * Base) \div 2 - 1),
            err_info : Seq(Byte), pb_data : Seq(Byte)]
  /\ NulFree(m.msg_req) /\ NulFree(m.service_full_name) /\ NulFree(m.err_info)
  /\ PkLen(m) < (Base * Base) \div 2

\* A start byte of the packet p, taken with the length behind it, is never the beginning
\* of a shorter packet: decode would find that one when p has come in part.
NoPacketInside(p) ==
  \A i \in 1..(Len(p) - 2) :
    LET n == (p[i + 1] * Base) + p[i + 2]
    IN  p[i] = PB_START =>
          /\ p[i + 1] < Base \div 2
          /\ n = 0 \/ i + n - 1 >= Len(p) \/ p[i + n - 1] # PB_END

ProperMessages ==
  \A i \in DOMAIN Messages : WellFormed(Messages[i]) /\ NoPacketInside(Encoded(Messages[i]))

Packets(ms) == FlattenSeq([i \in DOMAIN ms |-> Encoded(ms[i])])

\* No byte is lost, repeated or out of place, however the stream is cut: what was
\* decoded, what waits in the read buffer, the socket and the write buffer are the
\* packets sent.
BytesConserved ==
  Packets(received) \o Content(in_buf) \o socket \o Content(out_buf)
    = Packets(SubSeq(Messages, 1, sent))

\* The next packet is whole in the read buffer while the coroutine waits for more only
\* after a read that filled the buffer.
WaitsOnlyWhenFilled ==
  pc = "reading" /\ Len(received) < Len(Messages)
  /\ ReadAble(in_buf) >= PkLen(Messages[Len(received) + 1]) => filled
=============================================================================
