----------------------------- MODULE TinyPbCodec -----------------------------
(***************************************************************************)
(* TinyPbCodeC: the packets of the TinyPB protocol, as encodePbData lays   *)
(* them out and decode finds them in a TcpBuffer.                          *)
(*                                                                         *)
(* An integer is IntLen digits in base Base, the highest first, and signed *)
(* (the code: 4 digits in base 256).  The fixed arrays decode copies names *)
(* to are long enough here.                                                *)
(***************************************************************************)
EXTENDS TcpBuffer, FiniteSets

CONSTANT Base   \* how many values a byte has

PB_START == 2
PB_END   == 3
IntLen   == 2    \* sizeof(int32_t)
Byte     == 0..(Base - 1)

NetInt(n) == <<(n \div Base) % Base, n % Base>>

\* encodePbData, of a message whose msg_req is not empty.  The checksum is 1.
PkLen(m) ==
  2 + 6 * IntLen + Len(m.msg_req) + Len(m.service_full_name) + Len(m.err_info)
    + Len(m.pb_data)

Encoded(m) ==
  <<PB_START>> \o NetInt(PkLen(m))
    \o NetInt(Len(m.msg_req)) \o m.msg_req
    \o NetInt(Len(m.service_full_name)) \o m.service_full_name
    \o NetInt(m.err_code)
    \o NetInt(Len(m.err_info)) \o m.err_info
    \o m.pb_data \o NetInt(1) \o <<PB_END>>

\* Byte i of m_buffer.  What lies outside the vector has any value, x.
At(b, i, x) == IF i \in 0..(Len(b.mem) - 1) THEN b.mem[i + 1] ELSE x

\* getInt32FromNetByte.
IntAt(b, i, x) ==
  LET n == At(b, i, x) * Base + At(b, i + 1, x)
  IN  IF n >= (Base * Base) \div 2 THEN n - Base * Base ELSE n

Bytes(b, i, n, x) == [k \in 1..n |-> At(b, i + k - 1, x)]

\* std::string of a char array: up to the first NUL.
CString(s) == SubSeq(s, 1, Cardinality({k \in DOMAIN s : \A j \in 1..k : s[j] # 0}))

\* Where the packet that begins at i ends, according to its length.
EndOf(b, i, x) == i + IntAt(b, i + 1, x) - 1

\* A start byte and an end byte where the length after it says.
WholePacket(b, i, x) ==
  /\ At(b, i, x) = PB_START /\ i + 1 < b.wr
  /\ EndOf(b, i, x) < b.wr
  /\ At(b, EndOf(b, i, x), x) = PB_END

Starts(b, x) == {i \in b.rd..(b.wr - 1) : WholePacket(b, i, x)}

\* What decode returns: the data, or that it has none, and the buffer.
Undecoded(b) == [decode_succ |-> FALSE, buf |-> b]

\* The length of pb_data.
PbDataLen(pk, ml, nl, el) == pk - nl - ml - el - 2 - 6 * IntLen

\* The fields of the packet in s..e; r is the buffer without it.
Fields(b, s, e, r, x) ==
  LET ml == IntAt(b, s + 1 + IntLen, x)          \* msg_req_len
      mi == s + 1 + 2 * IntLen                   \* msg_req_index
      nl == IntAt(b, mi + ml, x)                 \* service_name_len
      ni == mi + ml + IntLen                     \* service_name_index
      ci == ni + nl                              \* err_code_index
      el == IntAt(b, ci + IntLen, x)             \* err_info_len
      ii == ci + 2 * IntLen                      \* err_info_index
      pk == IntAt(b, s + 1, x)
  IN  IF \/ s + 1 + IntLen >= e \/ ml = 0
         \/ ni >= e \/ nl > pk
         \/ ci + IntLen >= e \/ ii + el >= e
      THEN Undecoded(r)
      ELSE [decode_succ |-> TRUE, buf |-> r,
            msg |-> [msg_req |-> CString(Bytes(b, mi, ml, x)),
                     service_full_name |-> CString(Bytes(b, ni, nl, x)),
                     err_code |-> IntAt(b, ci, x),
                     err_info |-> CString(Bytes(b, ii, el, x)),
                     pb_data |-> Bytes(b, ii + el, PbDataLen(pk, ml, nl, el), x)]]

\* decode: the first whole packet after the read index, whose length is recycled.
\* One result for each value that the bytes outside the vector may have.
Decode(b, x) ==
  IF Starts(b, x) = {} THEN {Undecoded(b)}
  ELSE {Fields(b, s, EndOf(b, s, x), RecycleRead(b, EndOf(b, s, x) + 1 - s), x) :
          s \in {i \in Starts(b, x) : \A j \in Starts(b, x) : i <= j}}

Decoded(b) == Decode(b, 0) \cup Decode(b, PB_END)
=============================================================================
