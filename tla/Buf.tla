---------------------------------- MODULE Buf ----------------------------------
(***************************************************************************)
(* io/buf.cc, ByteBuf: what the calls return and leave behind when nothing *)
(* overlaps with them, and the two stores of a write, for where a read     *)
(* does. ByteBuf has all calls step by step.                               *)
(*                                                                         *)
(* A buffer is [cap, r, bytes]: m_capacity, m_read_index, and the bytes    *)
(* below m_write_index. It is linear: bytes that have been read go on      *)
(* taking up room until clear().                                           *)
(***************************************************************************)
EXTENDS Integers, Sequences

Lesser(m, n) == IF m < n THEN m ELSE n

Readable(b) == Len(b.bytes) - b.r
Writeable(b) == b.cap - Len(b.bytes)
Content(b) == SubSeq(b.bytes, b.r + 1, Len(b.bytes))

\* The buffer after n bytes have been read.
AfterRead(b, n) == [b EXCEPT !.r = @ + n]

\* writeBytes(), one byte of it: the write index goes on, and the byte x in the last slot.
AfterClaim(b, x) == [b EXCEPT !.bytes = Append(@, x)]
AfterStore(b, x) == [b EXCEPT !.bytes = [@ EXCEPT ![Len(@)] = x]]

\* writeBytes() as a whole: as many of the bytes s as there is room for.
WrittenBytes(b, s) == SubSeq(s, 1, Lesser(Len(s), Writeable(b)))
AfterWrite(b, s) == [b EXCEPT !.bytes = @ \o WrittenBytes(b, s)]

Clear(b) == [b EXCEPT !.r = 0, !.bytes = <<>>]
================================================================================
