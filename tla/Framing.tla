------------------------------ MODULE Framing ------------------------------
(***************************************************************************)
(* Packets in a stream of bytes: do_send_packet on the one side, and the   *)
(* buffer of a ConnectionInfoTCP on the other.  A header has two bytes     *)
(* here and four in the code.                                              *)
(***************************************************************************)
EXTENDS Naturals, Sequences

CONSTANTS
  Base,      \* the number of values of a byte: 256
  MinLong    \* the length from which header and data are sent apart: 1020

ASSUME FramingAssumption ==
  Base \in Nat \ {0, 1} /\ MinLong \in Nat \ {0}

Byte == 0 .. Base - 1

\* Mutant: the length is not cut to a byte.
MutHeader(p) == <<Len(p), Len(p) \div Base>>

Header(p) == <<Len(p) % Base, Len(p) \div Base>>

\* A packet as bytes, and the calls of send that it takes.
Frame(p)  == Header(p) \o p
Writes(p) == IF Len(p) < MinLong THEN <<Frame(p)>> ELSE <<Header(p), p>>

\* m_buf and m_len of a connection.
Buffers == [buf : Seq(Byte), len : Nat]
Fresh   == [buf |-> <<>>, len |-> 0]

Length(b) == IF Len(b) < 2 THEN 0 ELSE b[1] + Base * b[2]

\* append; the length is only read while it is not known.
Appended(i, bytes) ==
  LET b == i.buf \o bytes
  IN [buf |-> b, len |-> IF i.len = 0 THEN Length(b) ELSE i.len]

HavePacket(i) == Len(i.buf) >= i.len + 2

\* getpacket: the packet and what is left.
Packet(i) == SubSeq(i.buf, 3, i.len + 2)

\* Mutant: update_length without force.
MutRemainder(i) == [i EXCEPT !.buf = SubSeq(@, i.len + 3, Len(@))]

Remainder(i) ==
  LET b == SubSeq(i.buf, i.len + 3, Len(i.buf))
  IN [buf |-> b, len |-> Length(b)]
=============================================================================
