-------------------------- MODULE Transport_proofs --------------------------
(***************************************************************************)
(* The server finds every connection that is ready and every client that   *)
(* reports, packets arrive as they were sent, and a client knows what the  *)
(* run control thinks of it: for every number of connections, every mishap *)
(* and every bound.                                                        *)
(***************************************************************************)
EXTENDS Transport, SequenceTheorems, TLAPS, FiniteSetTheorems

-----------------------------------------------------------------------------
(***************************************************************************)
(* Framing: packets survive the stream of bytes, for every base of the     *)
(* header and however the bytes arrive.                                    *)
(***************************************************************************)
USE FramingAssumption

\* The two bytes of the header give the length back.
LEMMA Digits ==
  ASSUME NEW n \in Nat
  PROVE  /\ n % Base \in Byte
         /\ n = (n % Base) + Base * (n \div Base)
         /\ n < Base * Base => n \div Base \in Byte
<1> USE DEF Byte
<1> DEFINE q == n \div Base
           r == n % Base
<1>1. q \in Nat /\ r \in Byte OBVIOUS
<1>2. n = Base * q + r OBVIOUS
<1>3. ASSUME n < Base * Base PROVE q < Base
  <2> HIDE DEF q, r
  <2> SUFFICES ASSUME q >= Base PROVE FALSE BY <1>1
  <2>1. PICK k \in Nat : q = Base + k BY <1>1
  <2>2. Base * q = Base * Base + Base * k BY <2>1
  <2>3. Base * k >= 0 /\ Base * k \in Int BY <2>1
  <2> QED BY <1>1, <1>2, <1>3, <2>2, <2>3
<1> QED BY <1>1, <1>2, <1>3

\* It does not matter how the bytes are cut: what a connection holds depends
\* on all that arrived (ConnectionInfoTCP::append, TransportTCP.cc:167).
THEOREM PiecesDoNotMatter ==
  ASSUME NEW a \in Seq(Byte), NEW b \in Seq(Byte)
  PROVE  Appended(Appended(Fresh, a), b) = Appended(Fresh, a \o b)
<1>1. Appended(Fresh, a) = [buf |-> a, len |-> Length(a)] BY DEF Appended, Fresh
<1>2. Appended(Fresh, a \o b) = [buf |-> a \o b, len |-> Length(a \o b)] BY DEF Appended, Fresh
<1>3. Length(a) # 0 => Length(a \o b) = Length(a)
  <2> SUFFICES ASSUME Length(a) # 0 PROVE Length(a \o b) = Length(a) OBVIOUS
  <2>1. Len(a) >= 2 BY DEF Length
  <2>2. Len(a \o b) >= 2 /\ (a \o b)[1] = a[1] /\ (a \o b)[2] = a[2] BY <2>1
  <2> QED BY <2>1, <2>2 DEF Length
<1> QED BY <1>1, <1>2, <1>3 DEF Appended

\* A packet that was written is read as it was, and what follows it is then
\* as if it had come first: so are all packets, one after the other.
THEOREM RoundTrip ==
  ASSUME NEW p \in Seq(Byte), 0 < Len(p), Len(p) < Base * Base, NEW rest \in Seq(Byte)
  PROVE  LET i == Appended(Fresh, (Header(p) \o p) \o rest)
         IN /\ HavePacket(i) /\ Packet(i) = p
            /\ Remainder(i) = Appended(Fresh, rest)
<1> DEFINE s == (Header(p) \o p) \o rest
           i == Appended(Fresh, s)
<1> DEFINE lo == Len(p) % Base
           hi == Len(p) \div Base
           h == <<lo, hi>>
<1>0. lo \in Byte /\ hi \in Byte /\ Len(p) = lo + Base * hi
  BY Digits, LenProperties
<1> HIDE DEF lo, hi
<1>1. Header(p) = h BY DEF Header, lo, hi
<1>2. h \in Seq(Byte) /\ Len(h) = 2 /\ h[1] = lo /\ h[2] = hi BY <1>0
<1> HIDE DEF h
<1>3. s = (h \o p) \o rest BY <1>1
<1> HIDE DEF s
<1>4. /\ s \in Seq(Byte) /\ Len(s) = 2 + Len(p) + Len(rest)
      /\ s[1] = lo /\ s[2] = hi
      /\ \A k \in 1 .. Len(p) : s[k + 2] = p[k]
      /\ \A k \in 1 .. Len(rest) : s[k + 2 + Len(p)] = rest[k]
  <2>1. /\ h \o p \in Seq(Byte) /\ Len(h \o p) = 2 + Len(p)
        /\ \A k \in 1 .. 2 + Len(p) : (h \o p)[k] = IF k <= 2 THEN h[k] ELSE p[k - 2]
    <3>1. /\ h \o p \in Seq(Byte) /\ Len(h \o p) = Len(h) + Len(p)
          /\ \A k \in 1 .. Len(h) + Len(p) :
               (h \o p)[k] = IF k <= Len(h) THEN h[k] ELSE p[k - Len(h)]
      BY <1>2, ConcatProperties
    <3> QED BY <1>2, <3>1
  <2>2. /\ s \in Seq(Byte) /\ Len(s) = 2 + Len(p) + Len(rest)
        /\ \A k \in 1 .. 2 + Len(p) + Len(rest) :
             s[k] = IF k <= 2 + Len(p) THEN (h \o p)[k] ELSE rest[k - (2 + Len(p))]
    <3> DEFINE t == h \o p
    <3>1. t \in Seq(Byte) /\ Len(t) = 2 + Len(p) BY <2>1
    <3> HIDE DEF t
    <3>2. /\ t \o rest \in Seq(Byte) /\ Len(t \o rest) = Len(t) + Len(rest)
          /\ \A k \in 1 .. Len(t) + Len(rest) :
               (t \o rest)[k] = IF k <= Len(t) THEN t[k] ELSE rest[k - Len(t)]
      <4>1. /\ t \o rest \in Seq(Byte) /\ Len(t \o rest) = Len(t) + Len(rest)
        BY <3>1, ConcatProperties
      <4>2. ASSUME NEW k \in 1 .. Len(t) + Len(rest)
            PROVE  (t \o rest)[k] = IF k <= Len(t) THEN t[k] ELSE rest[k - Len(t)]
        BY <3>1, <4>2, ConcatProperties
      <4> QED BY <4>1, <4>2
    <3> QED BY <1>3, <3>1, <3>2 DEF t
  <2>3. Len(p) \in Nat /\ Len(rest) \in Nat BY LenProperties
  <2>4. s[1] = lo /\ s[2] = hi BY <1>2, <2>1, <2>2, <2>3
  <2>5. \A k \in 1 .. Len(p) : s[k + 2] = p[k] BY <2>1, <2>2, <2>3
  <2>6. \A k \in 1 .. Len(rest) : s[k + 2 + Len(p)] = rest[k] BY <2>2, <2>3
  <2> QED BY <2>2, <2>4, <2>5, <2>6
<1>5. i = [buf |-> s, len |-> Len(p)]
  <2>1. Length(s) = Len(p) BY <1>0, <1>4 DEF Length
  <2>2. <<>> \o s = s BY <1>4, ConcatEmptySeq
  <2> QED BY <2>1, <2>2 DEF Appended, Fresh
<1> HIDE DEF i
<1>6. HavePacket(i) BY <1>4, <1>5 DEF HavePacket
<1>7. Packet(i) = p
  <2> DEFINE t == SubSeq(s, 3, Len(p) + 2)
  <2>1. Packet(i) = t BY <1>5 DEF Packet
  <2>2. Len(p) \in Nat /\ \A k \in 3 .. Len(p) + 2 : s[k] \in Byte
    BY <1>4, LenProperties, ElementOfSeq
  <2>3. /\ t \in Seq(Byte) /\ Len(t) = Len(p)
        /\ \A k \in 1 .. Len(p) : t[k] = s[k + 2]
    BY <2>2, SubSeqProperties
  <2> HIDE DEF t
  <2>4. t = p BY <1>4, <2>3, SeqEqual
  <2> QED BY <2>1, <2>4
<1>8. Remainder(i) = Appended(Fresh, rest)
  <2> DEFINE t == SubSeq(s, Len(p) + 3, Len(s))
  <2>1. Remainder(i) = [buf |-> t, len |-> Length(t)] BY <1>5 DEF Remainder
  <2>2. /\ Len(p) \in Nat /\ Len(rest) \in Nat
        /\ \A k \in Len(p) + 3 .. Len(s) : s[k] \in Byte
    BY <1>4, LenProperties, ElementOfSeq
  <2>3. /\ t \in Seq(Byte) /\ Len(t) = Len(rest)
        /\ \A k \in 1 .. Len(rest) : t[k] = s[k + 2 + Len(p)]
    BY <1>4, <2>2, SubSeqProperties
  <2> HIDE DEF t
  <2>4. t = rest BY <1>4, <2>3, SeqEqual
  <2>5. <<>> \o rest = rest BY ConcatEmptySeq
  <2> QED BY <2>1, <2>4, <2>5 DEF Appended, Fresh
<1> QED BY <1>6, <1>7, <1>8 DEF i, s
-----------------------------------------------------------------------------
(***************************************************************************)
(* Streams of packets: what is left of the stream before each packet, and  *)
(* nothing after the last.                                                 *)
(***************************************************************************)
Sized(i) == i.len = Length(i.buf)
Sendable == {p \in Seq(Byte) : 0 < Len(p) /\ Len(p) < Base * Base}

Framed(s, ps) ==
  \E f \in [0 .. Len(ps) -> Seq(Byte)] :
    /\ f[0] = s /\ f[Len(ps)] = <<>>
    /\ \A i \in 1 .. Len(ps) : f[i - 1] = Frame(ps[i]) \o f[i]

\* A packet that fits has a header, and is bytes with it.
LEMMA FrameIs ==
  ASSUME NEW p \in Sendable
  PROVE  p \in Seq(Byte) /\ Len(p) \in Nat /\ Header(p) \in Seq(Byte) /\ Frame(p) \in Seq(Byte)
<1>1. p \in Seq(Byte) /\ Len(p) \in Nat /\ Len(p) < Base * Base BY LenProperties DEF Sendable
<1>2. Len(p) % Base \in Byte /\ Len(p) \div Base \in Byte BY <1>1, Digits
<1>3. Header(p) \in Seq(Byte) BY <1>2 DEF Header
<1> QED BY <1>1, <1>3 DEF Frame

\* Three parts of a stream, grouped one way or the other.
LEMMA Regroup ==
  ASSUME NEW a \in Seq(Byte), NEW b \in Seq(Byte), NEW c \in Seq(Byte)
  PROVE  (a \o b) \o c = a \o (b \o c)
BY ConcatAssociative

\* The empty stream holds no packets.
LEMMA FramedNothing == Framed(<<>>, <<>>)
<1> DEFINE f == [i \in 0 .. 0 |-> <<>>]
<1>1. f \in [0 .. 0 -> Seq(Byte)] /\ f[0] = <<>>
  <2>1. <<>> \in Seq(Byte) BY EmptySeq
  <2> QED BY <2>1
<1>2. Len(<<>>) = 0 OBVIOUS
<1> HIDE DEF f
<1> QED BY <1>1, <1>2 DEF Framed

\* One packet more is written at the end.
LEMMA FramedAppend ==
  ASSUME NEW s \in Seq(Byte), NEW ps \in Seq(Sendable), NEW p \in Sendable, Framed(s, ps)
  PROVE  Framed(s \o Frame(p), Append(ps, p))
<1>1. PICK n \in Nat, t \in Seq(Byte) : n = Len(ps) /\ t = Frame(p) BY FrameIs, LenProperties
<1>2. PICK f \in [0 .. n -> Seq(Byte)] :
        /\ f[0] = s /\ f[n] = <<>>
        /\ \A i \in 1 .. n : f[i - 1] = Frame(ps[i]) \o f[i]
  BY <1>1 DEF Framed
<1> DEFINE g == [i \in 0 .. n + 1 |-> IF i <= n THEN f[i] \o t ELSE <<>>]
<1>3. \A i \in 0 .. n : f[i] \in Seq(Byte) /\ f[i] \o t \in Seq(Byte)
  <2> SUFFICES ASSUME NEW i \in 0 .. n PROVE f[i] \in Seq(Byte) /\ f[i] \o t \in Seq(Byte) OBVIOUS
  <2>1. f[i] \in Seq(Byte) BY <1>2
  <2> QED BY <2>1, ConcatProperties
<1>4. /\ Len(Append(ps, p)) = n + 1 /\ Append(ps, p)[n + 1] = p
      /\ \A i \in 1 .. n : Append(ps, p)[i] = ps[i] /\ ps[i] \in Sendable
  BY <1>1, AppendProperties, ElementOfSeq
<1>5. t \o <<>> = t /\ <<>> \o t = t BY ConcatEmptySeq
<1>6. \A i \in 1 .. n : f[i - 1] \o t = Frame(ps[i]) \o (f[i] \o t)
  <2> SUFFICES ASSUME NEW i \in 1 .. n PROVE f[i - 1] \o t = Frame(ps[i]) \o (f[i] \o t) OBVIOUS
  <2>1. i \in 0 .. n OBVIOUS
  <2>2. Frame(ps[i]) \in Seq(Byte) /\ f[i] \in Seq(Byte) BY <1>3, <1>4, <2>1, FrameIs
  <2>3. f[i - 1] = Frame(ps[i]) \o f[i] BY <1>2
  <2>4. PICK a \in Seq(Byte), b \in Seq(Byte) : a = Frame(ps[i]) /\ b = f[i] BY <2>2
  <2>5. (a \o b) \o t = a \o (b \o t) BY Regroup
  <2> QED BY <2>3, <2>4, <2>5
<1>7. \A i \in 0 .. n : g[i] = f[i] \o t OBVIOUS
<1>8. g[n + 1] = <<>> OBVIOUS
<1>9. g \in [0 .. n + 1 -> Seq(Byte)] BY <1>3, EmptySeq
<1> HIDE DEF g
<1>10. g[0] = s \o t
  <2>1. 0 \in 0 .. n OBVIOUS
  <2> QED BY <1>2, <1>7, <2>1
<1>11. ASSUME NEW i \in 1 .. n + 1 PROVE g[i - 1] = Frame(Append(ps, p)[i]) \o g[i]
  <2>1. CASE i \in 1 .. n
    <3>1. i \in 0 .. n /\ i - 1 \in 0 .. n BY <2>1
    <3>2. g[i - 1] = f[i - 1] \o t /\ g[i] = f[i] \o t BY <1>7, <3>1
    <3> QED BY <1>4, <1>6, <2>1, <3>2
  <2>2. CASE i = n + 1
    <3>1. i - 1 = n /\ n \in 0 .. n BY <2>2
    <3>2. g[i - 1] = <<>> \o t BY <1>2, <1>7, <3>1
    <3> QED BY <1>1, <1>4, <1>5, <1>8, <2>2, <3>2
  <2>3. i \in 1 .. n \/ i = n + 1 OBVIOUS
  <2> QED BY <2>1, <2>2, <2>3
<1> QED BY <1>1, <1>4, <1>8, <1>9, <1>10, <1>11 DEF Framed

\* A stream that is not empty begins with its first packet.
LEMMA FramedTail ==
  ASSUME NEW s \in Seq(Byte), s # <<>>, NEW ps \in Seq(Sendable), Framed(s, ps)
  PROVE  /\ ps # <<>> /\ Head(ps) \in Sendable /\ Tail(ps) \in Seq(Sendable)
         /\ \E r \in Seq(Byte) : s = Frame(Head(ps)) \o r /\ Framed(r, Tail(ps))
<1>1. PICK n \in Nat : n = Len(ps) BY LenProperties
<1>2. PICK f \in [0 .. n -> Seq(Byte)] :
        /\ f[0] = s /\ f[n] = <<>>
        /\ \A i \in 1 .. n : f[i - 1] = Frame(ps[i]) \o f[i]
  BY <1>1 DEF Framed
<1> DEFINE g == [i \in 0 .. n - 1 |-> f[i + 1]]
<1>3. ps # <<>> /\ n > 0
  <2>1. n # 0 BY <1>2
  <2> QED BY <1>1, <2>1, EmptySeq
<1>4. /\ Head(ps) \in Sendable /\ Head(ps) = ps[1] /\ Tail(ps) \in Seq(Sendable) /\ Len(Tail(ps)) = n - 1
      /\ \A i \in 1 .. n - 1 : Tail(ps)[i] = ps[i + 1]
  BY <1>1, <1>3, HeadTailProperties, ElementOfSeq
<1>5. \A i \in 1 .. n : f[i] \in Seq(Byte) BY <1>2
<1>6. f[1] \in Seq(Byte) /\ s = Frame(Head(ps)) \o f[1]
  <2>1. 1 \in 1 .. n /\ 1 - 1 = 0 BY <1>3
  <2>2. f[1 - 1] = Frame(ps[1]) \o f[1] BY <1>2, <2>1
  <2> QED BY <1>2, <1>4, <1>5, <2>1, <2>2
<1>7. \A i \in 0 .. n - 1 : g[i] = f[i + 1] OBVIOUS
<1>8. g \in [0 .. n - 1 -> Seq(Byte)] BY <1>5
<1> HIDE DEF g
<1>9. g[0] = f[1] /\ g[n - 1] = <<>>
  <2>1. 0 \in 0 .. n - 1 /\ n - 1 \in 0 .. n - 1 /\ n - 1 + 1 = n /\ 0 + 1 = 1 BY <1>3
  <2> QED BY <1>2, <1>7, <2>1
<1>10. ASSUME NEW i \in 1 .. n - 1 PROVE g[i - 1] = Frame(Tail(ps)[i]) \o g[i]
  <2>1. /\ i \in 0 .. n - 1 /\ i - 1 \in 0 .. n - 1 /\ i + 1 \in 1 .. n
        /\ i - 1 + 1 = i /\ i + 1 - 1 = i
    OBVIOUS
  <2>2. g[i - 1] = f[i] /\ g[i] = f[i + 1] BY <1>7, <2>1
  <2>3. f[i] = Frame(ps[i + 1]) \o f[i + 1]
    <3>1. PICK j \in 1 .. n : j = i + 1 BY <2>1
    <3>2. f[j - 1] = Frame(ps[j]) \o f[j] BY <1>2
    <3>3. j - 1 = i BY <3>1
    <3> QED BY <3>1, <3>2, <3>3
  <2> QED BY <1>4, <2>1, <2>2, <2>3
<1>11. Framed(f[1], Tail(ps)) BY <1>4, <1>8, <1>9, <1>10 DEF Framed
<1> QED BY <1>3, <1>4, <1>6, <1>11

\* A stream is cut at the same place whether or not more of it has arrived.
LEMMA CutOff ==
  ASSUME NEW a \in Seq(Byte), NEW x \in Seq(Byte), NEW m \in 1 .. Len(a)
  PROVE  /\ SubSeq(a \o x, 3, m) = SubSeq(a, 3, m)
         /\ SubSeq(a, m + 1, Len(a)) \in Seq(Byte)
         /\ SubSeq(a, m + 1, Len(a)) \o x = SubSeq(a \o x, m + 1, Len(a \o x))
<1>1. PICK u \in Seq(Byte) : u = a \o x /\ Len(u) = Len(a) + Len(x) BY ConcatProperties
<1>2. Len(a) \in Nat /\ Len(x) \in Nat /\ Len(u) \in Nat /\ Len(u) >= Len(a) BY <1>1, LenProperties
<1>3. SubSeq(a \o x, 3, m) = SubSeq(a, 3, m)
  <2>1. CASE m < 3
    <3>1. SubSeq(a \o x, 3, m) = <<>> /\ SubSeq(a, 3, m) = <<>> BY <2>1, SubSeqEmpty
    <3> QED BY <3>1
  <2>2. CASE m >= 3
    <3>1. 3 \in 1 .. Len(a) /\ m \in 1 .. Len(a) BY <1>2, <2>2
    <3> QED BY <3>1, SubSeqOfConcat1
  <2> QED BY <2>1, <2>2
<1>4. PICK h \in Seq(Byte), b \in Seq(Byte) : h = SubSeq(a, 1, m) /\ b = SubSeq(a, m + 1, Len(a))
  <2>1. \A k \in 1 .. Len(a) : a[k] \in Byte BY ElementOfSeq
  <2>2. (\A k \in 1 .. m : a[k] \in Byte) /\ (\A k \in m + 1 .. Len(a) : a[k] \in Byte) BY <1>2, <2>1
  <2>3. SubSeq(a, 1, m) \in Seq(Byte) /\ SubSeq(a, m + 1, Len(a)) \in Seq(Byte)
    BY <1>2, <2>2, SubSeqProperties
  <2> QED BY <2>3
<1>5. (h \o b) \o x = h \o (b \o x) BY Regroup
<1>6. h \o b = a
  <2>1. 1 \in 1 .. Len(a) + 1 /\ m \in 1 - 1 .. Len(a) /\ Len(a) \in m .. Len(a) BY <1>2
  <2>2. SubSeq(a, 1, m) \o SubSeq(a, m + 1, Len(a)) = SubSeq(a, 1, Len(a))
    BY <2>1, ConcatAdjacentSubSeq
  <2> QED BY <1>4, <2>2, SubSeqFull
<1>7. PICK r \in Seq(Byte) : r = SubSeq(u, m + 1, Len(u))
  <2>1. \A k \in 1 .. Len(u) : u[k] \in Byte BY ElementOfSeq
  <2>2. \A k \in m + 1 .. Len(u) : u[k] \in Byte BY <1>2, <2>1
  <2>3. SubSeq(u, m + 1, Len(u)) \in Seq(Byte) BY <1>2, <2>2, SubSeqProperties
  <2> QED BY <2>3
<1>8. h \o r = u
  <2>1. 1 \in 1 .. Len(u) + 1 /\ m \in 1 - 1 .. Len(u) /\ Len(u) \in m .. Len(u) BY <1>2
  <2>2. SubSeq(u, 1, m) \o SubSeq(u, m + 1, Len(u)) = SubSeq(u, 1, Len(u))
    BY <2>1, ConcatAdjacentSubSeq
  <2>3. 1 \in 1 .. Len(a) /\ m \in 1 .. Len(a) BY <1>2
  <2>4. SubSeq(u, 1, m) = h BY <1>1, <1>4, <2>3, SubSeqOfConcat1
  <2> QED BY <1>7, <2>2, <2>4, SubSeqFull
<1>9. PICK y \in Seq(Byte) : y = b \o x BY ConcatProperties
<1>10. h \o y = h \o r
  BY <1>1, <1>6, <1>8, <1>9, <1>5
<1>11. y = r
  <2>1. \A s, t, v \in Seq(Byte) : s \o t = s \o v => t = v BY ConcatSimplifications
  <2> QED BY <1>10, <2>1
<1> QED BY <1>1, <1>3, <1>4, <1>7, <1>9, <1>11

\* A buffer that holds a packet holds the first of its stream, whatever of the
\* stream has arrived behind it, and is left with what follows it.
Takes(i, x, p, r) ==
  Packet(i) = p /\ Remainder(i).buf \in Seq(Byte) /\ Remainder(i).buf \o x = r

\* If a packet is complete, the reader takes the first one of the stream and keeps the rest.
LEMMA TakesFirst ==
  ASSUME NEW i \in Buffers, Sized(i), HavePacket(i),
         NEW x \in Seq(Byte), NEW p \in Sendable, NEW r \in Seq(Byte), i.buf \o x = Frame(p) \o r
  PROVE  Takes(i, x, p, r)
<1>1. PICK a \in Seq(Byte), n \in Nat : a = i.buf /\ n = i.len BY DEF Buffers
<1>2. PICK u \in Seq(Byte) :
        /\ u = a \o x /\ u = Frame(p) \o r /\ Len(u) = Len(a) + Len(x)
        /\ \A k \in 1 .. Len(a) : u[k] = a[k]
  <2>1. /\ a \o x \in Seq(Byte) /\ Len(a \o x) = Len(a) + Len(x)
        /\ \A k \in 1 .. Len(a) + Len(x) : (a \o x)[k] = IF k <= Len(a) THEN a[k] ELSE x[k - Len(a)]
    BY ConcatProperties
  <2>2. Len(a) \in Nat /\ Len(x) \in Nat BY LenProperties
  <2>3. \A k \in 1 .. Len(a) : (a \o x)[k] = a[k] BY <2>1, <2>2
  <2> QED BY <1>1, <2>1, <2>3
<1>3. Len(a) \in Nat /\ Len(x) \in Nat /\ Len(a) >= n + 2 /\ Length(a) = n
  BY <1>1, LenProperties DEF HavePacket, Sized
<1>4. Length(u) = n
  <2>1. Len(a) >= 2 /\ 1 \in 1 .. Len(a) /\ 2 \in 1 .. Len(a) BY <1>3
  <2>2. Len(u) >= 2 BY <1>2, <1>3
  <2>3. u[1] = a[1] /\ u[2] = a[2] BY <1>2, <2>1
  <2> QED BY <1>3, <2>1, <2>2, <2>3 DEF Length
<1>5. Appended(Fresh, u) = [buf |-> u, len |-> n]
  <2>1. <<>> \o u = u BY ConcatEmptySeq
  <2> QED BY <1>4, <2>1 DEF Appended, Fresh
<1>6. PICK j : j = Appended(Fresh, u) /\ Packet(j) = p /\ Remainder(j) = Appended(Fresh, r)
  <2>1. p \in Seq(Byte) /\ 0 < Len(p) /\ Len(p) < Base * Base BY DEF Sendable
  <2>2. u = (Header(p) \o p) \o r BY <1>2 DEF Frame
  <2> QED BY <2>1, <2>2, RoundTrip
<1>7. p = SubSeq(u, 3, n + 2) /\ r = SubSeq(u, n + 3, Len(u))
  <2>1. <<>> \o r = r BY ConcatEmptySeq
  <2>2. j.buf = u /\ j.len = n BY <1>5, <1>6
  <2>3. Packet(j) = SubSeq(u, 3, n + 2) /\ Remainder(j).buf = SubSeq(u, n + 3, Len(u))
    BY <2>2 DEF Packet, Remainder
  <2> QED BY <1>6, <2>1, <2>3 DEF Appended, Fresh
<1>8. Packet(i) = SubSeq(a, 3, n + 2) /\ Remainder(i).buf = SubSeq(a, n + 3, Len(a))
  BY <1>1 DEF Packet, Remainder
<1>9. PICK m \in 1 .. Len(a) : m = n + 2 /\ m + 1 = n + 3 BY <1>3
<1>10. /\ SubSeq(u, 3, m) = SubSeq(a, 3, m)
       /\ SubSeq(a, m + 1, Len(a)) \in Seq(Byte)
       /\ SubSeq(a, m + 1, Len(a)) \o x = SubSeq(u, m + 1, Len(u))
  <2>1. /\ SubSeq(a \o x, 3, m) = SubSeq(a, 3, m)
        /\ SubSeq(a, m + 1, Len(a)) \in Seq(Byte)
        /\ SubSeq(a, m + 1, Len(a)) \o x = SubSeq(a \o x, m + 1, Len(a \o x))
    BY CutOff, Zenon
  <2> QED BY <1>2, <2>1, Zenon
<1> QED BY <1>7, <1>8, <1>9, <1>10 DEF Takes

HIDE FramingAssumption
USE DEF clientVars, serverVars, threadVars, callVars, histVars, vars

-----------------------------------------------------------------------------
(***************************************************************************)
(* Numbers, packets and streams.                                           *)
(***************************************************************************)
\* The smallest of a set of numbers: a descriptor, a slot, an owner.
LEMMA MinExists ==
  ASSUME NEW S \in SUBSET Nat, S # {}
  PROVE  Min(S) \in S /\ \A y \in S : Min(S) <= y
<1>1. PICK m \in S : TRUE OBVIOUS
<1> DEFINE T == {0 .. n : n \in {k \in S : k <= m}}
<1>2. T \subseteq SUBSET (0 .. m) /\ T # {} BY <1>1
<1>3. IsWellFoundedOn(StrictSubsetOrdering(0 .. m), SUBSET (0 .. m))
  <2>1. IsFiniteSet(0 .. m) BY <1>1, FS_Interval
  <2>2. FiniteSubsetsOf(0 .. m) = SUBSET (0 .. m) BY <2>1, FS_Subset DEF FiniteSubsetsOf
  <2> QED BY <2>1, <2>2, FS_StrictSubsetOrderingWellFounded
<1> HIDE DEF T
<1>4. PICK t \in T : \A u \in T : <<u, t>> \notin StrictSubsetOrdering(0 .. m)
  BY <1>2, <1>3, WFMin
<1>5. PICK x \in S : x <= m /\ t = 0 .. x BY <1>4 DEF T
<1>6. ASSUME NEW y \in S, y < x PROVE FALSE
  <2>1. 0 .. y \in T BY <1>1, <1>5, <1>6 DEF T
  <2>2. 0 .. y \subseteq 0 .. x /\ x \in 0 .. x /\ x \notin 0 .. y BY <1>5, <1>6
  <2>3. <<0 .. y, t>> \in StrictSubsetOrdering(0 .. m)
    BY <1>2, <1>4, <1>5, <2>1, <2>2 DEF StrictSubsetOrdering
  <2> QED BY <1>4, <2>1, <2>3
<1>7. \A y \in S : x <= y BY <1>6
<1> QED BY <1>7 DEF Min

\* The packets, and their bytes on the wire.
Words == {Greeting, OK, Refusal, Start, Config, Ident, Status}

\* The packets of the protocol are short strings of bytes.
LEMMA WordsFit ==
  /\ Words \subseteq Seq(Byte)
  /\ \A p \in Words : /\ 0 < Len(p) /\ Len(p) < Base * Base
                      /\ Header(p) \in Seq(Byte) /\ Frame(p) \in Seq(Byte)
<1>1. {0, 1, 2, 3} \subseteq Byte BY TransportAssumption, FramingAssumption DEF Byte
<1>2. ASSUME NEW p \in Words PROVE p \in Seq(Byte) /\ Len(p) \in 1 .. 4
  <2>1. ASSUME NEW x \in {0, 1, 2}, p = <<x>> PROVE p \in Seq(Byte) /\ Len(p) \in 1 .. 4
    BY <1>1, <2>1
  <2>2. ASSUME NEW x \in {0, 3}, NEW y \in {0, 1}, p = <<x, y>>
        PROVE  p \in Seq(Byte) /\ Len(p) \in 1 .. 4
    BY <1>1, <2>2
  <2>3. CASE p = <<3, 0, 0>> BY <1>1, <2>3
  <2>4. CASE p = <<1, 0, 0, 0>> BY <1>1, <2>4
  <2> QED BY <1>2, <2>1, <2>2, <2>3, <2>4
     DEF Words, Greeting, OK, Refusal, Start, Config, Ident, Status
<1>3. Base * Base > 4
  <2>1. PICK k \in Nat : Base = 4 + k
    <3>1. Base - 4 \in Nat /\ Base = 4 + (Base - 4) BY TransportAssumption, FramingAssumption
    <3> QED BY <3>1
  <2>2. Base * Base = 16 + 8 * k + k * k BY <2>1
  <2>3. k * k \in Nat BY <2>1
  <2> QED BY <2>1, <2>2, <2>3
<1>a. ASSUME NEW p \in Words PROVE Len(p) \in Nat /\ 0 < Len(p) /\ Len(p) < Base * Base
  <2>1. PICK n \in {1, 2, 3, 4} : Len(p) = n BY <1>2
  <2>2. n < Base * Base
    <3>1. \A sq \in Int : sq > 4 => n < sq OBVIOUS
    <3>2. Base * Base \in Int BY FramingAssumption
    <3> QED BY <1>3, <3>1, <3>2
  <2> QED BY <2>1, <2>2
<1>4. ASSUME NEW p \in Words PROVE Header(p) \in Seq(Byte)
  <2>2. Len(p) % Base \in Byte /\ Len(p) \div Base \in Byte BY <1>4, <1>a, Digits
  <2> QED BY <2>2 DEF Header
<1>5. ASSUME NEW p \in Words PROVE Frame(p) \in Seq(Byte)
  BY <1>2, <1>4 DEF Frame
<1> QED BY <1>2, <1>a, <1>4, <1>5

\* What is read of a stream, and what is left of it.
LEMMA Cuts ==
  ASSUME NEW s \in Seq(Byte), NEW n \in 1 .. Len(s)
  PROVE  /\ SubSeq(s, 1, n) \in Seq(Byte) /\ Drop(s, n) \in Seq(Byte)
         /\ Len(SubSeq(s, 1, n)) = n /\ Len(Drop(s, n)) = Len(s) - n
         /\ SubSeq(s, 1, n)[1] = s[1]
         /\ SubSeq(s, 1, n) \o Drop(s, n) = s
<1>0. Len(s) \in Nat /\ \A i \in 1 .. Len(s) : s[i] \in Byte BY ElementOfSeq, LenProperties
<1> DEFINE a == SubSeq(s, 1, n)
           b == SubSeq(s, n + 1, Len(s))
<1>1. /\ a \in Seq(Byte) /\ Len(a) = n /\ \A i \in 1 .. n : a[i] = s[i]
  BY <1>0, SubSeqProperties
<1>2. /\ b \in Seq(Byte) /\ Len(b) = Len(s) - n /\ \A i \in 1 .. Len(s) - n : b[i] = s[n + i]
  <2>1. \A i \in n + 1 .. Len(s) : s[i] \in Byte BY <1>0
  <2>2. n + 1 \in Int /\ Len(s) \in Int BY <1>0
  <2>3. /\ b \in Seq(Byte) /\ Len(b) = IF n + 1 <= Len(s) THEN Len(s) - (n + 1) + 1 ELSE 0
        /\ \A i \in 1 .. Len(s) - (n + 1) + 1 : b[i] = s[n + 1 + i - 1]
    BY <2>1, <2>2, SubSeqProperties
  <2> QED BY <1>0, <2>3
<1> HIDE DEF a, b
<1>3. /\ a \o b \in Seq(Byte) /\ Len(a \o b) = Len(s)
      /\ \A i \in 1 .. Len(s) : (a \o b)[i] = IF i <= n THEN a[i] ELSE b[i - n]
  <2>1. /\ a \o b \in Seq(Byte) /\ Len(a \o b) = Len(a) + Len(b)
        /\ \A i \in 1 .. Len(a) + Len(b) : (a \o b)[i] = IF i <= Len(a) THEN a[i] ELSE b[i - Len(a)]
    BY <1>1, <1>2, ConcatProperties
  <2> QED BY <1>0, <1>1, <1>2, <2>1
<1>4. a \o b = s
  <2>1. \A i \in 1 .. Len(s) : (a \o b)[i] = s[i] BY <1>0, <1>1, <1>2, <1>3
  <2> QED BY <1>3, <2>1, SeqEqual
<1> QED BY <1>1, <1>2, <1>4 DEF a, b, Drop

\* What can be read at once is a part of the stream that is not empty.
LEMMA ArrivedIs ==
  ASSUME NEW s \in Seq(Byte), NEW n \in Arrived(s)
  PROVE  n \in 1 .. Len(s)
<1>1. Len(s) \in Nat BY LenProperties
<1> QED BY <1>1 DEF Arrived

\* A buffer knows its length, before and after each packet.
LEMMA LengthIs ==
  ASSUME NEW b \in Seq(Byte)
  PROVE  Length(b) \in Nat
<1>1. Len(b) \in Nat /\ \A i \in 1 .. Len(b) : b[i] \in Byte BY ElementOfSeq, LenProperties
<1>2. ASSUME Len(b) >= 2 PROVE b[1] + Base * b[2] \in Nat
  <2>1. b[1] \in Nat /\ b[2] \in Nat BY <1>1, <1>2, FramingAssumption DEF Byte
  <2> QED BY <2>1, FramingAssumption
<1> QED BY <1>1, <1>2 DEF Length

\* Bytes behind a buffer leave the length it has noted right.
LEMMA Appends ==
  ASSUME NEW i \in Buffers, i.len = Length(i.buf), NEW b \in Seq(Byte)
  PROVE  /\ Appended(i, b) \in Buffers /\ Appended(i, b).buf = i.buf \o b
         /\ Appended(i, b).len = Length(Appended(i, b).buf)
<1> DEFINE a == i.buf
           s == a \o b
<1>1. a \in Seq(Byte) /\ i.len \in Nat BY DEF Buffers
<1> HIDE DEF a
<1>2. s \in Seq(Byte) /\ Length(s) \in Nat
  <2>1. s \in Seq(Byte) BY <1>1
  <2> HIDE DEF s
  <2> QED BY <2>1, LengthIs
<1>3. Length(a) # 0 => Length(s) = Length(a)
  <2> SUFFICES ASSUME Length(a) # 0 PROVE Length(s) = Length(a) OBVIOUS
  <2>1. Len(a) >= 2 BY DEF Length
  <2>2. Len(s) >= 2 /\ s[1] = a[1] /\ s[2] = a[2] BY <1>1, <2>1
  <2> QED BY <2>1, <2>2 DEF Length
<1>4. Appended(i, b) = [buf |-> s, len |-> IF i.len = 0 THEN Length(s) ELSE i.len]
  BY DEF Appended, a
<1>5. i.len = Length(a) BY DEF a
<1> HIDE DEF s
<1> QED BY <1>1, <1>2, <1>3, <1>4, <1>5 DEF Buffers, s, a

\* After a packet was taken the length is that of the next one.
LEMMA Remains ==
  ASSUME NEW i \in Buffers, HavePacket(i)
  PROVE  /\ Remainder(i) \in Buffers /\ Remainder(i).len = Length(Remainder(i).buf)
         /\ Packet(i) \in Seq(Byte) /\ Len(Packet(i)) = i.len
<1> DEFINE s == i.buf
           n == i.len
           r == SubSeq(s, n + 3, Len(s))
<1>1. s \in Seq(Byte) /\ n \in Nat /\ Len(s) >= n + 2 BY DEF Buffers, HavePacket
<1> HIDE DEF s, n
<1>2. Len(s) \in Nat /\ \A k \in 1 .. Len(s) : s[k] \in Byte BY <1>1, ElementOfSeq, LenProperties
<1>3. r \in Seq(Byte)
  <2>1. \A k \in n + 3 .. Len(s) : s[k] \in Byte BY <1>1, <1>2
  <2> QED BY <1>1, <1>2, <2>1, SubSeqProperties
<1>4. Remainder(i) = [buf |-> r, len |-> Length(r)] BY DEF Remainder, s, n
<1>5. Packet(i) = SubSeq(s, 3, n + 2) BY DEF Packet, s, n
<1>6. SubSeq(s, 3, n + 2) \in Seq(Byte) /\ Len(SubSeq(s, 3, n + 2)) = n
  <2>1. \A k \in 3 .. n + 2 : s[k] \in Byte BY <1>1, <1>2
  <2>2. /\ SubSeq(s, 3, n + 2) \in Seq(Byte)
        /\ Len(SubSeq(s, 3, n + 2)) = IF 3 <= n + 2 THEN n + 2 - 3 + 1 ELSE 0
    BY <1>1, <2>1, SubSeqProperties
  <2> QED BY <1>1, <2>2
<1> HIDE DEF r
<1>7. Length(r) \in Nat BY <1>3, LengthIs
<1> QED BY <1>3, <1>4, <1>5, <1>6, <1>7 DEF Buffers, n
-----------------------------------------------------------------------------
(***************************************************************************)
(* The steps of the clients.                                               *)
(***************************************************************************)
\* An open connection has a descriptor and a slot of its own.
LEMMA OwnerIs ==
  ASSUME Types, Slots, NEW c \in Conns, sock[c] = "open"
  PROVE  /\ Socket(fd[c]) = {c} /\ Owners(fd[c]) # {}
         /\ Min(Owners(fd[c])) \in DOMAIN slots /\ slots[Min(Owners(fd[c]))] = c
<1>0. /\ state \in [Conns -> 0 .. 1] /\ fd \in [Conns -> 0 .. Cardinality(Conns)]
      /\ \A i \in DOMAIN slots : slots[i] \in Conns \cup {None} /\ i \in Nat
  <2>1. slots \in Seq(Conns \cup {None}) BY DEF Types, TypeOK
  <2>2. \A i \in DOMAIN slots : slots[i] \in Conns \cup {None} /\ i \in Nat BY <2>1
  <2> QED BY <2>2 DEF Types, TypeOK
<1>1. Socket(fd[c]) = {c} BY DEF Socket, Slots
<1>2. PICK i \in DOMAIN slots : slots[i] = c BY DEF Slots
<1>3. c # None BY TransportAssumption
<1>4. Owners(fd[c]) = {i}
  <2>1. i \in Owners(fd[c]) BY <1>0, <1>2, <1>3 DEF Owners
  <2>2. ASSUME NEW j \in Owners(fd[c]) PROVE j = i
    <3>1. slots[j] \in Conns /\ sock[slots[j]] = "open" /\ fd[slots[j]] = fd[c] /\ j \in DOMAIN slots
      BY <1>0, <2>2 DEF Owners, Slots
    <3>2. slots[j] = c BY <3>1 DEF Slots
    <3> QED BY <1>2, <1>3, <3>1, <3>2 DEF Slots
  <2> QED BY <2>1, <2>2
<1>5. Min(Owners(fd[c])) = i
  <2>1. {i} \in SUBSET Nat /\ {i} # {} BY <1>0, <1>2
  <2> QED BY <1>4, <2>1, MinExists
<1> QED BY <1>1, <1>2, <1>4, <1>5

\* A client sends packets of bytes.
LEMMA SendType ==
  ASSUME Types, NEW d \in Conns, NEW p \in {Ident, Status}, Send(d, p)
  PROVE  sent' \in [Conns -> Seq(Seq(Byte))] /\ up' \in [Conns -> Seq(Byte)]
<1>1. p \in Seq(Byte) /\ Frame(p) \in Seq(Byte) BY WordsFit DEF Words
<1>2. up \in [Conns -> Seq(Byte)] /\ sent \in [Conns -> Seq(Seq(Byte))] BY DEF Types
<1>3. up[d] \o Frame(p) \in Seq(Byte) /\ up[d] \in Seq(Byte) BY <1>1, <1>2
<1>4. Append(sent[d], p) \in Seq(Seq(Byte)) BY <1>1, <1>2
<1> QED BY <1>2, <1>3, <1>4 DEF Send

\* Reading keeps the types, and the length that the buffer has noted.
LEMMA ReadTypes ==
  ASSUME Types, Lengths, NEW d \in Conns, Read(d)
  PROVE  Types' /\ Lengths'
<1>1. PICK n \in Arrived(down[d]) :
        /\ mine' = [mine EXCEPT ![d] = Appended(@, SubSeq(down[d], 1, n))]
        /\ down' = [down EXCEPT ![d] = Drop(@, n)]
  BY DEF Read
<1>2. down[d] \in Seq(Byte) /\ mine[d] \in Buffers BY DEF Types
<1>3. SubSeq(down[d], 1, n) \in Seq(Byte) /\ Drop(down[d], n) \in Seq(Byte)
  BY <1>2, ArrivedIs, Cuts
<1> DEFINE b == Appended(mine[d], SubSeq(down[d], 1, n))
<1>4. b \in Buffers /\ b.len = Length(b.buf) BY <1>2, <1>3, Appends DEF Lengths
<1>5. mine' = [mine EXCEPT ![d] = b] BY <1>1
<1> HIDE DEF b
<1>6. UNCHANGED <<env, peer, got, sent, sock, up, serverVars, listening, threadVars, callVars, histVars>>
  BY DEF Read
<1>7. mine' \in [Conns -> Buffers] /\ down' \in [Conns -> Seq(Byte)]
  BY <1>1, <1>3, <1>4, <1>5 DEF Types
<1>8. Types' BY <1>6, <1>7 DEF Types, TypeOK, Buffers, Event, Idle
<1>9. Lengths' BY <1>4, <1>5, <1>6 DEF Types, Lengths
<1> QED BY <1>8, <1>9

\* So does taking a packet from the buffer.
LEMMA TakeTypes ==
  ASSUME Types, Lengths, NEW d \in Conns, Take(d)
  PROVE  Types' /\ Lengths'
<1>1. mine[d] \in Buffers /\ HavePacket(mine[d]) BY DEF Types, Take
<1> DEFINE b == Remainder(mine[d])
           p == Packet(mine[d])
<1>2. b \in Buffers /\ b.len = Length(b.buf) /\ p \in Seq(Byte) BY <1>1, Remains
<1>3. mine' = [mine EXCEPT ![d] = b] /\ got' = [got EXCEPT ![d] = Append(@, p)] BY DEF Take
<1>4. UNCHANGED <<env, sock, down, serverVars, listening, threadVars, callVars, histVars>> BY DEF Take
<1>5. sent' \in [Conns -> Seq(Seq(Byte))] /\ up' \in [Conns -> Seq(Byte)]
  <2>1. Send(d, Ident) \/ UNCHANGED <<sent, up>> BY DEF Take
  <2> QED BY <2>1, SendType DEF Types
<1>6. peer' \in [Conns -> {"out", "greet", "confirm", "in", "failed", "left"}]
  <2>1. peer \in [Conns -> {"out", "greet", "confirm", "in", "failed", "left"}] BY DEF Types, TypeOK
  <2>2. peer' = peer \/ \E x \in {"confirm", "in", "failed"} : peer' = [peer EXCEPT ![d] = x]
    BY DEF Take
  <2> QED BY <2>1, <2>2
<1> HIDE DEF b, p
<1>7. Append(got[d], p) \in Seq(Seq(Byte)) BY <1>2 DEF Types
<1>8. mine' \in [Conns -> Buffers] /\ got' \in [Conns -> Seq(Seq(Byte))]
  BY <1>2, <1>3, <1>7 DEF Types
<1>9. Types' BY <1>4, <1>5, <1>6, <1>8 DEF Types, TypeOK, Buffers, Event, Idle
<1>10. Lengths' BY <1>2, <1>3, <1>4 DEF Types, Lengths
<1> QED BY <1>9, <1>10

\* The types and lengths after a step of a client.
LEMMA ClientTypes ==
  ASSUME Types, Lengths, NEW d \in Conns, Client(d)
  PROVE  Types' /\ Lengths'
<1>1. CASE Connect(d) BY <1>1 DEF Connect, Types, TypeOK, Lengths, Buffers, Event, Idle
<1>2. CASE Read(d) BY <1>2, ReadTypes
<1>3. CASE SeeEnd(d) BY <1>3 DEF SeeEnd, Types, TypeOK, Lengths, Buffers, Event, Idle
<1>4. CASE Take(d) BY <1>4, TakeTypes
<1>5. CASE GiveUp(d) BY <1>5 DEF GiveUp, Types, TypeOK, Lengths, Buffers, Event, Idle
<1>6. CASE SendStatus(d)
  <2>1. sent' \in [Conns -> Seq(Seq(Byte))] /\ up' \in [Conns -> Seq(Byte)]
    BY <1>6, SendType DEF SendStatus
  <2> QED BY <1>6, <2>1 DEF SendStatus, Types, TypeOK, Lengths, Buffers, Event, Idle
<1>7. CASE Leave(d)
  <2>0. up \in [Conns -> Seq(Byte)] /\ down \in [Conns -> Seq(Byte)] /\ <<>> \in Seq(Byte)
    BY DEF Types
  <2>1. up' \in [Conns -> Seq(Byte)] /\ down' \in [Conns -> Seq(Byte)]
    <3>1. up' = up \/ up' = [up EXCEPT ![d] = <<>>] BY <1>7 DEF Leave
    <3>2. down' = [down EXCEPT ![d] = <<>>] BY <1>7 DEF Leave
    <3> QED BY <2>0, <3>1, <3>2
  <2> QED BY <1>7, <2>1 DEF Leave, Types, TypeOK, Lengths, Buffers, Event, Idle
<1> QED BY <1>1, <1>2, <1>3, <1>4, <1>5, <1>6, <1>7 DEF Client

\* A client that nobody has looked at says nothing, whatever it gets.
LEMMA StaysSilent ==
  ASSUME Types, Lengths, NEW d \in Conns, Client(d), Silent(d), peer[d] = "out" => sock[d] = "none"
  PROVE  Silent(d)'
<1>0. /\ mine[d] \in Buffers /\ down[d] \in Seq(Byte) /\ up[d] \in Seq(Byte)
      /\ d \in DOMAIN peer /\ d \in DOMAIN mine /\ d \in DOMAIN down /\ d \in DOMAIN up
  BY DEF Types, TypeOK
<1>1. CASE Connect(d) BY <1>0, <1>1 DEF Connect, Silent, NoGreeting
<1>2. CASE Read(d)
  <2>1. PICK n \in Arrived(down[d]) :
          /\ mine'[d] = Appended(mine[d], SubSeq(down[d], 1, n))
          /\ down'[d] = Drop(down[d], n)
    BY <1>0, <1>2 DEF Read
  <2> DEFINE a == mine[d].buf
             s == SubSeq(down[d], 1, n)
  <2>2. /\ s \in Seq(Byte) /\ s[1] = down[d][1] /\ Len(s) = n /\ n \in Nat /\ n > 0
        /\ Len(down[d]) \in Nat /\ n <= Len(down[d])
    BY <1>0, ArrivedIs, Cuts, LenProperties
  <2>3. mine'[d].buf = a \o s /\ a \in Seq(Byte) BY <1>0, <2>1, <2>2, Appends DEF Lengths, Buffers
  <2> HIDE DEF a, s
  <2>4. a \o s # <<>> /\ (a \o s)[1] = IF a = <<>> THEN s[1] ELSE a[1] BY <2>2, <2>3
  <2>5. peer[d] = "greet" /\ NoGreeting(d) BY <1>2 DEF Read, Silent
  <2>6. down[d] # <<>> BY <2>2
  <2>7. (a \o s)[1] = 3 BY <2>2, <2>4, <2>5, <2>6 DEF NoGreeting, a
  <2>8. NoGreeting(d)' BY <2>3, <2>4, <2>7 DEF NoGreeting
  <2> QED BY <1>2, <2>8 DEF Read, Silent
<1>3. CASE SeeEnd(d) BY <1>0, <1>3 DEF SeeEnd, Silent
<1>4. CASE Take(d)
  <2>1. peer[d] = "greet" /\ HavePacket(mine[d]) /\ NoGreeting(d) BY <1>4 DEF Take, Silent
  <2>2. Packet(mine[d]) # Greeting
    <3> DEFINE b == mine[d].buf
    <3>1. b \in Seq(Byte) /\ mine[d].len = Length(b) /\ Len(b) >= 2
      <4>1. mine[d].len \in Nat /\ b \in Seq(Byte) BY <1>0 DEF Buffers
      <4> QED BY <2>1, <4>1 DEF HavePacket, Lengths
    <3>2. b[1] = 3 BY <2>1, <3>1 DEF NoGreeting
    <3> HIDE DEF b
    <3>3. b[2] \in Nat /\ Base \in Nat
      <4>1. b[2] \in Byte BY <3>1, ElementOfSeq, LenProperties
      <4> QED BY <4>1, FramingAssumption DEF Byte
    <3>4. Base * b[2] \in Nat BY <3>3
    <3>5. Length(b) >= 3 BY <3>1, <3>2, <3>4 DEF Length
    <3>6. Len(Packet(mine[d])) >= 3 BY <1>0, <2>1, <3>1, <3>5, Remains
    <3> DEFINE p == Packet(mine[d])
    <3> HIDE DEF p
    <3>7. ~(Len(Greeting) >= 3)
      <4>1. Len(Greeting) = 1 BY DEF Greeting
      <4> QED BY <4>1
    <3>8. Len(p) >= 3 BY <3>6 DEF p
    <3>9. p # Greeting BY <3>7, <3>8, Zenon
    <3> QED BY <3>9 DEF p
  <2>3. peer'[d] = "failed" /\ UNCHANGED <<sent, up>> BY <1>0, <1>4, <2>1, <2>2 DEF Take
  <2> QED BY <2>3 DEF Silent
<1>5. CASE GiveUp(d) BY <1>0, <1>5 DEF GiveUp, Silent
<1>6. CASE SendStatus(d) BY <1>6 DEF SendStatus, Silent
<1>7. CASE Leave(d) BY <1>0, <1>7 DEF Leave, Silent
<1> QED BY <1>1, <1>2, <1>3, <1>4, <1>5, <1>6, <1>7 DEF Client

\* The steps of a client keep the invariant of the server.
LEMMA ClientNext ==
  ASSUME ServerInv, NEW d \in Conns, Client(d)
  PROVE  ServerInv'
<1>0. /\ Types /\ Lengths /\ NoBug /\ Slots /\ Thread
      /\ \A c \in Conns : Listed(c) /\ (Young(c) => Silent(c))
  BY DEF ServerInv
<1>1. Types' /\ Lengths' BY <1>0, ClientTypes
<1>2. /\ UNCHANGED <<env, serverVars, listening, threadVars, callVars, histVars>>
      /\ \A c \in Conns \ {d} : /\ peer'[c] = peer[c] /\ mine'[c] = mine[c] /\ sent'[c] = sent[c]
                                /\ up'[c] = up[c] /\ down'[c] = down[c] /\ sock'[c] = sock[c]
      /\ \/ sock'[d] = sock[d] /\ peer'[d] # "out"
         \/ sock[d] = "none" /\ sock'[d] = "backlog" /\ peer'[d] # "out"
  <2>1. CASE Connect(d) BY <1>0, <2>1 DEF Connect, Types, TypeOK, Listed
  <2>2. CASE Read(d) \/ SeeEnd(d) \/ GiveUp(d) BY <1>0, <2>2 DEF Read, SeeEnd, GiveUp, Types, TypeOK
  <2>3. CASE Take(d) BY <1>0, <2>3 DEF Take, Send, Types, TypeOK
  <2>4. CASE SendStatus(d) \/ Leave(d) BY <1>0, <2>4 DEF SendStatus, Send, Leave, Types, TypeOK
  <2> QED BY <2>1, <2>2, <2>3, <2>4 DEF Client
<1>3. \A c \in Conns : /\ sock'[c] = "open" <=> sock[c] = "open"
                       /\ sock'[c] = "shut" <=> sock[c] = "shut"
                       /\ sock'[c] \in {"none", "backlog"} => sock[c] \in {"none", "backlog"}
                       /\ peer'[c] = "out" => peer[c] = "out" /\ sock'[c] = sock[c]
  BY <1>2
<1>4. NoBug' BY <1>0, <1>2 DEF NoBug
<1>5. Slots'
  <2>1. \A i \in DOMAIN slots : slots[i] # None => slots[i] \in Conns
    <3>1. slots \in Seq(Conns \cup {None}) BY <1>0 DEF Types, TypeOK
    <3> QED BY <3>1
  <2> QED BY <1>0, <1>2, <1>3, <2>1 DEF Slots
<1>6. Thread'
  <2>1. ready \subseteq Conns /\ cur \in Conns \cup {None} BY <1>0 DEF Types, TypeOK
  <2> QED BY <1>0, <1>2, <1>3, <2>1 DEF Thread, In
<1>7. ASSUME NEW c \in Conns PROVE Listed(c)' BY <1>0, <1>2, <1>3 DEF Listed, In
<1>8. ASSUME NEW c \in Conns, Young(c)' PROVE Silent(c)'
  <2>1. Young(c) BY <1>2, <1>3, <1>8 DEF Young, In
  <2>2. Silent(c) BY <1>0, <2>1
  <2>3. CASE c = d BY <1>0, <2>2, <2>3, StaysSilent DEF Listed
  <2>4. CASE c # d BY <1>2, <2>2, <2>4 DEF Silent, NoGreeting
  <2> QED BY <2>3, <2>4
<1> QED BY <1>1, <1>4, <1>5, <1>6, <1>7, <1>8 DEF ServerInv
-----------------------------------------------------------------------------
(***************************************************************************)
(* The events, the slots and the descriptors.                              *)
(***************************************************************************)
LEMMA Pushes ==
  ASSUME Types, NEW e \in Event, events' = Append(events, e)
  PROVE  /\ events' \in Seq(Event) /\ e \in Event
         /\ DOMAIN events' = DOMAIN events \cup {Len(events) + 1}
         /\ \A i \in DOMAIN events : i \in Nat /\ i < Len(events) + 1 /\ events'[i] = events[i]
         /\ events'[Len(events) + 1] = e
         /\ \A c \in Conns, k \in {"CONNECT", "RECEIVE", "DISCONNECT"} :
              In(c, k)' <=> In(c, k) \/ (e.c = c /\ e.k = k)
<1> DEFINE s == events
           S == Event
<1>1. s \in Seq(S) /\ e \in S BY DEF Types
<1> HIDE DEF s, S
<1>2. /\ Append(s, e) \in Seq(S)
      /\ DOMAIN Append(s, e) = DOMAIN s \cup {Len(s) + 1}
      /\ \A i \in DOMAIN s : i \in Nat /\ i < Len(s) + 1 /\ Append(s, e)[i] = s[i]
      /\ Append(s, e)[Len(s) + 1] = e
  <2>1. Len(s) \in Nat /\ DOMAIN s = 1 .. Len(s) BY <1>1, LenProperties
  <2> QED BY <1>1, <2>1, AppendProperties
<1>3. /\ events' \in Seq(Event)
      /\ DOMAIN events' = DOMAIN events \cup {Len(events) + 1}
      /\ \A i \in DOMAIN events : i \in Nat /\ i < Len(events) + 1 /\ events'[i] = events[i]
      /\ events'[Len(events) + 1] = e
  BY <1>2 DEF s, S
<1>4. ASSUME NEW c \in Conns, NEW k \in {"CONNECT", "RECEIVE", "DISCONNECT"}
      PROVE  In(c, k)' <=> In(c, k) \/ (e.c = c /\ e.k = k)
  BY <1>3, Zenon DEF In
<1> QED BY <1>3, <1>4

\* An event that is handled leaves the list, and the others move up.
LEMMA Handles ==
  ASSUME Types, events # <<>>, events' = Tail(events)
  PROVE  /\ events' \in Seq(Event) /\ Head(events) \in Event /\ Head(events) = events[1]
         /\ 1 \in DOMAIN events
         /\ \A i \in DOMAIN events' : i \in Nat /\ i + 1 \in DOMAIN events /\ events'[i] = events[i + 1]
         /\ \A i \in DOMAIN events : i \in Nat /\ (i = 1 \/ (i - 1 \in DOMAIN events' /\ events'[i - 1] = events[i]))
         /\ \A c \in Conns, k \in {"CONNECT", "RECEIVE", "DISCONNECT"} :
              /\ In(c, k)' => In(c, k)
              /\ In(c, k) => In(c, k)' \/ (Head(events).c = c /\ Head(events).k = k)
<1> DEFINE s == events
           S == Event
<1>1. s \in Seq(S) /\ s # <<>> BY DEF Types
<1> HIDE DEF s, S
<1>2. /\ Tail(s) \in Seq(S) /\ Head(s) \in S /\ Head(s) = s[1] /\ 1 \in DOMAIN s
      /\ \A i \in DOMAIN Tail(s) : i \in Nat /\ i + 1 \in DOMAIN s /\ Tail(s)[i] = s[i + 1]
      /\ \A i \in DOMAIN s : i \in Nat /\ (i = 1 \/ (i - 1 \in DOMAIN Tail(s) /\ Tail(s)[i - 1] = s[i]))
  <2>1. Len(s) \in Nat /\ DOMAIN s = 1 .. Len(s) /\ Len(s) > 0 BY <1>1, LenProperties, EmptySeq
  <2>2. /\ Head(s) \in S /\ Head(s) = s[1] /\ Tail(s) \in Seq(S) /\ Len(Tail(s)) = Len(s) - 1
        /\ \A i \in 1 .. Len(Tail(s)) : Tail(s)[i] = s[i + 1]
    BY <1>1, <2>1, HeadTailProperties, ElementOfSeq
  <2>3. DOMAIN Tail(s) = 1 .. Len(s) - 1 BY <2>2, LenProperties
  <2> QED BY <2>1, <2>2, <2>3
<1>3. /\ events' \in Seq(Event) /\ Head(events) \in Event /\ Head(events) = events[1]
      /\ 1 \in DOMAIN events
      /\ \A i \in DOMAIN events' : i \in Nat /\ i + 1 \in DOMAIN events /\ events'[i] = events[i + 1]
      /\ \A i \in DOMAIN events : i \in Nat /\ (i = 1 \/ (i - 1 \in DOMAIN events' /\ events'[i - 1] = events[i]))
  BY <1>2 DEF s, S
<1>4. ASSUME NEW c \in Conns, NEW k \in {"CONNECT", "RECEIVE", "DISCONNECT"}
      PROVE  /\ In(c, k)' => In(c, k)
             /\ In(c, k) => In(c, k)' \/ (Head(events).c = c /\ Head(events).k = k)
  <2>1. ASSUME In(c, k)' PROVE In(c, k)
    <3>1. PICK i \in DOMAIN events' : events'[i].c = c /\ events'[i].k = k BY <2>1 DEF In
    <3>2. i + 1 \in DOMAIN events /\ events[i + 1].c = c /\ events[i + 1].k = k BY <1>3, <3>1
    <3> QED BY <3>2 DEF In
  <2>2. ASSUME In(c, k) PROVE In(c, k)' \/ (Head(events).c = c /\ Head(events).k = k)
    <3>1. PICK i \in DOMAIN events : events[i].c = c /\ events[i].k = k BY <2>2 DEF In
    <3>2. CASE i = 1 BY <1>3, <3>1, <3>2
    <3>3. CASE i - 1 \in DOMAIN events' /\ events'[i - 1] = events[i] BY <3>1, <3>3 DEF In
    <3> QED BY <1>3, <3>2, <3>3
  <2> QED BY <2>1, <2>2
<1> QED BY <1>3, <1>4

\* accept returns a descriptor that no open connection has.
LEMMA FreeFdIs ==
  ASSUME Types, NEW c \in Conns, sock[c] = "backlog"
  PROVE  /\ FreeFd \in 1 .. Cardinality(Conns)
         /\ \A d \in Conns : sock[d] = "open" => fd[d] # FreeFd
<1> DEFINE O == {d \in Conns : sock[d] = "open"}
           F == {fd[d] : d \in O}
           N == Cardinality(Conns)
<1>1. IsFiniteSet(Conns) /\ N \in Nat BY TransportAssumption, FS_CardinalityType
<1>2. IsFiniteSet(Conns \ {c}) /\ Cardinality(Conns \ {c}) = N - 1 BY <1>1, FS_RemoveElement
<1>3. O \subseteq Conns \ {c} OBVIOUS
<1>4. IsFiniteSet(O) /\ Cardinality(O) <= N - 1 /\ Cardinality(O) \in Nat
  BY <1>2, <1>3, FS_Subset, FS_CardinalityType
<1> HIDE DEF O
<1>5. IsFiniteSet(F) /\ Cardinality(F) <= Cardinality(O) /\ Cardinality(F) \in Nat
  <2>1. [d \in O |-> fd[d]] \in Surjection(O, F) BY DEF Surjection
  <2> HIDE DEF F
  <2> QED BY <1>4, <2>1, FS_Surjection, FS_CardinalityType
<1> HIDE DEF F, N
<1>6. (1 .. N) \ F # {}
  <2> SUFFICES ASSUME 1 .. N \subseteq F PROVE FALSE OBVIOUS
  <2>1. Cardinality(1 .. N) = N
    <3>1. Cardinality(1 .. N) = IF 1 > N THEN 0 ELSE N - 1 + 1 BY <1>1, FS_Interval
    <3> QED BY <1>1, <3>1
  <2>2. Cardinality(1 .. N) <= Cardinality(F) BY <1>5, FS_Subset
  <2> QED BY <1>1, <1>4, <1>5, <2>1, <2>2
<1>7. (1 .. N) \ F \in SUBSET Nat BY <1>1
<1>8. FreeFd = Min((1 .. N) \ F) BY DEF FreeFd, F, O, N
<1>9. FreeFd \in (1 .. N) \ F BY <1>6, <1>7, <1>8, MinExists
<1> QED BY <1>1, <1>9 DEF F, O, N

\* A new connection gets a free slot or a new one; the other slots stay.
LEMMA InsertedIs ==
  ASSUME Types, NEW c \in Conns
  PROVE  \E k \in Nat :
           /\ Inserted(c) \in Seq(Conns \cup {None})
           /\ k \in DOMAIN Inserted(c) /\ Inserted(c)[k] = c
           /\ \A i \in DOMAIN Inserted(c) \ {k} : i \in DOMAIN slots /\ Inserted(c)[i] = slots[i]
           /\ \A i \in DOMAIN slots : i \in DOMAIN Inserted(c) /\ (slots[i] # None => i # k)
<1> DEFINE free == {i \in DOMAIN slots : slots[i] = None}
           S == Conns \cup {None}
<1>1. slots \in Seq(S) /\ c \in S BY DEF Types, TypeOK
<1> HIDE DEF S
<1>2. DOMAIN slots = 1 .. Len(slots) /\ Len(slots) \in Nat BY <1>1, LenProperties
<1>3. CASE free = {}
  <2>1. Inserted(c) = Append(slots, c) BY <1>3 DEF Inserted
  <2>2. /\ Append(slots, c) \in Seq(S)
        /\ DOMAIN Append(slots, c) = 1 .. Len(slots) + 1
        /\ \A i \in 1 .. Len(slots) : Append(slots, c)[i] = slots[i]
        /\ Append(slots, c)[Len(slots) + 1] = c
    BY <1>1, <1>2, AppendProperties, LenProperties
  <2> QED BY <1>2, <2>1, <2>2 DEF S
<1>4. CASE free # {}
  <2> DEFINE k == Min(free)
  <2>1. free \in SUBSET Nat BY <1>2
  <2>2. k \in free BY <1>4, <2>1, MinExists
  <2>3. Inserted(c) = [slots EXCEPT ![k] = c] BY <1>4 DEF Inserted
  <2>4. k \in Nat /\ k \in DOMAIN slots /\ slots[k] = None BY <2>1, <2>2
  <2> HIDE DEF k
  <2>5. /\ [slots EXCEPT ![k] = c] \in Seq(S) /\ DOMAIN [slots EXCEPT ![k] = c] = DOMAIN slots
        /\ \A i \in DOMAIN slots : [slots EXCEPT ![k] = c][i] = IF i = k THEN c ELSE slots[i]
    BY <1>1, <2>4, ExceptSeq
  <2> QED BY <2>3, <2>4, <2>5 DEF S
<1> QED BY <1>3, <1>4

\* The ready connection with the lowest descriptor is one of them.
LEMMA FirstIs ==
  ASSUME Types, ready # {}
  PROVE  First \in ready
<1> DEFINE F == {fd[c] : c \in ready}
<1>1. F \in SUBSET Nat /\ F # {}
  <2>1. ready \subseteq Conns /\ fd \in [Conns -> 0 .. Cardinality(Conns)] BY DEF Types, TypeOK
  <2>2. \A c \in ready : fd[c] \in Nat BY <2>1
  <2> QED BY <2>2
<1>2. Min(F) \in F /\ \A y \in F : Min(F) <= y BY <1>1, MinExists
<1>3. \E c \in ready : \A d \in ready : fd[c] <= fd[d] BY <1>2
<1> QED BY <1>3 DEF First

\* What do_send_data puts on a stream.
LEMMA CarriesIs ==
  ASSUME Types, NEW f, NEW b \in Seq(Byte), Carries(f, b) \/ Throws(f)
  PROVE  /\ down' \in [Conns -> Seq(Byte)]
         /\ \A c \in Conns : \/ down'[c] = down[c]
                             \/ c \in Socket(f) /\ down'[c] = down[c] \o b
<1>1. down \in [Conns -> Seq(Byte)] BY DEF Types
<1>2. \A c \in Conns : down[c] \o b \in Seq(Byte) BY <1>1
<1>3. CASE Carries(f, b) BY <1>1, <1>2, <1>3 DEF Carries
<1>4. CASE Throws(f) BY <1>1, <1>4 DEF Throws
<1> QED BY <1>3, <1>4

\* What is noted as written is packets of bytes.
LEMMA NotedType ==
  ASSUME Types, NEW f, NEW p \in Seq(Byte), Noted(f, p)
  PROVE  wrote' \in [Conns -> Seq(Seq(Byte))]
<1>1. wrote \in [Conns -> Seq(Seq(Byte))] BY DEF Types
<1>2. \A c \in Conns : Append(wrote[c], p) \in Seq(Seq(Byte)) BY <1>1
<1> QED BY <1>1, <1>2 DEF Noted

\* An answer writes to open connections only, or ends the server thread.
LEMMA AnswersIs ==
  ASSUME Types, NEW c \in Conns, NEW p \in Words, Answers(c, p)
  PROVE  /\ down' \in [Conns -> Seq(Byte)] /\ wrote' \in [Conns -> Seq(Seq(Byte))]
         /\ pc' \in {"handle", "dead"}
         /\ \A d \in Conns : sock[d] # "open" => down'[d] = down[d]
<1>1. p \in Seq(Byte) /\ Frame(p) \in Seq(Byte) BY WordsFit
<1>2. CASE UNCHANGED <<down, wrote>> BY <1>2 DEF Answers, Types
<1>3. CASE Carries(fd[c], Frame(p)) /\ Noted(fd[c], p)
  BY <1>1, <1>3, CarriesIs, NotedType DEF Answers, Socket
<1>4. CASE Throws(fd[c]) /\ UNCHANGED wrote
  BY <1>1, <1>4, CarriesIs DEF Answers, Socket, Types
<1> QED BY <1>2, <1>3, <1>4 DEF Answers
-----------------------------------------------------------------------------
(***************************************************************************)
(* The steps of the server thread.                                         *)
(***************************************************************************)
LEMMA SelectNext ==
  ASSUME ServerInv, Select
  PROVE  ServerInv'
<1>0. /\ Types /\ Lengths /\ NoBug /\ Slots /\ Thread
      /\ \A c \in Conns : Listed(c) /\ (Young(c) => Silent(c))
  BY DEF ServerInv
<1>1. /\ UNCHANGED <<env, clientVars, up, down, info, state, rcvd, known, listening, done, cur, callVars, histVars>>
      /\ pc = "select" /\ pc' = "serve" /\ cur = None
  BY <1>0 DEF Select, Thread
<1>2. ready' \subseteq Readable BY DEF Select
<1>3. \A c \in ready' : c \in Conns /\ sock[c] = "open" BY <1>2 DEF Readable
<1>4. Lengths' /\ NoBug' BY <1>0, <1>1 DEF Lengths, NoBug
<1>5. CASE UNCHANGED <<sock, fd, slots, events>>
  <2>1. Types' BY <1>0, <1>1, <1>3, <1>5 DEF Types, TypeOK, Buffers, Event, Idle
  <2>2. Slots' BY <1>0, <1>5 DEF Slots
  <2>3. Thread' BY <1>1, <1>3, <1>5 DEF Thread
  <2>4. ASSUME NEW c \in Conns PROVE Listed(c)' /\ (Young(c)' => Silent(c)')
    <3>1. Listed(c)' BY <1>0, <1>1, <1>5 DEF Listed, In
    <3>2. Young(c)' => Young(c) BY <1>1, <1>5 DEF Young, In
    <3>3. Silent(c) => Silent(c)' BY <1>1 DEF Silent, NoGreeting
    <3> QED BY <1>0, <3>1, <3>2, <3>3
  <2> QED BY <1>4, <2>1, <2>2, <2>3, <2>4 DEF ServerInv
<1>6. ASSUME NEW d \in Conns, sock[d] = "backlog", Accept(d) PROVE ServerInv'
  <2> DEFINE e == [k |-> "CONNECT", c |-> d, p |-> <<>>]
  <2>1. e \in Event BY DEF Event
  <2>2. events' = Append(events, e) BY <1>6 DEF Accept, Push
  <2>3. e.c = d /\ e.k = "CONNECT" OBVIOUS
  <2> HIDE DEF e
  <2>4. /\ events' \in Seq(Event)
        /\ DOMAIN events' = DOMAIN events \cup {Len(events) + 1}
        /\ \A i \in DOMAIN events : i \in Nat /\ i < Len(events) + 1 /\ events'[i] = events[i]
        /\ events'[Len(events) + 1] = e
        /\ \A c \in Conns, k \in {"CONNECT", "RECEIVE", "DISCONNECT"} :
             In(c, k)' <=> In(c, k) \/ (d = c /\ "CONNECT" = k)
    BY <1>0, <2>1, <2>2, <2>3, Pushes
  <2>5. /\ fd' = [fd EXCEPT ![d] = FreeFd] /\ sock' = [sock EXCEPT ![d] = "open"]
        /\ slots' = Inserted(d)
    BY <1>6 DEF Accept
  <2>6. /\ FreeFd \in 1 .. Cardinality(Conns)
        /\ \A c \in Conns : sock[c] = "open" => fd[c] # FreeFd
    BY <1>0, <1>6, FreeFdIs
  <2>7. PICK k \in Nat :
          /\ slots' \in Seq(Conns \cup {None})
          /\ k \in DOMAIN slots' /\ slots'[k] = d
          /\ \A i \in DOMAIN slots' \ {k} : i \in DOMAIN slots /\ slots'[i] = slots[i]
          /\ \A i \in DOMAIN slots : i \in DOMAIN slots' /\ (slots[i] # None => i # k)
    BY <1>0, <2>5, InsertedIs
  <2>8. /\ fd \in [Conns -> 0 .. Cardinality(Conns)]
        /\ sock \in [Conns -> {"none", "backlog", "open", "shut"}]
        /\ \A i \in DOMAIN slots : slots[i] \in Conns \cup {None}
        /\ \A i \in DOMAIN slots' : slots'[i] \in Conns \cup {None}
    <3>1. slots \in Seq(Conns \cup {None}) BY <1>0 DEF Types, TypeOK
    <3>2. \A i \in DOMAIN slots : slots[i] \in Conns \cup {None} BY <3>1
    <3>3. \A i \in DOMAIN slots' : slots'[i] \in Conns \cup {None} BY <2>7
    <3> QED BY <1>0, <3>2, <3>3 DEF Types, TypeOK
  <2>9. Types'
    <3>1. fd' \in [Conns -> 0 .. Cardinality(Conns)] BY <2>5, <2>6, <2>8
    <3>2. sock' \in [Conns -> {"none", "backlog", "open", "shut"}] BY <2>5, <2>8
    <3> QED BY <1>0, <1>1, <1>3, <2>4, <2>7, <3>1, <3>2 DEF Types, TypeOK, Buffers, Event, Idle
  <2>10. Slots'
    <3>1. ASSUME NEW i \in DOMAIN slots', slots'[i] # None PROVE sock'[slots'[i]] = "open"
      BY <1>0, <2>5, <2>7, <2>8, <3>1 DEF Slots
    <3>2. ASSUME NEW i \in DOMAIN slots', NEW j \in DOMAIN slots', slots'[i] = slots'[j], slots'[i] # None
          PROVE  i = j
      <4>1. ASSUME NEW m \in DOMAIN slots' \ {k} PROVE slots'[m] # d
        <5>1. slots[m] # d \/ slots[m] = None BY <1>0, <1>6, <2>7, <4>1 DEF Slots
        <5> QED BY <2>7, <4>1, <5>1, TransportAssumption
      <4> QED BY <1>0, <2>7, <3>2, <4>1 DEF Slots
    <3>3. ASSUME NEW c \in Conns, sock'[c] = "open" PROVE \E i \in DOMAIN slots' : slots'[i] = c
      <4>1. CASE c = d BY <2>7, <4>1
      <4>2. CASE c # d
        <5>1. PICK i \in DOMAIN slots : slots[i] = c BY <1>0, <2>5, <2>8, <3>3, <4>2 DEF Slots
        <5> QED BY <2>7, <5>1, TransportAssumption
      <4> QED BY <4>1, <4>2
    <3>4. ASSUME NEW c \in Conns, NEW x \in Conns, sock'[c] = "open", sock'[x] = "open", fd'[c] = fd'[x]
          PROVE  c = x
      BY <1>0, <2>5, <2>6, <2>8, <3>4 DEF Slots
    <3> QED BY <3>1, <3>2, <3>3, <3>4 DEF Slots
  <2>11. Thread' BY <1>1, <1>3, <2>5, <2>8 DEF Thread
  <2>12. ASSUME NEW c \in Conns PROVE Listed(c)' /\ (Young(c)' => Silent(c)')
    <3>1. CASE c = d
      <4>1. /\ peer[d] # "out" /\ state[d] = 0 /\ \A i \in DOMAIN events : events[i].c # d
            /\ sock'[d] = "open" /\ Young(d)
        BY <1>0, <1>6, <2>5, <2>8 DEF Listed, Young
      <4>2. ~In(d, "CONNECT") /\ ~In(d, "RECEIVE") /\ ~In(d, "DISCONNECT") BY <4>1 DEF In
      <4>3. In(d, "CONNECT")' /\ ~In(d, "RECEIVE")' /\ ~In(d, "DISCONNECT")' BY <2>4, <4>2
      <4>4. \A i \in DOMAIN events' : ~(events'[i].c = d /\ events'[i].k = "RECEIVE")
        BY <4>3 DEF In
      <4>5. Listed(d)' BY <1>1, <4>1, <4>3, <4>4 DEF Listed
      <4>6. Silent(d) => Silent(d)' BY <1>1 DEF Silent, NoGreeting
      <4> QED BY <1>0, <3>1, <4>1, <4>5, <4>6
    <3>2. CASE c # d
      <4>1. \A mark \in {"CONNECT", "RECEIVE", "DISCONNECT"} : In(c, mark)' <=> In(c, mark) BY <2>4, <3>2
      <4>2. sock'[c] = sock[c] /\ fd'[c] = fd[c] BY <2>5, <2>8, <3>2
      <4>3. events'[Len(events) + 1].c # c BY <2>3, <2>4, <3>2
      <4>4. \A i \in DOMAIN events' : events'[i].c = c => i \in DOMAIN events /\ events[i] = events'[i]
        BY <2>4, <4>3
      <4>5. Listed(c)' BY <1>0, <1>1, <4>1, <4>2, <4>4 DEF Listed
      <4>6. Silent(c) => Silent(c)' BY <1>1 DEF Silent, NoGreeting
      <4>7. Young(c)' => Young(c) BY <1>1, <4>1, <4>2 DEF Young
      <4> QED BY <1>0, <4>5, <4>6, <4>7
    <3> QED BY <3>1, <3>2
  <2> QED BY <1>4, <2>9, <2>10, <2>11, <2>12 DEF ServerInv
<1> QED BY <1>5, <1>6 DEF Select

\* What is ready has said something, or is gone: its owner is found, and the
\* run control has been told of it in an earlier round or call.
LEMMA ReadyIs ==
  ASSUME ServerInv, ready # {}
  PROVE  /\ First \in ready /\ First \in Conns /\ sock[First] = "open"
         /\ Owners(fd[First]) # {} /\ slots[Min(Owners(fd[First]))] = First
         /\ Min(Owners(fd[First])) \in DOMAIN slots /\ Socket(fd[First]) = {First}
<1>0. Types /\ Slots /\ Thread BY DEF ServerInv
<1>1. First \in ready BY <1>0, FirstIs
<1>2. First \in Conns /\ sock[First] = "open" BY <1>0, <1>1 DEF Types, TypeOK, Thread
<1> QED BY <1>0, <1>1, <1>2, OwnerIs

\* Recv: what is ready has been handled before, or it would be silent.
LEMMA RecvNext ==
  ASSUME ServerInv, Recv
  PROVE  ServerInv'
<1>0. /\ Types /\ Lengths /\ NoBug /\ Slots /\ Thread
      /\ \A c \in Conns : Listed(c) /\ (Young(c) => Silent(c))
  BY DEF ServerInv
<1>1. PICK d : d = First OBVIOUS
<1>2. /\ d \in ready /\ d \in Conns /\ sock[d] = "open"
      /\ Owners(fd[First]) # {} /\ slots[Min(Owners(fd[First]))] = d
  BY <1>1, ReadyIs DEF Recv
<1>3. PICK n \in Arrived(up[d]) :
        /\ up' = [up EXCEPT ![d] = Drop(@, n)] /\ cur' = d /\ pc' = pc
        /\ info' = [info EXCEPT ![d] = Appended(@, SubSeq(up[d], 1, n))]
  BY <1>1, <1>2 DEF Recv
<1>4. /\ pc = "serve" /\ up[d] # <<>> /\ ready' = ready \ {d} /\ cur = None
      /\ UNCHANGED <<env, clientVars, sock, down, fd, state, slots, events, rcvd, known,
                     listening, done, callVars, histVars>>
  BY <1>1 DEF Recv
<1>5. up[d] \in Seq(Byte) /\ info[d] \in Buffers /\ d # None
  BY <1>0, <1>2, TransportAssumption DEF Types
<1>6. SubSeq(up[d], 1, n) \in Seq(Byte) /\ Drop(up[d], n) \in Seq(Byte)
  BY <1>5, ArrivedIs, Cuts
<1> DEFINE b == Appended(info[d], SubSeq(up[d], 1, n))
<1>7. b \in Buffers /\ b.len = Length(b.buf) BY <1>0, <1>2, <1>5, <1>6, Appends DEF Lengths
<1>8. info' = [info EXCEPT ![d] = b] BY <1>3
<1> HIDE DEF b
<1>9. info' \in [Conns -> Buffers] /\ up' \in [Conns -> Seq(Byte)]
  BY <1>0, <1>3, <1>6, <1>7, <1>8 DEF Types
<1>10. Types' BY <1>0, <1>2, <1>3, <1>4, <1>9 DEF Types, TypeOK, Buffers, Event, Idle
<1>11. Lengths' BY <1>0, <1>4, <1>7, <1>8 DEF Types, Lengths
<1>12. NoBug' /\ Slots' BY <1>0, <1>3, <1>4 DEF NoBug, Slots
<1>13. ~Silent(d) BY <1>4 DEF Silent
<1>14. ~In(d, "CONNECT") BY <1>0, <1>2, <1>4, <1>13 DEF Young
<1>15. Thread' BY <1>0, <1>2, <1>3, <1>4, <1>14 DEF Thread, In
<1>16. ASSUME NEW c \in Conns PROVE Listed(c)' /\ (Young(c)' => Silent(c)')
  <2>1. Listed(c)' BY <1>0, <1>4 DEF Listed, In
  <2>2. Young(c)' => Young(c) BY <1>3, <1>4 DEF Young, In
  <2>3. c # d /\ Silent(c) => Silent(c)' BY <1>3, <1>4 DEF Silent, NoGreeting
  <2> QED BY <1>0, <1>13, <2>1, <2>2, <2>3
<1> QED BY <1>10, <1>11, <1>12, <1>15, <1>16 DEF ServerInv

\* GetPacket: a RECEIVE comes after the CONNECT and before the DISCONNECT.
LEMMA GetPacketNext ==
  ASSUME ServerInv, GetPacket
  PROVE  ServerInv'
<1>0. /\ Types /\ Lengths /\ NoBug /\ Slots /\ Thread
      /\ \A c \in Conns : Listed(c) /\ (Young(c) => Silent(c))
  BY DEF ServerInv
<1>1. PICK d : d = cur OBVIOUS
<1>2. /\ pc = "serve" /\ d # None /\ d \in Conns /\ sock[d] = "open" /\ ~In(d, "CONNECT")
      /\ UNCHANGED <<env, clientVars, sock, up, down, fd, state, slots, known, listening,
                     pc, ready, callVars, histVars>>
  BY <1>0, <1>1 DEF GetPacket, Types, TypeOK, Thread
<1>3. NoBug' /\ Slots' BY <1>0, <1>2 DEF NoBug, Slots
<1>4. ASSUME NEW c \in Conns PROVE Silent(c) => Silent(c)' BY <1>2 DEF Silent, NoGreeting
<1>5. CASE cur' = None /\ UNCHANGED <<events, rcvd, info, done>>
  <2>1. Types' /\ Lengths' BY <1>0, <1>2, <1>5 DEF Types, TypeOK, Lengths, Buffers, Event, Idle
  <2>2. Thread' BY <1>0, <1>2, <1>5 DEF Thread, In
  <2>3. ASSUME NEW c \in Conns PROVE Listed(c)' /\ (Young(c)' => Young(c))
    BY <1>0, <1>2, <1>5 DEF Listed, Young, In
  <2> QED BY <1>0, <1>3, <1>4, <2>1, <2>2, <2>3 DEF ServerInv
<1>6. CASE HavePacket(info[d]) /\ Push("RECEIVE", d, Packet(info[d])) /\ cur' = cur
           /\ rcvd' = [rcvd EXCEPT ![d] = Append(@, Packet(info[d]))]
           /\ info' = [info EXCEPT ![d] = Remainder(@)]
  <2> DEFINE q == Packet(info[d])
             b == Remainder(info[d])
             e == [k |-> "RECEIVE", c |-> d, p |-> q]
  <2>1. info[d] \in Buffers BY <1>0, <1>2 DEF Types
  <2>2. b \in Buffers /\ b.len = Length(b.buf) /\ q \in Seq(Byte) BY <1>6, <2>1, Remains
  <2>3. info' = [info EXCEPT ![d] = b] /\ rcvd' = [rcvd EXCEPT ![d] = Append(@, q)] BY <1>6
  <2>4. events' = Append(events, e) BY <1>6 DEF Push
  <2>5. e.c = d /\ e.k = "RECEIVE" OBVIOUS
  <2> HIDE DEF q, b
  <2>6. e \in Event BY <1>2, <2>2 DEF Event
  <2> HIDE DEF e
  <2>7. /\ events' \in Seq(Event)
        /\ DOMAIN events' = DOMAIN events \cup {Len(events) + 1}
        /\ \A i \in DOMAIN events : i \in Nat /\ i < Len(events) + 1 /\ events'[i] = events[i]
        /\ events'[Len(events) + 1] = e
        /\ \A c \in Conns, k \in {"CONNECT", "RECEIVE", "DISCONNECT"} :
             In(c, k)' <=> In(c, k) \/ (d = c /\ "RECEIVE" = k)
    BY <1>0, <2>4, <2>5, <2>6, Pushes
  <2>8. Append(rcvd[d], q) \in Seq(Seq(Byte)) BY <1>0, <1>2, <2>2 DEF Types
  <2>9. info' \in [Conns -> Buffers] /\ rcvd' \in [Conns -> Seq(Seq(Byte))]
    BY <1>0, <2>2, <2>3, <2>8 DEF Types
  <2>10. Types' BY <1>0, <1>2, <1>6, <2>7, <2>9 DEF Types, TypeOK, Buffers, Event, Idle
  <2>11. Lengths' BY <1>0, <1>2, <2>2, <2>3 DEF Types, Lengths
  <2>12. \A c \in Conns : In(c, "CONNECT")' <=> In(c, "CONNECT") BY <2>7
  <2>13. Thread' BY <1>0, <1>1, <1>2, <1>6, <2>12 DEF Thread
  <2>14. ASSUME NEW c \in Conns PROVE Listed(c)'
    <3>1. CASE c = d
      <4>1. d \in known /\ ~In(d, "DISCONNECT") BY <1>0, <1>2 DEF Listed
      <4>2. ~In(d, "CONNECT")' /\ ~In(d, "DISCONNECT")' BY <1>2, <2>7, <4>1
      <4>3. \A j \in DOMAIN events' : ~(events'[j].c = d /\ events'[j].k = "DISCONNECT")
        BY <4>2 DEF In
      <4> QED BY <1>0, <1>2, <3>1, <4>1, <4>2, <4>3 DEF Listed
    <3>2. CASE c # d
      <4>1. \A mark \in {"CONNECT", "RECEIVE", "DISCONNECT"} : In(c, mark)' <=> In(c, mark) BY <2>7, <3>2
      <4>2. events'[Len(events) + 1].c # c BY <2>5, <2>7, <3>2
      <4>3. \A i \in DOMAIN events' : events'[i].c = c => i \in DOMAIN events /\ events[i] = events'[i]
        BY <2>7, <4>2
      <4> QED BY <1>0, <1>2, <4>1, <4>3 DEF Listed
    <3> QED BY <3>1, <3>2
  <2>15. ASSUME NEW c \in Conns PROVE Young(c)' => Young(c) BY <1>2, <2>12 DEF Young
  <2> QED BY <1>0, <1>3, <1>4, <2>10, <2>11, <2>13, <2>14, <2>15 DEF ServerInv
<1> QED BY <1>1, <1>5, <1>6 DEF GetPacket

\* Close shuts the connections with the descriptor and empties their slots.
LEMMA Closes ==
  ASSUME Types, Slots, NEW c \in Conns, Close(c), fd' = fd
  PROVE  /\ slots' \in Seq(Conns \cup {None})
         /\ sock' \in [Conns -> {"none", "backlog", "open", "shut"}]
         /\ \A d \in Conns : \/ sock'[d] = sock[d] /\ (sock[d] = "open" => fd[d] # fd[c])
                             \/ sock[d] = "open" /\ fd[d] = fd[c] /\ sock'[d] = "shut"
         /\ Slots'
<1>1. slots \in Seq(Conns \cup {None}) /\ sock \in [Conns -> {"none", "backlog", "open", "shut"}]
  BY DEF Types, TypeOK
<1>2. \A i \in DOMAIN slots : slots[i] \in Conns \cup {None} BY <1>1
<1>3. /\ DOMAIN slots' = DOMAIN slots
      /\ \A i \in DOMAIN slots : slots'[i] = IF slots[i] # None /\ fd[slots[i]] = fd[c]
                                             THEN None ELSE slots[i]
  BY DEF Close
<1>4. slots' \in Seq(Conns \cup {None})
  <2>1. DOMAIN slots = 1 .. Len(slots) /\ Len(slots) \in Nat BY <1>1, LenProperties
  <2>2. slots' \in [1 .. Len(slots) -> Conns \cup {None}] BY <1>2, <1>3, <2>1 DEF Close
  <2> QED BY <2>1, <2>2, IsASeq
<1>5. \A d \in Conns : \/ sock'[d] = sock[d] /\ (sock[d] = "open" => fd[d] # fd[c])
                       \/ sock[d] = "open" /\ fd[d] = fd[c] /\ sock'[d] = "shut"
  BY DEF Close, Socket
<1>6. sock' \in [Conns -> {"none", "backlog", "open", "shut"}]
  BY <1>1 DEF Close
<1>7. Slots'
  <2>1. ASSUME NEW i \in DOMAIN slots', slots'[i] # None PROVE sock'[slots'[i]] = "open"
    <3>1. slots'[i] = slots[i] /\ slots[i] \in Conns /\ fd[slots[i]] # fd[c]
      BY <1>2, <1>3, <2>1
    <3> QED BY <1>3, <1>5, <2>1, <3>1 DEF Slots
  <2>2. ASSUME NEW i \in DOMAIN slots', NEW j \in DOMAIN slots', slots'[i] = slots'[j], slots'[i] # None
        PROVE  i = j
    BY <1>3, <2>2 DEF Slots
  <2>3. ASSUME NEW d \in Conns, sock'[d] = "open" PROVE \E i \in DOMAIN slots' : slots'[i] = d
    <3>1. sock[d] = "open" /\ fd[d] # fd[c] BY <1>5, <2>3
    <3> QED BY <1>3, <3>1 DEF Slots
  <2>4. ASSUME NEW d \in Conns, NEW x \in Conns, sock'[d] = "open", sock'[x] = "open", fd'[d] = fd'[x]
        PROVE  d = x
    BY <1>5, <2>4 DEF Slots
  <2> QED BY <2>1, <2>2, <2>3, <2>4 DEF Slots
<1> QED BY <1>4, <1>5, <1>6, <1>7

\* RecvEnd: the DISCONNECT is the last event of its connection.
LEMMA RecvEndNext ==
  ASSUME ServerInv, RecvEnd
  PROVE  ServerInv'
<1>0. /\ Types /\ Lengths /\ NoBug /\ Slots /\ Thread
      /\ \A c \in Conns : Listed(c) /\ (Young(c) => Silent(c))
  BY DEF ServerInv
<1>1. PICK d : d = First OBVIOUS
<1>2. /\ d \in ready /\ d \in Conns /\ sock[d] = "open"
      /\ Owners(fd[First]) # {} /\ slots[Min(Owners(fd[First]))] = d
  BY <1>1, ReadyIs DEF RecvEnd
<1>3. /\ pc = "serve" /\ pc' = pc /\ ready' = ready \ {d} /\ cur = None /\ cur' = None
      /\ Push("DISCONNECT", d, <<>>) /\ Close(d)
      /\ UNCHANGED <<env, clientVars, up, down, fd, info, state, rcvd, known, listening,
                     done, callVars, histVars>>
  BY <1>1, <1>2 DEF RecvEnd
<1> DEFINE e == [k |-> "DISCONNECT", c |-> d, p |-> <<>>]
<1>4. e \in Event /\ e.c = d /\ e.k = "DISCONNECT" BY <1>2 DEF Event
<1>5. events' = Append(events, e) BY <1>3 DEF Push
<1> HIDE DEF e
<1>6. /\ events' \in Seq(Event)
      /\ DOMAIN events' = DOMAIN events \cup {Len(events) + 1}
      /\ \A i \in DOMAIN events : i \in Nat /\ i < Len(events) + 1 /\ events'[i] = events[i]
      /\ events'[Len(events) + 1] = e
      /\ \A c \in Conns, k \in {"CONNECT", "RECEIVE", "DISCONNECT"} :
           In(c, k)' <=> In(c, k) \/ (d = c /\ "DISCONNECT" = k)
  BY <1>0, <1>4, <1>5, Pushes
<1>7. /\ slots' \in Seq(Conns \cup {None})
      /\ sock' \in [Conns -> {"none", "backlog", "open", "shut"}]
      /\ \A c \in Conns : \/ sock'[c] = sock[c] /\ (sock[c] = "open" => fd[c] # fd[d])
                          \/ sock[c] = "open" /\ fd[c] = fd[d] /\ sock'[c] = "shut"
      /\ Slots'
  BY <1>0, <1>2, <1>3, Closes
<1>8. sock'[d] = "shut" /\ \A c \in Conns \ {d} : sock'[c] = sock[c]
  BY <1>0, <1>2, <1>7 DEF Slots
<1>9. Types' BY <1>0, <1>3, <1>6, <1>7 DEF Types, TypeOK, Buffers, Event, Idle
<1>10. Lengths' /\ NoBug' BY <1>0, <1>3 DEF Lengths, NoBug
<1>11. Thread'
  <2>1. ready \subseteq Conns BY <1>0 DEF Types, TypeOK
  <2> QED BY <1>0, <1>3, <1>8, <2>1 DEF Thread
<1>12. \A c \in Conns : In(c, "CONNECT")' <=> In(c, "CONNECT") BY <1>6
<1>13. ASSUME NEW c \in Conns PROVE Listed(c)'
  <2>1. CASE c = d
    <3>1. ~In(d, "DISCONNECT") BY <1>0, <1>2 DEF Listed
    <3>2. In(d, "RECEIVE")' <=> In(d, "RECEIVE") BY <1>2, <1>6
    <3>3. \A j \in DOMAIN events : ~(events[j].c = d /\ events[j].k = "DISCONNECT") BY <3>1 DEF In
    <3>4. ASSUME NEW i \in DOMAIN events', NEW j \in DOMAIN events', events'[i].k = "RECEIVE",
                 events'[j].c = d, events'[j].k = "DISCONNECT"
          PROVE  i < j
      <4>1. j = Len(events) + 1 BY <1>6, <3>3, <3>4
      <4>2. i \in DOMAIN events BY <1>4, <1>6, <3>4
      <4> QED BY <1>6, <4>1, <4>2
    <3>5. peer[d] # "out" BY <1>0, <1>2 DEF Listed
    <3> QED BY <1>0, <1>2, <1>3, <1>8, <1>12, <2>1, <3>2, <3>4, <3>5 DEF Listed
  <2>2. CASE c # d
    <3>1. \A mark \in {"CONNECT", "RECEIVE", "DISCONNECT"} : In(c, mark)' <=> In(c, mark) BY <1>6, <2>2
    <3>2. events'[Len(events) + 1].c # c BY <1>4, <1>6, <2>2
    <3>3. \A i \in DOMAIN events' : events'[i].c = c => i \in DOMAIN events /\ events[i] = events'[i]
      BY <1>6, <3>2
    <3>4. sock'[c] = sock[c] BY <1>8, <2>2
    <3> QED BY <1>0, <1>3, <3>1, <3>3, <3>4 DEF Listed
  <2> QED BY <2>1, <2>2
<1>14. ASSUME NEW c \in Conns, Young(c)' PROVE Silent(c)'
  <2>1. Young(c) BY <1>3, <1>8, <1>12, <1>14 DEF Young
  <2> QED BY <1>0, <1>3, <2>1 DEF Silent, NoGreeting
<1> QED BY <1>7, <1>9, <1>10, <1>11, <1>13, <1>14 DEF ServerInv

\* The steps that only move the server thread on.
LEMMA RoundNext ==
  ASSUME ServerInv, Timeout \/ RoundEnds \/ ProcessAgain
  PROVE  ServerInv'
<1>0. /\ Types /\ Lengths /\ NoBug /\ Slots /\ Thread
      /\ \A c \in Conns : Listed(c) /\ (Young(c) => Silent(c))
  BY DEF ServerInv
<1>1. /\ UNCHANGED <<env, clientVars, sock, up, down, serverVars, listening, ready, cur, callVars, histVars>>
      /\ cur = None /\ ready = {} /\ pc' \in {"handle", "select"}
      /\ pc \in {"handle", "select", "serve"} /\ (pc = "handle" => events = <<>>)
  BY <1>0 DEF Timeout, RoundEnds, ProcessAgain, Thread
<1>2. Types' /\ Lengths' BY <1>0, <1>1 DEF Types, TypeOK, Lengths, Buffers, Event, Idle
<1>3. NoBug' /\ Slots' /\ Thread' BY <1>0, <1>1 DEF NoBug, Slots, Thread
<1>4. ASSUME NEW c \in Conns PROVE Listed(c)' /\ (Young(c)' => Silent(c)')
  <2>1. Listed(c)' BY <1>0, <1>1 DEF Listed, In
  <2>2. Young(c)' => Young(c)
    <3>1. pc = "handle" => ~In(c, "CONNECT")
      <4>1. events = <<>> => DOMAIN events = {} OBVIOUS
      <4> QED BY <1>1, <4>1 DEF In
    <3> QED BY <1>1, <3>1 DEF Young, In
  <2> QED BY <1>0, <1>1, <2>1, <2>2 DEF Silent, NoGreeting
<1> QED BY <1>2, <1>3, <1>4 DEF ServerInv
-----------------------------------------------------------------------------
(***************************************************************************)
(* The handlers.                                                           *)
(***************************************************************************)
LEMMA HandleNext ==
  ASSUME ServerInv, Handle
  PROVE  ServerInv'
<1>0. /\ Types /\ Lengths /\ NoBug /\ Slots /\ Thread
      /\ \A c \in Conns : Listed(c) /\ (Young(c) => Silent(c))
  BY DEF ServerInv
<1>1. /\ pc = "handle" /\ ready = {} /\ cur = None /\ events # <<>> /\ events' = Tail(events)
      /\ UNCHANGED <<env, clientVars, up, fd, info, rcvd, listening, ready, done, callVars>>
  BY <1>0 DEF Handle, Thread
<1>2. PICK d : d = Head(events).c OBVIOUS
<1>3. /\ events' \in Seq(Event) /\ Head(events) \in Event /\ Head(events) = events[1]
      /\ 1 \in DOMAIN events
      /\ \A i \in DOMAIN events' : i \in Nat /\ i + 1 \in DOMAIN events /\ events'[i] = events[i + 1]
      /\ \A i \in DOMAIN events : i \in Nat /\ (i = 1 \/ (i - 1 \in DOMAIN events' /\ events'[i - 1] = events[i]))
      /\ \A c \in Conns, k \in {"CONNECT", "RECEIVE", "DISCONNECT"} :
           /\ In(c, k)' => In(c, k)
           /\ In(c, k) => In(c, k)' \/ (d = c /\ Head(events).k = k)
  BY <1>0, <1>1, <1>2, Handles
<1>4. d \in Conns /\ In(d, Head(events).k) /\ d # None
  BY <1>2, <1>3, TransportAssumption DEF Event, In
<1>5. Lengths' BY <1>0, <1>1 DEF Lengths
<1>6. \A c \in Conns, i, j \in DOMAIN events' :
        events'[i].c = c /\ events'[i].k = "RECEIVE" /\ events'[j].c = c /\ events'[j].k = "DISCONNECT"
          => i < j
  <2> SUFFICES ASSUME NEW c \in Conns, NEW i \in DOMAIN events', NEW j \in DOMAIN events',
                      events'[i].c = c, events'[i].k = "RECEIVE", events'[j].c = c,
                      events'[j].k = "DISCONNECT"
               PROVE  i < j
    OBVIOUS
  <2>1. i + 1 \in DOMAIN events /\ j + 1 \in DOMAIN events /\ i \in Nat /\ j \in Nat
        /\ events'[i] = events[i + 1] /\ events'[j] = events[j + 1]
    BY <1>3
  <2>2. i + 1 < j + 1 BY <1>0, <2>1 DEF Listed
  <2> QED BY <2>1, <2>2
<1>7. \A c \in Conns : (\A i \in DOMAIN events : events[i].c # c)
                         => (\A i \in DOMAIN events' : events'[i].c # c)
  BY <1>3
<1>8. CASE HandleConnect(d)
  <2>1. /\ In(d, "CONNECT") /\ Head(events).k = "CONNECT"
        /\ UNCHANGED <<state, cur, since>> /\ state[d] = 0 /\ ~In(d, "RECEIVE")
    BY <1>0, <1>4, <1>8 DEF HandleConnect, Listed
  <2>2. \E p \in Words : Answers(d, p) BY <1>8 DEF HandleConnect, Words
  <2>3. /\ down' \in [Conns -> Seq(Byte)] /\ wrote' \in [Conns -> Seq(Seq(Byte))]
        /\ pc' \in {"handle", "dead"}
        /\ \A c \in Conns : sock[c] # "open" => down'[c] = down[c]
    BY <1>0, <1>4, <2>2, AnswersIs
  <2>4. /\ slots' \in Seq(Conns \cup {None})
        /\ sock' \in [Conns -> {"none", "backlog", "open", "shut"}]
        /\ \A c \in Conns : sock'[c] = sock[c] \/ (sock[c] = "open" /\ sock'[c] = "shut")
        /\ known' \subseteq Conns /\ known \subseteq known'
        /\ sock'[d] = "open" => d \in known'
        /\ Slots'
    <3>1. CASE known' = known \cup {d} /\ UNCHANGED <<slots, sock>>
      BY <1>0, <1>1, <1>4, <3>1 DEF Types, TypeOK, Slots
    <3>2. CASE Close(d) /\ UNCHANGED known
      <4>1. /\ slots' \in Seq(Conns \cup {None})
            /\ sock' \in [Conns -> {"none", "backlog", "open", "shut"}]
            /\ \A c \in Conns : \/ sock'[c] = sock[c] /\ (sock[c] = "open" => fd[c] # fd[d])
                                \/ sock[c] = "open" /\ fd[c] = fd[d] /\ sock'[c] = "shut"
            /\ Slots'
        BY <1>0, <1>1, <1>4, <3>2, Closes
      <4> QED BY <1>0, <1>4, <3>2, <4>1 DEF Types, TypeOK
    <3> QED BY <1>8, <3>1, <3>2 DEF HandleConnect
  <2>5. Types'
    <3>1. TypeOK' BY <1>0, <1>1, <1>3, <2>1, <2>3, <2>4 DEF Types, TypeOK
    <3>2. events' \in Seq(Event) BY <1>3
    <3> QED BY <1>0, <1>1, <2>1, <2>3, <3>1, <3>2 DEF Types, Idle
  <2>6. NoBug' /\ Thread' BY <1>1, <2>1, <2>3 DEF NoBug, Thread
  <2>7. ASSUME NEW c \in Conns PROVE Listed(c)'
    <3>1. c # d => (In(c, "CONNECT") => In(c, "CONNECT")') BY <1>3
    <3>2. Listed(c) /\ (sock'[c] = sock[c] \/ (sock[c] = "open" /\ sock'[c] = "shut"))
      BY <1>0, <2>4
    <3>3. /\ peer'[c] = "out" => sock'[c] = "none"
          /\ sock'[c] \in {"none", "backlog"} => /\ state'[c] = 0
                                                 /\ \A i \in DOMAIN events' : events'[i].c # c
      BY <1>1, <1>7, <2>1, <3>2 DEF Listed
    <3>4. In(c, "CONNECT")' => state'[c] = 0 /\ ~In(c, "RECEIVE")' BY <1>3, <2>1, <3>2 DEF Listed
    <3>5. /\ In(c, "DISCONNECT")' => sock'[c] = "shut"
          /\ In(c, "RECEIVE")' => c \in known'
      BY <1>3, <2>4, <3>2 DEF Listed
    <3>6. sock'[c] = "open" /\ ~In(c, "CONNECT")' => c \in known'
      BY <2>4, <3>1, <3>2 DEF Listed
    <3> QED BY <1>6, <3>3, <3>4, <3>5, <3>6 DEF Listed
  <2>8. ASSUME NEW c \in Conns, Young(c)' PROVE Silent(c)'
    <3>1. sock[c] \in {"none", "backlog"} BY <2>3, <2>4, <2>8 DEF Young
    <3> QED BY <1>0, <1>1, <2>3, <3>1 DEF Young, Silent, NoGreeting
  <2> QED BY <1>5, <2>4, <2>5, <2>6, <2>7, <2>8 DEF ServerInv
<1>9. CASE HandleDisconnect(d)
  <2>1. /\ In(d, "DISCONNECT") /\ Head(events).k = "DISCONNECT" /\ known' = known \ {d}
        /\ UNCHANGED <<slots, sock, down, state, cur, pc, since, wrote>>
    BY <1>4, <1>9 DEF HandleDisconnect
  <2>2. sock[d] = "shut" BY <1>0, <1>4, <2>1 DEF Listed
  <2>3. ~In(d, "RECEIVE")
    <3> SUFFICES ASSUME NEW i \in DOMAIN events, events[i].c = d, events[i].k = "RECEIVE" PROVE FALSE
      BY DEF In
    <3>1. i < 1 BY <1>0, <1>2, <1>3, <1>4, <2>1 DEF Listed
    <3>2. i \in DOMAIN events /\ i >= 1
      <4>1. events \in Seq(Event) BY <1>0 DEF Types
      <4> QED BY <4>1
    <3>3. i \in Nat BY <1>3
    <3> QED BY <3>1, <3>2, <3>3
  <2>4. Types' BY <1>0, <1>1, <1>3, <2>1 DEF Types, TypeOK, Buffers, Event, Idle
  <2>5. NoBug' /\ Slots' /\ Thread' BY <1>0, <1>1, <2>1 DEF NoBug, Slots, Thread
  <2>6. ASSUME NEW c \in Conns PROVE Listed(c)'
    <3>1. In(c, "CONNECT") => In(c, "CONNECT")' BY <1>3, <2>1
    <3>2. c = d => ~In(c, "RECEIVE")' BY <1>3, <2>3
    <3> QED BY <1>0, <1>1, <1>3, <1>6, <1>7, <2>1, <2>2, <3>1, <3>2 DEF Listed
  <2>7. ASSUME NEW c \in Conns, Young(c)' PROVE Silent(c)'
    BY <1>0, <1>1, <2>1, <2>7 DEF Young, Silent, NoGreeting
  <2> QED BY <1>5, <2>4, <2>5, <2>6, <2>7 DEF ServerInv
<1>10. CASE HandleReceive(d)
  <2>1. /\ In(d, "RECEIVE") /\ UNCHANGED <<slots, sock, down, known, wrote>>
        /\ Head(events).k = "RECEIVE"
    BY <1>4, <1>10 DEF HandleReceive
  <2>2. d \in known /\ ~In(d, "CONNECT") BY <1>0, <1>4, <2>1 DEF Listed
  <2>3. /\ pc' \in {"handle", "confirm"} /\ (pc' = "confirm" => cur' = d)
        /\ (pc' = "handle" => cur' = None)
        /\ state' \in [Conns -> 0 .. 1] /\ \A c \in Conns \ {d} : state'[c] = state[c]
    <3>1. state \in [Conns -> 0 .. 1] BY <1>0 DEF Types, TypeOK
    <3> QED BY <1>1, <1>10, <2>2, <3>1 DEF HandleReceive
  <2>4. Types' BY <1>0, <1>1, <1>3, <1>4, <2>1, <2>3 DEF Types, TypeOK, Buffers, Event, Idle
  <2>5. NoBug' /\ Slots' /\ Thread' BY <1>0, <1>1, <1>4, <2>1, <2>3 DEF NoBug, Slots, Thread
  <2>6. sock[d] \notin {"none", "backlog"} BY <1>0, <1>2, <1>3, <1>4 DEF Listed
  <2>7. ASSUME NEW c \in Conns PROVE Listed(c)'
    <3>1. In(c, "CONNECT") => In(c, "CONNECT")' BY <1>3, <2>1
    <3> QED BY <1>0, <1>1, <1>3, <1>6, <1>7, <2>1, <2>2, <2>3, <2>6, <3>1 DEF Listed
  <2>8. ASSUME NEW c \in Conns, Young(c)' PROVE Silent(c)'
    BY <1>0, <1>1, <2>1, <2>3, <2>8 DEF Young, Silent, NoGreeting
  <2> QED BY <1>5, <2>4, <2>5, <2>7, <2>8 DEF ServerInv
<1> QED BY <1>2, <1>8, <1>9, <1>10 DEF Handle

\* Confirm: only an open connection gets more bytes.
LEMMA ConfirmNext ==
  ASSUME ServerInv, Confirm
  PROVE  ServerInv'
<1>0. /\ Types /\ Lengths /\ NoBug /\ Slots /\ Thread
      /\ \A c \in Conns : Listed(c) /\ (Young(c) => Silent(c))
  BY DEF ServerInv
<1>1. /\ pc = "confirm" /\ cur \in Conns /\ cur' = None /\ ready = {} /\ Answers(cur, OK)
      /\ UNCHANGED <<env, clientVars, sock, up, serverVars, listening, ready, done, callVars, since>>
  BY <1>0 DEF Confirm, Thread, Types, TypeOK
<1>2. /\ down' \in [Conns -> Seq(Byte)] /\ wrote' \in [Conns -> Seq(Seq(Byte))]
      /\ pc' \in {"handle", "dead"}
      /\ \A c \in Conns : sock[c] # "open" => down'[c] = down[c]
  <2>1. PICK d \in Conns : Answers(d, OK) BY <1>1
  <2> QED BY <1>0, <2>1, AnswersIs DEF Words
<1>3. Types' BY <1>0, <1>1, <1>2 DEF Types, TypeOK, Buffers, Event, Idle
<1>4. Lengths' /\ NoBug' /\ Slots' /\ Thread' BY <1>0, <1>1, <1>2 DEF Lengths, NoBug, Slots, Thread
<1>5. ASSUME NEW c \in Conns PROVE Listed(c)' BY <1>0, <1>1 DEF Listed, In
<1>6. ASSUME NEW c \in Conns, Young(c)' PROVE Silent(c)'
  BY <1>0, <1>1, <1>2, <1>6 DEF Young, Silent, NoGreeting
<1> QED BY <1>3, <1>4, <1>5, <1>6 DEF ServerInv
-----------------------------------------------------------------------------
(***************************************************************************)
(* SendCommand, on the other threads.                                      *)
(***************************************************************************)
\* The walk writes to an identified client, and to nobody else.
LEMMA WalkIs ==
  ASSUME ServerInv, Walk
  PROVE  /\ Types' /\ \A c \in Conns : Young(c) => down'[c] = down[c]
<1>0. /\ Types /\ Slots /\ \A c \in Conns : Listed(c) BY DEF ServerInv
<1>1. PICK d : d = slots[call.at] OBVIOUS
<1>2. /\ call # Idle /\ call.half = 0
      /\ call \in [pkt : {<<>>, Start, Config}, to : Conns \cup {None, All}, at : Nat, half : Nat]
      /\ call.pkt \in {Start} \cup IF "long" \in env.mishaps THEN {Config} ELSE {}
      /\ UNCHANGED <<env, clientVars, sock, up, serverVars, listening, threadVars, calls, since>>
  BY <1>0 DEF Walk, Types
<1>10. call.at > 0 BY <1>0, <1>2 DEF Types
<1>3. call.pkt \in Words /\ call.pkt \in {Start, Config} BY <1>2 DEF Words
<1>4. call.pkt \in Seq(Byte) /\ Header(call.pkt) \in Seq(Byte) /\ Frame(call.pkt) \in Seq(Byte)
  BY <1>3, WordsFit
<1>5. Head(Writes(call.pkt)) \in Seq(Byte) BY <1>4 DEF Writes
<1>6. [call EXCEPT !.at = @ + 1] \in [pkt : {Start, Config}, to : Conns \cup {None, All}, at : Nat, half : Nat]
      /\ [call EXCEPT !.at = @ + 1].pkt = call.pkt /\ [call EXCEPT !.at = @ + 1].at > 0
  BY <1>2, <1>3
<1>7. Idle \in [pkt : {<<>>, Start, Config}, to : Conns \cup {None, All}, at : Nat, half : Nat]
  BY DEF Idle
<1>8. CASE ~Meant(d) /\ call' = [call EXCEPT !.at = @ + 1] /\ UNCHANGED <<down, wrote>>
  BY <1>0, <1>2, <1>6, <1>8 DEF Types, TypeOK, Buffers, Event
<1>9. CASE Meant(d) /\ (Carries(fd[d], Head(Writes(call.pkt))) \/ Throws(fd[d]))
  <2>1. d \in Conns /\ sock[d] = "open" /\ state[d] = 1
    <3>1. slots \in Seq(Conns \cup {None}) /\ state \in [Conns -> 0 .. 1] BY <1>0 DEF Types, TypeOK
    <3>2. call.at \in DOMAIN slots
      <4> QED BY <1>2, <1>10, <3>1 DEF Walk
    <3>3. d \in Conns \cup {None} /\ d # None BY <1>1, <1>9, <3>1, <3>2 DEF Meant
    <3>4. sock[d] = "open" BY <1>0, <1>1, <3>2, <3>3 DEF Slots
    <3>5. state[d] > 0 BY <1>9 DEF Meant
    <3> QED BY <3>1, <3>3, <3>4, <3>5
  <2>2. /\ down' \in [Conns -> Seq(Byte)]
        /\ \A c \in Conns : down'[c] = down[c] \/ c \in Socket(fd[d])
    BY <1>0, <1>5, <1>9, CarriesIs
  <2>3. Socket(fd[d]) = {d} BY <1>0, <2>1, OwnerIs
  <2>4. ~Young(d) BY <1>0, <2>1 DEF Young, Listed
  <2>5. wrote' \in [Conns -> Seq(Seq(Byte))]
    <3>1. Noted(fd[d], call.pkt) \/ UNCHANGED wrote BY <1>1 DEF Walk
    <3> QED BY <1>0, <1>4, <3>1, NotedType DEF Types
  <2>6. fd[d] \in Nat BY <1>0, <2>1 DEF Types, TypeOK
  <2>7. /\ [call EXCEPT !.half = fd[d]] \in [pkt : {Start, Config}, to : Conns \cup {None, All}, at : Nat, half : Nat]
        /\ [call EXCEPT !.half = fd[d]].pkt = call.pkt /\ [call EXCEPT !.half = fd[d]].at > 0
    BY <1>2, <1>3, <1>10, <2>6
  <2>8. call' \in {Idle, [call EXCEPT !.at = @ + 1], [call EXCEPT !.half = fd[d]]} BY <1>1 DEF Walk
  <2>9. /\ call' \in [pkt : {<<>>, Start, Config}, to : Conns \cup {None, All}, at : Nat, half : Nat]
        /\ call' # Idle => call'.pkt = call.pkt /\ call'.at > 0
    BY <1>6, <1>7, <2>7, <2>8
  <2>10. Types' BY <1>0, <1>2, <2>2, <2>5, <2>9 DEF Types, TypeOK, Buffers, Event
  <2> QED BY <2>2, <2>3, <2>4, <2>10
<1> QED BY <1>1, <1>8, <1>9 DEF Walk

\* The data of a long packet may go to the next owner of the descriptor, who
\* takes it for a header: it is no greeting.
LEMMA WalkOnIs ==
  ASSUME ServerInv, WalkOn
  PROVE  /\ Types'
         /\ \A c \in Conns : NoGreeting(c) => NoGreeting(c)'
<1>0. Types BY DEF ServerInv
<1>1. /\ call.half # 0
      /\ call \in [pkt : {<<>>, Start, Config}, to : Conns \cup {None, All}, at : Nat, half : Nat]
      /\ UNCHANGED <<env, clientVars, sock, up, serverVars, listening, threadVars, calls, histVars>>
  BY <1>0 DEF WalkOn, Types
<1>2. call # Idle BY <1>1 DEF Idle
<1>3. call.pkt \in {Start, Config} /\ call.pkt \in Words BY <1>0, <1>2 DEF Types, Words
<1>4. call.pkt \in Seq(Byte) BY <1>3, WordsFit
<1>5. call.pkt # <<>> /\ call.pkt[1] = 3
  <2>1. CASE call.pkt = <<3, 0>> BY <2>1
  <2>2. CASE call.pkt = <<3, 0, 0>> BY <2>2
  <2> QED BY <1>3, <2>1, <2>2 DEF Start, Config
<1>6. /\ down' \in [Conns -> Seq(Byte)]
      /\ \A c \in Conns : down'[c] = down[c] \/ down'[c] = down[c] \o call.pkt
  BY <1>0, <1>4, CarriesIs DEF WalkOn
<1>7. /\ [call EXCEPT !.half = 0, !.at = @ + 1] \in [pkt : {Start, Config}, to : Conns \cup {None, All}, at : Nat, half : Nat]
      /\ [call EXCEPT !.half = 0, !.at = @ + 1].pkt = call.pkt
      /\ [call EXCEPT !.half = 0, !.at = @ + 1].at > 0
  <2> DEFINE f == [call EXCEPT !.half = 0]
  <2>1. f = [pkt |-> call.pkt, to |-> call.to, at |-> call.at, half |-> 0] BY <1>1
  <2>4. [call EXCEPT !.half = 0, !.at = @ + 1] = [f EXCEPT !.at = @ + 1] BY <1>1
  <2>5. [f EXCEPT !.at = @ + 1] = [pkt |-> call.pkt, to |-> call.to, at |-> call.at + 1, half |-> 0]
    <3> HIDE DEF f
    <3> QED BY <2>1
  <2>2. call.to \in Conns \cup {None, All} /\ call.at \in Nat BY <1>1
  <2>3. call.at + 1 \in Nat /\ call.at + 1 > 0 BY <2>2
  <2> QED BY <1>3, <2>2, <2>3, <2>4, <2>5
<1>8. /\ call' \in [pkt : {<<>>, Start, Config}, to : Conns \cup {None, All}, at : Nat, half : Nat]
      /\ call' # Idle => call'.pkt = call.pkt /\ call'.at > 0
  <2>1. call' \in {Idle, [call EXCEPT !.half = 0, !.at = @ + 1]} BY DEF WalkOn
  <2>2. Idle \in [pkt : {<<>>, Start, Config}, to : Conns \cup {None, All}, at : Nat, half : Nat]
    BY DEF Idle
  <2> QED BY <1>7, <2>1, <2>2
<1>9. Types' BY <1>0, <1>1, <1>2, <1>6, <1>8 DEF Types, TypeOK, Buffers, Event
<1>10. ASSUME NEW c \in Conns, NoGreeting(c) PROVE NoGreeting(c)'
  <2> DEFINE s == down[c]
             p == call.pkt
  <2>1. s \in Seq(Byte) /\ p \in Seq(Byte) /\ p # <<>> /\ p[1] = 3 BY <1>0, <1>4, <1>5 DEF Types
  <2>2. down'[c] = s \/ down'[c] = s \o p BY <1>6
  <2>3. s = down[c] OBVIOUS
  <2> HIDE DEF s, p
  <2>4. (s \o p)[1] = IF s = <<>> THEN 3 ELSE s[1] BY <2>1
  <2>5. mine'[c] = mine[c] BY <1>1
  <2>6. mine[c].buf = <<>> => (s # <<>> => s[1] = 3) BY <1>10, <2>3 DEF NoGreeting
  <2>7. mine[c].buf = <<>> /\ down'[c] # <<>> => down'[c][1] = 3 BY <2>2, <2>4, <2>6
  <2> QED BY <1>10, <2>5, <2>7 DEF NoGreeting
<1> QED BY <1>9, <1>10

\* The steps of the user and status threads keep the invariant of the server.
LEMMA CallerNext ==
  ASSUME ServerInv, Caller
  PROVE  ServerInv'
<1>0. /\ Types /\ Lengths /\ NoBug /\ Slots /\ Thread
      /\ \A c \in Conns : Listed(c) /\ (Young(c) => Silent(c))
  BY DEF ServerInv
<1>1. UNCHANGED <<env, clientVars, sock, up, serverVars, threadVars>>
  BY DEF Caller, SendCommand, Walk, WalkOn, SendCommandReturns, StopListening
<1>2. Types' /\ \A c \in Conns : Young(c) /\ NoGreeting(c) => NoGreeting(c)'
  <2>1. ASSUME NEW p \in Commands, NEW to \in {All} \cup known, SendCommand(p, to)
        PROVE  Types' /\ down' = down
    <3>1. call' = [Idle EXCEPT !.pkt = p, !.to = to, !.at = 1] BY <2>1 DEF SendCommand
    <3>2. /\ call' \in [pkt : {Start, Config}, to : Conns \cup {None, All}, at : Nat, half : Nat]
          /\ call'.pkt = p /\ call'.at > 0
      <4>1. call' = [pkt |-> p, to |-> to, at |-> 1, half |-> 0] BY <3>1 DEF Idle
      <4>2. p \in {Start, Config} /\ to \in Conns \cup {None, All}
        BY <1>0 DEF Commands, Types, TypeOK
      <4> QED BY <4>1, <4>2
    <3> QED BY <1>0, <2>1, <3>2 DEF SendCommand, Commands, Types, TypeOK, Buffers, Event
  <2>2. CASE SendCommandReturns \/ StopListening
    <3>1. /\ UNCHANGED <<env, clientVars, sock, up, down, serverVars, threadVars, calls, histVars>>
          /\ call' \in {call, Idle} /\ listening' \in {listening, ~listening}
      BY <2>2 DEF SendCommandReturns, StopListening
    <3>2. Idle \in [pkt : {<<>>, Start, Config}, to : Conns \cup {None, All}, at : Nat, half : Nat]
      BY DEF Idle
    <3>3. Types' BY <1>0, <3>1, <3>2 DEF Types, TypeOK, Buffers, Event
    <3> QED BY <3>1, <3>3 DEF NoGreeting
  <2>3. CASE Walk BY <1>1, <2>3, WalkIs DEF NoGreeting
  <2>4. CASE WalkOn BY <2>4, WalkOnIs
  <2>5. down' = down => \A c \in Conns : NoGreeting(c) => NoGreeting(c)' BY <1>1 DEF NoGreeting
  <2> QED BY <2>1, <2>2, <2>3, <2>4, <2>5 DEF Caller
<1>3. Lengths' /\ NoBug' /\ Slots' /\ Thread' BY <1>0, <1>1 DEF Lengths, NoBug, Slots, Thread, In
<1>4. ASSUME NEW c \in Conns PROVE Listed(c)' /\ (Young(c)' => Silent(c)')
  <2>1. Listed(c)' BY <1>0, <1>1 DEF Listed, In
  <2>2. Young(c)' => Young(c) BY <1>1 DEF Young, In
  <2> QED BY <1>0, <1>1, <1>2, <2>1, <2>2 DEF Silent
<1> QED BY <1>2, <1>3, <1>4 DEF ServerInv
-----------------------------------------------------------------------------
(***************************************************************************)
(* The specification.                                                      *)
(***************************************************************************)
LEMMA ServerInit ==
  ASSUME Init
  PROVE  ServerInv
<1>0. env \in Envs /\ events = <<>> /\ slots = <<>> BY DEF Init
<1>1. Fresh \in Buffers /\ Fresh.len = Length(Fresh.buf) BY DEF Fresh, Buffers, Length
<1>2. Cardinality(Conns) \in Nat BY TransportAssumption, FS_CardinalityType
<1>3. TypeOK BY <1>0, <1>2 DEF Init, TypeOK
<1>4. Types BY <1>1, <1>3 DEF Init, Types, Idle
<1>5. Lengths /\ NoBug BY <1>1 DEF Init, Lengths, NoBug
<1>6. DOMAIN events = {} /\ DOMAIN slots = {} BY <1>0
<1>7. Slots /\ Thread BY <1>6 DEF Init, Slots, Thread
<1>8. ASSUME NEW c \in Conns PROVE Listed(c) /\ Silent(c)
  BY <1>6 DEF Init, Listed, In, Silent, NoGreeting, Fresh
<1> QED BY <1>4, <1>5, <1>7, <1>8 DEF ServerInv

\* Every step keeps the invariant of the server.
LEMMA ServerStep ==
  ASSUME ServerInv, [Next]_vars
  PROVE  ServerInv'
<1>1. CASE Server
  <2>1. CASE Timeout \/ RoundEnds \/ ProcessAgain BY <2>1, RoundNext
  <2> QED BY <1>1, <2>1, SelectNext, RecvNext, GetPacketNext, RecvEndNext, HandleNext, ConfirmNext
     DEF Server
<1>2. CASE Caller BY <1>2, CallerNext
<1>3. ASSUME NEW c \in Conns, Client(c) PROVE ServerInv' BY <1>3, ClientNext
<1>4. CASE UNCHANGED vars
  <2>1. Types' <=> Types BY <1>4 DEF Types, TypeOK, Buffers, Event, Idle
  <2>2. Lengths /\ NoBug /\ Slots /\ Thread => Lengths' /\ NoBug' /\ Slots' /\ Thread'
    BY <1>4 DEF Lengths, NoBug, Slots, Thread, In
  <2>3. ASSUME NEW c \in Conns PROVE (Listed(c) => Listed(c)') /\ (Young(c) <=> Young(c)') /\ (Silent(c) <=> Silent(c)')
    BY <1>4 DEF Listed, Young, Silent, NoGreeting, In
  <2> QED BY <2>1, <2>2, <2>3 DEF ServerInv
<1> QED BY <1>1, <1>2, <1>3, <1>4 DEF Next

\* The invariant of the server: the types of everything, one slot and one
\* descriptor for each open connection, the order of the events of a
\* connection, and that a client which is still unknown has said nothing.
THEOREM ServerInvariant == Spec => []ServerInv
<1>1. Init => ServerInv BY ServerInit
<1>2. ServerInv /\ [Next]_vars => ServerInv' BY ServerStep
<1> QED BY <1>1, <1>2, PTL DEF Spec

\* TCPServer::GetInfo finds the connection of every socket that select
\* returns, and RunControl::CommandHandler the entry in m_conn_status of every
\* client that reports, whoever connects, leaves or is refused and whichever
\* descriptors are used again: neither of the two exceptions is thrown.
THEOREM Consistent == Spec => []ServerConsistent
<1>1. ServerInv => ServerConsistent BY DEF ServerInv, Types, ServerConsistent
<1> QED BY <1>1, ServerInvariant, PTL
-----------------------------------------------------------------------------
(***************************************************************************)
(* Packets.  What a reader has in its buffer, followed by what is on its   *)
(* way, is the stream of the packets that were sent and not yet received.  *)
(***************************************************************************)
InOrder(bytes, taken, all) ==
  \E ps \in Seq(Sendable) : all = taken \o ps /\ Framed(bytes, ps)

\* A stream that is closed, or that a client leaves, may lose its end.
Upward(c) ==
  \E rest \in Seq(Byte) :
    /\ sock[c] # "shut" /\ peer[c] # "left" => rest = <<>>
    /\ InOrder((info[c].buf \o up[c]) \o rest, rcvd[c], sent[c])

Downward(c) == InOrder(mine[c].buf \o down[c], got[c], wrote[c])

\* Nobody leaves, and no packet is sent in two pieces.
Calm == "leave" \notin env.mishaps /\ ~({"calls", "long"} \subseteq env.mishaps)

PacketInv ==
  /\ ServerInv
  /\ \A c \in Conns : Upward(c)
  /\ Calm => /\ call.half = 0 /\ ("calls" \notin env.mishaps => call = Idle)
             /\ \A c \in Conns : peer[c] # "left" /\ Downward(c)

\* The first of the later packets is the next after the earlier ones.
LEMMA MoveHead ==
  ASSUME NEW S, NEW t \in Seq(S), NEW ps \in Seq(S), ps # <<>>
  PROVE  t \o ps = Append(t, Head(ps)) \o Tail(ps)
<1>1. PICK h \in S : h = Head(ps) /\ h = ps[1]
  <2>1. Head(ps) \in S BY HeadTailProperties
  <2>2. Head(ps) = ps[1] OBVIOUS
  <2> QED BY <2>1, <2>2
<1>2. PICK r \in Seq(S) :
        r = Tail(ps) /\ Len(r) = Len(ps) - 1 /\ \A i \in 1 .. Len(r) : r[i] = ps[i + 1]
  BY HeadTailProperties
<1>3. PICK q \in Seq(S) :
        /\ q = Append(t, h) /\ Len(q) = Len(t) + 1 /\ q[Len(t) + 1] = h
        /\ \A i \in 1 .. Len(t) : q[i] = t[i]
  <2>1. Append(t, h) \in Seq(S) BY AppendProperties, Zenon
  <2>2. Len(Append(t, h)) = Len(t) + 1 BY AppendProperties, Zenon
  <2>3. Append(t, h)[Len(t) + 1] = h BY AppendProperties, Zenon
  <2>4. \A i \in 1 .. Len(t) : Append(t, h)[i] = t[i] BY AppendProperties
  <2> QED BY <2>1, <2>2, <2>3, <2>4, Zenon
<1>4. PICK x \in Seq(S) :
        /\ x = t \o ps /\ Len(x) = Len(t) + Len(ps)
        /\ \A i \in 1 .. Len(t) + Len(ps) : x[i] = IF i <= Len(t) THEN t[i] ELSE ps[i - Len(t)]
  <2>1. /\ t \o ps \in Seq(S) /\ Len(t \o ps) = Len(t) + Len(ps)
        /\ \A i \in 1 .. Len(t) + Len(ps) :
             (t \o ps)[i] = IF i <= Len(t) THEN t[i] ELSE ps[i - Len(t)]
    BY ConcatProperties, Zenon
  <2> QED BY <2>1, Zenon
<1>5. PICK y \in Seq(S) :
        /\ y = q \o r /\ Len(y) = Len(q) + Len(r)
        /\ \A i \in 1 .. Len(q) + Len(r) : y[i] = IF i <= Len(q) THEN q[i] ELSE r[i - Len(q)]
  <2>1. /\ q \o r \in Seq(S) /\ Len(q \o r) = Len(q) + Len(r)
        /\ \A i \in 1 .. Len(q) + Len(r) :
             (q \o r)[i] = IF i <= Len(q) THEN q[i] ELSE r[i - Len(q)]
    BY ConcatProperties, Zenon
  <2> QED BY <2>1, Zenon
<1>6. Len(t) \in Nat /\ Len(ps) \in Nat /\ Len(r) \in Nat BY LenProperties
<1>7. Len(x) = Len(y) BY <1>2, <1>3, <1>4, <1>5, <1>6
<1>8. ASSUME NEW i \in 1 .. Len(x) PROVE x[i] = y[i]
  <2>1. CASE i <= Len(t)
    <3>1. i \in 1 .. Len(t) /\ i \in 1 .. Len(q) + Len(r) /\ i <= Len(q)
      BY <1>3, <1>4, <1>5, <1>6, <1>7, <1>8, <2>1
    <3> QED BY <1>3, <1>4, <1>5, <1>8, <2>1, <3>1
  <2>2. CASE i = Len(t) + 1
    <3>1. /\ i \in 1 .. Len(q) + Len(r) /\ i <= Len(q) /\ ~(i <= Len(t)) /\ i - Len(t) = 1
      BY <1>3, <1>4, <1>5, <1>6, <1>7, <1>8, <2>2
    <3>2. y[i] = h BY <1>3, <1>5, <2>2, <3>1
    <3>3. x[i] = ps[1] BY <1>4, <1>8, <3>1
    <3> QED BY <1>1, <3>2, <3>3
  <2>3. CASE i > Len(t) + 1
    <3>1. PICK j \in 1 .. Len(r) : j = i - Len(q) /\ j + 1 = i - Len(t)
      <4>1. i - Len(q) \in 1 .. Len(r) /\ i - Len(q) + 1 = i - Len(t)
        BY <1>2, <1>3, <1>4, <1>6, <1>8, <2>3
      <4> QED BY <4>1
    <3>2. i \in 1 .. Len(q) + Len(r) /\ ~(i <= Len(q)) /\ ~(i <= Len(t))
      BY <1>3, <1>5, <1>6, <1>7, <1>8, <2>3
    <3>3. y[i] = r[j] BY <1>5, <3>1, <3>2
    <3>4. x[i] = ps[j + 1] BY <1>4, <1>8, <3>1, <3>2
    <3> QED BY <1>2, <3>1, <3>3, <3>4
  <2>4. i \in Nat /\ (i <= Len(t) \/ i = Len(t) + 1 \/ i > Len(t) + 1)
    <3>1. Len(x) \in Nat BY LenProperties
    <3> QED BY <1>6, <1>8, <3>1
  <2> QED BY <2>1, <2>2, <2>3, <2>4
<1>9. x = y BY <1>7, <1>8, SeqEqual
<1> QED BY <1>1, <1>2, <1>3, <1>4, <1>5, <1>9

\* The packets of the run control fit into the header.
LEMMA WordsSendable == Words \subseteq Sendable
BY WordsFit DEF Sendable

\* A list of sendable packets is a list of byte strings.
LEMMA SendableSeq == Seq(Sendable) \subseteq Seq(Seq(Byte))
<1>1. Sendable \subseteq Seq(Byte) BY DEF Sendable
<1> QED BY <1>1, SeqMonotonic

\* Nothing sent and nothing received.
LEMMA NothingYet == InOrder(<<>>, <<>>, <<>>)
<1>1. <<>> \in Seq(Sendable) /\ <<>> = <<>> \o <<>> BY EmptySeq
<1> QED BY <1>1, FramedNothing DEF InOrder

\* A packet that is sent goes behind the stream, and behind the list.
LEMMA PutOne ==
  ASSUME NEW s \in Seq(Byte), NEW t \in Seq(Seq(Byte)), NEW a, NEW p \in Sendable, InOrder(s, t, a)
  PROVE  InOrder(s \o Frame(p), t, Append(a, p))
<1>1. PICK ps \in Seq(Sendable) : a = t \o ps /\ Framed(s, ps) BY DEF InOrder
<1>2. Framed(s \o Frame(p), Append(ps, p)) /\ Append(ps, p) \in Seq(Sendable)
  BY <1>1, FramedAppend, AppendProperties
<1>3. Append(a, p) = t \o Append(ps, p)
  <2> DEFINE S == Seq(Byte)
  <2>1. t \in Seq(S) /\ ps \in Seq(S) /\ p \in S BY SendableSeq DEF Sendable
  <2> HIDE DEF S
  <2>2. <<p>> \in Seq(S) /\ t \o ps \in Seq(S) BY <2>1
  <2>3. Append(t \o ps, p) = (t \o ps) \o <<p>> /\ Append(ps, p) = ps \o <<p>>
    BY <2>1, <2>2, AppendIsConcat
  <2>4. (t \o ps) \o <<p>> = t \o (ps \o <<p>>)
    <3>1. PICK q \in Seq(S) : q = <<p>> BY <2>2
    <3>2. (t \o ps) \o q = t \o (ps \o q) BY <2>1, ConcatAssociative
    <3> QED BY <3>1, <3>2
  <2>5. Append(t \o ps, p) = t \o Append(ps, p) BY <2>3, <2>4
  <2> QED BY <1>1, <2>5
<1> QED BY <1>2, <1>3 DEF InOrder

\* The packet that a reader takes is the next one that was sent.
LEMMA TakeOne ==
  ASSUME NEW i \in Buffers, i.len = Length(i.buf), HavePacket(i), NEW x \in Seq(Byte),
         NEW t \in Seq(Seq(Byte)), NEW a, InOrder(i.buf \o x, t, a)
  PROVE  InOrder(Remainder(i).buf \o x, Append(t, Packet(i)), a)
<1>s. Sized(i) BY DEF Sized
<1>0. \A p \in Sendable, r \in Seq(Byte) :
        i.buf \o x = Frame(p) \o r => Takes(i, x, p, r)
  BY <1>s, TakesFirst
<1>1. PICK ps \in Seq(Sendable) : a = t \o ps /\ Framed(i.buf \o x, ps) BY DEF InOrder
<1>2. PICK b \in Seq(Byte) : b = i.buf BY DEF Buffers
<1>3. i.buf = b /\ i.len = Length(b) BY <1>2
<1>4. b \o x \in Seq(Byte) /\ b \o x # <<>>
  <2>1. Length(b) \in Nat BY LengthIs
  <2>2. Len(b) >= 2 BY <1>3, <2>1 DEF HavePacket
  <2> QED BY <2>2
<1>5. /\ ps # <<>> /\ Head(ps) \in Sendable /\ Tail(ps) \in Seq(Sendable)
      /\ \E r \in Seq(Byte) : b \o x = Frame(Head(ps)) \o r /\ Framed(r, Tail(ps))
  BY <1>1, <1>2, <1>4, FramedTail
<1>6. PICK r \in Seq(Byte) : b \o x = Frame(Head(ps)) \o r /\ Framed(r, Tail(ps)) BY <1>5
<1>7. PICK p \in Sendable : p = Head(ps) BY <1>5
<1>8. Packet(i) = p /\ Remainder(i).buf \o x = r
  <2>1. i.buf \o x = Frame(p) \o r BY <1>2, <1>6, <1>7
  <2> QED BY <1>0, <2>1 DEF Takes
<1>9. a = Append(t, p) \o Tail(ps)
  <2> DEFINE S == Seq(Byte)
  <2>1. t \in Seq(S) /\ ps \in Seq(S) /\ ps # <<>> /\ p = Head(ps)
    BY <1>5, <1>7, SendableSeq
  <2> HIDE DEF S
  <2>2. t \o ps = Append(t, Head(ps)) \o Tail(ps) BY <2>1, MoveHead
  <2> QED BY <1>1, <1>7, <2>2
<1> QED BY <1>5, <1>6, <1>8, <1>9 DEF InOrder

\* What is read of a stream goes behind what is in the buffer.
LEMMA Moves ==
  ASSUME NEW i \in Buffers, i.len = Length(i.buf), NEW s \in Seq(Byte), NEW n \in Arrived(s)
  PROVE  Appended(i, SubSeq(s, 1, n)).buf \o Drop(s, n) = i.buf \o s
<1>1. PICK x \in Seq(Byte), y \in Seq(Byte) : x = SubSeq(s, 1, n) /\ y = Drop(s, n) /\ x \o y = s
  <2>1. n \in 1 .. Len(s) BY ArrivedIs
  <2>2. /\ SubSeq(s, 1, n) \in Seq(Byte) /\ Drop(s, n) \in Seq(Byte)
        /\ SubSeq(s, 1, n) \o Drop(s, n) = s
    BY <2>1, Cuts
  <2> QED BY <2>2, Zenon
<1>2. PICK b \in Seq(Byte) : b = i.buf BY DEF Buffers
<1>3. Appended(i, x).buf = b \o x BY <1>2, Appends
<1>4. (b \o x) \o y = b \o (x \o y) BY Regroup
<1> QED BY <1>1, <1>2, <1>3, <1>4

\* What was received is the beginning of what was sent.
LEMMA Prefix ==
  ASSUME NEW s, NEW t \in Seq(Seq(Byte)), NEW a, InOrder(s, t, a)
  PROVE  IsPrefix(t, a)
<1>1. PICK ps \in Seq(Sendable) : a = t \o ps BY DEF InOrder
<1> DEFINE S == Seq(Byte)
<1>2. t \in Seq(S) /\ ps \in Seq(S) BY SendableSeq
<1> HIDE DEF S
<1>3. Len(t) <= Len(a) BY <1>1, <1>2, LenProperties
<1>4. SubSeq(t, 1, Len(t)) = SubSeq(a, 1, Len(t)) BY <1>1, <1>2
<1> QED BY <1>3, <1>4 DEF IsPrefix
-----------------------------------------------------------------------------
(***************************************************************************)
(* To the server.                                                          *)
(***************************************************************************)
\* Nothing happens to the stream of c but that its end may be lost.
LEMMA UpwardStays ==
  ASSUME NEW c \in Conns, Upward(c),
         info'[c] = info[c] /\ up'[c] = up[c] /\ rcvd'[c] = rcvd[c] /\ sent'[c] = sent[c],
         sock[c] = "shut" => sock'[c] = "shut", peer[c] = "left" => peer'[c] = "left"
  PROVE  Upward(c)'
BY DEF Upward

\* A client sends: to a closed connection the bytes are lost at its end.
LEMMA UpwardSend ==
  ASSUME Types, NEW c \in Conns, NEW p \in {Ident, Status}, Send(c, p), Upward(c),
         UNCHANGED <<info, rcvd, sock>>, peer[c] # "left"
  PROVE  Upward(c)'
<1>1. PICK rest \in Seq(Byte) :
        /\ sock[c] # "shut" /\ peer[c] # "left" => rest = <<>>
        /\ InOrder((info[c].buf \o up[c]) \o rest, rcvd[c], sent[c])
  BY DEF Upward
<1>2. PICK f \in Seq(Byte) : f = Frame(p) /\ p \in Sendable
  BY WordsFit, WordsSendable DEF Words
<1>3. PICK a \in Seq(Byte), u \in Seq(Byte) : a = info[c].buf /\ u = up[c] BY DEF Types, Buffers
<1>4. (a \o u) \o rest \in Seq(Byte) /\ rcvd[c] \in Seq(Seq(Byte)) BY DEF Types
<1>5. InOrder(((a \o u) \o rest) \o f, rcvd[c], Append(sent[c], p)) BY <1>1, <1>2, <1>3, <1>4, PutOne
<1>6. sent'[c] = Append(sent[c], p) /\ up'[c] = IF sock[c] = "shut" THEN u ELSE u \o f
  BY <1>2, <1>3 DEF Send, Types
<1>7. CASE sock[c] = "shut"
  <2>1. ((a \o u) \o rest) \o f = (a \o u) \o (rest \o f) /\ rest \o f \in Seq(Byte)
    <3>1. PICK v \in Seq(Byte) : v = a \o u BY ConcatProperties
    <3>2. (v \o rest) \o f = v \o (rest \o f) BY Regroup
    <3>3. rest \o f \in Seq(Byte) BY ConcatProperties
    <3> QED BY <3>1, <3>2, <3>3
  <2>2. InOrder((info'[c].buf \o up'[c]) \o (rest \o f), rcvd'[c], sent'[c])
    BY <1>3, <1>5, <1>6, <1>7, <2>1
  <2> QED BY <1>7, <2>1, <2>2 DEF Upward
<1>8. CASE sock[c] # "shut"
  <2>1. ((a \o u) \o rest) \o f = (a \o (u \o f)) \o <<>> /\ <<>> \in Seq(Byte)
    <3>1. rest = <<>> BY <1>1, <1>8
    <3>2. (a \o u) \o <<>> = a \o u BY ConcatEmptySeq, ConcatProperties
    <3>3. (a \o u) \o f = a \o (u \o f) BY Regroup
    <3>4. a \o (u \o f) \in Seq(Byte) BY ConcatProperties
    <3>5. (a \o (u \o f)) \o <<>> = a \o (u \o f) BY <3>4, ConcatEmptySeq
    <3> QED BY <3>1, <3>2, <3>3, <3>5
  <2>2. InOrder((info'[c].buf \o up'[c]) \o <<>>, rcvd'[c], sent'[c])
    BY <1>3, <1>5, <1>6, <1>8, <2>1
  <2> QED BY <2>1, <2>2 DEF Upward
<1> QED BY <1>7, <1>8

\* The streams to the server, after a step of a client.
LEMMA UpwardClient ==
  ASSUME ServerInv, NEW d \in Conns, Client(d), NEW c \in Conns, Upward(c)
  PROVE  Upward(c)'
<1>0. Types BY DEF ServerInv
<1>1. UNCHANGED <<info, rcvd>>
  BY DEF Client, Connect, Read, SeeEnd, Take, GiveUp, SendStatus, Leave
<1>2. CASE c # d
  <2>1. up'[c] = up[c] /\ sent'[c] = sent[c] /\ sock'[c] = sock[c] /\ peer'[c] = peer[c]
    <3>1. CASE Connect(d) \/ Read(d) \/ SeeEnd(d) \/ GiveUp(d)
      BY <1>0, <1>2, <3>1 DEF Connect, Read, SeeEnd, GiveUp, Types, TypeOK
    <3>2. CASE Take(d) BY <1>0, <1>2, <3>2 DEF Take, Send, Types, TypeOK
    <3>3. CASE SendStatus(d) \/ Leave(d) BY <1>0, <1>2, <3>3 DEF SendStatus, Send, Leave, Types, TypeOK
    <3> QED BY <3>1, <3>2, <3>3 DEF Client
  <2> QED BY <1>1, <2>1, UpwardStays
<1>3. CASE c = d
  <2>1. CASE Connect(c) \/ Read(c) \/ SeeEnd(c) \/ GiveUp(c)
    <3>1. /\ UNCHANGED <<up, sent>>
          /\ sock[c] = "shut" => sock'[c] = "shut"
          /\ peer[c] = "left" => peer'[c] = "left"
      <4>1. peer[c] = "out" => sock[c] = "none" BY DEF ServerInv, Listed
      <4> QED BY <1>0, <2>1, <4>1 DEF Connect, Read, SeeEnd, GiveUp, Types, TypeOK
    <3> QED BY <1>1, <3>1, UpwardStays
  <2>2. CASE Take(c) \/ SendStatus(c)
    <3>1. sock' = sock BY <2>2 DEF Take, SendStatus
    <3>2. CASE Send(c, Ident) /\ peer[c] = "greet" BY <1>0, <1>1, <3>1, <3>2, UpwardSend
    <3>3. CASE Send(c, Status) /\ peer[c] = "in" BY <1>0, <1>1, <3>1, <3>3, UpwardSend
    <3>4. CASE UNCHANGED <<sent, up>> /\ peer[c] # "left"
      BY <1>1, <3>1, <3>4, UpwardStays
    <3> QED BY <2>2, <3>2, <3>3, <3>4 DEF Take, SendStatus
  <2>3. CASE Leave(c)
    <3>1. peer'[c] = "left" /\ sock' = sock /\ sent' = sent
      /\ (up' = up \/ up'[c] = <<>>)
      BY <1>0, <2>3 DEF Leave, Types, TypeOK
    <3>2. CASE up' = up BY <1>1, <3>1, <3>2, UpwardStays
    <3>3. CASE up'[c] = <<>>
      <4>1. PICK rest \in Seq(Byte) : InOrder((info[c].buf \o up[c]) \o rest, rcvd[c], sent[c])
        BY DEF Upward
      <4>2. PICK a \in Seq(Byte), u \in Seq(Byte) : a = info[c].buf /\ u = up[c]
        BY <1>0 DEF Types, Buffers
      <4>3. (a \o u) \o rest = (a \o <<>>) \o (u \o rest) /\ u \o rest \in Seq(Byte)
        <5>1. a \o <<>> = a BY ConcatEmptySeq
        <5>2. (a \o u) \o rest = a \o (u \o rest) BY Regroup
        <5> QED BY <5>1, <5>2, ConcatProperties
      <4>4. InOrder((info'[c].buf \o up'[c]) \o (u \o rest), rcvd'[c], sent'[c])
        BY <1>1, <3>1, <3>3, <4>1, <4>2, <4>3
      <4> QED BY <3>1, <4>3, <4>4 DEF Upward
    <3> QED BY <3>1, <3>2, <3>3
  <2> QED BY <1>3, <2>1, <2>2, <2>3 DEF Client
<1> QED BY <1>2, <1>3

\* The streams to the server, after a step of the server thread.
LEMMA UpwardServer ==
  ASSUME ServerInv, Server, NEW c \in Conns, Upward(c)
  PROVE  Upward(c)'
<1>0. Types /\ Lengths BY DEF ServerInv
<1>1. CASE Select
  <2>1. UNCHANGED <<info, up, rcvd, sent, peer>> BY <1>1 DEF Select
  <2>2. sock[c] = "shut" => sock'[c] = "shut" BY <1>0, <1>1 DEF Select, Accept, Types, TypeOK
  <2> QED BY <2>1, <2>2, UpwardStays
<1>2. CASE Timeout \/ RoundEnds \/ ProcessAgain \/ Confirm
  BY <1>2, UpwardStays DEF Timeout, RoundEnds, ProcessAgain, Confirm
<1>3. CASE RecvEnd
  <2>1. UNCHANGED <<info, up, rcvd, sent, peer>> BY <1>3 DEF RecvEnd
  <2>2. sock[c] = "shut" => sock'[c] = "shut" BY <1>0, <1>3 DEF RecvEnd, Close, Types, TypeOK
  <2> QED BY <2>1, <2>2, UpwardStays
<1>4. CASE Handle
  <2>1. UNCHANGED <<info, up, rcvd, sent, peer>> BY <1>4 DEF Handle
  <2>2. sock[c] = "shut" => sock'[c] = "shut"
    BY <1>0, <1>4 DEF Handle, HandleConnect, HandleDisconnect, HandleReceive, Close, Types, TypeOK
  <2> QED BY <2>1, <2>2, UpwardStays
<1>5. CASE Recv
  <2>1. PICK d \in Conns : d = First BY <1>5, ReadyIs DEF Recv
  <2>2. PICK n \in Arrived(up[d]) :
          /\ up' = [up EXCEPT ![d] = Drop(@, n)]
          /\ info' = [info EXCEPT ![d] = Appended(@, SubSeq(up[d], 1, n))]
    <3>1. Owners(fd[First]) # {} /\ slots[Min(Owners(fd[First]))] = d
      BY <1>5, <2>1, ReadyIs DEF Recv
    <3> QED BY <1>5, <2>1, <3>1 DEF Recv
  <2>3. UNCHANGED <<rcvd, sent, sock, peer>> BY <1>5 DEF Recv
  <2>4. CASE c # d BY <1>0, <2>2, <2>3, <2>4, UpwardStays DEF Types
  <2>5. CASE c = d
    <3>1. info[c] \in Buffers /\ info[c].len = Length(info[c].buf) /\ up[c] \in Seq(Byte)
      BY <1>0 DEF Types, Lengths
    <3>2. info'[c] = Appended(info[c], SubSeq(up[c], 1, n)) /\ up'[c] = Drop(up[c], n)
      BY <1>0, <2>2, <2>5 DEF Types
    <3>3. info'[c].buf \o up'[c] = info[c].buf \o up[c]
      <4>1. PICK i \in Buffers, s \in Seq(Byte) : i = info[c] /\ s = up[c] BY <3>1
      <4>2. i.len = Length(i.buf) /\ n \in Arrived(s) BY <2>2, <2>5, <3>1, <4>1
      <4>3. Appended(i, SubSeq(s, 1, n)).buf \o Drop(s, n) = i.buf \o s BY <4>2, Moves
      <4> QED BY <3>2, <4>1, <4>3
    <3> QED BY <2>3, <3>3 DEF Upward
  <2> QED BY <2>4, <2>5
<1>6. CASE GetPacket
  <2>1. PICK d \in Conns : d = cur BY <1>0, <1>6 DEF GetPacket, Types, TypeOK
  <2>2. UNCHANGED <<up, sent, sock, peer>> BY <1>6 DEF GetPacket
  <2>3. CASE UNCHANGED <<rcvd, info>> BY <2>2, <2>3, UpwardStays
  <2>4. CASE /\ HavePacket(info[d])
             /\ rcvd' = [rcvd EXCEPT ![d] = Append(@, Packet(info[d]))]
             /\ info' = [info EXCEPT ![d] = Remainder(@)]
    <3>1. CASE c # d BY <1>0, <2>2, <2>4, <3>1, UpwardStays DEF Types
    <3>2. CASE c = d
      <4>1. PICK i \in Buffers : i = info[c] /\ i.len = Length(i.buf) /\ HavePacket(i)
        BY <1>0, <2>4, <3>2 DEF Types, Lengths
      <4>2. PICK rest \in Seq(Byte) :
              /\ sock[c] # "shut" /\ peer[c] # "left" => rest = <<>>
              /\ InOrder((i.buf \o up[c]) \o rest, rcvd[c], sent[c])
        BY <4>1 DEF Upward
      <4>3. PICK u \in Seq(Byte), b \in Seq(Byte) : u = up[c] /\ b = i.buf
        BY <1>0, <4>1 DEF Types, Buffers
      <4>4. PICK x \in Seq(Byte) : x = u \o rest BY ConcatProperties
      <4>5. InOrder(i.buf \o x, rcvd[c], sent[c])
        <5>1. (b \o u) \o rest = b \o (u \o rest) BY Regroup
        <5> QED BY <4>2, <4>3, <4>4, <5>1
      <4>6. rcvd[c] \in Seq(Seq(Byte)) BY <1>0 DEF Types
      <4>7. InOrder(Remainder(i).buf \o x, Append(rcvd[c], Packet(i)), sent[c])
        BY <4>1, <4>5, <4>6, TakeOne
      <4>8. info'[c] = Remainder(i) /\ rcvd'[c] = Append(rcvd[c], Packet(i)) /\ up'[c] = u
        BY <1>0, <2>2, <2>4, <3>2, <4>1, <4>3 DEF Types
      <4>9. PICK m \in Seq(Byte) : m = Remainder(i).buf BY <4>1, Remains DEF Buffers
      <4>10. (m \o u) \o rest = m \o x BY <4>4, Regroup
      <4>11. InOrder((info'[c].buf \o up'[c]) \o rest, rcvd'[c], sent'[c])
        BY <2>2, <4>7, <4>8, <4>9, <4>10
      <4> QED BY <2>2, <4>2, <4>11 DEF Upward
    <3> QED BY <3>1, <3>2
  <2> QED BY <1>6, <2>1, <2>3, <2>4 DEF GetPacket
<1> QED BY <1>1, <1>2, <1>3, <1>4, <1>5, <1>6 DEF Server

\* The other threads do not touch the streams to the server.
LEMMA UpwardCaller ==
  ASSUME Caller, NEW c \in Conns, Upward(c)
  PROVE  Upward(c)'
<1>1. UNCHANGED <<info, up, rcvd, sent, sock, peer>>
  BY DEF Caller, SendCommand, Walk, WalkOn, SendCommandReturns, StopListening
<1> QED BY <1>1, UpwardStays
-----------------------------------------------------------------------------
(***************************************************************************)
(* To the clients.                                                         *)
(***************************************************************************)
LEMMA DownwardStays ==
  ASSUME NEW c \in Conns, Downward(c),
         mine'[c] = mine[c] /\ got'[c] = got[c] /\ down'[c] = down[c] /\ wrote'[c] = wrote[c]
  PROVE  Downward(c)'
BY DEF Downward

\* A packet in one piece goes behind the stream to each client it reaches.
LEMMA DownwardWrite ==
  ASSUME Types, NEW f, NEW p \in Words, Carries(f, Frame(p)), Noted(f, p), UNCHANGED <<mine, got>>,
         NEW c \in Conns, peer[c] # "left", Downward(c)
  PROVE  Downward(c)'
<1>1. CASE c \notin Socket(f) BY <1>1, DownwardStays DEF Carries, Noted
<1>2. CASE c \in Socket(f)
  <2>1. PICK a \in Seq(Byte), s \in Seq(Byte) : a = mine[c].buf /\ s = down[c] BY DEF Types, Buffers
  <2>2. PICK g \in Seq(Byte) : g = Frame(p) /\ p \in Sendable BY WordsFit, WordsSendable
  <2>3. (a \o s) \o g = a \o (s \o g) BY Regroup
  <2>4. down'[c] = s \o g /\ wrote'[c] = Append(wrote[c], p) BY <1>2, <2>1, <2>2 DEF Carries, Noted
  <2>5. a \o s \in Seq(Byte) /\ got[c] \in Seq(Seq(Byte)) /\ InOrder(a \o s, got[c], wrote[c])
    BY <2>1 DEF Types, Downward
  <2>6. InOrder((a \o s) \o Frame(p), got[c], Append(wrote[c], p)) BY <2>2, <2>5, PutOne
  <2>7. InOrder(mine'[c].buf \o down'[c], got'[c], wrote'[c]) BY <2>1, <2>2, <2>3, <2>4, <2>6
  <2> QED BY <2>7 DEF Downward
<1> QED BY <1>1, <1>2

\* So does an answer of the server thread.
LEMMA DownwardAnswers ==
  ASSUME Types, NEW d \in Conns, NEW p \in Words, Answers(d, p), UNCHANGED <<mine, got>>,
         NEW c \in Conns, peer[c] # "left", Downward(c)
  PROVE  Downward(c)'
<1>1. CASE UNCHANGED <<down, wrote>> BY <1>1, DownwardStays
<1>2. CASE Carries(fd[d], Frame(p)) /\ Noted(fd[d], p) BY <1>2, DownwardWrite
<1> QED BY <1>1, <1>2 DEF Answers, Throws

\* The streams to the clients, after a step of a client.
LEMMA DownwardClient ==
  ASSUME ServerInv, NEW d \in Conns, Client(d), NEW c \in Conns, "leave" \notin env.mishaps, Downward(c)
  PROVE  Downward(c)'
<1>0. Types /\ Lengths BY DEF ServerInv
<1>1. wrote' = wrote BY DEF Client, Connect, Read, SeeEnd, Take, GiveUp, SendStatus, Leave
<1>2. CASE Connect(d) \/ SeeEnd(d) \/ GiveUp(d) \/ SendStatus(d)
  BY <1>2, DownwardStays DEF Connect, SeeEnd, GiveUp, SendStatus
<1>3. CASE Read(d)
  <2>1. PICK n \in Arrived(down[d]) :
          /\ mine' = [mine EXCEPT ![d] = Appended(@, SubSeq(down[d], 1, n))]
          /\ down' = [down EXCEPT ![d] = Drop(@, n)]
    BY <1>3 DEF Read
  <2>2. got' = got BY <1>3 DEF Read
  <2>3. CASE c # d BY <1>0, <1>1, <2>1, <2>2, <2>3, DownwardStays DEF Types
  <2>4. CASE c = d
    <3>1. PICK i \in Buffers, s \in Seq(Byte) : i = mine[c] /\ s = down[c] BY <1>0 DEF Types
    <3>2. i.len = Length(i.buf) /\ n \in Arrived(s) BY <1>0, <2>1, <2>4, <3>1 DEF Lengths
    <3>3. Appended(i, SubSeq(s, 1, n)).buf \o Drop(s, n) = i.buf \o s BY <3>2, Moves
    <3>4. mine'[c] = Appended(i, SubSeq(s, 1, n)) /\ down'[c] = Drop(s, n)
      BY <1>0, <2>1, <2>4, <3>1 DEF Types
    <3>5. mine'[c].buf \o down'[c] = mine[c].buf \o down[c] BY <3>1, <3>3, <3>4
    <3> QED BY <1>1, <2>2, <3>5 DEF Downward
  <2> QED BY <2>3, <2>4
<1>4. CASE Take(d)
  <2>1. /\ HavePacket(mine[d]) /\ down' = down
        /\ got' = [got EXCEPT ![d] = Append(@, Packet(mine[d]))]
        /\ mine' = [mine EXCEPT ![d] = Remainder(@)]
    BY <1>4 DEF Take
  <2>2. CASE c # d BY <1>0, <1>1, <2>1, <2>2, DownwardStays DEF Types
  <2>3. CASE c = d
    <3>1. PICK i \in Buffers : i = mine[c] /\ i.len = Length(i.buf) /\ HavePacket(i)
      BY <1>0, <2>1, <2>3 DEF Types, Lengths
    <3>2. down[c] \in Seq(Byte) /\ got[c] \in Seq(Seq(Byte)) BY <1>0 DEF Types
    <3>3. InOrder(i.buf \o down[c], got[c], wrote[c]) BY <3>1 DEF Downward
    <3>4. InOrder(Remainder(i).buf \o down[c], Append(got[c], Packet(i)), wrote[c])
      BY <3>1, <3>2, <3>3, TakeOne
    <3>5. mine'[c] = Remainder(i) /\ got'[c] = Append(got[c], Packet(i))
      BY <1>0, <2>1, <2>3, <3>1 DEF Types
    <3>6. InOrder(mine'[c].buf \o down'[c], got'[c], wrote'[c]) BY <1>1, <2>1, <3>4, <3>5
    <3> QED BY <3>6 DEF Downward
  <2> QED BY <2>2, <2>3
<1>5. CASE Leave(d) BY <1>5 DEF Leave
<1> QED BY <1>2, <1>3, <1>4, <1>5 DEF Client

\* The streams to the clients, after a step of the server thread.
LEMMA DownwardServer ==
  ASSUME ServerInv, Server, NEW c \in Conns, peer[c] # "left", Downward(c)
  PROVE  Downward(c)'
<1>0. Types /\ Thread BY DEF ServerInv
<1>1. CASE Select \/ Timeout \/ Recv \/ GetPacket \/ RecvEnd \/ RoundEnds \/ ProcessAgain
  <2>1. UNCHANGED <<mine, got, down, wrote>>
    BY <1>1 DEF Select, Timeout, Recv, GetPacket, RecvEnd, RoundEnds, ProcessAgain
  <2> QED BY <2>1, DownwardStays
<1>2. CASE Handle
  <2>1. UNCHANGED <<mine, got>> BY <1>2 DEF Handle
  <2>2. PICK d : d = Head(events).c OBVIOUS
  <2>3. d \in Conns BY <1>0, <1>2, <2>2, Handles DEF Handle, Event
  <2>4. CASE HandleConnect(d)
    <3>1. \E p \in Words : Answers(d, p) BY <2>4 DEF HandleConnect, Words
    <3> QED BY <1>0, <2>1, <2>3, <3>1, DownwardAnswers
  <2>5. CASE HandleDisconnect(d) \/ HandleReceive(d)
    BY <2>1, <2>5, DownwardStays DEF HandleDisconnect, HandleReceive
  <2> QED BY <1>2, <2>2, <2>4, <2>5 DEF Handle
<1>3. CASE Confirm
  <2>1. PICK d \in Conns : Answers(d, OK) BY <1>0, <1>3 DEF Confirm, Thread, Types, TypeOK
  <2>2. UNCHANGED <<mine, got>> BY <1>3 DEF Confirm
  <2> QED BY <1>0, <2>1, <2>2, DownwardAnswers DEF Words
<1> QED BY <1>1, <1>2, <1>3 DEF Server

\* A START is short: it is sent in one piece.
LEMMA DownwardCaller ==
  ASSUME ServerInv, Caller, Calm, call.half = 0, "calls" \notin env.mishaps => call = Idle
  PROVE  /\ call'.half = 0 /\ ("calls" \notin env.mishaps => call' = Idle)
         /\ \A c \in Conns : peer[c] # "left" /\ Downward(c) => Downward(c)'
<1>0. Types BY DEF ServerInv
<1>1. UNCHANGED <<mine, got>>
  BY DEF Caller, SendCommand, Walk, WalkOn, SendCommandReturns, StopListening
<1>2. Idle.half = 0 BY DEF Idle
<1>3. ASSUME UNCHANGED <<down, wrote>>, NEW c \in Conns PROVE Downward(c) => Downward(c)'
  BY <1>1, <1>3, DownwardStays
<1>4. ASSUME NEW p \in Commands, NEW to \in {All} \cup known, SendCommand(p, to)
      PROVE  call'.half = 0 /\ "calls" \in env.mishaps /\ UNCHANGED <<down, wrote>>
  BY <1>4 DEF SendCommand, Idle
<1>5. CASE SendCommandReturns \/ StopListening
  <2>1. call' \in {call, Idle} /\ UNCHANGED <<down, wrote>>
    BY <1>5 DEF SendCommandReturns, StopListening
  <2> QED BY <1>2, <1>3, <2>1
<1>6. CASE Walk
  <2>0. call # Idle BY <1>6 DEF Walk
  <2>1. call # Idle /\ "calls" \in env.mishaps /\ "long" \notin env.mishaps BY <2>0 DEF Calm
  <2>2. call.pkt = Start BY <1>0, <2>1 DEF Types
  <2>3. Start \in Words /\ Len(Start) = 2 BY DEF Words, Start
  <2>4. Writes(call.pkt) = <<Frame(Start)>>
    <3>1. 2 < MinLong BY TransportAssumption
    <3>2. Len(call.pkt) < MinLong BY <2>2, <2>3, <3>1
    <3> QED BY <2>2, <3>2 DEF Writes
  <2>5. Head(Writes(call.pkt)) = Frame(Start) /\ Len(Writes(call.pkt)) = 1 BY <2>4
  <2>6. [call EXCEPT !.at = @ + 1].half = 0
    <3>1. call \in [pkt : {<<>>, Start, Config}, to : Conns \cup {None, All}, at : Nat, half : Nat]
      BY <1>0 DEF Types
    <3> QED BY <3>1
  <2>7. call' \in {Idle, [call EXCEPT !.at = @ + 1]} BY <1>6, <2>5 DEF Walk
  <2>8. \/ UNCHANGED <<down, wrote>>
        \/ \E f : Carries(f, Frame(Start)) /\ Noted(f, Start)
    BY <1>6, <2>2, <2>5 DEF Walk, Throws
  <2>9. ASSUME NEW f, Carries(f, Frame(Start)), Noted(f, Start), NEW c \in Conns,
               peer[c] # "left", Downward(c)
        PROVE  Downward(c)'
    BY <1>0, <1>1, <2>3, <2>9, DownwardWrite
  <2> QED BY <1>2, <1>3, <2>1, <2>6, <2>7, <2>8, <2>9
<1>7. CASE WalkOn BY <1>7 DEF WalkOn
<1> QED BY <1>3, <1>4, <1>5, <1>6, <1>7 DEF Caller
-----------------------------------------------------------------------------
(***************************************************************************)
(* The specification.                                                      *)
(***************************************************************************)
LEMMA PacketInit ==
  ASSUME Init
  PROVE  PacketInv
<1>1. ServerInv BY ServerInit
<1>2. <<>> \in Seq(Byte) /\ (<<>> \o <<>>) = <<>> /\ Fresh.buf = <<>>
  BY EmptySeq, ConcatEmptySeq DEF Fresh
<1>3. ASSUME NEW c \in Conns PROVE Upward(c) /\ Downward(c)
  <2>1. info[c].buf = <<>> /\ up[c] = <<>> /\ rcvd[c] = <<>> /\ sent[c] = <<>>
    BY <1>2 DEF Init
  <2>2. mine[c].buf = <<>> /\ down[c] = <<>> /\ got[c] = <<>> /\ wrote[c] = <<>>
    BY <1>2 DEF Init
  <2>3. InOrder((<<>> \o <<>>) \o <<>>, <<>>, <<>>) /\ InOrder(<<>> \o <<>>, <<>>, <<>>)
    BY <1>2, NothingYet
  <2> QED BY <1>2, <2>1, <2>2, <2>3 DEF Upward, Downward
<1>4. call = Idle /\ call.half = 0 /\ \A c \in Conns : peer[c] # "left" BY DEF Init, Idle
<1> QED BY <1>1, <1>3, <1>4 DEF PacketInv

\* Every step keeps the streams what they are.
LEMMA PacketStep ==
  ASSUME PacketInv, [Next]_vars
  PROVE  PacketInv'
<1>0. ServerInv /\ Types /\ \A c \in Conns : Upward(c) BY DEF PacketInv, ServerInv
<1>1. ServerInv' BY <1>0, ServerStep
<1>2. env' = env
  BY DEF Next, Server, Select, Timeout, Recv, GetPacket, RecvEnd, RoundEnds, Handle, Confirm,
         ProcessAgain, Caller, SendCommand, Walk, WalkOn, SendCommandReturns, StopListening,
         Client, Connect, Read, SeeEnd, Take, GiveUp, SendStatus, Leave
<1>3. Calm' => /\ Calm /\ call.half = 0 /\ ("calls" \notin env.mishaps => call = Idle)
               /\ \A c \in Conns : peer[c] # "left" /\ Downward(c)
  BY <1>2 DEF PacketInv, Calm
<1>4. CASE Server
  <2>1. UNCHANGED <<peer, call>>
    BY <1>4 DEF Server, Select, Timeout, Recv, GetPacket, RecvEnd, RoundEnds, Handle, Confirm, ProcessAgain
  <2>2. \A c \in Conns : Upward(c)' BY <1>0, <1>4, UpwardServer
  <2>3. Calm' => /\ call'.half = 0 /\ ("calls" \notin env.mishaps => call' = Idle)
                 /\ \A c \in Conns : peer'[c] # "left" /\ Downward(c)'
    BY <1>0, <1>3, <1>4, <2>1, DownwardServer
  <2> QED BY <1>1, <1>2, <2>2, <2>3 DEF PacketInv
<1>5. CASE Caller
  <2>1. peer' = peer
    BY <1>5 DEF Caller, SendCommand, Walk, WalkOn, SendCommandReturns, StopListening
  <2>2. \A c \in Conns : Upward(c)' BY <1>0, <1>5, UpwardCaller
  <2>3. Calm' => /\ call'.half = 0 /\ ("calls" \notin env.mishaps => call' = Idle)
                 /\ \A c \in Conns : peer'[c] # "left" /\ Downward(c)'
    BY <1>0, <1>3, <1>5, <2>1, DownwardCaller
  <2> QED BY <1>1, <1>2, <2>2, <2>3 DEF PacketInv
<1>6. ASSUME NEW d \in Conns, Client(d) PROVE PacketInv'
  <2>1. call' = call
    BY <1>6 DEF Client, Connect, Read, SeeEnd, Take, GiveUp, SendStatus, Leave
  <2>2. \A c \in Conns : Upward(c)' BY <1>0, <1>6, UpwardClient
  <2>3. ASSUME Calm', NEW c \in Conns PROVE peer'[c] # "left" /\ Downward(c)'
    <3>1. "leave" \notin env.mishaps BY <1>3, <2>3 DEF Calm
    <3>2. peer[c] # "left" BY <1>3, <2>3
    <3>3. peer'[c] # "left"
      BY <1>0, <1>6, <3>1, <3>2
         DEF Client, Connect, Read, SeeEnd, Take, GiveUp, SendStatus, Leave, Types, TypeOK
    <3>4. Downward(c)' BY <1>0, <1>3, <1>6, <2>3, <3>1, DownwardClient
    <3> QED BY <3>3, <3>4
  <2> QED BY <1>1, <1>2, <1>3, <2>1, <2>2, <2>3 DEF PacketInv
<1>7. CASE UNCHANGED vars
  <2>1. \A c \in Conns : Upward(c)' BY <1>0, <1>7, UpwardStays
  <2>2. \A c \in Conns : Downward(c) => Downward(c)' BY <1>7, DownwardStays
  <2>3. UNCHANGED <<peer, call>> BY <1>7
  <2> QED BY <1>1, <1>2, <1>3, <2>1, <2>2, <2>3 DEF PacketInv
<1> QED BY <1>4, <1>5, <1>6, <1>7 DEF Next

\* What a reader holds and what is on its way are at every moment the packets
\* that were sent and not yet received, one after the other.
THEOREM PacketInvariant == Spec => []PacketInv
<1>1. Init => PacketInv BY PacketInit
<1>2. PacketInv /\ [Next]_vars => PacketInv' BY PacketStep
<1> QED BY <1>1, <1>2, PTL DEF Spec

\* TransportTCP: a packet is received as it was sent, once and in order,
\* whatever the size of the reads, whoever leaves or is refused in between; so
\* is one for a client, while no client leaves and no packet goes in two pieces.
THEOREM Intact == Spec => []PacketsIntact
<1>1. PacketInv => PacketsIntact
  <2> SUFFICES ASSUME PacketInv PROVE PacketsIntact OBVIOUS
  <2>1. Types BY DEF PacketInv, ServerInv
  <2>2. ASSUME NEW c \in Conns PROVE IsPrefix(rcvd[c], sent[c])
    <3>1. PICK s : InOrder(s, rcvd[c], sent[c]) BY DEF PacketInv, Upward
    <3>2. rcvd[c] \in Seq(Seq(Byte)) BY <2>1 DEF Types
    <3> QED BY <3>1, <3>2, Prefix
  <2>3. ASSUME Calm, NEW c \in Conns PROVE IsPrefix(got[c], wrote[c])
    <3>1. InOrder(mine[c].buf \o down[c], got[c], wrote[c]) BY <2>3 DEF PacketInv, Downward
    <3>2. got[c] \in Seq(Seq(Byte)) BY <2>1 DEF Types
    <3> QED BY <3>1, <3>2, Prefix
  <2>4. env.mishaps \cap {"leave", "long"} = {} => Calm BY DEF Calm
  <2> QED BY <2>2, <2>3, <2>4 DEF PacketsIntact
<1> QED BY <1>1, PacketInvariant, PTL
-----------------------------------------------------------------------------
(***************************************************************************)
(* The handshake, when nobody leaves or is late and no command is sent.    *)
(***************************************************************************)
Quiet == env.mishaps \cap {"leave", "calls", "slow"} = {}
Met(c) == Told(c) /\ Understood(c) /\ Expected(c)
Meeting ==
  /\ pc # "dead"
  /\ \A c \in ready : up[c] # <<>>
  /\ \A c \in Conns : Met(c)
Shaking == PacketInv /\ Quiet /\ Meeting

\* The answers of the server can be told apart.
LEMMA Apart ==
  /\ Greeting # OK /\ Greeting # Refusal /\ OK # Refusal
  /\ Greeting \in Seq(Byte) /\ OK \in Seq(Byte) /\ Refusal \in Seq(Byte)
<1>1. Greeting # OK /\ Greeting # Refusal /\ OK # Refusal BY DEF Greeting, OK, Refusal
<1> QED BY <1>1, WordsFit DEF Words

\* Without a mishap no command is on its way and all streams are whole.
LEMMA QuietIs ==
  ASSUME Shaking
  PROVE  /\ ServerInv /\ Types /\ Lengths /\ Slots /\ Thread /\ call = Idle
         /\ \A c \in Conns : /\ Listed(c) /\ Met(c) /\ Upward(c) /\ Downward(c)
                             /\ peer[c] \in {"out", "greet", "confirm", "in", "failed"}
                             /\ sock[c] \in {"none", "backlog", "open", "shut"}
<1>1. ServerInv /\ Calm BY DEF Shaking, PacketInv, Calm, Quiet
<1>2. call = Idle BY <1>1 DEF Shaking, PacketInv, Quiet
<1>3. Types /\ Lengths /\ Slots /\ Thread /\ \A c \in Conns : Listed(c) BY <1>1 DEF ServerInv
<1>4. ASSUME NEW c \in Conns
      PROVE  /\ Met(c) /\ Upward(c) /\ Downward(c)
             /\ peer[c] \in {"out", "greet", "confirm", "in", "failed"}
             /\ sock[c] \in {"none", "backlog", "open", "shut"}
  <2>1. peer[c] # "left" /\ Downward(c) BY <1>1 DEF Shaking, PacketInv
  <2> QED BY <1>3, <2>1 DEF Shaking, Meeting, PacketInv, Types, TypeOK
<1> QED BY <1>1, <1>2, <1>3, <1>4

\* A step that does not concern c.
LEMMA MetStays ==
  ASSUME NEW c, Met(c),
         wrote'[c] = wrote[c] /\ state'[c] = state[c] /\ (c \in known' <=> c \in known),
         peer'[c] = peer[c] /\ got'[c] = got[c] /\ sent'[c] = sent[c] /\ sock'[c] = sock[c],
         events' = events, Confirming(c)' <=> Confirming(c)
  PROVE  Met(c)'
<1>1. Told(c) => Told(c)' BY DEF Told, In
<1>2. Understood(c) => Understood(c)' BY DEF Understood
<1>3. Expected(c) => Expected(c)' BY DEF Expected, In
<1> QED BY <1>1, <1>2, <1>3 DEF Met

\* A packet to an open connection reaches it and nobody else.
LEMMA AnswersQuiet ==
  ASSUME Shaking, NEW d \in Conns, sock[d] = "open", NEW p, Answers(d, p)
  PROVE  /\ pc' = "handle" /\ wrote'[d] = Append(wrote[d], p)
         /\ \A c \in Conns \ {d} : wrote'[c] = wrote[c]
<1>1. Socket(fd[d]) = {d} /\ Owners(fd[d]) # {} BY QuietIs, OwnerIs
<1>2. ~Throws(fd[d])
  <2>1. peer[d] # "left" BY QuietIs
  <2> QED BY <1>1, <2>1 DEF Throws
<1>3. pc' = "handle" /\ Noted(fd[d], p) BY <1>1, <1>2 DEF Answers
<1> QED BY <1>1, <1>3 DEF Noted

\* A list that begins with some packets, and has few.
Begin(a, p, w) ==
  /\ w # <<>>
  /\ \A x : w = <<x>> => a = <<>> /\ p = x
  /\ \A x, y : w = <<x, y>> => (a = <<>> /\ p = x) \/ (a = <<x>> /\ p = y)

\* A list that continues one packet after some others.
LEMMA Begins ==
  ASSUME NEW a \in Seq(Seq(Byte)), NEW p \in Seq(Byte), NEW ps \in Seq(Seq(Byte)), NEW w \in Seq(Seq(Byte)),
         w = Append(a, p) \o ps
  PROVE  Begin(a, p, w)
<1> DEFINE S == Seq(Byte)
<1>1. a \in Seq(S) /\ p \in S /\ ps \in Seq(S) /\ w \in Seq(S) OBVIOUS
<1> HIDE DEF S
<1>2. Len(a) \in Nat /\ Len(ps) \in Nat BY <1>1, LenProperties
<1>3. PICK b \in Seq(S) : b = Append(a, p) BY <1>1, AppendProperties
<1>4. /\ Len(b) = Len(a) + 1 /\ b[Len(a) + 1] = p
      /\ \A i \in 1 .. Len(a) : b[i] = a[i]
  BY <1>1, <1>3, AppendProperties
<1>5. /\ Len(w) = Len(b) + Len(ps) /\ w \in Seq(S)
      /\ \A i \in 1 .. Len(b) : w[i] = b[i]
  <2>1. w = b \o ps BY <1>3
  <2>2. /\ Len(b \o ps) = Len(b) + Len(ps) /\ b \o ps \in Seq(S)
        /\ \A i \in 1 .. Len(b) + Len(ps) : (b \o ps)[i] = IF i <= Len(b) THEN b[i] ELSE ps[i - Len(b)]
    BY <1>1, ConcatProperties
  <2>3. Len(b) \in Nat BY LenProperties
  <2> QED BY <1>2, <2>1, <2>2, <2>3
<1>6. w # <<>>
  <2>1. Len(w) > 0 BY <1>2, <1>4, <1>5
  <2>2. Len(<<>>) = 0 /\ ~(0 > 0) OBVIOUS
  <2> QED BY <2>1, <2>2, Zenon
<1>7. ASSUME NEW x, w = <<x>> PROVE a = <<>> /\ p = x
  <2>1. Len(w) = 1 /\ w[1] = x BY <1>7
  <2>2. Len(a) = 0 BY <1>2, <1>4, <1>5, <2>1
  <2>3. a = <<>> BY <1>1, <2>2
  <2> QED BY <1>4, <1>5, <2>1, <2>2, <2>3
<1>8. ASSUME NEW x, NEW y, w = <<x, y>> PROVE (a = <<>> /\ p = x) \/ (a = <<x>> /\ p = y)
  <2>1. Len(w) = 2 /\ w[1] = x /\ w[2] = y BY <1>8
  <2>2. CASE Len(a) = 0
    <3>1. a = <<>> BY <1>1, <2>2
    <3> QED BY <1>4, <1>5, <2>1, <2>2, <3>1
  <2>3. CASE Len(a) = 1
    <3>1. a[1] = x /\ p = y BY <1>4, <1>5, <2>1, <2>3
    <3>2. a = <<a[1]>> BY <1>1, <2>3
    <3> QED BY <3>1, <3>2
  <2>4. Len(a) = 0 \/ Len(a) = 1
    <3>1. PICK m \in Nat, n \in Nat : m = Len(a) /\ n = Len(ps) BY <1>2
    <3>2. m + 1 + n = 2 BY <1>4, <1>5, <2>1, <3>1
    <3>3. m = 0 \/ m = 1 BY <3>2
    <3> QED BY <3>1, <3>3
  <2> QED BY <2>2, <2>3, <2>4
<1> QED BY <1>6, <1>7, <1>8 DEF Begin

\* A packet behind none and behind one other.
LEMMA AppendsOne ==
  ASSUME NEW S, NEW p \in S, NEW g \in S
  PROVE  Append(<<>>, p) = <<p>> /\ Append(<<g>>, p) = <<g, p>>
<1>1. ASSUME NEW e \in Seq(S), NEW t \in Seq(S), Len(t) = Len(e) + 1, t[Len(t)] = p,
             \A i \in 1 .. Len(e) : t[i] = e[i]
      PROVE  Append(e, p) = t
  <2>1. Len(e) \in Nat BY LenProperties
  <2>2. PICK u \in Seq(S) : u = Append(e, p) BY AppendProperties
  <2>3. Len(u) = Len(e) + 1 /\ u[Len(e) + 1] = p /\ \A i \in 1 .. Len(e) : u[i] = e[i]
    BY <2>2, AppendProperties
  <2>4. \A i \in 1 .. Len(u) : u[i] = t[i] BY <1>1, <2>1, <2>3
  <2> QED BY <1>1, <2>2, <2>3, <2>4, SeqEqual
<1>2. <<>> \in Seq(S) /\ Len(<<>>) = 0 OBVIOUS
<1>3. <<p>> \in Seq(S) /\ Len(<<p>>) = 1 /\ <<p>>[1] = p OBVIOUS
<1>4. <<g>> \in Seq(S) /\ Len(<<g>>) = 1 /\ <<g>>[1] = g OBVIOUS
<1>5. <<g, p>> \in Seq(S) /\ Len(<<g, p>>) = 2 /\ <<g, p>>[1] = g /\ <<g, p>>[2] = p OBVIOUS
<1>6. Append(<<>>, p) = <<p>>
  <2>1. \A i \in 1 .. 0 : <<p>>[i] = <<>>[i] OBVIOUS
  <2> QED BY <1>1, <1>2, <1>3, <2>1
<1>7. Append(<<g>>, p) = <<g, p>>
  <2>1. PICK e \in Seq(S) : e = <<g>> /\ Len(e) = 1 /\ e[1] = g BY <1>4
  <2>2. PICK t \in Seq(S) : t = <<g, p>> /\ Len(t) = 2 /\ t[1] = g /\ t[2] = p BY <1>5
  <2>3. Len(t) = Len(e) + 1 /\ t[Len(t)] = p
    <3>1. Len(t) = 2 /\ Len(e) = 1 /\ t[2] = p BY <2>1, <2>2
    <3> QED BY <3>1
  <2>4. \A i \in 1 .. Len(e) : t[i] = e[i]
    <3>1. Len(e) = 1 /\ t[1] = e[1] BY <2>1, <2>2
    <3> QED BY <3>1
  <2>5. Append(e, p) = t BY <1>1, <2>3, <2>4
  <2> QED BY <2>1, <2>2, <2>5
<1> QED BY <1>6, <1>7

\* What was written says what the server knows.
LEMMA WroteIs ==
  ASSUME Shaking, NEW c \in Conns
  PROVE  /\ wrote[c] \in {<<>>, <<Greeting>>, <<Greeting, OK>>, <<Refusal>>}
         /\ wrote[c] \in {<<Greeting>>, <<Greeting, OK>>} => sock[c] = "open" /\ ~In(c, "CONNECT")
         /\ wrote[c] = <<Refusal>> => sock[c] = "shut"
         /\ wrote[c] = <<Greeting, OK>> => state[c] # 0 /\ ~Confirming(c)
<1>1. Met(c) /\ sock[c] \in {"none", "backlog", "open", "shut"} BY QuietIs
<1>2. /\ <<Greeting>> # <<Refusal>> /\ <<Greeting, OK>> # <<Refusal>> /\ <<Greeting, OK>> # <<Greeting>>
      /\ <<>> # <<Greeting>> /\ <<>> # <<Greeting, OK>> /\ <<>> # <<Refusal>>
  BY Apart
<1> QED BY <1>1, <1>2 DEF Met, Told

\* What a client has got was written to it.
LEMMA GotIs ==
  ASSUME Shaking, NEW c \in Conns
  PROVE  /\ got[c] = <<Greeting, OK>> => wrote[c] = <<Greeting, OK>>
         /\ got[c] = <<Greeting>> => wrote[c] \in {<<Greeting>>, <<Greeting, OK>>}
<1>1. PICK ps \in Seq(Sendable) : wrote[c] = got[c] \o ps
  <2>1. Downward(c) BY QuietIs
  <2> QED BY <2>1 DEF Downward, InOrder
<1> DEFINE S == Seq(Byte)
<1>2. ps \in Seq(S) /\ Greeting \in S /\ OK \in S /\ Refusal \in S BY SendableSeq, Apart
<1> HIDE DEF S
<1>3. wrote[c] \in {<<>>, <<Greeting>>, <<Greeting, OK>>, <<Refusal>>} BY WroteIs
<1>4. CASE got[c] = <<Greeting, OK>>
  <2>1. PICK g \in Seq(S) : g = <<Greeting, OK>> /\ Len(g) = 2
    <3>1. <<Greeting, OK>> \in Seq(S) /\ Len(<<Greeting, OK>>) = 2 BY <1>2
    <3> QED BY <3>1
  <2>2. PICK w \in Seq(S) : w = g \o ps /\ Len(w) = 2 + Len(ps)
    <3>1. g \in Seq(S) /\ Len(g) = 2 BY <2>1
    <3>2. g \o ps \in Seq(S) /\ Len(g \o ps) = Len(g) + Len(ps) BY <1>2, <3>1, ConcatProperties
    <3> QED BY <3>1, <3>2
  <2>3. Len(w) >= 2
    <3>1. Len(ps) \in Nat BY <1>2, LenProperties
    <3> QED BY <2>2, <3>1
  <2>4. Len(<<>>) = 0 /\ Len(<<Greeting>>) = 1 /\ Len(<<Refusal>>) = 1 OBVIOUS
  <2>5. w # <<>> /\ w # <<Greeting>> /\ w # <<Refusal>>
    <3>1. ~(0 >= 2) /\ ~(1 >= 2) OBVIOUS
    <3> QED BY <2>3, <2>4, <3>1, Zenon
  <2>6. w = wrote[c] BY <1>1, <1>4, <2>1, <2>2
  <2> QED BY <1>3, <1>4, <2>5, <2>6, Apart
<1>5. CASE got[c] = <<Greeting>>
  <2>1. PICK g \in Seq(S) : g = <<Greeting>> /\ Len(g) = 1 /\ g[1] = Greeting
    <3>1. <<Greeting>> \in Seq(S) /\ Len(<<Greeting>>) = 1 /\ <<Greeting>>[1] = Greeting BY <1>2
    <3> QED BY <3>1
  <2>2. PICK w \in Seq(S) : w = g \o ps /\ Len(w) = 1 + Len(ps) /\ w[1] = g[1]
    <3>1. g \in Seq(S) /\ Len(g) = 1 /\ Len(ps) \in Nat BY <1>2, <2>1, LenProperties
    <3>2. PICK w \in Seq(S) :
            /\ w = g \o ps /\ Len(w) = Len(g) + Len(ps)
            /\ \A i \in 1 .. Len(g) + Len(ps) : w[i] = IF i <= Len(g) THEN g[i] ELSE ps[i - Len(g)]
      <4>1. /\ g \o ps \in Seq(S) /\ Len(g \o ps) = Len(g) + Len(ps)
            /\ \A i \in 1 .. Len(g) + Len(ps) :
                 (g \o ps)[i] = IF i <= Len(g) THEN g[i] ELSE ps[i - Len(g)]
        BY <1>2, <3>1, ConcatProperties, Zenon
      <4> QED BY <4>1, Zenon
    <3>3. 1 \in 1 .. Len(g) + Len(ps) /\ 1 <= Len(g) BY <3>1
    <3>4. w[1] = g[1] BY <3>2, <3>3
    <3> QED BY <3>1, <3>2, <3>4
  <2>3. Len(w) >= 1
    <3>1. Len(ps) \in Nat BY <1>2, LenProperties
    <3> QED BY <2>2, <3>1
  <2>4. Len(<<>>) = 0 /\ <<Refusal>>[1] = Refusal OBVIOUS
  <2>5. w # <<>> /\ w # <<Refusal>>
    <3>1. ~(0 >= 1) OBVIOUS
    <3> QED BY <2>1, <2>2, <2>3, <2>4, <3>1, Apart, Zenon
  <2>6. w = wrote[c] BY <1>1, <1>5, <2>1, <2>2
  <2> QED BY <1>3, <1>5, <2>5, <2>6, Apart
<1> QED BY <1>4, <1>5, Apart

\* A client that is in is in the list of the run control.
LEMMA InIsKnown ==
  ASSUME Shaking, NEW c \in Conns, peer[c] = "in"
  PROVE  state[c] = 1 /\ c \in known /\ wrote[c] = <<Greeting, OK>>
<1>1. got[c] = <<Greeting, OK>>
  <2>1. Met(c) BY QuietIs
  <2> QED BY <2>1 DEF Met, Understood
<1>2. wrote[c] = <<Greeting, OK>> BY <1>1, GotIs
<1>3. sock[c] = "open" /\ ~In(c, "CONNECT") /\ state[c] # 0 BY <1>2, WroteIs
<1>4. state[c] \in 0 .. 1 /\ Listed(c) BY QuietIs DEF Types, TypeOK
<1> QED BY <1>2, <1>3, <1>4 DEF Listed

\* What was written, understood and known tells the same story.
LEMMA HandshakeInv == ASSUME Shaking PROVE HandshakeAgrees
<1>1. ASSUME NEW c \in Conns
      PROVE  /\ IsPrefix(got[c], <<Greeting, OK>>) \/ got[c] = <<Refusal>>
             /\ peer[c] = "failed" => state[c] = 0 /\ c \notin known
             /\ peer[c] = "in" => state[c] = 1 /\ c \in known
  <2>1. Met(c) /\ peer[c] \in {"out", "greet", "confirm", "in", "failed"} BY QuietIs
  <2>2. got[c] \in {<<>>, <<Greeting>>, <<Greeting, OK>>, <<Refusal>>} BY <2>1 DEF Met, Understood
  <2>3. /\ IsPrefix(<<>>, <<Greeting, OK>>) /\ IsPrefix(<<Greeting>>, <<Greeting, OK>>)
        /\ IsPrefix(<<Greeting, OK>>, <<Greeting, OK>>)
    BY DEF IsPrefix
  <2> QED BY <2>1, <2>2, <2>3, InIsKnown DEF Met, Told, Understood
<1> QED BY <1>1 DEF HandshakeAgrees
-----------------------------------------------------------------------------
(***************************************************************************)
(* The steps of the handshake.                                             *)
(***************************************************************************)
\* The packet that a client takes is the next one that was written to it.
LEMMA TakesNext ==
  ASSUME Shaking, NEW d \in Conns, Take(d)
  PROVE  \E p \in Seq(Byte), ps \in Seq(Seq(Byte)) :
           /\ p = Packet(mine[d]) /\ got'[d] = Append(got[d], p)
           /\ wrote[d] = Append(got[d], p) \o ps /\ got[d] \in Seq(Seq(Byte))
           /\ wrote[d] \in Seq(Seq(Byte))
<1>1. Types /\ ServerInv /\ Downward(d) /\ "leave" \notin env.mishaps
  BY QuietIs DEF Shaking, Quiet
<1>2. PICK p \in Seq(Byte) : p = Packet(mine[d])
  <2>1. mine[d] \in Buffers /\ HavePacket(mine[d]) BY <1>1 DEF Types, Take
  <2> QED BY <2>1, Remains
<1>3. got'[d] = Append(got[d], p) /\ wrote' = wrote BY <1>1, <1>2 DEF Take, Types
<1>4. Downward(d)'
  <2>1. Client(d) BY DEF Client
  <2> QED BY <1>1, <2>1, DownwardClient
<1>5. PICK ps \in Seq(Sendable) : wrote'[d] = got'[d] \o ps BY <1>4 DEF Downward, InOrder
<1>6. ps \in Seq(Seq(Byte)) /\ got[d] \in Seq(Seq(Byte)) /\ wrote[d] \in Seq(Seq(Byte))
  BY <1>1, SendableSeq DEF Types
<1> QED BY <1>2, <1>3, <1>5, <1>6

\* A client understands what the server has written, and nothing else comes.
LEMMA TakeMeets ==
  ASSUME Shaking, NEW d \in Conns, Take(d)
  PROVE  Understood(d)'
<1>1. PICK p \in Seq(Byte), ps \in Seq(Seq(Byte)) :
        /\ p = Packet(mine[d]) /\ got'[d] = Append(got[d], p)
        /\ wrote[d] = Append(got[d], p) \o ps /\ got[d] \in Seq(Seq(Byte))
        /\ wrote[d] \in Seq(Seq(Byte))
  BY TakesNext
<1>2. /\ wrote[d] # <<>>
      /\ \A x : wrote[d] = <<x>> => got[d] = <<>> /\ p = x
      /\ \A x, y : wrote[d] = <<x, y>> => (got[d] = <<>> /\ p = x) \/ (got[d] = <<x>> /\ p = y)
  <2>1. Begin(got[d], p, wrote[d]) BY <1>1, Begins
  <2> QED BY <2>1 DEF Begin
<1>3. /\ wrote[d] \in {<<>>, <<Greeting>>, <<Greeting, OK>>, <<Refusal>>}
      /\ wrote[d] = <<Refusal>> => sock[d] = "shut"
  BY WroteIs
<1>4. /\ Understood(d) /\ peer \in [Conns -> {"out", "greet", "confirm", "in", "failed", "left"}]
      /\ sent \in [Conns -> Seq(Seq(Byte))]
  BY QuietIs DEF Met, Types, TypeOK
<1>5. /\ peer[d] \in {"greet", "confirm", "in"} /\ sock' = sock
  BY DEF Take
<1>6. Append(<<>>, p) = <<p>> /\ Append(<<Greeting>>, p) = <<Greeting, p>> /\ Append(<<>>, Ident) = <<Ident>>
  BY AppendsOne, Apart, WordsFit DEF Words
<1>7. <<Greeting>> # <<>> /\ <<Greeting, OK>> # <<>> /\ <<Greeting, OK>> # <<Greeting>> OBVIOUS
<1>8. CASE peer[d] = "greet"
  <2>1. got[d] = <<>> /\ sent[d] = <<>> BY <1>4, <1>8 DEF Understood
  <2>2. p = Greeting \/ (p = Refusal /\ sock[d] = "shut") BY <1>2, <1>3, <1>7, <2>1
  <2>3. CASE p = Greeting
    <3>1. peer'[d] = "confirm" /\ sent'[d] = Append(sent[d], Ident) BY <1>1, <1>4, <1>8, <2>3 DEF Take, Send
    <3> QED BY <1>1, <1>6, <2>1, <2>3, <3>1 DEF Understood
  <2>4. CASE p = Refusal /\ sock[d] = "shut"
    <3>1. peer'[d] = "failed" /\ sent' = sent BY <1>1, <1>4, <1>8, <2>4, Apart DEF Take
    <3> QED BY <1>1, <1>5, <1>6, <2>1, <2>4, <3>1 DEF Understood
  <2> QED BY <2>2, <2>3, <2>4
<1>9. CASE peer[d] = "confirm"
  <2>1. got[d] = <<Greeting>> BY <1>4, <1>9 DEF Understood
  <2>2. p = OK BY <1>2, <1>3, <1>7, <2>1
  <2>3. peer'[d] = "in" BY <1>1, <1>4, <1>9, <2>2 DEF Take
  <2> QED BY <1>1, <1>6, <2>1, <2>2, <2>3 DEF Understood
<1>10. CASE peer[d] = "in"
  <2>1. got[d] = <<Greeting, OK>> BY <1>4, <1>10 DEF Understood
  <2> QED BY <1>2, <1>3, <1>7, <2>1
<1> QED BY <1>5, <1>8, <1>9, <1>10

\* A refused client is told so before the connection ends.
LEMMA EndMeets ==
  ASSUME Shaking, NEW d \in Conns, SeeEnd(d)
  PROVE  Understood(d)'
<1>1. /\ peer[d] \in {"greet", "confirm", "in"} /\ sock[d] = "shut"
      /\ UNCHANGED <<got, sent, sock>> /\ peer'[d] = "failed"
  BY QuietIs DEF SeeEnd, Types, TypeOK
<1>2. Understood(d) /\ wrote[d] = <<Refusal>> BY <1>1, QuietIs DEF Met, Told
<1>3. peer[d] = "greet"
  <2>1. <<Refusal>> # <<Greeting>> /\ <<Refusal>> # <<Greeting, OK>> BY Apart
  <2> QED BY <1>1, <1>2, <2>1, GotIs DEF Understood
<1> QED BY <1>1, <1>2, <1>3 DEF Understood

\* The steps of a client keep it in agreement with what was written to it.
LEMMA ClientMeets ==
  ASSUME Shaking, NEW d \in Conns, Client(d)
  PROVE  Meeting'
<1>0. /\ Types /\ \A c \in Conns : Met(c) /\ Listed(c)
      /\ pc # "dead" /\ \A c \in ready : up[c] # <<>> /\ c \in Conns
  BY QuietIs DEF Shaking, Meeting, Types, TypeOK
<1>1. UNCHANGED <<env, serverVars, listening, threadVars, callVars, histVars>>
  BY DEF Client, Connect, Read, SeeEnd, Take, GiveUp, SendStatus, Leave
<1>2. ~GiveUp(d) /\ ~Leave(d) BY DEF GiveUp, Leave, Shaking, Quiet
<1>3. /\ \A c \in Conns \ {d} : /\ peer'[c] = peer[c] /\ got'[c] = got[c] /\ sent'[c] = sent[c]
                                /\ sock'[c] = sock[c]
      /\ \/ sock'[d] = sock[d]
         \/ sock[d] = "none" /\ sock'[d] = "backlog"
  <2>1. CASE Connect(d) BY <1>0, <2>1 DEF Connect, Types, TypeOK, Listed
  <2>2. CASE Read(d) \/ SeeEnd(d) BY <1>0, <2>2 DEF Read, SeeEnd, Types, TypeOK
  <2>3. CASE Take(d) BY <1>0, <2>3 DEF Take, Send, Types, TypeOK
  <2>4. CASE SendStatus(d) BY <1>0, <2>4 DEF SendStatus, Send, Types, TypeOK
  <2> QED BY <1>2, <2>1, <2>2, <2>3, <2>4 DEF Client
<1>4. \A c \in ready' : up'[c] # <<>>
  <2>1. CASE Connect(d) \/ Read(d) \/ SeeEnd(d) BY <1>0, <1>1, <2>1 DEF Connect, Read, SeeEnd
  <2>2. ASSUME NEW p \in {Ident, Status}, Send(d, p) PROVE \A c \in ready' : up'[c] # <<>>
    <3>1. PICK f \in Seq(Byte) : f = Frame(p) BY WordsFit DEF Words
    <3>2. \A c \in ready : up[c] \in Seq(Byte) /\ up[c] # <<>> BY <1>0 DEF Types
    <3>3. \A c \in ready : up'[c] = up[c] \/ up'[c] = up[c] \o f
      BY <1>0, <2>2, <3>1 DEF Send, Types
    <3>4. ASSUME NEW s \in Seq(Byte), s # <<>> PROVE s \o f # <<>>
      <4>1. Len(s) \in Nat /\ Len(s) # 0 /\ Len(f) \in Nat BY <3>4, LenProperties, EmptySeq
      <4>2. Len(s \o f) # 0 BY <4>1, ConcatProperties
      <4> QED BY <4>2
    <3> QED BY <1>1, <3>2, <3>3, <3>4
  <2>3. CASE Take(d)
    <3>1. Send(d, Ident) \/ UNCHANGED <<sent, up>> BY <2>3 DEF Take
    <3> QED BY <1>0, <1>1, <2>2, <3>1
  <2>4. CASE SendStatus(d) BY <2>2, <2>4 DEF SendStatus
  <2> QED BY <1>2, <2>1, <2>2, <2>3, <2>4 DEF Client
<1>5. ASSUME NEW c \in Conns PROVE Met(c)'
  <2>1. CASE c # d BY <1>0, <1>1, <1>3, <2>1, MetStays DEF Confirming
  <2>2. CASE c = d
    <3>1. Told(c)' BY <1>0, <1>1, <1>3, <2>2 DEF Met, Told, In, Confirming
    <3>2. Expected(c)' BY <1>0, <1>1, <1>3, <2>2 DEF Met, Expected, In
    <3>3. Understood(c)'
      <4>1. CASE Connect(c) BY <1>0, <4>1 DEF Connect, Met, Understood, Types, TypeOK
      <4>2. CASE Read(c) BY <1>0, <4>2 DEF Read, Met, Understood
      <4>3. CASE SendStatus(c) BY <1>0, <4>3 DEF SendStatus, Met, Understood
      <4> QED BY <1>2, <2>2, <4>1, <4>2, <4>3, TakeMeets, EndMeets DEF Client
    <3> QED BY <3>1, <3>2, <3>3 DEF Met
  <2> QED BY <2>1, <2>2
<1> QED BY <1>0, <1>1, <1>4, <1>5 DEF Meeting

\* A connection that is accepted has no history, and what is ready was sent.
LEMMA SelectMeets ==
  ASSUME Shaking, Select
  PROVE  Meeting'
<1>0. /\ Types /\ \A c \in Conns : /\ Met(c) /\ Listed(c)
                                   /\ peer[c] \in {"out", "greet", "confirm", "in", "failed"}
  BY QuietIs
<1>1. /\ UNCHANGED <<env, clientVars, up, down, info, state, rcvd, known, listening, done, cur, callVars, histVars>>
      /\ pc = "select" /\ pc' = "serve" /\ ready' \subseteq Readable
  BY DEF Select
<1>2. \A c \in ready' : up'[c] # <<>>
  <2>1. \A c \in Readable : up[c] # <<>> BY <1>0 DEF Readable
  <2> QED BY <1>1, <2>1
<1>3. ASSUME NEW c \in Conns PROVE Met(c)'
  <2>1. ~Confirming(c) /\ ~Confirming(c)' BY <1>1 DEF Confirming
  <2>2. CASE UNCHANGED <<sock, events>> BY <1>0, <1>1, <2>1, <2>2, MetStays
  <2>3. ASSUME NEW d \in Conns, sock[d] = "backlog", Accept(d) PROVE Met(c)'
    <3> DEFINE e == [k |-> "CONNECT", c |-> d, p |-> <<>>]
    <3>1. e \in Event /\ e.c = d /\ e.k = "CONNECT" BY DEF Event
    <3>2. events' = Append(events, e) BY <2>3 DEF Accept, Push
    <3> HIDE DEF e
    <3>3. /\ DOMAIN events' = DOMAIN events \cup {Len(events) + 1}
          /\ \A i \in DOMAIN events : i \in Nat /\ i < Len(events) + 1 /\ events'[i] = events[i]
          /\ events'[Len(events) + 1] = e
          /\ \A x \in Conns, k \in {"CONNECT", "RECEIVE", "DISCONNECT"} :
               In(x, k)' <=> In(x, k) \/ (d = x /\ "CONNECT" = k)
      BY <1>0, <3>1, <3>2, Pushes
    <3>4. sock' = [sock EXCEPT ![d] = "open"] /\ sock \in [Conns -> {"none", "backlog", "open", "shut"}]
      BY <1>0, <2>3 DEF Accept, Types, TypeOK
    <3>5. CASE c = d
      <4>1. \A i \in DOMAIN events : events[i].c # d BY <1>0, <2>3 DEF Listed
      <4>2. In(d, "CONNECT")' /\ sock'[d] = "open" BY <3>3, <3>4
      <4>3. wrote[d] = <<>> /\ state[d] = 0 /\ d \notin known BY <1>0, <2>3 DEF Met, Told
      <4>4. Told(d)' BY <1>1, <2>1, <3>5, <4>2, <4>3 DEF Told
      <4>5. Understood(d)' BY <1>0, <1>1, <2>3, <4>2 DEF Met, Understood
      <4>6. ~In(d, "DISCONNECT")'
        <5>1. ~In(d, "DISCONNECT") BY <4>1 DEF In
        <5> QED BY <3>3, <5>1
      <4>7. \A i \in DOMAIN events' : events'[i].c = d => i = Len(events) + 1 BY <3>3, <4>1
      <4>8. Expected(d)' BY <3>1, <3>3, <4>2, <4>6, <4>7 DEF Expected
      <4> QED BY <3>5, <4>4, <4>5, <4>8 DEF Met
    <3>6. CASE c # d
      <4>1. \A mark \in {"CONNECT", "RECEIVE", "DISCONNECT"} : In(c, mark)' <=> In(c, mark) BY <3>3, <3>6
      <4>2. sock'[c] = sock[c] BY <3>4, <3>6
      <4>3. \A i \in DOMAIN events' : events'[i].c = c => i \in DOMAIN events /\ events[i] = events'[i]
        BY <3>1, <3>3, <3>6
      <4>4. Told(c)' BY <1>0, <1>1, <2>1, <4>1, <4>2 DEF Met, Told
      <4>5. Understood(c)' BY <1>0, <1>1, <4>2 DEF Met, Understood
      <4>6. Expected(c)' BY <1>0, <1>1, <4>1, <4>2, <4>3 DEF Met, Expected
      <4> QED BY <4>4, <4>5, <4>6 DEF Met
    <3> QED BY <3>5, <3>6
  <2> QED BY <2>2, <2>3 DEF Select
<1> QED BY <1>1, <1>2, <1>3 DEF Meeting

\* The steps that only move the server thread on, or bytes to its buffer.
LEMMA ServeMeets ==
  ASSUME Shaking, Timeout \/ Recv \/ RoundEnds \/ ProcessAgain
  PROVE  Meeting'
<1>0. ServerInv /\ Types /\ Thread /\ \A c \in Conns : Met(c) BY QuietIs
<1>1. /\ UNCHANGED <<env, clientVars, sock, known, state, events, wrote>>
      /\ pc # "confirm" /\ pc' \in {"select", "serve", "handle"}
  <2>1. CASE Recv
    <3>1. pc' = "serve" BY <1>0, <2>1, ReadyIs DEF Recv
    <3> QED BY <2>1, <3>1 DEF Recv
  <2> QED BY <2>1 DEF Timeout, RoundEnds, ProcessAgain
<1>2. \A c \in ready' : up'[c] # <<>>
  <2>1. CASE Recv
    <3>1. PICK d \in Conns : d = First BY <1>0, <2>1, ReadyIs DEF Recv
    <3>2. ready' = ready \ {d} /\ \A c \in Conns \ {d} : up'[c] = up[c]
      BY <1>0, <2>1, <3>1 DEF Recv, Types
    <3> QED BY <1>0, <3>2 DEF Shaking, Meeting, Types, TypeOK
  <2>2. CASE UNCHANGED <<ready, up>> BY <2>2 DEF Shaking, Meeting
  <2> QED BY <2>1, <2>2 DEF Timeout, RoundEnds, ProcessAgain
<1>3. ASSUME NEW c \in Conns PROVE Met(c)' BY <1>0, <1>1, MetStays DEF Confirming
<1> QED BY <1>1, <1>2, <1>3 DEF Meeting

\* The first packet of a connection is the identification.
LEMMA FirstIsIdent ==
  ASSUME Shaking, NEW d \in Conns, state[d] = 0, sock[d] = "open",
         NEW r \in Seq(Seq(Byte)), NEW p \in Seq(Byte), NEW ps \in Seq(Seq(Byte)),
         sent[d] = Append(r, p) \o ps
  PROVE  p = Ident
<1>1. Understood(d) /\ sent[d] \in Seq(Seq(Byte)) /\ peer[d] \in {"out", "greet", "confirm", "in", "failed"}
  BY QuietIs DEF Met, Types
<1>2. peer[d] # "in" BY InIsKnown
<1>3. Begin(r, p, sent[d]) BY <1>1, Begins
<1>4. sent[d] # <<>> /\ (sent[d] = <<Ident>> => p = Ident) BY <1>3 DEF Begin
<1> QED BY <1>1, <1>2, <1>4 DEF Understood

\* A packet that is completed at the server is the identification or a later one.
LEMMA GetPacketMeets ==
  ASSUME Shaking, GetPacket
  PROVE  Meeting'
<1>0. /\ ServerInv /\ Types /\ Thread /\ \A c \in Conns : Met(c) /\ Upward(c) /\ peer[c] # "left"
  BY QuietIs
<1>1. PICK d : d = cur OBVIOUS
<1>2. /\ pc = "serve" /\ d # None /\ d \in Conns /\ sock[d] = "open" /\ ~In(d, "CONNECT")
      /\ UNCHANGED <<env, clientVars, sock, up, down, fd, state, slots, known, listening,
                     pc, ready, callVars, histVars>>
  BY <1>0, <1>1 DEF GetPacket, Types, TypeOK, Thread
<1>3. pc' # "dead" /\ \A c \in ready' : up'[c] # <<>> BY <1>2 DEF Shaking, Meeting
<1>4. \A c \in Conns : ~Confirming(c) /\ ~Confirming(c)' BY <1>2 DEF Confirming
<1>5. CASE events' = events
  <2>1. \A c \in Conns : Met(c)' BY <1>0, <1>2, <1>4, <1>5, MetStays
  <2> QED BY <1>3, <2>1 DEF Meeting
<1>6. CASE HavePacket(info[d]) /\ Push("RECEIVE", d, Packet(info[d]))
           /\ rcvd' = [rcvd EXCEPT ![d] = Append(@, Packet(info[d]))]
  <2>1. PICK q \in Seq(Byte) : q = Packet(info[d])
    <3>1. info[d] \in Buffers BY <1>0, <1>2 DEF Types
    <3> QED BY <1>6, <3>1, Remains
  <2>2. state[d] = 0 => q = Ident
    <3>1. Upward(d)'
      <4>1. Server BY DEF Server
      <4> QED BY <1>0, <1>2, <4>1, UpwardServer
    <3>2. PICK ps \in Seq(Sendable) : sent'[d] = rcvd'[d] \o ps BY <3>1 DEF Upward, InOrder
    <3>3. rcvd'[d] = Append(rcvd[d], q) /\ rcvd[d] \in Seq(Seq(Byte)) /\ ps \in Seq(Seq(Byte))
      BY <1>0, <1>2, <1>6, <2>1, SendableSeq DEF Types
    <3>4. sent[d] = Append(rcvd[d], q) \o ps BY <1>2, <3>2, <3>3
    <3> QED BY <1>2, <3>3, <3>4, FirstIsIdent
  <2> DEFINE e == [k |-> "RECEIVE", c |-> d, p |-> q]
  <2>3. e \in Event /\ e.c = d /\ e.k = "RECEIVE" /\ e.p = q BY <1>2 DEF Event
  <2>4. events' = Append(events, e) BY <1>6, <2>1 DEF Push
  <2> HIDE DEF e
  <2>5. /\ DOMAIN events' = DOMAIN events \cup {Len(events) + 1}
        /\ \A i \in DOMAIN events : i \in Nat /\ i < Len(events) + 1 /\ events'[i] = events[i]
        /\ events'[Len(events) + 1] = e
        /\ \A c \in Conns, k \in {"CONNECT", "RECEIVE", "DISCONNECT"} :
             In(c, k)' <=> In(c, k) \/ (d = c /\ "RECEIVE" = k)
    BY <1>0, <2>3, <2>4, Pushes
  <2>6. ASSUME NEW c \in Conns PROVE Met(c)'
    <3>1. (In(c, "CONNECT")' <=> In(c, "CONNECT")) /\ (In(c, "DISCONNECT")' <=> In(c, "DISCONNECT"))
      BY <2>5
    <3>2. \A i \in DOMAIN events' :
            \/ i \in DOMAIN events /\ events'[i] = events[i]
            \/ events'[i].c = d /\ events'[i].k = "RECEIVE" /\ events'[i].p = q
      BY <2>3, <2>5
    <3>3. Told(c)' BY <1>0, <1>2, <1>4, <3>1 DEF Met, Told
    <3>4. Understood(c)' BY <1>0, <1>2 DEF Met, Understood
    <3>5. Expected(c)' BY <1>0, <1>2, <2>2, <3>1, <3>2 DEF Met, Expected
    <3> QED BY <3>3, <3>4, <3>5 DEF Met
  <2> QED BY <1>3, <2>6 DEF Meeting
<1> QED BY <1>1, <1>5, <1>6 DEF GetPacket

\* The handler of a new connection greets or refuses it.
LEMMA HandleConnectMeets ==
  ASSUME Shaking, Handle, NEW d \in Conns, d = Head(events).c, HandleConnect(d)
  PROVE  Meeting'
<1>0. ServerInv /\ Types /\ Slots /\ Thread /\ \A c \in Conns : Met(c) /\ Listed(c) BY QuietIs
<1>1. /\ pc = "handle" /\ ready = {} /\ events # <<>> /\ events' = Tail(events)
      /\ UNCHANGED <<env, clientVars, up, fd, info, rcvd, listening, ready, done, callVars, state, cur, since>>
      /\ Head(events).k = "CONNECT"
  BY <1>0 DEF Handle, Thread, HandleConnect
<1>2. /\ Head(events) = events[1] /\ 1 \in DOMAIN events
      /\ \A i \in DOMAIN events' : i \in Nat /\ i + 1 \in DOMAIN events /\ events'[i] = events[i + 1]
      /\ \A c \in Conns, k \in {"CONNECT", "RECEIVE", "DISCONNECT"} :
           /\ In(c, k)' => In(c, k)
           /\ In(c, k) => In(c, k)' \/ (d = c /\ Head(events).k = k)
  BY <1>0, <1>1, Handles
<1>3. In(d, "CONNECT") /\ sock[d] = "open" /\ wrote[d] = <<>> /\ state[d] = 0 /\ d \notin known
  <2>1. In(d, "CONNECT") BY <1>1, <1>2 DEF In
  <2> QED BY <1>0, <2>1 DEF Met, Told, Expected
<1>4. ~In(d, "CONNECT")'
  <2> SUFFICES ASSUME NEW i \in DOMAIN events', events'[i].c = d, events'[i].k = "CONNECT" PROVE FALSE
    BY DEF In
  <2>1. i \in Nat /\ i + 1 \in DOMAIN events /\ events[i + 1].c = d /\ events[i + 1].k = "CONNECT"
    BY <1>2
  <2>2. i + 1 = 1 BY <1>0, <1>1, <1>2, <2>1 DEF Met, Expected
  <2>3. i = 0 BY <2>1, <2>2
  <2>4. 0 \notin DOMAIN events'
    <3>1. events' \in Seq(Event) BY <1>0, <1>1, Handles
    <3> QED BY <3>1
  <2> QED BY <2>3, <2>4
<1>5. ASSUME NEW c \in Conns PROVE Expected(c)' \/ (c = d /\ sock'[c] # sock[c])
  <2>1. \A i, j \in DOMAIN events' :
          events'[i].c = c /\ events'[i].k = "CONNECT" /\ events'[j].c = c /\ events'[j].k = "CONNECT"
            => i = j
    <3> SUFFICES ASSUME NEW i \in DOMAIN events', NEW j \in DOMAIN events', events'[i].c = c,
                        events'[i].k = "CONNECT", events'[j].c = c, events'[j].k = "CONNECT"
                 PROVE  i = j
      OBVIOUS
    <3>1. i \in Nat /\ j \in Nat /\ i + 1 = j + 1 BY <1>0, <1>2 DEF Met, Expected
    <3> QED BY <3>1
  <2>2. state[c] = 0 => \A i \in DOMAIN events' :
          events'[i].c = c /\ events'[i].k = "RECEIVE" => events'[i].p = Ident
    BY <1>0, <1>2 DEF Met, Expected
  <2>3. ~In(c, "DISCONNECT")' /\ (In(c, "CONNECT")' => In(c, "CONNECT"))
    BY <1>0, <1>2 DEF Met, Expected
  <2>4. sock'[c] = sock[c] \/ c = d
    <3>1. sock' = sock \/ Close(d) BY DEF HandleConnect
    <3>2. ASSUME Close(d) PROVE sock'[c] = sock[c] \/ (sock[c] = "open" /\ fd[c] = fd[d])
      BY <1>0, <1>1, <3>2, Closes
    <3> QED BY <1>0, <1>3, <3>1, <3>2 DEF Slots
  <2> QED BY <1>0, <1>1, <2>1, <2>2, <2>3, <2>4 DEF Met, Expected
<1>6. ASSUME NEW c \in Conns PROVE ~Confirming(c) /\ (pc' = "handle" => ~Confirming(c)')
  BY <1>1 DEF Confirming
<1>7. Append(<<>>, Greeting) = <<Greeting>> /\ Append(<<>>, Refusal) = <<Refusal>>
  BY AppendsOne, Apart
<1>8. CASE listening /\ Answers(d, Greeting) /\ known' = known \cup {d} /\ UNCHANGED <<slots, sock>>
  <2>1. /\ pc' = "handle" /\ wrote'[d] = <<Greeting>>
        /\ \A c \in Conns \ {d} : wrote'[c] = wrote[c]
    BY <1>3, <1>7, <1>8, AnswersQuiet
  <2>2. ASSUME NEW c \in Conns PROVE Met(c)'
    <3>1. Understood(c)' BY <1>0, <1>1, <1>8 DEF Met, Understood
    <3>2. Expected(c)' BY <1>5, <1>8
    <3>3. Told(c)'
      <4>1. CASE c = d BY <1>1, <1>3, <1>4, <1>6, <1>8, <2>1, <4>1 DEF Told
      <4>2. CASE c # d
        <5>1. In(c, "CONNECT")' <=> In(c, "CONNECT") BY <1>2, <4>2
        <5> QED BY <1>0, <1>1, <1>6, <1>8, <2>1, <4>2, <5>1 DEF Met, Told
      <4> QED BY <4>1, <4>2
    <3> QED BY <3>1, <3>2, <3>3 DEF Met
  <2> QED BY <1>1, <2>1, <2>2 DEF Meeting
<1>9. CASE ~listening /\ Answers(d, Refusal) /\ Close(d) /\ UNCHANGED known
  <2>1. /\ pc' = "handle" /\ wrote'[d] = <<Refusal>>
        /\ \A c \in Conns \ {d} : wrote'[c] = wrote[c]
    BY <1>3, <1>7, <1>9, AnswersQuiet
  <2>2. \A c \in Conns : \/ sock'[c] = sock[c] /\ (sock[c] = "open" => fd[c] # fd[d])
                         \/ sock[c] = "open" /\ fd[c] = fd[d] /\ sock'[c] = "shut"
    BY <1>0, <1>1, <1>9, Closes
  <2>3. sock'[d] = "shut" /\ \A c \in Conns \ {d} : sock'[c] = sock[c] BY <1>0, <1>3, <2>2 DEF Slots
  <2>4. ASSUME NEW c \in Conns PROVE Met(c)'
    <3>1. CASE c = d
      <4>1. Told(d)' BY <1>1, <1>3, <1>4, <1>6, <1>9, <2>1, <2>3 DEF Told
      <4>2. Understood(d)' BY <1>0, <1>1, <2>3 DEF Met, Understood
      <4>3. Expected(d)'
        <5>1. ~In(d, "DISCONNECT")' BY <1>0, <1>2 DEF Met, Expected
        <5>2. \A i \in DOMAIN events' : events'[i].c = d /\ events'[i].k = "RECEIVE" => events'[i].p = Ident
          BY <1>0, <1>2, <1>3 DEF Met, Expected
        <5> QED BY <1>4, <5>1, <5>2 DEF Expected, In
      <4> QED BY <3>1, <4>1, <4>2, <4>3 DEF Met
    <3>2. CASE c # d
      <4>1. Understood(c)' BY <1>0, <1>1, <2>3, <3>2 DEF Met, Understood
      <4>2. Expected(c)' BY <1>5, <3>2
      <4>3. In(c, "CONNECT")' <=> In(c, "CONNECT") BY <1>2, <3>2
      <4>4. Told(c)' BY <1>0, <1>1, <1>6, <1>9, <2>1, <2>3, <3>2, <4>3 DEF Met, Told
      <4> QED BY <4>1, <4>2, <4>4 DEF Met
    <3> QED BY <3>1, <3>2
  <2> QED BY <1>1, <2>1, <2>4 DEF Meeting
<1> QED BY <1>8, <1>9 DEF HandleConnect

\* The handler of a packet: the first one identifies the client.
LEMMA HandleReceiveMeets ==
  ASSUME Shaking, Handle, NEW d \in Conns, d = Head(events).c, HandleReceive(d)
  PROVE  Meeting'
<1>0. ServerInv /\ Types /\ Slots /\ Thread /\ \A c \in Conns : Met(c) /\ Listed(c) BY QuietIs
<1>1. /\ pc = "handle" /\ ready = {} /\ cur = None /\ events # <<>> /\ events' = Tail(events)
      /\ UNCHANGED <<env, clientVars, up, fd, info, rcvd, listening, ready, done, callVars,
                     slots, sock, down, known, wrote>>
      /\ Head(events).k = "RECEIVE"
  BY <1>0 DEF Handle, Thread, HandleReceive
<1>2. /\ Head(events) = events[1] /\ 1 \in DOMAIN events
      /\ \A i \in DOMAIN events' : i \in Nat /\ i + 1 \in DOMAIN events /\ events'[i] = events[i + 1]
      /\ \A c \in Conns, k \in {"CONNECT", "RECEIVE", "DISCONNECT"} :
           /\ In(c, k)' => In(c, k)
           /\ In(c, k) => In(c, k)' \/ (d = c /\ Head(events).k = k)
  BY <1>0, <1>1, Handles
<1>3. In(d, "RECEIVE") /\ d \in known /\ ~In(d, "CONNECT") /\ sock[d] = "open"
  <2>1. In(d, "RECEIVE") BY <1>1, <1>2 DEF In
  <2>2. d \in known /\ ~In(d, "CONNECT") BY <1>0, <2>1 DEF Listed
  <2>3. sock[d] \notin {"none", "backlog", "shut"} BY <1>0, <2>2 DEF Met, Told
  <2>4. sock[d] \in {"none", "backlog", "open", "shut"} BY <1>0 DEF Types, TypeOK
  <2> QED BY <2>1, <2>2, <2>3, <2>4
<1>4. \A c \in Conns : (In(c, "CONNECT")' <=> In(c, "CONNECT")) /\ ~In(c, "DISCONNECT")'
  BY <1>0, <1>1, <1>2 DEF Met, Expected
<1>5. ASSUME NEW c \in Conns, state'[c] = 0 => state[c] = 0 PROVE Expected(c)'
  <2>1. \A i, j \in DOMAIN events' :
          events'[i].c = c /\ events'[i].k = "CONNECT" /\ events'[j].c = c /\ events'[j].k = "CONNECT"
            => i = j
    <3> SUFFICES ASSUME NEW i \in DOMAIN events', NEW j \in DOMAIN events', events'[i].c = c,
                        events'[i].k = "CONNECT", events'[j].c = c, events'[j].k = "CONNECT"
                 PROVE  i = j
      OBVIOUS
    <3>1. i \in Nat /\ j \in Nat /\ i + 1 = j + 1 BY <1>0, <1>2 DEF Met, Expected
    <3> QED BY <3>1
  <2>2. state[c] = 0 => \A i \in DOMAIN events' :
          events'[i].c = c /\ events'[i].k = "RECEIVE" => events'[i].p = Ident
    BY <1>0, <1>2 DEF Met, Expected
  <2> QED BY <1>0, <1>1, <1>4, <1>5, <2>1, <2>2 DEF Met, Expected
<1>6. \A c \in Conns : Understood(c)' BY <1>0, <1>1 DEF Met, Understood
<1>7. CASE state[d] = 0 /\ pc' = "confirm" /\ cur' = d
  <2>1. Head(events).p = Ident BY <1>0, <1>1, <1>2, <1>7 DEF Met, Expected
  <2>2. state' = [state EXCEPT ![d] = 1] /\ state \in [Conns -> 0 .. 1]
    BY <1>0, <1>7, <2>1 DEF HandleReceive, Types, TypeOK
  <2>3. ASSUME NEW c \in Conns PROVE Told(c)'
    <3>1. CASE c = d
      <4>1. wrote[d] = <<Greeting>> /\ Confirming(d)' BY <1>0, <1>3, <1>7 DEF Met, Told, Confirming
      <4> QED BY <1>1, <1>3, <1>4, <2>2, <3>1, <4>1 DEF Told
    <3>2. CASE c # d
      <4>1. ~Confirming(c) /\ ~Confirming(c)' BY <1>1, <1>7, <3>2 DEF Confirming
      <4> QED BY <1>0, <1>1, <1>4, <2>2, <3>2, <4>1 DEF Met, Told
    <3> QED BY <3>1, <3>2
  <2>4. \A c \in Conns : Expected(c)' BY <1>5, <2>2
  <2> QED BY <1>1, <1>6, <1>7, <2>3, <2>4 DEF Met, Meeting
<1>8. CASE state[d] = 1 /\ pc' = "handle" /\ UNCHANGED <<state, cur>>
  <2>1. \A c \in Conns : ~Confirming(c) /\ ~Confirming(c)' BY <1>1, <1>8 DEF Confirming
  <2>2. \A c \in Conns : Told(c)' BY <1>0, <1>1, <1>4, <1>8, <2>1 DEF Met, Told
  <2>3. \A c \in Conns : Expected(c)' BY <1>5, <1>8
  <2> QED BY <1>1, <1>6, <1>8, <2>2, <2>3 DEF Met, Meeting
<1> QED BY <1>1, <1>3, <1>7, <1>8 DEF HandleReceive

\* Of the events only CONNECT and RECEIVE occur, and their handlers keep the agreement.
LEMMA HandleMeets ==
  ASSUME Shaking, Handle
  PROVE  Meeting'
<1>1. PICK d : d = Head(events).c OBVIOUS
<1>2. d \in Conns /\ In(d, Head(events).k)
  <2>1. Types /\ events # <<>> /\ events' = Tail(events) BY QuietIs DEF Handle
  <2>2. Head(events) \in Event /\ Head(events) = events[1] /\ 1 \in DOMAIN events BY <2>1, Handles
  <2> QED BY <1>1, <2>2 DEF In, Event
<1>3. ~HandleDisconnect(d) BY <1>2, QuietIs DEF HandleDisconnect, Met, Expected
<1> QED BY <1>1, <1>2, <1>3, HandleConnectMeets, HandleReceiveMeets DEF Handle

\* The confirmation follows the greeting.
LEMMA ConfirmMeets ==
  ASSUME Shaking, Confirm
  PROVE  Meeting'
<1>0. ServerInv /\ Types /\ Thread /\ \A c \in Conns : Met(c) /\ Listed(c) BY QuietIs
<1>1. PICK d \in Conns : d = cur BY <1>0 DEF Confirm, Thread, Types, TypeOK
<1>2. /\ pc = "confirm" /\ ready = {} /\ Answers(d, OK)
      /\ UNCHANGED <<env, clientVars, sock, up, serverVars, listening, ready, done, callVars, since>>
  BY <1>0, <1>1 DEF Confirm, Thread
<1>3. Confirming(d) /\ state[d] = 1 /\ sock[d] = "open" BY <1>0, <1>1, <1>2 DEF Confirming, Met, Told
<1>4. ~In(d, "CONNECT") BY <1>0, <1>3 DEF Met, Told
<1>5. wrote[d] = <<Greeting>> BY <1>0, <1>3, <1>4 DEF Met, Told
<1>6. /\ pc' = "handle" /\ wrote'[d] = <<Greeting, OK>>
      /\ \A c \in Conns \ {d} : wrote'[c] = wrote[c]
  BY <1>2, <1>3, <1>5, AnswersQuiet, AppendsOne, Apart
<1>7. ASSUME NEW c \in Conns PROVE Met(c)'
  <2>1. ~Confirming(c)' BY <1>6 DEF Confirming
  <2>2. CASE c = d
    <3>1. Told(d)' BY <1>2, <1>3, <1>4, <1>6, <2>1, <2>2 DEF Told, In
    <3>2. Understood(d)' /\ Expected(d)' BY <1>0, <1>2 DEF Met, Understood, Expected, In
    <3> QED BY <2>2, <3>1, <3>2 DEF Met
  <2>3. CASE c # d
    <3>1. ~Confirming(c) BY <1>1, <2>3 DEF Confirming
    <3> QED BY <1>0, <1>2, <1>6, <2>1, <2>3, <3>1, MetStays
  <2> QED BY <2>2, <2>3
<1> QED BY <1>2, <1>6, <1>7 DEF Meeting

\* Every step keeps the agreement: nothing ends, and no command is sent.
LEMMA MeetingStep ==
  ASSUME Shaking, [Next]_vars
  PROVE  Meeting'
<1>1. CASE Server
  <2>1. ~RecvEnd
    <3> SUFFICES ASSUME RecvEnd PROVE FALSE OBVIOUS
    <3>1. First \in ready /\ up[First] = <<>> BY QuietIs, ReadyIs DEF RecvEnd
    <3> QED BY <3>1 DEF Shaking, Meeting
  <2>2. CASE Timeout \/ Recv \/ RoundEnds \/ ProcessAgain BY <2>2, ServeMeets
  <2> QED BY <1>1, <2>1, <2>2, SelectMeets, GetPacketMeets, HandleMeets, ConfirmMeets DEF Server
<1>2. CASE Caller
  <2>1. call = Idle /\ "calls" \notin env.mishaps BY QuietIs DEF Shaking, Quiet
  <2>2. StopListening
    BY <1>2, <2>1 DEF Caller, SendCommand, Walk, WalkOn, SendCommandReturns, Idle
  <2>3. \A c \in Conns : Met(c)' BY <2>2, QuietIs, MetStays DEF StopListening, Confirming
  <2> QED BY <2>2, <2>3 DEF StopListening, Shaking, Meeting
<1>3. ASSUME NEW d \in Conns, Client(d) PROVE Meeting' BY <1>3, ClientMeets
<1>4. CASE UNCHANGED vars
  <2>1. \A c \in Conns : Met(c)' BY <1>4, QuietIs, MetStays DEF Confirming
  <2> QED BY <1>4, <2>1 DEF Shaking, Meeting
<1> QED BY <1>1, <1>2, <1>3, <1>4 DEF Next

\* At first nobody has said anything.
LEMMA HandshakeInit == ASSUME Init PROVE Handshake
<1>1. DOMAIN events = {}
  <2>1. events = <<>> BY DEF Init
  <2> QED BY <2>1
<1>2. ASSUME NEW c \in Conns PROVE Told(c) /\ Understood(c) /\ Expected(c)
  BY <1>1 DEF Init, Told, Understood, Expected, In, Confirming
<1>3. pc # "dead" /\ ready = {} BY DEF Init
<1> QED BY <1>2, <1>3 DEF Handshake

\* What was written to a client, what it has understood and what the server
\* has yet to handle of it belong together.
THEOREM HandshakeInvariant == Spec => [](PacketInv /\ Handshake)
<1>1. Init => PacketInv /\ Handshake BY PacketInit, HandshakeInit
<1>2. PacketInv /\ Handshake /\ [Next]_vars => PacketInv' /\ Handshake'
  <2> SUFFICES ASSUME PacketInv, Handshake, [Next]_vars PROVE Handshake'
    BY PacketStep
  <2>1. env' = env
    BY DEF Next, Server, Select, Timeout, Recv, GetPacket, RecvEnd, RoundEnds, Handle, Confirm,
           ProcessAgain, Caller, SendCommand, Walk, WalkOn, SendCommandReturns, StopListening,
           Client, Connect, Read, SeeEnd, Take, GiveUp, SendStatus, Leave
  <2>2. Quiet => Shaking BY DEF Quiet, Handshake, Shaking, Meeting, Met
  <2>3. Quiet => Meeting' BY <2>2, MeetingStep
  <2> QED BY <2>1, <2>3 DEF Quiet, Handshake, Meeting, Met
<1> QED BY <1>1, <1>2, PTL DEF Spec

\* CommandReceiver::Connect and RunControl::CommandHandler: while nobody
\* leaves, is late or sends a command, a client is greeted and confirmed, and
\* then the run control has it in its list, or it is refused, and then not.
THEOREM Agrees == Spec => []HandshakeAgrees
<1>1. PacketInv /\ Handshake => HandshakeAgrees
  <2>1. CASE ~Quiet BY <2>1 DEF Quiet, HandshakeAgrees
  <2>2. CASE Quiet BY <2>2, HandshakeInv DEF Quiet, Handshake, Shaking, Meeting, Met
  <2> QED BY <2>1, <2>2
<1> QED BY <1>1, HandshakeInvariant, PTL

-----------------------------------------------------------------------------
(***************************************************************************)
(* Subsequences.                                                           *)
(***************************************************************************)
\* What has been kept after each of the first n elements.
Keeps(s, S, n, f) ==
  f = [i \in 0 .. n |-> IF i = 0 THEN <<>>
                        ELSE IF s[i] \in S THEN Append(f[i - 1], s[i]) ELSE f[i - 1]]

\* There is one way to keep them: the least length without one would have a shorter one.
LEMMA KeepsExists ==
  ASSUME NEW s, NEW S, NEW n \in Nat
  PROVE  \E f : Keeps(s, S, n, f)
<1> DEFINE Bad == {k \in Nat : ~\E f : Keeps(s, S, k, f)}
<1> SUFFICES ASSUME n \in Bad PROVE FALSE OBVIOUS
<1> DEFINE m == Min(Bad)
<1>1. m \in Bad /\ \A k \in Bad : m <= k
  <2>1. Bad \in SUBSET Nat /\ Bad # {} OBVIOUS
  <2> HIDE DEF Bad
  <2> QED BY <2>1, MinExists
<1> HIDE DEF m
<1>2. m # 0
  <2> SUFFICES ASSUME m = 0 PROVE FALSE OBVIOUS
  <2> DEFINE g == [i \in 0 .. 0 |-> <<>>]
  <2>1. \A i \in 0 .. 0 : i = 0 OBVIOUS
  <2>2. Keeps(s, S, 0, g) BY <2>1 DEF Keeps
  <2> HIDE DEF g
  <2> QED BY <1>1, <2>2
<1>3. m - 1 \in Nat /\ m - 1 \notin Bad BY <1>1, <1>2
<1>4. PICK f : Keeps(s, S, m - 1, f) BY <1>3
<1>5. \A i \in 0 .. m - 1 : f[i] = IF i = 0 THEN <<>>
                                   ELSE IF s[i] \in S THEN Append(f[i - 1], s[i]) ELSE f[i - 1]
  BY <1>4 DEF Keeps
<1> DEFINE g == [i \in 0 .. m |-> IF i < m THEN f[i]
                                  ELSE IF s[m] \in S THEN Append(f[m - 1], s[m]) ELSE f[m - 1]]
           h == [i \in 0 .. m |-> IF i = 0 THEN <<>>
                                  ELSE IF s[i] \in S THEN Append(g[i - 1], s[i]) ELSE g[i - 1]]
<1>6. ASSUME NEW i \in 0 .. m PROVE g[i] = h[i]
  <2>1. CASE i = 0
    <3>1. 0 \in 0 .. m - 1 /\ 0 < m /\ m \in Nat BY <1>1, <1>2, <1>3
    <3>2. f[0] = <<>> BY <1>5, <3>1
    <3>3. g[0] = f[0] /\ h[0] = <<>> BY <3>1
    <3> QED BY <2>1, <3>2, <3>3
  <2>2. CASE i # 0
    <3>1. i \in Nat /\ m \in Nat /\ i - 1 \in 0 .. m /\ i - 1 < m BY <1>1, <2>2
    <3>2. g[i - 1] = f[i - 1] BY <3>1
    <3>3. h[i] = IF s[i] \in S THEN Append(f[i - 1], s[i]) ELSE f[i - 1] BY <2>2, <3>2
    <3>4. CASE i = m BY <3>3, <3>4
    <3>5. CASE i < m
      <4>1. i \in 0 .. m - 1 BY <3>1, <3>5
      <4> QED BY <1>5, <2>2, <3>3, <3>5, <4>1
    <3> QED BY <3>1, <3>4, <3>5
  <2> QED BY <2>1, <2>2
<1>7. g = h BY <1>6
<1>8. Keeps(s, S, m, g)
  <2> HIDE DEF g
  <2> QED BY <1>7 DEF Keeps
<1> HIDE DEF g
<1> QED BY <1>1, <1>8

\* Sequences that begin alike are kept alike.
LEMMA KeepsAlike ==
  ASSUME NEW s, NEW t, NEW S, NEW n \in Nat, NEW m \in Nat, NEW f, NEW g,
         Keeps(s, S, n, f), Keeps(t, S, m, g),
         NEW k \in Nat, k <= n, k <= m, \A i \in 1 .. k : s[i] = t[i]
  PROVE  f[k] = g[k]
<1> DEFINE Bad == {i \in 0 .. k : f[i] # g[i]}
<1> SUFFICES ASSUME Bad # {} PROVE FALSE OBVIOUS
<1> DEFINE j == Min(Bad)
<1>1. j \in Bad /\ \A i \in Bad : j <= i
  <2>1. Bad \in SUBSET Nat OBVIOUS
  <2> HIDE DEF Bad
  <2> QED BY <2>1, MinExists
<1> HIDE DEF j
<1>2. \A i \in 0 .. k :
        /\ f[i] = IF i = 0 THEN <<>> ELSE IF s[i] \in S THEN Append(f[i - 1], s[i]) ELSE f[i - 1]
        /\ g[i] = IF i = 0 THEN <<>> ELSE IF t[i] \in S THEN Append(g[i - 1], t[i]) ELSE g[i - 1]
  <2>1. \A i \in 0 .. k : i \in 0 .. n /\ i \in 0 .. m OBVIOUS
  <2> QED BY <2>1 DEF Keeps
<1>3. j # 0 BY <1>1, <1>2
<1>4. j - 1 \in 0 .. k /\ j \in 1 .. k /\ j - 1 \notin Bad BY <1>1, <1>3
<1>5. f[j - 1] = g[j - 1] /\ s[j] = t[j] BY <1>4
<1> QED BY <1>1, <1>2, <1>3, <1>5

\* Nothing is kept of nothing.
LEMMA KeptNone == ASSUME NEW S PROVE Kept(<<>>, S) = <<>>
<1> DEFINE f == CHOOSE k : Keeps(<<>>, S, 0, k)
<1>1. Keeps(<<>>, S, 0, f) BY KeepsExists
<1>2. Kept(<<>>, S) = f[0] BY DEF Kept, Keeps
<1> HIDE DEF f
<1> QED BY <1>1, <1>2 DEF Keeps

\* One more element is kept behind the others, or not.
LEMMA KeptOne ==
  ASSUME NEW X, NEW s \in Seq(X), NEW x \in X, NEW S
  PROVE  Kept(Append(s, x), S) = IF x \in S THEN Append(Kept(s, S), x) ELSE Kept(s, S)
<1> DEFINE n == Len(s)
           t == Append(s, x)
           f == CHOOSE k : Keeps(s, S, Len(s), k)
           g == CHOOSE k : Keeps(t, S, Len(t), k)
<1>1. /\ n \in Nat /\ Len(t) = n + 1 /\ t[n + 1] = x
      /\ \A i \in 1 .. n : t[i] = s[i]
  BY AppendProperties, LenProperties
<1>2. Keeps(s, S, Len(s), f) BY <1>1, KeepsExists
<1>3. Keeps(t, S, Len(t), g)
  <2>1. Len(t) \in Nat BY <1>1
  <2> HIDE DEF t
  <2> QED BY <2>1, KeepsExists
<1>4. Kept(s, S) = f[Len(s)] BY DEF Kept, Keeps
<1>5. Kept(t, S) = g[Len(t)]
  <2> HIDE DEF t
  <2> QED BY DEF Kept, Keeps
<1> HIDE DEF f, g, t
<1>6. f[n] = g[n]
  <2>1. n \in Nat /\ n <= n /\ n + 1 \in Nat /\ n <= n + 1 BY <1>1
  <2>2. Keeps(s, S, n, f) /\ Keeps(t, S, n + 1, g) BY <1>1, <1>2, <1>3
  <2>3. \A i \in 1 .. n : s[i] = t[i] BY <1>1
  <2> HIDE DEF n
  <2> QED BY <2>1, <2>2, <2>3, KeepsAlike
<1>7. g[n + 1] = IF t[n + 1] \in S THEN Append(g[n], t[n + 1]) ELSE g[n]
  <2>1. n \in Nat /\ n + 1 \in 0 .. n + 1 /\ n + 1 # 0 /\ n + 1 - 1 = n BY <1>1
  <2>2. Keeps(t, S, n + 1, g) BY <1>1, <1>3
  <2> HIDE DEF n
  <2>3. \A i \in 0 .. n + 1 : g[i] = IF i = 0 THEN <<>> ELSE IF t[i] \in S THEN Append(g[i - 1], t[i]) ELSE g[i - 1]
    BY <2>2 DEF Keeps
  <2> QED BY <2>1, <2>3
<1> QED BY <1>1, <1>4, <1>5, <1>6, <1>7 DEF t

\* What is kept of a sequence is a sequence of the same.
LEMMA KeptType ==
  ASSUME NEW X, NEW s \in Seq(X), NEW S
  PROVE  Kept(s, S) \in Seq(X)
<1> DEFINE n == Len(s)
<1>0. n \in Nat /\ \A i \in 1 .. n : s[i] \in X BY ElementOfSeq, LenProperties
<1>1. PICK f : Keeps(s, S, n, f) /\ Kept(s, S) = f[n]
  <2>1. Keeps(s, S, n, CHOOSE k : Keeps(s, S, n, k)) BY <1>0, KeepsExists
  <2> QED BY <2>1 DEF Kept, Keeps
<1> HIDE DEF n
<1> DEFINE Bad == {i \in 0 .. n : f[i] \notin Seq(X)}
<1>2. Bad = {}
  <2> SUFFICES ASSUME Bad # {} PROVE FALSE OBVIOUS
  <2> DEFINE j == Min(Bad)
  <2>1. j \in Bad /\ \A i \in Bad : j <= i
    <3>1. Bad \in SUBSET Nat BY <1>0
    <3> HIDE DEF Bad
    <3> QED BY <3>1, MinExists
  <2> HIDE DEF j
  <2>2. f[j] = IF j = 0 THEN <<>> ELSE IF s[j] \in S THEN Append(f[j - 1], s[j]) ELSE f[j - 1]
    BY <1>1, <2>1 DEF Keeps
  <2>3. j # 0
    <3>1. <<>> \in Seq(X) OBVIOUS
    <3> QED BY <2>1, <2>2, <3>1
  <2>4. j - 1 \in 0 .. n /\ j - 1 \notin Bad /\ s[j] \in X BY <1>0, <2>1, <2>3
  <2>5. f[j - 1] \in Seq(X) BY <2>4
  <2>6. Append(f[j - 1], s[j]) \in Seq(X) BY <2>4, <2>5
  <2> QED BY <2>1, <2>2, <2>3, <2>5, <2>6
<1>3. f[n] \in Seq(X) BY <1>0, <1>2
<1> QED BY <1>1, <1>3

Calls == [p : {Start, Config}, to : Conns \cup {All}]

\* The calls without the last, and the last.
LEMMA FrontIs ==
  ASSUME NEW X, NEW s \in Seq(X), NEW x \in X
  PROVE  /\ Front(Append(s, x)) = s /\ Last(Append(s, x)) = x
         /\ Append(s, x) \in Seq(X) /\ Append(s, x) # <<>> /\ Len(Append(s, x)) = Len(s) + 1
<1> DEFINE t == Append(s, x)
<1>1. /\ t \in Seq(X) /\ Len(s) \in Nat /\ Len(t) = Len(s) + 1 /\ t[Len(s) + 1] = x
      /\ \A i \in 1 .. Len(s) : t[i] = s[i]
  BY AppendProperties, LenProperties
<1> HIDE DEF t
<1>2. \A i \in 1 .. Len(s) : t[i] \in X BY <1>1, ElementOfSeq
<1>3. /\ SubSeq(t, 1, Len(s)) \in Seq(X) /\ Len(SubSeq(t, 1, Len(s))) = Len(s)
      /\ \A i \in 1 .. Len(s) : SubSeq(t, 1, Len(s))[i] = t[i]
  BY <1>1, <1>2, SubSeqProperties
<1>4. SubSeq(t, 1, Len(s)) = s BY <1>1, <1>3, SeqEqual
<1>5. Len(t) - 1 = Len(s) /\ t # <<>> BY <1>1
<1> QED BY <1>1, <1>4, <1>5 DEF Front, Last, t

\* After the calls that there were, nothing is due.
LEMMA DueNone ==
  ASSUME NEW cs \in Seq(Calls), NEW c \in Conns
  PROVE  Due(cs, c, Len(cs)) = <<>>
<1>1. Len(cs) \in Nat BY LenProperties
<1>2. SubSeq(cs, Len(cs) + 1, Len(cs)) = <<>> BY <1>1
<1>3. Kept(<<>>, [p : {Start, Config}, to : {All, c}]) = <<>> BY KeptNone
<1> DEFINE u == [i \in DOMAIN <<>> |-> <<>>[i].p]
<1>4. Due(cs, c, Len(cs)) = u BY <1>2, <1>3 DEF Due
<1>5. u = <<>>
  <2>1. u \in Seq({}) /\ Len(u) = 0 /\ <<>> \in Seq({}) /\ Len(<<>>) = 0 OBVIOUS
  <2> HIDE DEF u
  <2> QED BY <2>1, SeqEqual
<1> QED BY <1>4, <1>5

\* One more call is due behind the others to those that it is for.
LEMMA DueOne ==
  ASSUME NEW cs \in Seq(Calls), NEW k \in Calls, NEW c \in Conns, NEW n \in 0 .. Len(cs)
  PROVE  Due(Append(cs, k), c, n) = IF k.to \in {All, c} THEN Append(Due(cs, c, n), k.p)
                                    ELSE Due(cs, c, n)
<1> DEFINE S == [p : {Start, Config}, to : {All, c}]
           t == Append(cs, k)
           a == SubSeq(cs, n + 1, Len(cs))
           b == SubSeq(t, n + 1, Len(t))
           r == Kept(a, S)
           q == Kept(b, S)
<1>0. /\ Len(cs) \in Nat /\ n \in Nat /\ n <= Len(cs)
      /\ t \in Seq(Calls) /\ Len(t) = Len(cs) + 1 /\ t[Len(cs) + 1] = k
      /\ \A i \in 1 .. Len(cs) : t[i] = cs[i] /\ cs[i] \in Calls
  BY AppendProperties, LenProperties, ElementOfSeq
<1> HIDE DEF t
<1>1. /\ a \in Seq(Calls) /\ Len(a) = Len(cs) - n
      /\ \A i \in 1 .. Len(cs) - n : a[i] = cs[n + i]
  <2>1. \A i \in n + 1 .. Len(cs) : cs[i] \in Calls BY <1>0
  <2>2. n + 1 \in Int /\ Len(cs) \in Int BY <1>0
  <2>3. /\ a \in Seq(Calls) /\ Len(a) = IF n + 1 <= Len(cs) THEN Len(cs) - (n + 1) + 1 ELSE 0
        /\ \A i \in 1 .. Len(cs) - (n + 1) + 1 : a[i] = cs[n + 1 + i - 1]
    BY <2>1, <2>2, SubSeqProperties
  <2> QED BY <1>0, <2>3
<1>2. /\ b \in Seq(Calls) /\ Len(b) = Len(cs) + 1 - n
      /\ \A i \in 1 .. Len(cs) + 1 - n : b[i] = t[n + i]
  <2>1. \A i \in n + 1 .. Len(t) : t[i] \in Calls BY <1>0
  <2>2. n + 1 \in Int /\ Len(t) \in Int BY <1>0
  <2>3. /\ b \in Seq(Calls) /\ Len(b) = IF n + 1 <= Len(t) THEN Len(t) - (n + 1) + 1 ELSE 0
        /\ \A i \in 1 .. Len(t) - (n + 1) + 1 : b[i] = t[n + 1 + i - 1]
    BY <2>1, <2>2, SubSeqProperties
  <2> QED BY <1>0, <2>3
<1> HIDE DEF a, b
<1>3. b = Append(a, k)
  <2>1. /\ Append(a, k) \in Seq(Calls) /\ Len(Append(a, k)) = Len(a) + 1
        /\ \A i \in 1 .. Len(a) : Append(a, k)[i] = a[i]
        /\ Append(a, k)[Len(a) + 1] = k
    BY <1>1, AppendProperties
  <2>2. ASSUME NEW i \in 1 .. Len(cs) + 1 - n PROVE b[i] = Append(a, k)[i]
    <3>1. CASE i = Len(cs) + 1 - n
      <4>1. n + i = Len(cs) + 1 /\ i = Len(a) + 1 BY <1>0, <1>1, <3>1
      <4> QED BY <1>0, <1>2, <2>1, <4>1
    <3>2. CASE i # Len(cs) + 1 - n
      <4>1. i \in 1 .. Len(cs) - n /\ n + i \in 1 .. Len(cs) BY <1>0, <3>2
      <4> QED BY <1>0, <1>1, <1>2, <2>1, <4>1
    <3> QED BY <3>1, <3>2
  <2>3. Len(b) = Len(Append(a, k)) BY <1>0, <1>1, <1>2, <2>1
  <2>4. \A i \in 1 .. Len(b) : b[i] = Append(a, k)[i] BY <1>2, <2>2
  <2> QED BY <1>2, <2>1, <2>3, <2>4, SeqEqual
<1>4. k \in S <=> k.to \in {All, c} BY DEF Calls
<1>5. q = IF k \in S THEN Append(r, k) ELSE r
  <2> HIDE DEF S
  <2> QED BY <1>1, <1>3, KeptOne
<1>6. r \in Seq(Calls)
  <2> HIDE DEF S
  <2> QED BY <1>1, KeptType
<1>7. Due(cs, c, n) = [i \in DOMAIN r |-> r[i].p] /\ Due(t, c, n) = [i \in DOMAIN q |-> q[i].p]
  BY DEF Due, a, b
<1> HIDE DEF r, q, S
<1>8. ASSUME q = Append(r, k) PROVE Due(t, c, n) = Append(Due(cs, c, n), k.p)
  <2>1. /\ Len(r) \in Nat /\ DOMAIN r = 1 .. Len(r) /\ DOMAIN q = 1 .. Len(r) + 1
        /\ \A i \in 1 .. Len(r) : q[i] = r[i]
        /\ q[Len(r) + 1] = k
    BY <1>6, <1>8, AppendProperties, LenProperties
  <2> DEFINE u == [i \in 1 .. Len(r) |-> r[i].p]
             v == [i \in 1 .. Len(r) + 1 |-> q[i].p]
             P == {x.p : x \in Calls}
  <2>2. u \in Seq(P) /\ v \in Seq(P) /\ Len(u) = Len(r) /\ Len(v) = Len(r) + 1 /\ k.p \in P
    <3>1. \A i \in 1 .. Len(r) : r[i].p \in P BY <1>6, ElementOfSeq
    <3>2. k.p \in P OBVIOUS
    <3>3. \A i \in 1 .. Len(r) + 1 : q[i].p \in P BY <2>1, <3>1, <3>2
    <3> HIDE DEF P
    <3> QED BY <2>1, <3>1, <3>2, <3>3
  <2>3. /\ \A i \in 1 .. Len(r) : u[i] = r[i].p
        /\ \A i \in 1 .. Len(r) + 1 : v[i] = q[i].p
    OBVIOUS
  <2> HIDE DEF u, v, P
  <2>4. /\ Append(u, k.p) \in Seq(P) /\ Len(Append(u, k.p)) = Len(r) + 1
        /\ \A i \in 1 .. Len(r) : Append(u, k.p)[i] = u[i]
        /\ Append(u, k.p)[Len(r) + 1] = k.p
    BY <2>2, AppendProperties
  <2>5. \A i \in 1 .. Len(r) + 1 : v[i] = Append(u, k.p)[i]
    <3> SUFFICES ASSUME NEW i \in 1 .. Len(r) + 1 PROVE v[i] = Append(u, k.p)[i] OBVIOUS
    <3>1. CASE i = Len(r) + 1 BY <2>1, <2>3, <2>4, <3>1
    <3>2. CASE i # Len(r) + 1
      <4>1. i \in 1 .. Len(r) BY <2>1, <3>2
      <4> QED BY <2>1, <2>3, <2>4, <4>1
    <3> QED BY <3>1, <3>2
  <2>6. v = Append(u, k.p) BY <2>2, <2>4, <2>5, SeqEqual
  <2> QED BY <1>7, <2>1, <2>6 DEF u, v
<1> QED BY <1>4, <1>5, <1>7, <1>8 DEF t

Serving ==
  /\ ServerInv /\ History /\ "leave" \notin env.mishaps
  /\ Calling /\ \A c \in Conns : Stays(c) /\ Served(c)

\* What it contains.
LEMMA ServingIs ==
  ASSUME Serving
  PROVE  /\ ServerInv /\ Types /\ Slots /\ Thread /\ History /\ Calling
         /\ \A c \in Conns : /\ Listed(c) /\ Stays(c) /\ Served(c)
                             /\ state[c] \in 0 .. 1 /\ wrote[c] \in Seq(Seq(Byte))
                             /\ sock[c] \in {"none", "backlog", "open", "shut"}
         /\ ready \subseteq Conns /\ slots \in Seq(Conns \cup {None})
         /\ DOMAIN slots = 1 .. Len(slots) /\ Len(slots) \in Nat
<1>1. ServerInv BY DEF Serving
<1>2. slots \in Seq(Conns \cup {None}) BY <1>1 DEF ServerInv, Types, TypeOK
<1>3. DOMAIN slots = 1 .. Len(slots) /\ Len(slots) \in Nat BY <1>2, LenProperties
<1> QED BY <1>1, <1>2, <1>3 DEF Serving, ServerInv, Types, TypeOK

\* A client takes and sends, and does not leave.
LEMMA ClientStays ==
  ASSUME Serving, NEW d \in Conns, Client(d)
  PROVE  \A c \in Conns : Stays(c)'
<1>0. /\ Types /\ \A c \in Conns : Stays(c) /\ Listed(c)
      /\ \A c \in ready : up[c] # <<>> /\ c \in Conns
  BY ServingIs DEF Types, TypeOK, Stays
<1>1. UNCHANGED <<env, serverVars, listening, threadVars, callVars, histVars>>
  BY DEF Client, Connect, Read, SeeEnd, Take, GiveUp, SendStatus, Leave
<1>2. ~Leave(d) BY DEF Leave, Serving
<1>3. /\ \A c \in Conns : peer'[c] # "left"
      /\ \A c \in Conns : (sock[c] = "open") <=> (sock'[c] = "open")
  <2>0. \A c \in Conns : peer[c] # "left" BY <1>0 DEF Stays
  <2>1. CASE Connect(d) BY <1>0, <2>0, <2>1 DEF Connect, Types, TypeOK, Listed
  <2>2. CASE Read(d) \/ SeeEnd(d) \/ GiveUp(d) BY <1>0, <2>0, <2>2 DEF Read, SeeEnd, GiveUp, Types, TypeOK
  <2>3. CASE Take(d) BY <1>0, <2>0, <2>3 DEF Take, Send, Types, TypeOK
  <2>4. CASE SendStatus(d) BY <1>0, <2>0, <2>4 DEF SendStatus, Send, Types, TypeOK
  <2> QED BY <1>2, <2>1, <2>2, <2>3, <2>4 DEF Client
<1>4. \A c \in ready' : up'[c] # <<>>
  <2>1. CASE Connect(d) \/ Read(d) \/ SeeEnd(d) \/ GiveUp(d)
    BY <1>0, <1>1, <2>1 DEF Connect, Read, SeeEnd, GiveUp
  <2>2. ASSUME NEW p \in {Ident, Status}, Send(d, p) PROVE \A c \in ready' : up'[c] # <<>>
    <3>1. PICK f \in Seq(Byte) : f = Frame(p) BY WordsFit DEF Words
    <3>2. \A c \in ready : up[c] \in Seq(Byte) /\ up[c] # <<>> BY <1>0 DEF Types
    <3>3. \A c \in ready : up'[c] = up[c] \/ up'[c] = up[c] \o f
      BY <1>0, <2>2, <3>1 DEF Send, Types
    <3>4. ASSUME NEW s \in Seq(Byte), s # <<>> PROVE s \o f # <<>>
      <4>1. Len(s) \in Nat /\ Len(s) # 0 /\ Len(f) \in Nat BY <3>4, LenProperties, EmptySeq
      <4>2. Len(s \o f) # 0 BY <4>1, ConcatProperties
      <4> QED BY <4>2
    <3> QED BY <1>1, <3>2, <3>3, <3>4
  <2>3. CASE Take(d)
    <3>1. Send(d, Ident) \/ UNCHANGED <<sent, up>> BY <2>3 DEF Take
    <3> QED BY <1>0, <1>1, <2>2, <3>1
  <2>4. CASE SendStatus(d) BY <2>2, <2>4 DEF SendStatus
  <2> QED BY <1>2, <2>1, <2>2, <2>3, <2>4 DEF Client
<1> QED BY <1>0, <1>1, <1>3, <1>4 DEF Stays, In

\* An accepted connection is announced once.
LEMMA SelectStays ==
  ASSUME Serving, Select
  PROVE  \A c \in Conns : Stays(c)'
<1>0. /\ Types /\ \A c \in Conns : Stays(c) /\ Listed(c) BY ServingIs
<1>1. /\ UNCHANGED <<env, clientVars, up, down, info, state, rcvd, known, listening, done, cur, callVars, histVars>>
      /\ ready' \subseteq Readable
  BY DEF Select
<1>2. \A c \in ready' : up'[c] # <<>>
  <2>1. \A c \in Readable : up[c] # <<>> BY <1>0 DEF Readable, Stays
  <2> QED BY <1>1, <2>1
<1>3. CASE UNCHANGED <<sock, fd, events>> BY <1>0, <1>1, <1>2, <1>3 DEF Stays, In
<1>4. ASSUME NEW d \in Conns, sock[d] = "backlog", Accept(d), NEW c \in Conns PROVE Stays(c)'
  <2> DEFINE e == [k |-> "CONNECT", c |-> d, p |-> <<>>]
  <2>1. e \in Event /\ e.c = d /\ e.k = "CONNECT" BY DEF Event
  <2>2. events' = Append(events, e) BY <1>4 DEF Accept, Push
  <2> HIDE DEF e
  <2>3. /\ DOMAIN events' = DOMAIN events \cup {Len(events) + 1}
        /\ \A i \in DOMAIN events : i \in Nat /\ i < Len(events) + 1 /\ events'[i] = events[i]
        /\ events'[Len(events) + 1] = e
        /\ \A x \in Conns, k \in {"CONNECT", "RECEIVE", "DISCONNECT"} :
             In(x, k)' <=> In(x, k) \/ (d = x /\ "CONNECT" = k)
    BY <1>0, <2>1, <2>2, Pushes
  <2>4. /\ sock' = [sock EXCEPT ![d] = "open"] /\ sock \in [Conns -> {"none", "backlog", "open", "shut"}]
        /\ fd' = [fd EXCEPT ![d] = FreeFd] /\ fd \in [Conns -> 0 .. Cardinality(Conns)]
    BY <1>0, <1>4 DEF Accept, Types, TypeOK
  <2>5. FreeFd # 0 BY <1>0, <1>4, FreeFdIs
  <2>6. d \notin known BY <1>0, <1>4 DEF Stays
  <2>7. CASE c = d
    <3>1. \A i \in DOMAIN events : events[i].c # d BY <1>0, <1>4 DEF Listed
    <3>2. ~In(d, "DISCONNECT")'
      <4>1. ~In(d, "DISCONNECT") BY <3>1 DEF In
      <4> QED BY <2>3, <4>1
    <3>3. \A i \in DOMAIN events' : events'[i].c = d => i = Len(events) + 1 BY <2>3, <3>1
    <3>4. sock'[d] = "open" /\ fd'[d] = FreeFd BY <2>4
    <3> QED BY <1>0, <1>1, <1>2, <2>5, <2>6, <2>7, <3>2, <3>3, <3>4 DEF Stays
  <2>8. CASE c # d
    <3>1. \A mark \in {"CONNECT", "RECEIVE", "DISCONNECT"} : In(c, mark)' <=> In(c, mark) BY <2>3, <2>8
    <3>2. sock'[c] = sock[c] /\ fd'[c] = fd[c] BY <2>4, <2>8
    <3>3. \A i \in DOMAIN events' : events'[i].c = c => i \in DOMAIN events /\ events[i] = events'[i]
      BY <2>1, <2>3, <2>8
    <3> QED BY <1>0, <1>1, <1>2, <3>1, <3>2, <3>3 DEF Stays
  <2> QED BY <2>7, <2>8
<1> QED BY <1>3, <1>4 DEF Select

\* Reading leaves everything but what is ready.
LEMMA ServeStays ==
  ASSUME Serving, Timeout \/ Recv \/ RoundEnds \/ ProcessAgain
  PROVE  \A c \in Conns : Stays(c)'
<1>0. ServerInv /\ Types /\ Thread /\ ready \subseteq Conns /\ \A c \in Conns : Stays(c) BY ServingIs
<1>1. UNCHANGED <<env, clientVars, sock, known, state, events, fd>>
  BY DEF Timeout, Recv, RoundEnds, ProcessAgain
<1>2. \A c \in ready' : up'[c] # <<>>
  <2>1. CASE Recv
    <3>1. PICK d \in Conns : d = First BY <1>0, <2>1, ReadyIs DEF Recv
    <3>2. ready' = ready \ {d} /\ \A c \in Conns \ {d} : up'[c] = up[c]
      BY <1>0, <2>1, <3>1 DEF Recv, Types
    <3> QED BY <1>0, <3>2 DEF Stays
  <2>2. CASE UNCHANGED <<ready, up>> BY <1>0, <2>2 DEF Stays
  <2> QED BY <2>1, <2>2 DEF Timeout, RoundEnds, ProcessAgain
<1> QED BY <1>0, <1>1, <1>2 DEF Stays, In

\* A packet is put into the events of its connection.
LEMMA GetPacketStays ==
  ASSUME Serving, GetPacket
  PROVE  \A c \in Conns : Stays(c)'
<1>0. Types /\ Thread /\ \A c \in Conns : Stays(c) BY ServingIs
<1>1. UNCHANGED <<env, clientVars, sock, up, fd, state, known, ready>> BY DEF GetPacket
<1>2. CASE UNCHANGED events BY <1>0, <1>1, <1>2 DEF Stays, In
<1>3. ASSUME HavePacket(info[cur]), Push("RECEIVE", cur, Packet(info[cur])), NEW c \in Conns
      PROVE  Stays(c)'
  <2>1. cur \in Conns /\ cur # None BY <1>0 DEF GetPacket, Types, TypeOK
  <2>2. info[cur] \in Buffers BY <1>0, <2>1 DEF Types
  <2>3. Packet(info[cur]) \in Seq(Byte) BY <1>3, <2>2, Remains
  <2> DEFINE e == [k |-> "RECEIVE", c |-> cur, p |-> Packet(info[cur])]
  <2>4. e \in Event /\ e.c = cur /\ e.k = "RECEIVE" BY <2>1, <2>3 DEF Event
  <2>5. events' = Append(events, e) BY <1>3 DEF Push
  <2> HIDE DEF e
  <2>6. /\ DOMAIN events' = DOMAIN events \cup {Len(events) + 1}
        /\ \A i \in DOMAIN events : i \in Nat /\ i < Len(events) + 1 /\ events'[i] = events[i]
        /\ events'[Len(events) + 1] = e
        /\ \A x \in Conns, k \in {"CONNECT", "RECEIVE", "DISCONNECT"} :
             In(x, k)' <=> In(x, k) \/ (cur = x /\ "RECEIVE" = k)
    BY <1>0, <2>4, <2>5, Pushes
  <2>7. (In(c, "CONNECT")' <=> In(c, "CONNECT")) /\ (In(c, "DISCONNECT")' <=> In(c, "DISCONNECT"))
    BY <2>6
  <2>8. \A i \in DOMAIN events' : events'[i].k = "CONNECT" => i \in DOMAIN events /\ events[i] = events'[i]
    BY <2>4, <2>6
  <2> QED BY <1>0, <1>1, <2>7, <2>8 DEF Stays
<1> QED BY <1>2, <1>3 DEF GetPacket

\* The handler of a new connection tells it apart from those in the list.
LEMMA HandleConnectIs ==
  ASSUME Serving, Handle, NEW d \in Conns, d = Head(events).c, HandleConnect(d)
  PROVE  /\ sock[d] = "open" /\ state[d] = 0 /\ d \notin known /\ ~In(d, "CONNECT")'
         /\ \A c \in Conns \ {d} : sock'[c] = sock[c]
         /\ \A c \in Conns : /\ In(c, "CONNECT")' => In(c, "CONNECT")
                            /\ ~In(c, "DISCONNECT")'
                            /\ \A i, j \in DOMAIN events' :
                                 events'[i].c = c /\ events'[i].k = "CONNECT"
                                 /\ events'[j].c = c /\ events'[j].k = "CONNECT" => i = j
         /\ UNCHANGED <<env, clientVars, up, fd, state, ready, callVars, since>>
<1>0. /\ Types /\ Slots /\ \A c \in Conns : Stays(c) /\ Listed(c) BY ServingIs
<1>1. /\ events # <<>> /\ events' = Tail(events)
      /\ UNCHANGED <<env, clientVars, up, fd, state, ready, callVars, since>>
      /\ Head(events).k = "CONNECT"
  BY DEF Handle, HandleConnect
<1>2. /\ Head(events) = events[1] /\ 1 \in DOMAIN events /\ events' \in Seq(Event)
      /\ \A i \in DOMAIN events' : i \in Nat /\ i + 1 \in DOMAIN events /\ events'[i] = events[i + 1]
      /\ \A c \in Conns, k \in {"CONNECT", "RECEIVE", "DISCONNECT"} : In(c, k)' => In(c, k)
  BY <1>0, <1>1, Handles
<1>3. In(d, "CONNECT") BY <1>1, <1>2 DEF In
<1>4. sock[d] = "open" /\ state[d] = 0 /\ d \notin known BY <1>0, <1>3 DEF Stays, Listed
<1>5. ~In(d, "CONNECT")'
  <2> SUFFICES ASSUME NEW i \in DOMAIN events', events'[i].c = d, events'[i].k = "CONNECT" PROVE FALSE
    BY DEF In
  <2>1. i \in Nat /\ i + 1 \in DOMAIN events /\ events[i + 1].c = d /\ events[i + 1].k = "CONNECT"
    BY <1>2
  <2>2. i + 1 = 1 BY <1>0, <1>1, <1>2, <2>1 DEF Stays
  <2>3. 0 \notin DOMAIN events' BY <1>2
  <2> QED BY <2>1, <2>2, <2>3
<1>6. ASSUME NEW c \in Conns, NEW i \in DOMAIN events', NEW j \in DOMAIN events', events'[i].c = c,
             events'[i].k = "CONNECT", events'[j].c = c, events'[j].k = "CONNECT"
      PROVE  i = j
  <2>1. i \in Nat /\ j \in Nat /\ i + 1 = j + 1 BY <1>0, <1>2, <1>6 DEF Stays
  <2> QED BY <2>1
<1>7. \A c \in Conns : (In(c, "CONNECT")' => In(c, "CONNECT")) /\ ~In(c, "DISCONNECT")'
  BY <1>0, <1>2 DEF Stays
<1>8. ASSUME NEW c \in Conns \ {d} PROVE sock'[c] = sock[c]
  <2>1. sock' = sock \/ Close(d) BY DEF HandleConnect
  <2>2. ASSUME Close(d) PROVE sock'[c] = sock[c] \/ (sock[c] = "open" /\ fd[c] = fd[d])
    BY <1>0, <1>1, <2>2, Closes
  <2> QED BY <1>0, <1>4, <2>1, <2>2 DEF Slots
<1> QED BY <1>1, <1>4, <1>5, <1>6, <1>7, <1>8

\* It lists it, or it closes it and nothing else.
LEMMA HandleConnectStays ==
  ASSUME Serving, Handle, NEW d \in Conns, d = Head(events).c, HandleConnect(d)
  PROVE  \A c \in Conns : Stays(c)'
<1>0. \A c \in Conns : Stays(c) BY ServingIs
<1>1. known' = known \/ (known' = known \cup {d} /\ sock' = sock) BY DEF HandleConnect
<1>2. ASSUME NEW c \in Conns PROVE Stays(c)'
  <2>1. CASE c = d BY <1>0, <1>1, <2>1, HandleConnectIs DEF Stays
  <2>2. CASE c # d BY <1>0, <1>1, <2>2, HandleConnectIs DEF Stays
  <2> QED BY <2>1, <2>2
<1> QED BY <1>2

\* The handler of a packet: it comes from a client that is listed.
LEMMA HandleReceiveStays ==
  ASSUME Serving, Handle, NEW d \in Conns, d = Head(events).c, HandleReceive(d)
  PROVE  d \in known /\ \A c \in Conns : Stays(c)'
<1>0. /\ Types /\ \A c \in Conns : Stays(c) /\ Listed(c) BY ServingIs
<1>1. /\ events # <<>> /\ events' = Tail(events)
      /\ UNCHANGED <<env, clientVars, up, fd, ready, callVars, slots, sock, known>>
      /\ Head(events).k = "RECEIVE"
      /\ state' = state \/ state' = [state EXCEPT ![d] = 1]
  BY DEF Handle, HandleReceive
<1>2. /\ Head(events) = events[1] /\ 1 \in DOMAIN events
      /\ \A i \in DOMAIN events' : i \in Nat /\ i + 1 \in DOMAIN events /\ events'[i] = events[i + 1]
      /\ \A c \in Conns, k \in {"CONNECT", "RECEIVE", "DISCONNECT"} : In(c, k)' => In(c, k)
  BY <1>0, <1>1, Handles
<1>3. d \in known
  <2>1. In(d, "RECEIVE") BY <1>1, <1>2 DEF In
  <2> QED BY <1>0, <2>1 DEF Listed
<1>4. ASSUME NEW c \in Conns, NEW i \in DOMAIN events', NEW j \in DOMAIN events', events'[i].c = c,
             events'[i].k = "CONNECT", events'[j].c = c, events'[j].k = "CONNECT"
      PROVE  i = j
  <2>1. i \in Nat /\ j \in Nat /\ i + 1 = j + 1 BY <1>0, <1>2, <1>4 DEF Stays
  <2> QED BY <2>1
<1>5. ASSUME NEW c \in Conns PROVE c \in known \/ state'[c] = 1 => sock[c] = "open"
  <2>1. state'[c] = state[c] \/ c = d BY <1>0, <1>1 DEF Types, TypeOK
  <2> QED BY <1>0, <1>3, <2>1 DEF Stays
<1> QED BY <1>0, <1>1, <1>2, <1>3, <1>4, <1>5 DEF Stays

\* Nobody disconnects.
LEMMA NoEnd ==
  ASSUME Serving
  PROVE  ~RecvEnd /\ (Handle => ~HandleDisconnect(Head(events).c))
<1>0. ServerInv /\ Types /\ \A c \in Conns : Stays(c) BY ServingIs
<1>1. ASSUME RecvEnd PROVE FALSE
  <2>1. First \in ready /\ First \in Conns /\ up[First] = <<>> BY <1>0, <1>1, ReadyIs DEF RecvEnd
  <2> QED BY <1>0, <2>1 DEF Stays
<1>2. ASSUME Handle, HandleDisconnect(Head(events).c) PROVE FALSE
  <2>1. events # <<>> /\ events' = Tail(events) /\ Head(events).k = "DISCONNECT"
    BY <1>2 DEF Handle, HandleDisconnect
  <2>2. Head(events) \in Event /\ Head(events) = events[1] /\ 1 \in DOMAIN events BY <1>0, <2>1, Handles
  <2>3. Head(events).c \in Conns /\ In(Head(events).c, "DISCONNECT") BY <2>1, <2>2 DEF In, Event
  <2> QED BY <1>0, <2>3 DEF Stays
<1> QED BY <1>1, <1>2

\* The event that is handled is one of a connection.
LEMMA HandleIs ==
  ASSUME Serving, Handle
  PROVE  \E d \in Conns : d = Head(events).c /\ (HandleConnect(d) \/ HandleReceive(d))
<1>0. Types BY ServingIs
<1>1. events # <<>> /\ events' = Tail(events) BY DEF Handle
<1>2. Head(events).c \in Conns BY <1>0, <1>1, Handles DEF Event
<1> QED BY <1>2, NoEnd DEF Handle

\* Every step leaves the clients in the list connected.
LEMMA StaysStep ==
  ASSUME Serving, [Next]_vars
  PROVE  \A c \in Conns : Stays(c)'
<1>0. \A c \in Conns : Stays(c) BY ServingIs
<1>1. CASE Server
  <2>1. CASE Timeout \/ Recv \/ RoundEnds \/ ProcessAgain BY <2>1, ServeStays
  <2>2. CASE Handle BY <2>2, HandleIs, HandleConnectStays, HandleReceiveStays
  <2>3. CASE Confirm
    <3>1. UNCHANGED <<clientVars, sock, up, serverVars, ready>> BY <2>3 DEF Confirm
    <3> QED BY <1>0, <3>1 DEF Stays, In
  <2> QED BY <1>1, <2>1, <2>2, <2>3, NoEnd, SelectStays, GetPacketStays DEF Server
<1>2. CASE Caller
  <2>1. UNCHANGED <<clientVars, sock, up, serverVars, ready>>
    BY <1>2 DEF Caller, SendCommand, Walk, WalkOn, SendCommandReturns, StopListening
  <2> QED BY <1>0, <2>1 DEF Stays, In
<1>3. ASSUME NEW d \in Conns, Client(d) PROVE \A c \in Conns : Stays(c)' BY <1>3, ClientStays
<1>4. CASE UNCHANGED vars BY <1>0, <1>4 DEF Stays, In
<1> QED BY <1>1, <1>2, <1>3, <1>4 DEF Next

\* The slot of a connection.
Has(c, i) == i \in DOMAIN slots /\ slots[i] = c

\* Who is in the list keeps its place there, its descriptor and its slot.
LEMMA Standing ==
  ASSUME Serving, [Next]_vars, NEW c \in Conns, c \in known \/ state[c] = 1
  PROVE  /\ sock[c] = "open" /\ fd'[c] = fd[c]
         /\ c \in known => c \in known'
         /\ state[c] = 1 => state'[c] = 1
         /\ \A i : Has(c, i)' <=> Has(c, i)
<1>0. /\ Types /\ Slots /\ slots \in Seq(Conns \cup {None})
      /\ \A d \in Conns : Stays(d) /\ Listed(d)
  BY ServingIs
<1>1. sock[c] = "open" /\ c # None BY <1>0, TransportAssumption DEF Stays
<1>2. CASE UNCHANGED <<fd, known, state, slots>> BY <1>1, <1>2 DEF Has
<1>3. CASE Select
  <2>1. UNCHANGED <<state, known>> BY <1>3 DEF Select
  <2>2. ASSUME NEW d \in Conns, sock[d] = "backlog", Accept(d)
        PROVE  fd'[c] = fd[c] /\ \A i : Has(c, i)' <=> Has(c, i)
    <3>1. d # c BY <1>1, <2>2
    <3>2. slots' = Inserted(d) /\ fd' = [fd EXCEPT ![d] = FreeFd] BY <2>2 DEF Accept
    <3>3. PICK k \in Nat :
            /\ k \in DOMAIN slots' /\ slots'[k] = d
            /\ \A i \in DOMAIN slots' \ {k} : i \in DOMAIN slots /\ slots'[i] = slots[i]
            /\ \A i \in DOMAIN slots : i \in DOMAIN slots' /\ (slots[i] # None => i # k)
      BY <1>0, <3>2, InsertedIs
    <3>4. \A i : Has(c, i)' <=> Has(c, i) BY <1>1, <3>1, <3>3 DEF Has
    <3> QED BY <1>0, <3>1, <3>2, <3>4 DEF Types, TypeOK
  <2> QED BY <1>1, <1>2, <1>3, <2>1, <2>2 DEF Select
<1>4. CASE Handle
  <2>1. PICK d \in Conns : d = Head(events).c /\ (HandleConnect(d) \/ HandleReceive(d)) BY <1>4, HandleIs
  <2>2. CASE HandleReceive(d)
    <3>1. UNCHANGED <<fd, known, slots>> /\ (state' = state \/ state' = [state EXCEPT ![d] = 1])
      BY <1>4, <2>2 DEF Handle, HandleReceive
    <3> QED BY <1>0, <1>1, <3>1 DEF Has, Types, TypeOK
  <2>3. CASE HandleConnect(d)
    <3>1. /\ sock[d] = "open" /\ state[d] = 0 /\ d \notin known /\ UNCHANGED <<fd, state>>
      BY <1>4, <2>1, <2>3, HandleConnectIs
    <3>2. fd[c] # fd[d] BY <1>0, <1>1, <3>1 DEF Slots
    <3>3. known \subseteq known' /\ (slots' = slots \/ Close(d)) BY <2>3 DEF HandleConnect
    <3>4. ASSUME Close(d) PROVE \A i : Has(c, i)' <=> Has(c, i)
      <4>1. slots' = [i \in DOMAIN slots |->
                        IF slots[i] # None /\ fd[slots[i]] = fd[d] THEN None ELSE slots[i]]
        BY <3>4 DEF Close
      <4> QED BY <1>1, <3>2, <4>1 DEF Has
    <3> QED BY <1>1, <3>1, <3>3, <3>4 DEF Has
  <2> QED BY <2>1, <2>2, <2>3
<1>5. CASE Server
  <2>1. CASE Timeout \/ Recv \/ RoundEnds \/ ProcessAgain \/ GetPacket \/ Confirm
    <3>1. UNCHANGED <<fd, known, state, slots>>
      BY <2>1 DEF Timeout, Recv, RoundEnds, ProcessAgain, GetPacket, Confirm
    <3> QED BY <1>2, <3>1
  <2> QED BY <1>3, <1>4, <1>5, <2>1, NoEnd DEF Server
<1>6. CASE Caller
  <2>1. UNCHANGED <<fd, known, state, slots>>
    BY <1>6 DEF Caller, SendCommand, Walk, WalkOn, SendCommandReturns, StopListening
  <2> QED BY <1>2, <2>1
<1>7. ASSUME NEW d \in Conns, Client(d) PROVE UNCHANGED <<fd, known, state, slots>>
  BY <1>7 DEF Client, Connect, Read, SeeEnd, Take, GiveUp, SendStatus, Leave
<1>8. CASE UNCHANGED vars BY <1>2, <1>8
<1> QED BY <1>2, <1>5, <1>6, <1>7, <1>8 DEF Next

\* Calls that are not empty end with the last.
LEMMA FrontOf ==
  ASSUME NEW X, NEW s \in Seq(X), s # <<>>
  PROVE  /\ Front(s) \in Seq(X) /\ Len(Front(s)) = Len(s) - 1 /\ Len(s) \in Nat /\ Len(s) > 0
         /\ Last(s) \in X /\ s = Append(Front(s), Last(s))
<1>1. Len(s) \in Nat /\ Len(s) > 0 /\ \A i \in 1 .. Len(s) : s[i] \in X
  BY ElementOfSeq, LenProperties, EmptySeq
<1> DEFINE f == Front(s)
           l == Last(s)
<1>2. l = s[Len(s)] /\ l \in X BY <1>1 DEF Last
<1>3. f \in Seq(X) /\ Len(f) = Len(s) - 1 /\ \A i \in 1 .. Len(s) - 1 : f[i] = s[i]
  <2>1. \A i \in 1 .. Len(s) - 1 : s[i] \in X BY <1>1
  <2>2. 1 \in Int /\ Len(s) - 1 \in Int BY <1>1
  <2> DEFINE b == SubSeq(s, 1, Len(s) - 1)
  <2>3. /\ b \in Seq(X) /\ Len(b) = IF 1 <= Len(s) - 1 THEN Len(s) - 1 - 1 + 1 ELSE 0
        /\ \A i \in 1 .. Len(s) - 1 - 1 + 1 : b[i] = s[1 + i - 1]
    BY <2>1, <2>2, SubSeqProperties
  <2>4. f = b BY DEF Front
  <2> HIDE DEF b, f
  <2> QED BY <1>1, <2>3, <2>4
<1> HIDE DEF f, l
<1>4. /\ Append(f, l) \in Seq(X) /\ Len(Append(f, l)) = Len(s)
      /\ \A i \in 1 .. Len(s) - 1 : Append(f, l)[i] = f[i]
      /\ Append(f, l)[Len(s)] = l
  <2>1. /\ Append(f, l) \in Seq(X) /\ Len(Append(f, l)) = Len(f) + 1
        /\ \A i \in 1 .. Len(f) : Append(f, l)[i] = f[i]
        /\ Append(f, l)[Len(f) + 1] = l
    BY <1>2, <1>3, AppendProperties
  <2> QED BY <1>1, <1>3, <2>1
<1>5. ASSUME NEW i \in 1 .. Len(s) PROVE s[i] = Append(f, l)[i]
  <2>1. CASE i = Len(s) BY <1>2, <1>4, <2>1
  <2>2. CASE i # Len(s)
    <3>1. i \in 1 .. Len(s) - 1 BY <1>1, <2>2
    <3> QED BY <1>3, <1>4, <3>1
  <2> QED BY <2>1, <2>2
<1>6. s = Append(f, l) BY <1>4, <1>5, SeqEqual
<1> QED BY <1>1, <1>2, <1>3, <1>6 DEF f, l

\* The calls and how many of them came before a client was in the list.
LEMMA HistoryStep ==
  ASSUME ServerInv, History, [Next]_vars
  PROVE  History'
<1>0. Types /\ calls \in Seq(Calls) /\ Len(calls) \in Nat BY LenProperties DEF ServerInv, History, Calls
<1>1. CASE UNCHANGED <<calls, since>> /\ (call' = Idle \/ call # Idle) BY <1>1 DEF History, Idle
<1>2. ASSUME NEW p \in Commands, NEW to \in {All} \cup known, SendCommand(p, to) PROVE History'
  <2> DEFINE k == [p |-> p, to |-> to]
  <2>1. calls' = Append(calls, k) /\ since' = since BY <1>2 DEF SendCommand
  <2>2. k \in Calls BY <1>0 DEF Calls, Commands, Types, TypeOK
  <2> HIDE DEF k
  <2>3. calls' \in Seq(Calls) /\ calls' # <<>> /\ Len(calls') = Len(calls) + 1
    BY <1>0, <2>1, <2>2, FrontIs
  <2>4. since' \in [Conns -> SUBSET (0 .. Len(calls'))]
    <3>1. 0 .. Len(calls) \subseteq 0 .. Len(calls) + 1 BY <1>0
    <3>2. SUBSET (0 .. Len(calls)) \subseteq SUBSET (0 .. Len(calls) + 1) BY <3>1
    <3>3. since \in [Conns -> SUBSET (0 .. Len(calls))] BY DEF History
    <3>4. since \in [Conns -> SUBSET (0 .. Len(calls) + 1)] BY <3>2, <3>3
    <3> QED BY <2>1, <2>3, <3>4
  <2> QED BY <2>3, <2>4 DEF History, Calls
<1>3. CASE Handle
  <2>1. UNCHANGED callVars BY <1>3 DEF Handle
  <2>2. ASSUME NEW d, HandleReceive(d) PROVE History'
    <3> DEFINE S == {Len(calls)} \cup IF call = Idle THEN {} ELSE {Len(calls) - 1}
    <3>1. since' = since \/ since' = [since EXCEPT ![d] = S] BY <2>2 DEF HandleReceive
    <3>2. S \in SUBSET (0 .. Len(calls))
      <4>1. call # Idle => Len(calls) > 0 BY <1>0, EmptySeq DEF History
      <4> QED BY <1>0, <4>1
    <3> HIDE DEF S
    <3>3. since' \in [Conns -> SUBSET (0 .. Len(calls))] BY <3>1, <3>2 DEF History
    <3> QED BY <2>1, <3>3 DEF History, Idle
  <2>3. ASSUME NEW d, HandleConnect(d) \/ HandleDisconnect(d) PROVE UNCHANGED since
    BY <2>3 DEF HandleConnect, HandleDisconnect
  <2> QED BY <1>1, <1>3, <2>1, <2>2, <2>3 DEF Handle
<1>4. CASE Server
  <2>1. CASE Select \/ Timeout \/ Recv \/ GetPacket \/ RecvEnd \/ RoundEnds \/ Confirm \/ ProcessAgain
    <3>1. UNCHANGED <<calls, since, call>>
      BY <2>1 DEF Select, Timeout, Recv, GetPacket, RecvEnd, RoundEnds, Confirm, ProcessAgain
    <3> QED BY <1>1, <3>1
  <2> QED BY <1>3, <1>4, <2>1 DEF Server
<1>5. CASE Caller
  <2>1. CASE Walk \/ WalkOn \/ SendCommandReturns \/ StopListening
    <3>1. UNCHANGED <<calls, since>>
      BY <2>1 DEF Walk, WalkOn, SendCommandReturns, StopListening
    <3>2. call' = Idle \/ call # Idle
      <4>1. Idle.half = 0 BY DEF Idle
      <4> QED BY <2>1, <4>1 DEF Walk, WalkOn, SendCommandReturns, StopListening
    <3> QED BY <1>1, <3>1, <3>2
  <2> QED BY <1>2, <1>5, <2>1 DEF Caller
<1>6. ASSUME NEW d \in Conns, Client(d) PROVE UNCHANGED <<calls, since, call>>
  BY <1>6 DEF Client, Connect, Read, SeeEnd, Take, GiveUp, SendStatus, Leave
<1> QED BY <1>1, <1>4, <1>5, <1>6 DEF Next

\* While a call is under way: what it is, and where the walk is for a client.
LEMMA CallIs ==
  ASSUME Serving, call # Idle
  PROVE  /\ calls \in Seq(Calls) /\ calls # <<>> /\ Front(calls) \in Seq(Calls)
         /\ Len(calls) \in Nat /\ Len(Front(calls)) = Len(calls) - 1
         /\ calls = Append(Front(calls), Last(calls)) /\ Last(calls) \in Calls
         /\ Last(calls).p = call.pkt /\ Last(calls).to = call.to
         /\ call.pkt \in {Start, Config} /\ call.at \in Nat /\ call.at > 0 /\ call.half \in Nat
         /\ call.to = All \/ call.to \in known
<1>1. Types /\ History /\ Calling BY ServingIs
<1>2. calls \in Seq(Calls) /\ calls # <<>> BY <1>1 DEF History, Calls
<1>3. /\ call \in [pkt : {<<>>, Start, Config}, to : Conns \cup {None, All}, at : Nat, half : Nat]
      /\ call.pkt \in {Start} \cup IF "long" \in env.mishaps THEN {Config} ELSE {}
      /\ call.at > 0
  BY <1>1 DEF Types
<1>4. Last(calls) = [p |-> call.pkt, to |-> call.to] /\ (call.to = All \/ call.to \in known)
  BY <1>1 DEF Calling
<1>5. Last(calls).p = call.pkt /\ Last(calls).to = call.to BY <1>4
<1> QED BY <1>2, <1>3, <1>4, <1>5, FrontOf

\* The walk has passed a client in the list when it has passed its one slot.
LEMMA PassedIs ==
  ASSUME Serving, call # Idle, NEW c \in Conns, state[c] = 1
  PROVE  \E j \in Nat : /\ Has(c, j) /\ \A i : Has(c, i) => i = j
                        /\ Passed(c) <=> j < call.at \/ (j = call.at /\ call.half # 0)
<1>0. /\ Slots /\ DOMAIN slots = 1 .. Len(slots) /\ Len(slots) \in Nat
      /\ sock[c] = "open"
  BY ServingIs DEF Stays
<1>1. PICK j \in DOMAIN slots : slots[j] = c BY <1>0 DEF Slots
<1>2. c # None BY TransportAssumption
<1>3. \A i \in DOMAIN slots : slots[i] = c => i = j BY <1>0, <1>1, <1>2 DEF Slots
<1>4. j \in Nat BY <1>0
<1> QED BY <1>1, <1>3, <1>4 DEF Has, Passed

\* Where the walk stands for a client after a step, if the call goes on.
LEMMA PassedNext ==
  ASSUME Serving, [Next]_vars, NEW c \in Conns, state[c] = 1
  PROVE  call' = call => (Passed(c)' <=> Passed(c))
<1>1. \A i : Has(c, i)' <=> Has(c, i) BY Standing
<1> QED BY <1>1 DEF Passed, Has

\* What was written and is due does not change.
LEMMA ServedKeeps ==
  ASSUME Serving, [Next]_vars, NEW c \in Conns,
         UNCHANGED <<call, calls>>, since'[c] = since[c], state'[c] = state[c],
         Commanded(c)' = Commanded(c)
  PROVE  Served(c)'
<1>1. Served(c) /\ state[c] \in 0 .. 1 BY ServingIs
<1>2. CASE state[c] = 0 BY <1>1, <1>2 DEF Served
<1>3. CASE state[c] = 1
  <2>1. Passed(c)' <=> Passed(c) BY <1>3, PassedNext
  <2>2. \A n : (Due(calls, c, n)' = Due(calls, c, n)) /\ (Due(Front(calls), c, n)' = Due(Front(calls), c, n))
    BY DEF Due, Kept, Front
  <2> QED BY <1>1, <1>3, <2>1, <2>2 DEF Served
<1> QED BY <1>1, <1>2, <1>3

\* An answer of the server is no command.
LEMMA AnswersKeep ==
  ASSUME Types, NEW d \in Conns, NEW p \in {Greeting, OK, Refusal}, Answers(d, p), NEW c \in Conns
  PROVE  Commanded(c)' = Commanded(c)
<1>1. wrote[c] \in Seq(Seq(Byte)) /\ p \in Seq(Byte) BY WordsFit DEF Types, Words
<1>2. p \notin {Start, Config}
  <2>1. Len(<<0>>) = 1 /\ Len(<<1>>) = 1 /\ Len(<<2>>) = 1 /\ Len(<<3, 0>>) = 2 /\ Len(<<3, 0, 0>>) = 3
    OBVIOUS
  <2> QED BY <2>1 DEF Greeting, OK, Refusal, Start, Config
<1>3. wrote'[c] = wrote[c] \/ wrote'[c] = Append(wrote[c], p) BY DEF Answers, Noted
<1>4. Kept(Append(wrote[c], p), {Start, Config}) = Kept(wrote[c], {Start, Config})
  BY <1>1, <1>2, KeptOne
<1>5. Commanded(c)' = Kept(wrote'[c], {Start, Config}) BY DEF Commanded, Kept
<1> QED BY <1>3, <1>4, <1>5 DEF Commanded

\* What was written stays, and so do the commands in it.
LEMMA CommandedKeeps ==
  ASSUME NEW c, wrote'[c] = wrote[c]
  PROVE  Commanded(c)' = Commanded(c)
BY DEF Commanded, Kept

\* The steps of the server thread give no command, and take no call back.
LEMMA ServerServes ==
  ASSUME Serving, Server, NEW c \in Conns
  PROVE  Served(c)'
<1>0. /\ [Next]_vars /\ Types /\ History /\ Served(c) /\ \A d \in Conns : state[d] \in 0 .. 1
  BY ServingIs DEF Next
<1>1. CASE Select \/ Timeout \/ Recv \/ GetPacket \/ RoundEnds \/ ProcessAgain
  <2>1. UNCHANGED <<callVars, since, state, wrote>>
    BY <1>1 DEF Select, Timeout, Recv, GetPacket, RoundEnds, ProcessAgain
  <2> QED BY <1>0, <2>1, CommandedKeeps, ServedKeeps
<1>2. CASE Confirm
  <2>1. cur \in Conns /\ Answers(cur, OK) /\ UNCHANGED <<callVars, since, state>>
    BY <1>2, ServingIs DEF Confirm, Thread, Types, TypeOK
  <2>2. Commanded(c)' = Commanded(c) BY <1>0, <2>1, AnswersKeep
  <2> QED BY <1>0, <2>1, <2>2, ServedKeeps
<1>3. CASE Handle
  <2>0. UNCHANGED callVars BY <1>3 DEF Handle
  <2>1. PICK d \in Conns : d = Head(events).c /\ (HandleConnect(d) \/ HandleReceive(d)) BY <1>3, HandleIs
  <2>2. CASE HandleConnect(d)
    <3>1. UNCHANGED <<since, state>> /\ (Answers(d, Greeting) \/ Answers(d, Refusal))
      BY <2>2 DEF HandleConnect
    <3>2. Commanded(c)' = Commanded(c) BY <1>0, <3>1, AnswersKeep
    <3> QED BY <1>0, <2>0, <3>1, <3>2, ServedKeeps
  <2>3. CASE HandleReceive(d)
    <3>1. Commanded(c)' = Commanded(c) BY <2>3, CommandedKeeps DEF HandleReceive
    <3>2. CASE UNCHANGED <<since, state>> BY <1>0, <2>0, <3>1, <3>2, ServedKeeps
    <3> DEFINE S == {Len(calls)} \cup IF call = Idle THEN {} ELSE {Len(calls) - 1}
    <3>3. CASE /\ state[d] = 0 /\ state' = [state EXCEPT ![d] = 1]
               /\ since' = [since EXCEPT ![d] = S]
      <4>1. CASE c # d
        <5>1. since'[c] = since[c] /\ state'[c] = state[c]
          BY <1>0, <3>3, <4>1 DEF Types, TypeOK, History
        <5> QED BY <1>0, <2>0, <3>1, <5>1, ServedKeeps
      <4>2. CASE c = d
        <5>1. Commanded(c)' = <<>> BY <1>0, <3>1, <3>3, <4>2 DEF Served
        <5>2. state'[c] = 1 /\ since'[c] = S BY <1>0, <3>3, <4>2 DEF Types, TypeOK, History
        <5>3. calls \in Seq(Calls) /\ Len(calls) \in Nat BY <1>0, LenProperties DEF History, Calls
        <5>4. Due(calls, c, Len(calls)) = <<>> BY <5>3, DueNone
        <5>5. call # Idle => /\ Len(calls) - 1 < Len(calls)
                             /\ Due(Front(calls), c, Len(calls) - 1) = <<>>
          <6> SUFFICES ASSUME call # Idle PROVE Len(calls) - 1 < Len(calls) /\ Due(Front(calls), c, Len(calls) - 1) = <<>>
            OBVIOUS
          <6>1. Front(calls) \in Seq(Calls) /\ Len(Front(calls)) = Len(calls) - 1 BY CallIs
          <6>2. Due(Front(calls), c, Len(Front(calls))) = <<>> BY <6>1, DueNone
          <6> QED BY <5>3, <6>1, <6>2
        <5>6. Len(calls) \in since'[c] /\ (call # Idle => Len(calls) - 1 \in since'[c]) BY <5>2
        <5>7. \A n : (Due(calls, c, n)' = Due(calls, c, n)) /\ (Due(Front(calls), c, n)' = Due(Front(calls), c, n))
          BY <2>0 DEF Due, Kept, Front
        <5>8. ~Passed(c)' => call # Idle BY <2>0 DEF Passed, Idle
        <5> QED BY <2>0, <5>1, <5>2, <5>4, <5>5, <5>6, <5>7, <5>8 DEF Served
      <4> QED BY <4>1, <4>2
    <3> QED BY <2>3, <3>2, <3>3 DEF HandleReceive
  <2> QED BY <2>1, <2>2, <2>3
<1> QED BY <1>1, <1>2, <1>3, NoEnd DEF Server

\* A new call has passed nobody, and the one before it everybody.
LEMMA SendServes ==
  ASSUME Serving, NEW p \in Commands, NEW to \in {All} \cup known, SendCommand(p, to)
  PROVE  Calling' /\ \A c \in Conns : Served(c)'
<1>0. Types /\ History /\ \A c \in Conns : Served(c) /\ state[c] \in 0 .. 1 BY ServingIs
<1> DEFINE k == [p |-> p, to |-> to]
<1>1. /\ call = Idle /\ call' = [Idle EXCEPT !.pkt = p, !.to = to, !.at = 1]
      /\ calls' = Append(calls, k)
      /\ UNCHANGED <<known, slots, state, fd, since, wrote>>
  BY DEF SendCommand
<1>2. k \in Calls /\ k.p = p /\ k.to = to BY <1>0 DEF Calls, Commands, Types, TypeOK
<1> HIDE DEF k
<1>3. calls \in Seq(Calls) /\ Len(calls) \in Nat BY <1>0, LenProperties DEF History, Calls
<1>4. Front(calls') = calls /\ Last(calls') = k /\ Len(calls') = Len(calls) + 1
  BY <1>1, <1>2, <1>3, FrontIs
<1>5. call'.at = 1 /\ call'.half = 0 /\ call'.pkt = p /\ call'.to = to /\ call' # Idle
  <2>1. call' = [pkt |-> p, to |-> to, at |-> 1, half |-> 0] BY <1>1 DEF Idle
  <2>2. Idle.at = 0 BY DEF Idle
  <2> QED BY <2>1, <2>2
<1>6. Calling'
  <2>1. Last(calls') = [p |-> call'.pkt, to |-> call'.to] BY <1>4, <1>5 DEF k
  <2>2. call'.to = All \/ call'.to \in known' BY <1>1, <1>5
  <2> QED BY <1>5, <2>1, <2>2 DEF Calling
<1>7. ASSUME NEW c \in Conns PROVE Served(c)'
  <2>1. Commanded(c)' = Commanded(c) BY <1>1, CommandedKeeps
  <2>2. ~Passed(c)'
    <3>1. \A i \in DOMAIN slots : i \in Nat /\ i >= 1 BY ServingIs
    <3>2. Idle' = Idle BY DEF Idle
    <3> QED BY <1>1, <1>5, <3>1, <3>2 DEF Passed
  <2>3. CASE state[c] = 0 BY <1>0, <1>1, <2>1, <2>3 DEF Served
  <2>4. CASE state[c] = 1
    <3>1. Passed(c) BY <1>1 DEF Passed
    <3>2. PICK n \in since[c] : Commanded(c) = Due(calls, c, n) BY <1>0, <2>4, <3>1 DEF Served
    <3>3. n \in 0 .. Len(calls) BY <1>0 DEF History
    <3>4. n < Len(calls') BY <1>3, <1>4, <3>3
    <3>5. Due(Front(calls), c, n)' = Due(calls, c, n) BY <1>4 DEF Due, Kept
    <3> QED BY <1>1, <2>1, <2>2, <2>4, <3>2, <3>4, <3>5 DEF Served
  <2> QED BY <1>0, <2>3, <2>4
<1> QED BY <1>6, <1>7

\* The walk goes on behind a slot: it has passed whoever is in it.
LEMMA WalkPasses ==
  ASSUME Serving, [Next]_vars, call # Idle, call' # Idle, call.half = 0, slots' = slots,
         \/ call'.at = call.at + 1 /\ call'.half = 0
         \/ call'.at = call.at /\ call'.half # 0,
         NEW c \in Conns, state[c] = 1
  PROVE  /\ Has(c, call.at) => ~Passed(c) /\ Passed(c)'
         /\ ~Has(c, call.at) => (Passed(c)' <=> Passed(c))
<1>1. PICK j \in Nat : /\ Has(c, j) /\ \A i : Has(c, i) => i = j
                       /\ Passed(c) <=> j < call.at \/ (j = call.at /\ call.half # 0)
  BY PassedIs
<1>2. Passed(c)' <=> j < call'.at \/ (j = call'.at /\ call'.half # 0)
  <2>1. Passed(c)' <=> \E i : Has(c, i) /\ (i < call'.at \/ (i = call'.at /\ call'.half # 0))
    <3>1. Idle' = Idle BY DEF Idle
    <3> QED BY <3>1 DEF Passed, Has
  <2> QED BY <1>1, <2>1
<1>3. call.at \in Nat BY CallIs
<1>4. ASSUME Has(c, call.at) PROVE ~Passed(c) /\ Passed(c)'
  <2>1. j = call.at BY <1>1, <1>4
  <2> QED BY <1>1, <1>2, <1>3, <2>1
<1>5. ASSUME ~Has(c, call.at) PROVE Passed(c)' <=> Passed(c)
  <2>1. j # call.at BY <1>1, <1>5
  <2> QED BY <1>1, <1>2, <1>3, <2>1
<1> QED BY <1>4, <1>5

\* One that the call does not reach, or not for the first time.
LEMMA ServedPassing ==
  ASSUME Serving, [Next]_vars, UNCHANGED <<calls, since, state>>, NEW c \in Conns,
         Commanded(c)' = Commanded(c), state[c] = 1 => (Passed(c)' <=> Passed(c))
  PROVE  Served(c)'
<1>1. Served(c) /\ state[c] \in 0 .. 1 BY ServingIs
<1>2. \A n : (Due(calls, c, n)' = Due(calls, c, n)) /\ (Due(Front(calls), c, n)' = Due(Front(calls), c, n))
  BY DEF Due, Kept, Front
<1> QED BY <1>1, <1>2 DEF Served

\* What is due of the calls is what is due of those before the last, and its packet.
LEMMA DueLast ==
  ASSUME Serving, call # Idle, NEW c \in Conns, NEW n \in 0 .. Len(Front(calls))
  PROVE  Due(calls, c, n) = IF call.to \in {All, c} THEN Append(Due(Front(calls), c, n), call.pkt)
                            ELSE Due(Front(calls), c, n)
<1> DEFINE f == Front(calls)
           k == Last(calls)
<1>1. /\ f \in Seq(Calls) /\ k \in Calls /\ n \in 0 .. Len(f)
      /\ calls = Append(f, k) /\ k.to = call.to /\ k.p = call.pkt
  BY CallIs
<1> HIDE DEF f, k
<1>2. Due(Append(f, k), c, n) = IF k.to \in {All, c} THEN Append(Due(f, c, n), k.p) ELSE Due(f, c, n)
  BY <1>1, DueOne
<1> QED BY <1>1, <1>2 DEF f

\* SendCommand at a slot: the packet for a client that is meant is written
\* to its descriptor, which is nobody else's.
LEMMA WalkServes ==
  ASSUME Serving, Walk
  PROVE  Calling' /\ \A c \in Conns : Served(c)'
<1>0. /\ [Next]_vars /\ Types /\ Slots /\ Calling /\ slots \in Seq(Conns \cup {None})
      /\ DOMAIN slots = 1 .. Len(slots) /\ Len(slots) \in Nat
      /\ \A c \in Conns : Stays(c) /\ Served(c) /\ state[c] \in 0 .. 1
  BY ServingIs DEF Next, Caller
<1>1. /\ call # Idle /\ call.half = 0 /\ call.at <= Len(slots)
      /\ UNCHANGED <<env, clientVars, sock, up, serverVars, listening, threadVars, calls, since>>
  BY DEF Walk
<1>2. /\ calls \in Seq(Calls) /\ Front(calls) \in Seq(Calls) /\ Len(calls) \in Nat
      /\ Len(Front(calls)) = Len(calls) - 1
      /\ calls = Append(Front(calls), Last(calls)) /\ Last(calls) \in Calls
      /\ Last(calls).p = call.pkt /\ Last(calls).to = call.to
      /\ call.pkt \in {Start, Config} /\ call.at \in Nat /\ call.at > 0
      /\ call.to = All \/ call.to \in known
  BY <1>1, CallIs
<1>3. PICK d \in Conns \cup {None} : d = slots[call.at] /\ call.at \in DOMAIN slots
  BY <1>0, <1>1, <1>2
<1>4. Has(d, call.at) /\ \A c \in Conns : Has(c, call.at) => c = d BY <1>3 DEF Has
<1>5. call \in [pkt : {<<>>, Start, Config}, to : Conns \cup {None, All}, at : Nat, half : Nat] BY <1>0 DEF Types
<1> DEFINE on == [call EXCEPT !.at = @ + 1]
<1>6. on.at = call.at + 1 /\ on.half = 0 /\ on.pkt = call.pkt /\ on.to = call.to /\ on # Idle
  <2>1. on.at = call.at + 1 /\ on.half = 0 /\ on.pkt = call.pkt /\ on.to = call.to BY <1>1, <1>5
  <2>2. Idle.at = 0 BY DEF Idle
  <2> HIDE DEF on
  <2> QED BY <1>2, <2>1, <2>2
<1> HIDE DEF on
<1>7. ASSUME d \in Conns, state[d] = 1
      PROVE  /\ sock[d] = "open" /\ Socket(fd[d]) = {d} /\ fd[d] # 0 /\ fd[d] \in Nat
             /\ Meant(d) <=> call.to \in {All, d}
             /\ ~Throws(fd[d])
  <2>1. sock[d] = "open" /\ fd[d] # 0 /\ peer[d] # "left" BY <1>0, <1>7 DEF Stays
  <2>2. Socket(fd[d]) = {d} BY <1>0, <1>7, <2>1, OwnerIs
  <2>3. call.to = All \/ (call.to \in Conns /\ sock[call.to] = "open")
    BY <1>0, <1>2 DEF Stays, Types, TypeOK
  <2>4. d # None BY <1>7, TransportAssumption
  <2>5. Meant(d) <=> call.to \in {All, d} BY <1>0, <1>7, <2>1, <2>3, <2>4 DEF Meant, Slots
  <2>6. fd[d] \in Nat BY <1>0, <1>7 DEF Types, TypeOK
  <2> QED BY <1>7, <2>1, <2>2, <2>5, <2>6 DEF Throws
<1>8. CASE ~Meant(d) /\ call' = on /\ UNCHANGED wrote
  <2>1. Calling' BY <1>0, <1>1, <1>2, <1>6, <1>8 DEF Calling
  <2>2. ASSUME NEW c \in Conns PROVE Served(c)'
    <3>1. Commanded(c)' = Commanded(c) BY <1>8, CommandedKeeps
    <3>2. CASE state[c] = 1 /\ c = d
      <4>1. ~Passed(c) /\ Passed(c)' BY <1>0, <1>1, <1>4, <1>6, <1>8, <3>2, WalkPasses
      <4>2. PICK n \in since[c] : n < Len(calls) /\ Commanded(c) = Due(Front(calls), c, n)
        BY <1>0, <3>2, <4>1 DEF Served
      <4>3. n \in 0 .. Len(Front(calls)) BY <1>2, <4>2, ServingIs DEF History
      <4>4. call.to \notin {All, c} BY <1>7, <1>8, <3>2
      <4>5. Due(calls, c, n) = Due(Front(calls), c, n) BY <1>1, <4>3, <4>4, DueLast
      <4>6. Due(calls, c, n)' = Due(calls, c, n) BY <1>1 DEF Due, Kept
      <4> QED BY <1>1, <3>1, <3>2, <4>1, <4>2, <4>5, <4>6 DEF Served
    <3>3. CASE state[c] # 1 \/ c # d
      <4>1. state[c] = 1 => (Passed(c)' <=> Passed(c))
        BY <1>0, <1>1, <1>4, <1>6, <1>8, <3>3, WalkPasses
      <4> QED BY <1>0, <1>1, <3>1, <4>1, ServedPassing
    <3> QED BY <3>2, <3>3
  <2> QED BY <2>1, <2>2
<1>9. CASE Meant(d)
  <2>1. d \in Conns /\ state[d] = 1 BY <1>0, <1>9 DEF Meant
  <2>2. sock[d] = "open" /\ Socket(fd[d]) = {d} /\ fd[d] # 0 /\ fd[d] \in Nat /\ call.to \in {All, d}
    BY <1>7, <1>9, <2>1
  <2> DEFINE half == [call EXCEPT !.half = fd[d]]
  <2>3. half.at = call.at /\ half.half = fd[d] /\ half.pkt = call.pkt /\ half.to = call.to /\ half # Idle
    <3>1. half.at = call.at /\ half.half = fd[d] /\ half.pkt = call.pkt /\ half.to = call.to BY <1>5
    <3>2. Idle.half = 0 BY DEF Idle
    <3> QED BY <2>2, <3>1, <3>2
  <2> HIDE DEF half
  <2>4. Noted(fd[d], call.pkt) /\ call' \in {on, half} BY <1>3, <1>7, <1>9, <2>1 DEF Walk, on, half
  <2>5. call'.pkt = call.pkt /\ call'.to = call.to /\ call' # Idle BY <1>6, <2>3, <2>4
  <2>6. \/ call'.at = call.at + 1 /\ call'.half = 0
        \/ call'.at = call.at /\ call'.half # 0 /\ call'.half = fd[d]
    BY <1>6, <2>2, <2>3, <2>4
  <2>7. Calling'
    <3>1. d # None BY <2>1, TransportAssumption
    <3> QED BY <1>0, <1>1, <1>2, <1>3, <2>1, <2>5, <2>6, <3>1 DEF Calling
  <2>8. wrote'[d] = Append(wrote[d], call.pkt) /\ \A c \in Conns \ {d} : wrote'[c] = wrote[c]
    BY <2>1, <2>2, <2>4 DEF Noted
  <2>9. ASSUME NEW c \in Conns PROVE Served(c)'
    <3>1. CASE c = d
      <4>1. ~Passed(c) /\ Passed(c)' BY <1>0, <1>1, <1>4, <2>1, <2>5, <2>6, <3>1, WalkPasses
      <4>2. PICK n \in since[c] : n < Len(calls) /\ Commanded(c) = Due(Front(calls), c, n)
        BY <1>0, <2>1, <3>1, <4>1 DEF Served
      <4>3. n \in 0 .. Len(Front(calls)) BY <1>2, <4>2, ServingIs DEF History
      <4>4. Due(calls, c, n) = Append(Due(Front(calls), c, n), call.pkt)
        BY <1>1, <2>2, <3>1, <4>3, DueLast
      <4>5. wrote[c] \in Seq(Seq(Byte)) /\ call.pkt \in Seq(Byte)
        BY <1>2, ServingIs, WordsFit DEF Words
      <4>6. Kept(wrote'[c], {Start, Config}) = Append(Kept(wrote[c], {Start, Config}), call.pkt)
        <5>1. Kept(Append(wrote[c], call.pkt), {Start, Config}) = Append(Kept(wrote[c], {Start, Config}), call.pkt)
          <6> DEFINE w == wrote[c]
                     p == call.pkt
                     S == {Start, Config}
                     X == Seq(Byte)
          <6>1. w \in Seq(X) /\ p \in X /\ p \in S BY <1>2, <4>5
          <6> HIDE DEF w, p, S, X
          <6>2. Kept(Append(w, p), S) = IF p \in S THEN Append(Kept(w, S), p) ELSE Kept(w, S) BY <6>1, KeptOne
          <6>3. Kept(Append(w, p), S) = Append(Kept(w, S), p) BY <6>1, <6>2
          <6> QED BY <6>3 DEF w, p, S
        <5> QED BY <2>8, <3>1, <5>1
      <4>7. Commanded(c)' = Append(Commanded(c), call.pkt)
        <5>1. Commanded(c)' = Kept(wrote'[c], {Start, Config}) BY DEF Commanded, Kept
        <5> QED BY <4>6, <5>1 DEF Commanded
      <4>8. Due(calls, c, n)' = Due(calls, c, n) BY <1>1 DEF Due, Kept
      <4> QED BY <1>1, <2>1, <3>1, <4>1, <4>2, <4>4, <4>7, <4>8 DEF Served
    <3>2. CASE c # d
      <4>1. Commanded(c)' = Commanded(c) BY <2>8, <3>2, CommandedKeeps
      <4>2. state[c] = 1 => (Passed(c)' <=> Passed(c))
        BY <1>0, <1>1, <1>4, <2>5, <2>6, <3>2, WalkPasses
      <4> QED BY <1>0, <1>1, <4>1, <4>2, ServedPassing
    <3> QED BY <3>1, <3>2
  <2> QED BY <2>7, <2>9
<1> QED BY <1>3, <1>8, <1>9 DEF Walk, on

\* The second piece goes where the first went.
LEMMA WalkOnServes ==
  ASSUME Serving, WalkOn
  PROVE  Calling' /\ \A c \in Conns : Served(c)'
<1>0. /\ [Next]_vars /\ Types /\ Slots /\ Calling /\ slots \in Seq(Conns \cup {None})
      /\ \A c \in Conns : Stays(c) /\ Served(c) /\ state[c] \in 0 .. 1
  BY ServingIs DEF Next, Caller
<1>1. /\ call.half # 0
      /\ UNCHANGED <<env, clientVars, sock, up, serverVars, listening, threadVars, calls, histVars>>
  BY DEF WalkOn
<1>2. call # Idle BY <1>1 DEF Idle
<1>3. /\ call.at \in DOMAIN slots /\ slots[call.at] # None
      /\ state[slots[call.at]] = 1 /\ call.half = fd[slots[call.at]]
  BY <1>0, <1>1, <1>2 DEF Calling
<1>4. PICK d \in Conns : d = slots[call.at]
  <2>1. \A i \in DOMAIN slots : slots[i] \in Conns \cup {None} BY <1>0
  <2> QED BY <1>3, <2>1
<1>5. ~Throws(call.half)
  <2>1. sock[d] = "open" /\ peer[d] # "left" BY <1>0, <1>3, <1>4 DEF Stays
  <2>2. Socket(fd[d]) = {d} BY <1>0, <2>1, OwnerIs
  <2> QED BY <1>3, <1>4, <2>1, <2>2 DEF Throws
<1>6. call \in [pkt : {<<>>, Start, Config}, to : Conns \cup {None, All}, at : Nat, half : Nat] BY <1>0 DEF Types
<1>7. call' = [call EXCEPT !.half = 0, !.at = @ + 1] BY <1>5 DEF WalkOn
<1>8. call.at \in Nat /\ Last(calls) = [p |-> call.pkt, to |-> call.to] /\ (call.to = All \/ call.to \in known)
  BY <1>0, <1>2, <1>6 DEF Calling
<1>9. call'.at = call.at + 1 /\ call'.half = 0 /\ call'.pkt = call.pkt /\ call'.to = call.to /\ call' # Idle
  <2>1. call'.at = call.at + 1 /\ call'.half = 0 /\ call'.pkt = call.pkt /\ call'.to = call.to
    BY <1>6, <1>7
  <2>2. Idle.at = 0 BY DEF Idle
  <2> QED BY <1>8, <2>1, <2>2
<1>10. Calling' BY <1>1, <1>8, <1>9 DEF Calling
<1>11. ASSUME NEW c \in Conns, state[c] = 1 PROVE Passed(c)' <=> Passed(c)
  <2>1. PICK j \in Nat : /\ Has(c, j) /\ \A i : Has(c, i) => i = j
                         /\ Passed(c) <=> j < call.at \/ (j = call.at /\ call.half # 0)
    BY <1>2, <1>11, PassedIs
  <2>2. Passed(c)' <=> \E i : Has(c, i) /\ (i < call'.at \/ (i = call'.at /\ call'.half # 0))
    <3>1. Idle' = Idle BY DEF Idle
    <3> QED BY <1>1, <1>9, <3>1 DEF Passed, Has
  <2> QED BY <1>1, <1>8, <1>9, <2>1, <2>2
<1>12. ASSUME NEW c \in Conns PROVE Served(c)'
  BY <1>0, <1>1, <1>11, CommandedKeeps, ServedPassing
<1> QED BY <1>10, <1>12

\* The call returns when it has passed everybody.
LEMMA ReturnServes ==
  ASSUME Serving, SendCommandReturns
  PROVE  Calling' /\ \A c \in Conns : Served(c)'
<1>0. /\ [Next]_vars /\ DOMAIN slots = 1 .. Len(slots) /\ Len(slots) \in Nat
      /\ \A c \in Conns : state[c] \in 0 .. 1
  BY ServingIs DEF Next, Caller
<1>1. /\ call # Idle /\ call.half = 0 /\ call.at > Len(slots) /\ call' = Idle
      /\ UNCHANGED <<env, clientVars, sock, up, down, serverVars, listening, threadVars, calls, histVars>>
  BY DEF SendCommandReturns
<1>2. Calling' BY <1>1 DEF Calling, Idle
<1>3. ASSUME NEW c \in Conns, state[c] = 1 PROVE Passed(c) /\ Passed(c)'
  <2>1. PICK j \in Nat : /\ Has(c, j)
                         /\ Passed(c) <=> j < call.at \/ (j = call.at /\ call.half # 0)
    BY <1>1, <1>3, PassedIs
  <2>2. j <= Len(slots) /\ call.at \in Nat BY <1>0, <1>1, <2>1, CallIs DEF Has
  <2>3. j < call.at BY <1>0, <1>1, <2>2
  <2>4. Passed(c)' BY <1>1 DEF Passed, Idle
  <2> QED BY <2>1, <2>3, <2>4
<1>4. ASSUME NEW c \in Conns PROVE Served(c)'
  BY <1>0, <1>1, <1>3, CommandedKeeps, ServedPassing
<1> QED BY <1>2, <1>4

\* A call that is under way goes on when something else happens.
LEMMA CallingKeeps ==
  ASSUME Serving, [Next]_vars, UNCHANGED <<call, calls>>
  PROVE  Calling'
<1> SUFFICES ASSUME call # Idle PROVE Calling' BY DEF Calling, Idle
<1>0. Calling /\ Types /\ slots \in Seq(Conns \cup {None}) /\ known \subseteq Conns
  BY ServingIs DEF Types, TypeOK
<1>1. call.to = All \/ call.to \in known'
  <2>1. call.to = All \/ call.to \in known BY <1>0 DEF Calling
  <2> QED BY <1>0, <2>1, Standing
<1>2. ASSUME call.half # 0
      PROVE  /\ call.at \in DOMAIN slots' /\ slots'[call.at] # None
             /\ state'[slots'[call.at]] = 1 /\ call.half = fd'[slots'[call.at]]
  <2>1. /\ call.at \in DOMAIN slots /\ slots[call.at] # None
        /\ state[slots[call.at]] = 1 /\ call.half = fd[slots[call.at]]
    BY <1>0, <1>2 DEF Calling
  <2>2. PICK d \in Conns : d = slots[call.at]
    <3>1. \A i \in DOMAIN slots : slots[i] \in Conns \cup {None} BY <1>0
    <3> QED BY <2>1, <3>1
  <2>3. Has(d, call.at) BY <2>1, <2>2 DEF Has
  <2>4. Has(d, call.at)' /\ state'[d] = 1 /\ fd'[d] = fd[d] BY <2>1, <2>2, <2>3, Standing
  <2> QED BY <2>1, <2>2, <2>4 DEF Has
<1>3. Last(calls) = [p |-> call.pkt, to |-> call.to] BY <1>0 DEF Calling
<1> QED BY <1>1, <1>2, <1>3 DEF Calling, Last

\* Every step serves the clients in the list.
LEMMA ServingStep ==
  ASSUME Serving, [Next]_vars
  PROVE  Serving'
<1>1. ServerInv' /\ History' BY ServingIs, ServerStep, HistoryStep
<1>2. env' = env
  BY DEF Next, Server, Select, Timeout, Recv, GetPacket, RecvEnd, RoundEnds, Handle, Confirm,
         ProcessAgain, Caller, SendCommand, Walk, WalkOn, SendCommandReturns, StopListening,
         Client, Connect, Read, SeeEnd, Take, GiveUp, SendStatus, Leave
<1>3. CASE Server
  <2>1. UNCHANGED <<call, calls>>
    BY <1>3 DEF Server, Select, Timeout, Recv, GetPacket, RecvEnd, RoundEnds, Handle, Confirm, ProcessAgain
  <2>2. \A c \in Conns : Served(c)' BY <1>3, ServerServes
  <2>3. Calling' BY <2>1, CallingKeeps
  <2> QED BY <1>1, <1>2, <2>2, <2>3, StaysStep DEF Serving
<1>4. CASE Caller
  <2>1. Calling' /\ \A c \in Conns : Served(c)'
    <3>1. CASE StopListening
      <4>1. UNCHANGED <<call, calls, histVars, state>> BY <3>1 DEF StopListening
      <4>2. \A c \in Conns : Commanded(c)' = Commanded(c) BY <4>1, CommandedKeeps
      <4> QED BY <4>1, <4>2, CallingKeeps, ServedKeeps
    <3> QED BY <1>4, <3>1, SendServes, WalkServes, WalkOnServes, ReturnServes DEF Caller
  <2> QED BY <1>1, <1>2, <2>1, StaysStep DEF Serving
<1>5. CASE UNCHANGED vars \/ \E d \in Conns : Client(d)
  <2>1. UNCHANGED <<call, calls, histVars, state>>
    BY <1>5 DEF Client, Connect, Read, SeeEnd, Take, GiveUp, SendStatus, Leave
  <2>2. \A c \in Conns : Commanded(c)' = Commanded(c) BY <2>1, CommandedKeeps
  <2>3. Calling' /\ \A c \in Conns : Served(c)' BY <2>1, <2>2, CallingKeeps, ServedKeeps
  <2> QED BY <1>1, <1>2, <2>3, StaysStep DEF Serving
<1> QED BY <1>3, <1>4, <1>5 DEF Next

\* At first nobody is in the list and nothing has been called.
LEMMA ReachingInit == ASSUME Init PROVE Reaching
<1>1. DOMAIN events = {} /\ Len(calls) = 0 /\ calls \in Seq([p : {Start, Config}, to : Conns \cup {All}])
  <2>1. events = <<>> /\ calls = <<>> BY DEF Init
  <2> QED BY <2>1
<1>2. History
  <2>1. since = [c \in Conns |-> {}] /\ call = Idle BY DEF Init
  <2>2. since \in [Conns -> SUBSET (0 .. Len(calls))] BY <2>1
  <2> QED BY <1>1, <2>1, <2>2 DEF History
<1>3. Calling BY DEF Init, Calling
<1>4. ASSUME NEW c \in Conns PROVE Stays(c) /\ Served(c)
  <2>1. Stays(c) BY <1>1 DEF Init, Stays, In
  <2>2. Commanded(c) = <<>>
    <3>1. wrote[c] = <<>> BY DEF Init
    <3> QED BY <3>1, KeptNone DEF Commanded
  <2> QED BY <2>1, <2>2 DEF Init, Served
<1> QED BY <1>2, <1>3, <1>4 DEF Reaching

\* Without anybody who leaves, the list, its slots and descriptors are stable,
\* and the call that is under way has been written to those whose slot was passed.
THEOREM ReachingInvariant == Spec => [](ServerInv /\ Reaching)
<1>1. Init => ServerInv /\ Reaching BY ServerInit, ReachingInit
<1>2. ServerInv /\ Reaching /\ [Next]_vars => ServerInv' /\ Reaching'
  <2> SUFFICES ASSUME ServerInv, Reaching, [Next]_vars PROVE Reaching' BY ServerStep
  <2>1. History' BY HistoryStep DEF Reaching
  <2>2. env' = env
    BY DEF Next, Server, Select, Timeout, Recv, GetPacket, RecvEnd, RoundEnds, Handle, Confirm,
           ProcessAgain, Caller, SendCommand, Walk, WalkOn, SendCommandReturns, StopListening,
           Client, Connect, Read, SeeEnd, Take, GiveUp, SendStatus, Leave
  <2>3. "leave" \notin env.mishaps => Serving' BY ServingStep DEF Reaching, Serving
  <2> QED BY <2>1, <2>2, <2>3 DEF Reaching, Serving
<1> QED BY <1>1, <1>2, PTL DEF Spec

\* RunControl::SendCommand: a client in the list gets each command that is
\* meant for it, once and in the order of the calls, while the server thread
\* accepts, identifies and refuses others, however many they are.
THEOREM Reach == Spec => []CommandsReach
<1>1. ServerInv /\ Reaching => CommandsReach
  <2> SUFFICES ASSUME ServerInv, Reaching, "leave" \notin env.mishaps, call = Idle,
                      NEW c \in Conns, state[c] = 1
               PROVE  Commanded(c) \in {Due(calls, c, n) : n \in since[c]}
    BY DEF CommandsReach
  <2>1. Served(c) /\ Passed(c) BY DEF Reaching, Passed
  <2> QED BY <2>1 DEF Served
<1> QED BY <1>1, ReachingInvariant, PTL
=============================================================================
