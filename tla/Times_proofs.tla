---------------------------- MODULE Times_proofs ----------------------------
(***************************************************************************)
(* The collectors that merge by time, for every set of connections, every  *)
(* sequence of runs, every mishap and every bound of time.                 *)
(***************************************************************************)
EXTENDS Collectors_proofs

-----------------------------------------------------------------------------
(***************************************************************************)
(* TimestampSync: reading a queue up to the end of a slice.                *)
(***************************************************************************)
Moments == 0 .. Time!NoEnd
Bounds  == Moments \X Moments

\* An event begins before it ends, and ends before the last two times.
LEMMA EventSays ==
  ASSUME NEW e \in Time!Events
  PROVE  /\ Time!Beg(e) \in Nat /\ Time!End(e) \in Nat /\ Time!Beg(e) < Time!End(e)
         /\ Time!End(e) <= MaxTime /\ Time!Beg(e) \in Moments /\ Time!End(e) \in Moments
<1>1. PICK b \in 0 .. MaxTime, d \in 0 .. MaxTime : e = <<b, d>> BY DEF Time!Events
<1>2. Time!Beg(e) = b /\ Time!End(e) = d BY <1>1 DEF Time!Beg, Time!End
<1>3. b < d BY <1>2 DEF Time!Events
<1>4. MaxTime \in Nat BY SliceAssumption
<1>5. Time!NoEnd = MaxTime + 2 BY DEF Time!NoEnd
<1> QED BY <1>2, <1>3, <1>4, <1>5 DEF Moments

\* The bounds of a slice are times.
LEMMA BoundsSay ==
  ASSUME NEW s \in Bounds
  PROVE  /\ Time!Beg(s) \in Nat /\ Time!End(s) \in Nat
         /\ Time!Beg(s) \in Moments /\ Time!End(s) \in Moments
<1>1. PICK b \in Moments, d \in Moments : s = <<b, d>> BY DEF Bounds
<1>2. Time!Beg(s) = b /\ Time!End(s) = d BY <1>1 DEF Time!Beg, Time!End
<1>3. Time!NoEnd \in Nat BY SliceAssumption DEF Time!NoEnd
<1> QED BY <1>2, <1>3 DEF Moments

\* A set of places in a queue has a greatest one.
LEMMA Greatest ==
  ASSUME NEW n \in Nat, NEW S \in SUBSET (1 .. n), S # {}
  PROVE  Time!Max(S) \in S /\ \A x \in S : x <= Time!Max(S)
<1> DEFINE T == {n - x : x \in S}
<1>1. T \in SUBSET Nat /\ T # {}
  <2>1. \A x \in S : n - x \in Nat OBVIOUS
  <2> QED BY <2>1
<1>2. PICK m \in T : \A y \in T : m <= y BY <1>1, Least
<1>3. PICK x \in S : m = n - x BY <1>2
<1>4. \A y \in S : n - x <= n - y BY <1>2, <1>3
<1> HIDE DEF T
<1>5. \A y \in S : x >= y
  <2> TAKE y \in S
  <2>1. n - x <= n - y /\ x \in Nat /\ y \in Nat BY <1>4
  <2> QED BY <2>1
<1>6. Time!Max(S) = CHOOSE z \in S : \A y \in S : z >= y BY DEF Time!Max
<1>7. Time!Max(S) \in S /\ \A y \in S : Time!Max(S) >= y BY <1>3, <1>5, <1>6, Zenon
<1>8. \A y \in S : y \in Nat OBVIOUS
<1> QED BY <1>7, <1>8

\* Reading stops at the first event that reaches beyond the slice.
LEMMA StopSays ==
  ASSUME NEW q \in Seq(Time!Events), NEW s \in Bounds
  PROVE  LET n == Time!Stop(q, s)
         IN /\ n \in 0 .. Len(q)
            /\ n = 0 => \A i \in 1 .. Len(q) : ~Time!Beyond(q[i], s)
            /\ n # 0 => /\ Time!Beyond(q[n], s)
                        /\ \A i \in 1 .. Len(q) : i < n => ~Time!Beyond(q[i], s)
<1> DEFINE I == {i \in 1 .. Len(q) : Time!Beyond(q[i], s)}
           n == Time!Stop(q, s)
<1>1. Len(q) \in Nat OBVIOUS
<1>2. CASE I = {}
  <2>1. n = 0 BY <1>2 DEF Time!Stop, Time!SelectInSeq
  <2> QED BY <1>1, <1>2, <2>1
<1>3. CASE I # {}
  <2>1. I \in SUBSET Nat OBVIOUS
  <2>2. \E m \in I : \A i \in I : m <= i BY <1>3, <2>1, Least
  <2> DEFINE m == CHOOSE x \in I : \A y \in I : x <= y
  <2>3. m \in I /\ \A i \in I : m <= i BY <2>2
  <2>4. Time!Min(I) = m BY DEF Time!Min
  <2>5. n = Time!Min(I) BY <1>3 DEF Time!Stop, Time!SelectInSeq
  <2>6. n \in I /\ \A i \in I : n <= i BY <2>3, <2>4, <2>5
  <2> HIDE DEF n, m
  <2>7. n \in 1 .. Len(q) /\ Time!Beyond(q[n], s) BY <2>6
  <2>8. ASSUME NEW i \in 1 .. Len(q), i < n PROVE ~Time!Beyond(q[i], s)
    <3>1. i \notin I BY <2>6, <2>7, <2>8
    <3> QED BY <3>1
  <2> HIDE DEF I
  <2>9. /\ n \in 0 .. Len(q) /\ n # 0 BY <2>7
  <2> QED BY <2>7, <2>8, <2>9 DEF n
<1> QED BY <1>2, <1>3

\* What is left of the queue begins there.
LEMMA RestSays ==
  ASSUME NEW q \in Seq(Time!Events), NEW s \in Bounds
  PROVE  LET n == Time!Stop(q, s)
             r == Time!Rest(q, s)
         IN /\ r \in Seq(Time!Events)
            /\ n = 0 => r = <<>>
            /\ n # 0 => /\ Len(r) = Len(q) - n + 1 /\ r # <<>>
                        /\ \A i \in 1 .. Len(r) : n + i - 1 \in 1 .. Len(q) /\ r[i] = q[n + i - 1]
<1> DEFINE n == Time!Stop(q, s)
           r == Time!Rest(q, s)
<1>1. n \in 0 .. Len(q) /\ Len(q) \in Nat BY StopSays
<1>2. CASE n = 0 BY <1>2 DEF Time!Rest
<1>3. CASE n # 0
  <2>1. r = SubSeq(q, n, Len(q)) BY <1>3 DEF Time!Rest
  <2> HIDE DEF n, r
  <2>2. n \in 1 .. Len(q) BY <1>1, <1>3
  <2>3. /\ r \in Seq(Time!Events) /\ Len(r) = Len(q) - n + 1
        /\ \A i \in 1 .. Len(r) : r[i] = q[n + i - 1]
    BY <1>1, <2>1, <2>2, SubSeqProperties
  <2>4. \A i \in 1 .. Len(r) : n + i - 1 \in 1 .. Len(q) BY <1>1, <2>2, <2>3
  <2>5. r # <<>> BY <1>1, <2>2, <2>3
  <2> QED BY <1>3, <2>3, <2>4, <2>5 DEF n, r
<1> QED BY <1>2, <1>3

\* The next event of the source: the one at which the reading stopped, unless
\* it was used; then the one after it.
NextPlace(q, s) == IF Time!Long(q, s) THEN Time!Stop(q, s) + 1 ELSE Time!Stop(q, s)

\* A proposal is the next event, or there is none.
LEMMA ProposalSays ==
  ASSUME NEW q \in Seq(Time!Events), NEW s \in Bounds
  PROVE  LET p == Time!Proposal(q, s)
         IN /\ p # <<>> => /\ NextPlace(q, s) \in 1 .. Len(q) /\ Head(p) = q[NextPlace(q, s)]
                           /\ Time!Stop(q, s) # 0 /\ Time!Rest(q, s) # <<>>
            /\ p = <<>> => \/ Time!Stop(q, s) = 0
                           \/ Time!Long(q, s) /\ Time!Stop(q, s) = Len(q)
<1> DEFINE n == Time!Stop(q, s)
           r == Time!Rest(q, s)
           p == Time!Proposal(q, s)
<1>1. n \in 0 .. Len(q) /\ Len(q) \in Nat BY StopSays
<1>2. /\ r \in Seq(Time!Events)
      /\ n = 0 => r = <<>>
      /\ n # 0 => /\ Len(r) = Len(q) - n + 1 /\ r # <<>>
                  /\ \A i \in 1 .. Len(r) : n + i - 1 \in 1 .. Len(q) /\ r[i] = q[n + i - 1]
  BY RestSays
<1>3. p = IF Time!Long(q, s) THEN Tail(r) ELSE r BY DEF Time!Proposal
<1>4. Time!Long(q, s) => n # 0 BY DEF Time!Long
<1>5. CASE n = 0
  <2>1. p = <<>> BY <1>2, <1>3, <1>4, <1>5
  <2> QED BY <1>5, <2>1
<1>6. CASE n # 0 /\ ~Time!Long(q, s)
  <2>1. p = r /\ NextPlace(q, s) = n BY <1>3, <1>6 DEF NextPlace
  <2> HIDE DEF n, r, p
  <2>2. 1 \in 1 .. Len(r) BY <1>1, <1>2, <1>6
  <2>3. n + 1 - 1 = n BY <1>1
  <2>4. Head(r) = r[1] BY <1>2, <1>6
  <2>5. Head(p) = q[n] /\ n \in 1 .. Len(q) /\ p # <<>> BY <1>2, <1>6, <2>1, <2>2, <2>3, <2>4
  <2> QED BY <1>2, <1>6, <2>1, <2>5 DEF n, r, p
<1>7. CASE n # 0 /\ Time!Long(q, s)
  <2>1. p = Tail(r) /\ NextPlace(q, s) = n + 1 BY <1>3, <1>7 DEF NextPlace
  <2> HIDE DEF n, r, p
  <2>2. Len(r) \in Nat /\ r # <<>> /\ Len(r) > 0 BY <1>2, <1>7
  <2>3. CASE Len(r) = 1
    <3>1. p = <<>> BY <1>2, <2>1, <2>3
    <3>2. n = Len(q) BY <1>1, <1>2, <1>7, <2>3
    <3> QED BY <1>7, <3>1, <3>2 DEF n, p
  <2>4. CASE Len(r) # 1
    <3>0. PICK k \in Nat : k = Len(r) /\ k > 0 /\ k # 1 BY <2>2, <2>4
    <3>1. 2 \in 1 .. Len(r)
      <4>1. 2 \in 1 .. k BY <3>0
      <4> QED BY <3>0, <4>1
    <3>2. n + 2 - 1 = n + 1 BY <1>1
    <3>3. r[2] = q[n + 1] /\ n + 1 \in 1 .. Len(q) BY <1>2, <1>7, <3>1, <3>2
    <3>4. p # <<>> /\ Head(p) = r[2]
      <4>1. r \in Seq(Time!Events) /\ Len(r) > 1 BY <1>2, <2>2, <3>0
      <4>2. Tail(r) # <<>> /\ Head(Tail(r)) = r[2]
        <5>1. Tail(r) \in Seq(Time!Events) /\ Len(Tail(r)) = Len(r) - 1 BY <4>1
        <5>2. \A i \in 1 .. Len(r) - 1 : Tail(r)[i] = r[i + 1] BY <4>1
        <5>3. 1 \in 1 .. Len(r) - 1 /\ Len(Tail(r)) # 0 /\ 1 + 1 = 2 BY <3>0, <5>1
        <5>4. Tail(r)[1] = r[2] BY <5>2, <5>3
        <5> DEFINE t == Tail(r)
        <5>5. t \in Seq(Time!Events) /\ Len(t) # 0 BY <5>1, <5>3
        <5> HIDE DEF t
        <5>6. t # <<>> /\ Head(t) = t[1] BY <5>5
        <5> QED BY <5>4, <5>6 DEF t
      <4> QED BY <2>1, <4>2
    <3> QED BY <1>2, <1>7, <2>1, <3>3, <3>4 DEF n, r, p
  <2> QED BY <2>3, <2>4
<1> QED BY <1>5, <1>6, <1>7

\* What is used overlaps the slice.
LEMMA UsedSays ==
  ASSUME NEW q \in Seq(Time!Events), NEW s \in Bounds
  PROVE  /\ Time!Used(q, s) \subseteq 1 .. Len(q)
         /\ \A i \in Time!Used(q, s) : Time!Beg(q[i]) < Time!End(s) /\ Time!Beg(s) < Time!End(q[i])
         /\ Time!Used(q, s) # {} =>
              /\ Time!Max(Time!Used(q, s)) \in Time!Used(q, s)
              /\ \A i \in Time!Used(q, s) : i <= Time!Max(Time!Used(q, s))
<1> DEFINE n == Time!Stop(q, s)
           U == Time!Used(q, s)
<1>0. Len(q) \in Nat /\ DOMAIN q = 1 .. Len(q) OBVIOUS
<1>1. U \subseteq 1 .. Len(q) BY DEF Time!Used
<1>2. ASSUME NEW i \in U PROVE Time!Beg(q[i]) < Time!End(s) /\ Time!Beg(s) < Time!End(q[i])
  <2>1. i \in 1 .. Len(q) /\ q[i] \in Time!Events BY <1>1
  <2>2. Time!Beg(q[i]) \in Nat /\ Time!End(q[i]) \in Nat BY <2>1, EventSays
  <2>3. Time!Beg(s) \in Nat /\ Time!End(s) \in Nat BY BoundsSay
  <2>4. CASE (n = 0 \/ i < n) /\ Time!End(q[i]) > Time!Beg(s)
    <3>1. ~Time!Beyond(q[i], s) BY <2>1, <2>4, StopSays
    <3> QED BY <2>2, <2>3, <2>4, <3>1 DEF Time!Beyond
  <2>5. CASE Time!Long(q, s) /\ i = n
    <3>1. n # 0 /\ Time!Beg(q[n]) < Time!End(s) BY <2>5 DEF Time!Long
    <3>2. Time!Beyond(q[n], s) BY <3>1, StopSays
    <3> QED BY <2>2, <2>3, <2>5, <3>1, <3>2 DEF Time!Beyond
  <2> QED BY <2>4, <2>5 DEF Time!Used
<1>3. U # {} => Time!Max(U) \in U /\ \A i \in U : i <= Time!Max(U)
  <2> HIDE DEF U
  <2> QED BY <1>0, <1>1, Greatest
<1> QED BY <1>1, <1>2, <1>3

\* The next slice is from the first beginning to the first end of what the
\* sources have next.
LEMMA NextSays ==
  ASSUME NEW q, \A c \in DOMAIN q : q[c] \in Seq(Time!Events), NEW s \in Bounds
  PROVE  LET t == Time!NextSlice(q, s)
             W == {d \in DOMAIN q : Time!Proposal(q[d], s) # <<>>}
         IN /\ t \in Bounds /\ Time!Beg(t) < Time!End(t)
            /\ W = {} => t = Time!Never
            /\ \A c \in W : /\ Time!Beg(t) <= Time!Beg(Head(Time!Proposal(q[c], s)))
                            /\ Time!End(t) <= Time!End(Head(Time!Proposal(q[c], s)))
            /\ W # {} => /\ \E c \in W : Time!Beg(t) = Time!Beg(Head(Time!Proposal(q[c], s)))
                         /\ \E c \in W : Time!End(t) = Time!End(Head(Time!Proposal(q[c], s)))
<1> DEFINE W == {d \in DOMAIN q : Time!Proposal(q[d], s) # <<>>}
           H(c) == Head(Time!Proposal(q[c], s))
           next == {H(c) : c \in W}
           B == {Time!Beg(e) : e \in next} \cup {Time!NoBeg}
           E == {Time!End(e) : e \in next} \cup {Time!NoEnd}
           b == CHOOSE x \in B : \A e \in next : x <= Time!Beg(e)
           d == CHOOSE x \in E : \A e \in next : x <= Time!End(e)
           t == Time!NextSlice(q, s)
<1>1. t = <<b, d>> BY DEF Time!NextSlice
<1>2. Time!Beg(t) = b /\ Time!End(t) = d
  <2> HIDE DEF b, d, t
  <2> QED BY <1>1 DEF Time!Beg, Time!End
<1>3. \A e \in next : e \in Time!Events
  <2> SUFFICES ASSUME NEW c \in W PROVE H(c) \in Time!Events OBVIOUS
  <2>1. NextPlace(q[c], s) \in 1 .. Len(q[c]) /\ H(c) = q[c][NextPlace(q[c], s)] BY ProposalSays
  <2> QED BY <2>1
<1>4. /\ MaxTime \in Nat /\ Time!NoBeg = MaxTime + 1 /\ Time!NoEnd = MaxTime + 2
  BY SliceAssumption DEF Time!NoBeg, Time!NoEnd
<1> HIDE DEF next, t
<1>5. \A e \in next : /\ Time!Beg(e) \in Nat /\ Time!End(e) \in Nat /\ Time!Beg(e) < Time!End(e)
                      /\ Time!End(e) <= MaxTime
  BY <1>3, EventSays
<1>6. B \in SUBSET Nat /\ B # {} /\ E \in SUBSET Nat /\ E # {} BY <1>4, <1>5
<1>7. \E x \in B : \A y \in B : x <= y BY <1>6, Least
<1>8. \E x \in E : \A y \in E : x <= y BY <1>6, Least
<1>9. b \in B /\ \A e \in next : b <= Time!Beg(e)
  <2>1. \E x \in B : \A e \in next : x <= Time!Beg(e) BY <1>7
  <2> HIDE DEF B
  <2> QED BY <2>1, Zenon
<1>10. d \in E /\ \A e \in next : d <= Time!End(e)
  <2>1. \E x \in E : \A e \in next : x <= Time!End(e) BY <1>8
  <2> HIDE DEF E
  <2> QED BY <2>1, Zenon
<1> HIDE DEF b, d
<1>11. \/ next = {} /\ b = Time!NoBeg /\ d = Time!NoEnd
       \/ next # {} /\ (\E e \in next : b = Time!Beg(e)) /\ (\E e \in next : d = Time!End(e))
  <2>1. CASE next = {} BY <1>9, <1>10, <2>1
  <2>2. CASE next # {}
    <3>1. PICK e \in next : TRUE BY <2>2
    <3>2. b <= Time!Beg(e) /\ Time!Beg(e) <= MaxTime /\ d <= Time!End(e) /\ Time!End(e) <= MaxTime
      BY <1>4, <1>5, <1>9, <1>10, <3>1
    <3>3. b # Time!NoBeg BY <1>4, <1>5, <3>1, <3>2
    <3>4. d # Time!NoEnd BY <1>4, <1>5, <3>1, <3>2
    <3> QED BY <1>9, <1>10, <2>2, <3>3, <3>4
  <2> QED BY <2>1, <2>2
<1>12. b < d /\ b \in Moments /\ d \in Moments
  <2>1. CASE next = {} BY <1>4, <1>11, <2>1 DEF Moments
  <2>2. CASE next # {}
    <3>1. PICK e \in next : d = Time!End(e) BY <1>11, <2>2
    <3>2. PICK f \in next : b = Time!Beg(f) BY <1>11, <2>2
    <3>3. b <= Time!Beg(e) BY <1>9
    <3> QED BY <1>4, <1>5, <3>1, <3>2, <3>3 DEF Moments
  <2> QED BY <2>1, <2>2
<1>13. t \in Bounds BY <1>1, <1>12 DEF Bounds
<1>14. \A c \in W : b <= Time!Beg(H(c)) /\ d <= Time!End(H(c)) BY <1>9, <1>10 DEF next
<1>15. W = {} => t = Time!Never
  <2>1. W = {} => next = {} BY DEF next
  <2> QED BY <1>1, <1>11, <2>1 DEF Time!Never
<1>16. W # {} => (\E c \in W : b = Time!Beg(H(c))) /\ (\E c \in W : d = Time!End(H(c)))
  <2>1. W # {} => next # {} BY DEF next
  <2> QED BY <1>11, <2>1 DEF next
<1> HIDE DEF W
<1>17. /\ t \in Bounds /\ Time!Beg(t) < Time!End(t)
       /\ W = {} => t = Time!Never
       /\ \A c \in W : Time!Beg(t) <= Time!Beg(H(c)) /\ Time!End(t) <= Time!End(H(c))
       /\ W # {} => /\ \E c \in W : Time!Beg(t) = Time!Beg(H(c))
                    /\ \E c \in W : Time!End(t) = Time!End(H(c))
  BY <1>2, <1>12, <1>13, <1>14, <1>15, <1>16
<1> QED BY <1>17 DEF W, t

\* The events of a queue follow each other.
InTime(q) == \A i, j \in 1 .. Len(q) : i < j => Time!End(q[i]) <= Time!Beg(q[j])

\* The event that ends with the slice is the one that is used, and what comes
\* next begins after the slice.
LEMMA ReadSays ==
  ASSUME NEW q \in Seq(Time!Events), NEW s \in Bounds, InTime(q), Time!Beg(s) < Time!End(s)
  PROVE  /\ \A i \in 1 .. Len(q) :
              (Time!Stop(q, s) # 0 /\ NextPlace(q, s) <= i) =>
                 /\ Time!End(s) <= Time!Beg(q[i])
                 /\ Time!End(Head(Time!Proposal(q, s))) <= Time!End(q[i])
         /\ \A k \in 1 .. Len(q) :
              Time!End(q[k]) = Time!End(s) =>
                /\ Time!Used(q, s) # {} /\ Time!Max(Time!Used(q, s)) = k
                /\ ~Time!Long(q, s)
<1> DEFINE n == Time!Stop(q, s)
           m == NextPlace(q, s)
<1>1. /\ n \in 0 .. Len(q) /\ Len(q) \in Nat
      /\ n = 0 => \A i \in 1 .. Len(q) : ~Time!Beyond(q[i], s)
      /\ n # 0 => /\ Time!Beyond(q[n], s)
                  /\ \A i \in 1 .. Len(q) : i < n => ~Time!Beyond(q[i], s)
  BY StopSays
<1>2. \A i \in 1 .. Len(q) : q[i] \in Time!Events OBVIOUS
<1>3. \A i \in 1 .. Len(q) : /\ Time!Beg(q[i]) \in Nat /\ Time!End(q[i]) \in Nat
                             /\ Time!Beg(q[i]) < Time!End(q[i])
  BY <1>2, EventSays
<1>4. Time!Beg(s) \in Nat /\ Time!End(s) \in Nat BY BoundsSay
<1>5. Time!Long(q, s) <=> n # 0 /\ Time!Beg(q[n]) < Time!End(s) BY DEF Time!Long
<1>6. m = IF Time!Long(q, s) THEN n + 1 ELSE n BY DEF NextPlace
<1>7. ASSUME NEW i \in 1 .. Len(q), n # 0, m <= i
      PROVE  /\ Time!End(s) <= Time!Beg(q[i])
             /\ Time!End(Head(Time!Proposal(q, s))) <= Time!End(q[i])
  <2>1. n \in 1 .. Len(q) BY <1>1, <1>7
  <2> HIDE DEF n, m
  <2>2. n <= i /\ m \in 1 .. Len(q) BY <1>1, <1>6, <1>7, <2>1
  <2>3. Time!End(s) <= Time!Beg(q[i])
    <3>1. CASE ~Time!Long(q, s)
      <4>1. Time!End(s) <= Time!Beg(q[n]) BY <1>3, <1>4, <1>5, <1>7, <2>1, <3>1
      <4>2. n = i \/ Time!End(q[n]) <= Time!Beg(q[i]) BY <1>1, <2>1, <2>2 DEF InTime
      <4> QED BY <1>3, <1>4, <2>1, <4>1, <4>2
    <3>2. CASE Time!Long(q, s)
      <4>1. n < i BY <1>1, <1>6, <1>7, <2>1, <3>2
      <4>2. Time!End(q[n]) <= Time!Beg(q[i]) BY <1>1, <2>1, <4>1 DEF InTime
      <4>3. Time!End(s) < Time!End(q[n])
        <5>1. Time!Beyond(q[n], s) /\ Time!Beg(q[n]) < Time!End(s) BY <1>1, <1>5, <1>7, <3>2
        <5> QED BY <1>3, <1>4, <2>1, <5>1 DEF Time!Beyond
      <4> QED BY <1>3, <1>4, <2>1, <4>2, <4>3
    <3> QED BY <3>1, <3>2
  <2>4. Time!Proposal(q, s) # <<>>
    <3>1. SUFFICES ASSUME Time!Proposal(q, s) = <<>> PROVE FALSE OBVIOUS
    <3>2. Time!Long(q, s) /\ n = Len(q) BY <1>7, <3>1, ProposalSays DEF n
    <3> QED BY <1>1, <1>6, <2>2, <3>2
  <2>5. Head(Time!Proposal(q, s)) = q[m] BY <2>4, ProposalSays DEF m
  <2>6. m = i \/ Time!End(q[m]) <= Time!Beg(q[i]) BY <1>1, <1>7, <2>2 DEF InTime
  <2> QED BY <1>3, <2>2, <2>3, <2>5, <2>6
<1>8. ASSUME NEW k \in 1 .. Len(q), Time!End(q[k]) = Time!End(s)
      PROVE  Time!Used(q, s) # {} /\ Time!Max(Time!Used(q, s)) = k /\ ~Time!Long(q, s)
  <2> HIDE DEF n, m
  <2>1. ~Time!Beyond(q[k], s) BY <1>3, <1>4, <1>8 DEF Time!Beyond
  <2>2. n = 0 \/ k < n
    <3>1. SUFFICES ASSUME n # 0, n <= k PROVE FALSE BY <1>1
    <3>2. n \in 1 .. Len(q) /\ Time!Beyond(q[n], s) BY <1>1, <3>1
    <3>3. n # k BY <2>1, <3>2
    <3>4. Time!End(q[n]) <= Time!Beg(q[k]) BY <1>1, <3>1, <3>2, <3>3 DEF InTime
    <3>5. Time!End(q[n]) < Time!End(s) /\ Time!Beg(q[n]) < Time!End(s) BY <1>3, <1>4, <1>8, <3>2, <3>4
    <3> QED BY <1>3, <1>4, <3>2, <3>5 DEF Time!Beyond
  <2>3. k \in Time!Used(q, s)
    <3>1. k \in DOMAIN q /\ Time!End(q[k]) > Time!Beg(s) BY <1>4, <1>8
    <3> QED BY <2>2, <3>1 DEF Time!Used, n
  <2>4. \A i \in 1 .. Len(q) : k < i => Time!End(s) <= Time!Beg(q[i]) BY <1>8 DEF InTime
  <2>5. \A i \in Time!Used(q, s) : i \in 1 .. Len(q) /\ Time!Beg(q[i]) < Time!End(s) BY UsedSays
  <2>6. ASSUME NEW i \in Time!Used(q, s) PROVE i <= k
    <3>1. SUFFICES ASSUME k < i PROVE FALSE BY <1>1, <2>5
    <3>2. Time!End(s) <= Time!Beg(q[i]) /\ Time!Beg(q[i]) < Time!End(s) /\ i \in 1 .. Len(q)
      BY <2>4, <2>5, <3>1
    <3> QED BY <1>3, <1>4, <3>2
  <2>7. /\ Time!Max(Time!Used(q, s)) \in Time!Used(q, s)
        /\ \A i \in Time!Used(q, s) : i <= Time!Max(Time!Used(q, s))
    BY <2>3, UsedSays
  <2>8. Time!Max(Time!Used(q, s)) \in 1 .. Len(q) BY <2>5, <2>7
  <2>9. Time!Max(Time!Used(q, s)) = k BY <1>1, <2>3, <2>6, <2>7, <2>8
  <2>10. ~Time!Long(q, s)
    <3>1. SUFFICES ASSUME Time!Long(q, s) PROVE FALSE OBVIOUS
    <3>2. n # 0 /\ k < n /\ n \in 1 .. Len(q) /\ Time!Beg(q[n]) < Time!End(s) BY <1>1, <1>5, <2>2, <3>1
    <3> QED BY <1>3, <1>4, <2>4, <3>2
  <2> QED BY <2>3, <2>9, <2>10
<1> QED BY <1>7, <1>8

\* A source that has delivered enough for the slice has an event that reaches
\* beyond it, or its last one ends with it.
LEMMA CoveredSays ==
  ASSUME NEW q \in Seq(Time!Events), NEW s \in Bounds, Time!Beg(s) < Time!End(s), q # <<>>,
         Time!End(s) <= Time!End(q[Len(q)])
  PROVE  Time!Stop(q, s) = 0 => Time!End(q[Len(q)]) = Time!End(s)
<1>1. Len(q) \in 1 .. Len(q) /\ Len(q) \in Nat OBVIOUS
<1>2. q[Len(q)] \in Time!Events BY <1>1
<1>3. Time!Beg(q[Len(q)]) \in Nat /\ Time!End(q[Len(q)]) \in Nat BY <1>2, EventSays
<1>4. Time!Beg(s) \in Nat /\ Time!End(s) \in Nat BY BoundsSay
<1>5. ASSUME Time!Stop(q, s) = 0 PROVE Time!End(q[Len(q)]) = Time!End(s)
  <2>1. ~Time!Beyond(q[Len(q)], s) BY <1>1, <1>5, StopSays
  <2> QED BY <1>3, <1>4, <2>1 DEF Time!Beyond
<1> QED BY <1>5

-----------------------------------------------------------------------------
(***************************************************************************)
(* TimestampSync: what is always so.                                       *)
(***************************************************************************)
Slice == [at : Bounds, sub : UNION {[D -> Time!Events] : D \in SUBSET Conns}]

SliceTypes ==
  /\ kind \in {"ts", "timestamp"} /\ kind \in Kinds
  /\ run \in DOMAIN Runs[kind]
  /\ link \in [Conns -> {"new", "on", "ghost", "off"}]
  /\ got \in [Conns -> SUBSET Time!Events]
  /\ DOMAIN evque \subseteq Conns /\ \A c \in DOMAIN evque : evque[c] \in Seq(Time!Events)
  /\ evque = [c \in DOMAIN evque |-> evque[c]]
  /\ inactive \subseteq Conns /\ lastEnd \in Moments /\ curr \in Bounds
  /\ building \in BOOLEAN /\ out \in Seq(Slice)

\* No event comes before all connections were made, and no slice is written
\* before an event came or after a callback threw.
ArrivalInv ==
  /\ \A c \in Peers : link[c] \in {"new", "on", "off"}
  /\ \A c \in Peers : got[c] # {} => \A d \in Peers : link[d] # "new"
  /\ building \/ out # <<>> => \E c \in Peers : got[c] # {}
  /\ building => ~thrown

\* The queues are in order, with events of this run for those that may go on;
\* a source that is ready reaches the end of the slice.
SpanInv ==
  /\ \A c \in DOMAIN evque : InTime(evque[c])
  /\ \A c \in Peers : link[c] = "on" => c \in DOMAIN evque
  /\ \A c \in Peers \cap DOMAIN evque : Range(evque[c]) \subseteq got[c]
  /\ inactive \subseteq DOMAIN evque
  /\ (kind = "ts" \/ ~thrown) =>
       \A c \in inactive : evque[c] # <<>> => Time!End(curr) <= Time!End(evque[c][Len(evque[c])])
  /\ Time!Beg(curr) < Time!End(curr)

\* The slices written: each before the next one and the one to come, each
\* with an event that ends with it, and only events that overlap it.
SlicesInv ==
  \A i \in DOMAIN out :
    /\ Time!Beg(out[i].at) < Time!End(out[i].at) /\ Time!End(out[i].at) <= lastEnd
    /\ \A j \in DOMAIN out : i < j => Time!End(out[i].at) <= Time!Beg(out[j].at)
    /\ \A c \in DOMAIN out[i].sub : /\ Time!Beg(out[i].sub[c]) < Time!End(out[i].at)
                                    /\ Time!Beg(out[i].at) < Time!End(out[i].sub[c])
    /\ \E c \in DOMAIN out[i].sub : Time!End(out[i].sub[c]) = Time!End(out[i].at)

\* Ex0TsDataCollector: a source that is ready has events, and one of all the
\* events ends with the slice; the connections are of this run or of earlier ones.
KeyedInv ==
  /\ \A c \in inactive : evque[c] # <<>>
  /\ lastEnd <= Time!Beg(curr)
  /\ curr = Time!Never \/ \E c \in DOMAIN evque : \E i \in 1 .. Len(evque[c]) :
                             Time!End(evque[c][i]) = Time!End(curr)
  /\ \A c \in DOMAIN evque : \E i \in 1 .. run : c \in Runs[kind][i]
  /\ \A c \in DOMAIN evque : c \in Peers => link[c] # "new"
  /\ SlicesInv

\* TimestampSyncDataCollector: only sources that are there have events.
PresentInv ==
  /\ \A c \in DOMAIN evque : evque[c] # <<>> => c \in Peers /\ link[c] = "on"
  /\ \A c \in inactive : c \in Peers /\ link[c] = "on"

\* Nothing is left of an earlier run; no producer has left, or was left out.
Undisturbed ==
  \/ kind = "ts" /\ DOMAIN evque \subseteq Peers
  \/ /\ kind = "timestamp" /\ \A c \in Peers : link[c] # "off"
     /\ \A i \in DOMAIN out : DOMAIN out[i].sub = Peers

\* Time goes no further than each source has come.
ReachedInv ==
  \/ lastEnd = 0
  \/ /\ \E c \in Peers : got[c] # {}
     /\ \A c \in DOMAIN evque : \E o \in got[c] : lastEnd <= Time!End(o)
  \/ kind = "ts" /\ evque = <<>>

InFile(f, c, e) == \E i \in DOMAIN f : c \in DOMAIN f[i].sub /\ f[i].sub[c] = e
InQueue(q, c, e) == c \in DOMAIN q /\ \E i \in 1 .. Len(q[c]) : q[c][i] = e

\* What is queued reaches to the end of the slice, unless it is an event that
\* was longer than the last one.
QueuedInv ==
  /\ thrown => \A c \in Peers : got[c] = {}
  /\ \A c \in Peers : \A e \in got[c] : InQueue(evque, c, e) \/ InFile(out, c, e)
  /\ \A c \in DOMAIN evque : \A i \in 1 .. Len(evque[c]) :
       \/ Time!End(curr) <= Time!End(evque[c][i])
       \/ i = 1 /\ InFile(out, c, evque[c][i])

OrderlyInv ==
  /\ ArrivalInv /\ SpanInv
  /\ kind = "ts" => KeyedInv
  /\ kind = "timestamp" => PresentInv
  /\ Undisturbed => ReachedInv /\ QueuedInv

TimeInv == SliceTypes /\ (env \subseteq {"gaps"} => OrderlyInv)

\* The instance's names for the peers and the queues.
LEMMA SlicePeers ==
  /\ Time!Peers = Peers /\ (SliceTypes => Peers \subseteq Conns)
  /\ \A c : Time!Queue(c) = IF c \in DOMAIN evque THEN evque[c] ELSE <<>>
<1>1. Time!Peers = Peers BY DEF Time!Peers, Peers
<1>2. SliceTypes => Peers \subseteq Conns
  <2> SUFFICES ASSUME SliceTypes PROVE Peers \subseteq Conns OBVIOUS
  <2>1. Runs[kind] \in Seq(SUBSET Conns) BY StreamsAssumption DEF SliceTypes
  <2> QED BY <2>1 DEF SliceTypes, Peers
<1> QED BY <1>1, <1>2 DEF Time!Queue

\* An event is added at the end of a queue.
LEMMA SpanAdded ==
  ASSUME NEW q \in Seq(Time!Events), NEW e \in Time!Events, InTime(q),
         \A o \in Range(q) : Time!End(o) <= Time!Beg(e)
  PROVE  /\ Append(q, e) \in Seq(Time!Events) /\ InTime(Append(q, e)) /\ Append(q, e) # <<>>
         /\ Len(Append(q, e)) = Len(q) + 1 /\ Append(q, e)[Len(q) + 1] = e
         /\ \A i \in 1 .. Len(q) : Append(q, e)[i] = q[i]
         /\ Range(Append(q, e)) = Range(q) \cup {e}
<1> DEFINE r == Append(q, e)
<1>1. /\ r \in Seq(Time!Events) /\ Len(q) \in Nat /\ Len(r) = Len(q) + 1 /\ r[Len(q) + 1] = e /\ r # <<>>
      /\ \A i \in 1 .. Len(q) : r[i] = q[i]
  OBVIOUS
<1>2. DOMAIN q = 1 .. Len(q) /\ DOMAIN r = 1 .. Len(q) + 1 BY <1>1
<1>3. \A i \in 1 .. Len(q) : q[i] \in Range(q) BY <1>2 DEF Range
<1> HIDE DEF r
<1>4. ASSUME NEW i \in 1 .. Len(r), NEW j \in 1 .. Len(r), i < j
      PROVE  Time!End(r[i]) <= Time!Beg(r[j])
  <2>1. i \in 1 .. Len(q) /\ r[i] = q[i] BY <1>1, <1>4
  <2>2. CASE j = Len(q) + 1 BY <1>1, <1>3, <2>1, <2>2
  <2>3. CASE j \in 1 .. Len(q) BY <1>1, <1>4, <2>1, <2>3 DEF InTime
  <2> QED BY <1>1, <2>2, <2>3
<1>5. InTime(r) BY <1>4 DEF InTime
<1>6. Range(r) = Range(q) \cup {e}
  <2>1. \A i \in 1 .. Len(q) + 1 : i \in 1 .. Len(q) \/ i = Len(q) + 1 BY <1>1
  <2>2. \A x \in Range(r) : x \in Range(q) \cup {e} BY <1>1, <1>2, <1>3, <2>1 DEF Range
  <2>3. \A i \in 1 .. Len(q) : i \in 1 .. Len(q) + 1 BY <1>1
  <2>4. \A x \in Range(q) : x \in Range(r) BY <1>1, <1>2, <2>3 DEF Range
  <2>5. e \in Range(r)
    <3>1. Len(q) + 1 \in DOMAIN r BY <1>1, <1>2
    <3> QED BY <1>1, <3>1 DEF Range
  <2> QED BY <2>2, <2>4, <2>5
<1> QED BY <1>1, <1>5, <1>6 DEF r

\* At first there are no queues, and no slice has begun.
LEMMA TimeStarts == ASSUME CollectorsInit, kind \in {"ts", "timestamp"} PROVE TimeInv
<1>1. Time!Init /\ kind \in Kinds
  BY DEF CollectorsInit, Init, StreamsInit, Position!Init, Position!StreamsInit,
         Pairs!Init, Pairs!StreamsInit, Overlaps!Init, Overlaps!StreamsInit, Merge!Init, Merge!Programs
<1>2. /\ run = 1 /\ link = [c \in Conns |-> "new"] /\ got = [c \in Conns |-> {}] /\ thrown = FALSE
      /\ evque = <<>> /\ inactive = {} /\ lastEnd = 0 /\ curr = Time!Never /\ building = FALSE /\ out = <<>>
  BY <1>1 DEF Time!Init, Time!StreamsInit
<1>3. /\ Time!Never \in Bounds /\ 0 \in Moments /\ Time!Beg(Time!Never) < Time!End(Time!Never)
      /\ 0 <= Time!Beg(Time!Never)
  BY SliceAssumption DEF Time!Never, Time!NoBeg, Time!NoEnd, Bounds, Moments, Time!Beg, Time!End
<1>4. DOMAIN evque = {} /\ DOMAIN out = {} BY <1>2
<1>5. SliceTypes
  <2>1. Runs[kind] \in Seq(SUBSET Conns) \ {<<>>} BY <1>1, StreamsAssumption
  <2>2. 1 \in DOMAIN Runs[kind] BY <2>1
  <2>3. evque = [c \in DOMAIN evque |-> evque[c]] BY <1>2, <1>4
  <2>4. out \in Seq(Slice) BY <1>2
  <2> QED BY <1>1, <1>2, <1>3, <1>4, <2>2, <2>3, <2>4 DEF SliceTypes
<1>6. Peers \subseteq Conns BY <1>5, SlicePeers
<1>7. ArrivalInv BY <1>2, <1>6 DEF ArrivalInv
<1>8. SpanInv BY <1>2, <1>3, <1>4, <1>6 DEF SpanInv
<1>9. KeyedInv BY <1>2, <1>3, <1>4 DEF KeyedInv, SlicesInv
<1>10. PresentInv BY <1>2, <1>4 DEF PresentInv
<1>11. ReachedInv BY <1>2 DEF ReachedInv
<1>12. QueuedInv BY <1>2, <1>4, <1>6 DEF QueuedInv
<1> QED BY <1>5, <1>7, <1>8, <1>9, <1>10, <1>11, <1>12 DEF TimeInv, OrderlyInv
-----------------------------------------------------------------------------
(***************************************************************************)
(* TimestampSync: each callback keeps TimeInv.                             *)
(***************************************************************************)
\* A new connection has an empty queue; the first one of an Ex0TsDataCollector
\* starts time anew.
LEMMA TimeConnect == ASSUME TimeInv, NEW c \in Conns, Time!Connect(c) PROVE TimeInv'
<1>1. /\ ~thrown /\ ~building /\ c \in Peers /\ link[c] = "new" /\ link' = [link EXCEPT ![c] = "on"]
      /\ kind' = kind /\ env' = env /\ run' = run /\ got' = got /\ out' = out /\ building' = building
      /\ "late" \in env \/ \A d \in Peers : link[d] \in {"new", "on"} /\ got[d] = {}
  BY SlicePeers DEF Time!Connect, Time!Joins
<1>2. \/ /\ kind = "timestamp" /\ c \in DOMAIN evque /\ thrown' = TRUE
         /\ evque' = evque /\ inactive' = inactive /\ lastEnd' = lastEnd /\ curr' = curr
      \/ /\ kind = "timestamp" => c \notin DOMAIN evque
         /\ evque' = [d \in DOMAIN evque \cup {c} |-> IF d = c THEN <<>> ELSE evque[d]]
         /\ thrown' = thrown
         /\ \/ /\ kind = "ts" /\ evque = <<>>
               /\ inactive' = {} /\ lastEnd' = 0 /\ curr' = Time!Never
            \/ /\ kind = "ts" => evque # <<>>
               /\ inactive' = inactive /\ lastEnd' = lastEnd /\ curr' = curr
  BY DEF Time!Connect, Time!ByName, Time!Put, TimeInv, SliceTypes
<1>3. SliceTypes BY DEF TimeInv
<1>4. /\ Time!Never \in Bounds /\ 0 \in Moments /\ Time!Beg(Time!Never) < Time!End(Time!Never)
      /\ 0 <= Time!Beg(Time!Never)
  BY SliceAssumption DEF Time!Never, Time!NoBeg, Time!NoEnd, Bounds, Moments, Time!Beg, Time!End
<1>5. Peers' = Peers /\ Peers \subseteq Conns BY <1>1, <1>3, SlicePeers DEF Peers
<1>6. /\ DOMAIN evque' = DOMAIN evque \cup {c}
      /\ \A d \in DOMAIN evque' : evque'[d] = <<>> \/ (d \in DOMAIN evque /\ evque'[d] = evque[d])
      /\ \A d \in DOMAIN evque \ {c} : evque'[d] = evque[d]
      /\ evque' = [d \in DOMAIN evque' |-> evque'[d]]
  BY <1>2, <1>3 DEF SliceTypes
<1>7. /\ link' \in [Conns -> {"new", "on", "ghost", "off"}] /\ link'[c] = "on"
      /\ \A d \in Conns \ {c} : link'[d] = link[d]
  BY <1>1, <1>3 DEF SliceTypes
<1>8. SliceTypes'
  <2>1. /\ run' \in DOMAIN Runs[kind'] /\ kind' \in {"ts", "timestamp"} /\ kind' \in Kinds
        /\ got' \in [Conns -> SUBSET Time!Events] /\ building' \in BOOLEAN /\ out' \in Seq(Slice)
    BY <1>1, <1>3 DEF SliceTypes
  <2>2. DOMAIN evque' \subseteq Conns /\ \A d \in DOMAIN evque' : evque'[d] \in Seq(Time!Events)
    BY <1>3, <1>6, Nothing DEF SliceTypes
  <2>3. inactive' \subseteq Conns /\ lastEnd' \in Moments /\ curr' \in Bounds
    BY <1>2, <1>3, <1>4 DEF SliceTypes
  <2> QED BY <1>6, <1>7, <2>1, <2>2, <2>3 DEF SliceTypes
<1>9. SUFFICES ASSUME env \subseteq {"gaps"} PROVE OrderlyInv' BY <1>1, <1>8 DEF TimeInv
<1>10. OrderlyInv BY <1>9 DEF TimeInv
<1>11. \A d \in Peers : link[d] \in {"new", "on"} /\ got[d] = {} BY <1>1, <1>9
<1>12. out = <<>> BY <1>10, <1>11 DEF OrderlyInv, ArrivalInv
<1>13. ArrivalInv' BY <1>1, <1>5, <1>7, <1>11, <1>12 DEF ArrivalInv
<1>14. kind = "ts" => c \notin DOMAIN evque BY <1>1, <1>10 DEF OrderlyInv, KeyedInv
<1>15. SpanInv'
  <2>1. /\ \A d \in DOMAIN evque : InTime(evque[d])
        /\ \A d \in Peers : link[d] = "on" => d \in DOMAIN evque
        /\ \A d \in Peers \cap DOMAIN evque : Range(evque[d]) \subseteq got[d]
        /\ inactive \subseteq DOMAIN evque
        /\ \A d \in inactive : evque[d] # <<>> => Time!End(curr) <= Time!End(evque[d][Len(evque[d])])
        /\ Time!Beg(curr) < Time!End(curr)
    BY <1>1, <1>10 DEF OrderlyInv, SpanInv
  <2>2. InTime(<<>>) /\ Range(<<>>) = {} BY Nothing DEF InTime
  <2>3. \A d \in DOMAIN evque' : InTime(evque'[d]) BY <1>6, <2>1, <2>2
  <2>4. \A d \in Peers' : link'[d] = "on" => d \in DOMAIN evque' BY <1>5, <1>6, <1>7, <2>1
  <2>5. \A d \in Peers' \cap DOMAIN evque' : Range(evque'[d]) \subseteq got'[d]
    BY <1>1, <1>5, <1>6, <2>1, <2>2
  <2>6. inactive' \subseteq DOMAIN evque' BY <1>2, <1>6, <2>1
  <2>7. Time!Beg(curr') < Time!End(curr') BY <1>2, <1>4, <2>1
  <2>8. \A d \in inactive' : evque'[d] # <<>> =>
            Time!End(curr') <= Time!End(evque'[d][Len(evque'[d])])
    <3> SUFFICES ASSUME NEW d \in inactive', evque'[d] # <<>>
                 PROVE  Time!End(curr') <= Time!End(evque'[d][Len(evque'[d])])
      OBVIOUS
    <3>1. d \in inactive /\ curr' = curr BY <1>2
    <3>2. evque'[d] = evque[d] BY <1>6, <2>6
    <3> QED BY <2>1, <3>1, <3>2
  <2> QED BY <2>3, <2>4, <2>5, <2>6, <2>7, <2>8 DEF SpanInv
<1>16. ASSUME kind' = "ts" PROVE KeyedInv'
  <2>0. kind = "ts" /\ KeyedInv BY <1>1, <1>10, <1>16 DEF OrderlyInv
  <2>1. \A d \in DOMAIN evque : d # c /\ evque'[d] = evque[d] BY <1>6, <1>14, <2>0
  <2>2. \A d \in inactive' : evque'[d] # <<>>
    <3>1. inactive \subseteq DOMAIN evque BY <1>10 DEF OrderlyInv, SpanInv
    <3> QED BY <1>2, <2>0, <2>1, <3>1 DEF KeyedInv
  <2>3. lastEnd' <= Time!Beg(curr') BY <1>2, <1>4, <2>0 DEF KeyedInv
  <2>4. curr' = Time!Never \/ \E d \in DOMAIN evque' : \E i \in 1 .. Len(evque'[d]) :
                                Time!End(evque'[d][i]) = Time!End(curr')
    <3>1. CASE curr' = curr /\ curr # Time!Never
      <4>1. PICK d \in DOMAIN evque : \E i \in 1 .. Len(evque[d]) : Time!End(evque[d][i]) = Time!End(curr)
        BY <2>0, <3>1 DEF KeyedInv
      <4>2. d \in DOMAIN evque' /\ evque'[d] = evque[d] BY <1>6, <2>1
      <4> QED BY <3>1, <4>1, <4>2
    <3> QED BY <1>2, <3>1
  <2>5. \A d \in DOMAIN evque' : \E i \in 1 .. run' : d \in Runs[kind'][i]
    <3>1. run \in 1 .. run
      <4>1. Runs[kind] \in Seq(SUBSET Conns) BY <1>3, StreamsAssumption DEF SliceTypes
      <4> QED BY <1>3, <4>1 DEF SliceTypes
    <3>2. c \in Runs[kind][run] BY <1>1 DEF Peers
    <3> QED BY <1>1, <1>6, <2>0, <3>1, <3>2 DEF KeyedInv
  <2>6. \A d \in DOMAIN evque' : d \in Peers' => link'[d] # "new"
    BY <1>5, <1>6, <1>7, <2>0 DEF KeyedInv
  <2>7. SlicesInv' BY <1>1, <1>12 DEF SlicesInv
  <2> QED BY <2>2, <2>3, <2>4, <2>5, <2>6, <2>7 DEF KeyedInv
<1>17. ASSUME kind' = "timestamp" PROVE PresentInv'
  <2>0. PresentInv /\ kind = "timestamp" BY <1>1, <1>10, <1>17 DEF OrderlyInv
  <2>1. \A d \in DOMAIN evque' : evque'[d] # <<>> => d \in Peers' /\ link'[d] = "on"
    BY <1>3, <1>5, <1>6, <1>7, <2>0 DEF PresentInv, SliceTypes
  <2>2. \A d \in inactive' : d \in Peers' /\ link'[d] = "on"
    BY <1>2, <1>3, <1>5, <1>7, <2>0 DEF PresentInv, SliceTypes
  <2> QED BY <2>1, <2>2 DEF PresentInv
<1>18. ASSUME Undisturbed' PROVE ReachedInv' /\ QueuedInv'
  <2>1. Undisturbed
    <3>1. CASE kind = "ts" /\ DOMAIN evque' \subseteq Peers' BY <1>5, <1>6, <3>1 DEF Undisturbed
    <3>2. CASE kind = "timestamp" BY <1>11, <1>12, <3>2 DEF Undisturbed
    <3> QED BY <1>1, <1>18, <3>1, <3>2 DEF Undisturbed
  <2>2. ReachedInv /\ QueuedInv BY <1>10, <2>1 DEF OrderlyInv
  <2>3. ReachedInv' BY <1>2, <1>11, <2>2 DEF ReachedInv
  <2>4. \A d \in Peers' : got'[d] = {} BY <1>1, <1>5, <1>11
  <2>5. \A d \in DOMAIN evque' : \A i \in 1 .. Len(evque'[d]) :
            \/ Time!End(curr') <= Time!End(evque'[d][i])
            \/ i = 1 /\ InFile(out', d, evque'[d][i])
    <3> SUFFICES ASSUME NEW d \in DOMAIN evque', NEW i \in 1 .. Len(evque'[d])
                 PROVE  \/ Time!End(curr') <= Time!End(evque'[d][i])
                        \/ i = 1 /\ InFile(out', d, evque'[d][i])
      OBVIOUS
    <3>1. evque'[d] # <<>> OBVIOUS
    <3>2. d \in DOMAIN evque /\ evque'[d] = evque[d] BY <1>6, <3>1
    <3>3. curr' = curr
      <4>1. evque # <<>> BY <3>2
      <4> QED BY <1>2, <4>1
    <3> QED BY <1>12, <2>2, <3>2, <3>3 DEF QueuedInv, InFile
  <2> QED BY <2>3, <2>4, <2>5 DEF QueuedInv
<1> QED BY <1>1, <1>13, <1>15, <1>16, <1>17, <1>18 DEF OrderlyInv

\* The end of a connection removes its queue, if it is empty or the events of
\* a producer that has left do not count.
LEMMA TimeDisconnect == ASSUME TimeInv, NEW c \in Conns, Time!Disconnect(c) PROVE TimeInv'
<1>1. /\ ~thrown /\ ~building /\ c \in Peers
      /\ \/ link[c] \in {"on", "ghost"} /\ link' = [link EXCEPT ![c] = "off"]
         \/ link[c] = "new" /\ "ghost" \in env /\ link' = [link EXCEPT ![c] = "ghost"]
      /\ kind' = kind /\ env' = env /\ run' = run /\ got' = got /\ out' = out /\ building' = building
      /\ lastEnd' = lastEnd /\ curr' = curr
  BY SlicePeers DEF Time!Disconnect, Time!Leaves
<1>3. SliceTypes BY DEF TimeInv
<1>2. /\ DOMAIN evque' \subseteq DOMAIN evque /\ DOMAIN evque \ {c} \subseteq DOMAIN evque'
      /\ \A d \in DOMAIN evque' : evque'[d] = evque[d]
      /\ evque' = [d \in DOMAIN evque' |-> evque'[d]]
      /\ inactive' \subseteq inactive
      /\ kind = "ts" => /\ c \in DOMAIN evque \ DOMAIN evque' => evque[c] = <<>>
                        /\ thrown' = thrown
      /\ kind = "timestamp" => /\ c \notin DOMAIN evque'
                               /\ c \in DOMAIN evque => c \notin inactive' /\ thrown' = thrown
                               /\ c \notin DOMAIN evque => thrown' = TRUE
  <2>1. CASE kind = "timestamp" /\ c \in DOMAIN evque
    <3>1. evque' = [d \in DOMAIN evque \ {c} |-> evque[d]] /\ inactive' = inactive \ {c} /\ thrown' = thrown
      BY <2>1 DEF Time!Disconnect, Time!ByName, Time!Restrict
    <3> QED BY <2>1, <3>1
  <2>2. CASE kind = "timestamp" /\ c \notin DOMAIN evque
    <3>1. evque' = evque /\ inactive' = inactive /\ thrown' = TRUE
      BY <2>2 DEF Time!Disconnect, Time!ByName
    <3> QED BY <1>3, <2>2, <3>1 DEF SliceTypes
  <2>3. CASE kind = "ts"
    <3>1. /\ inactive' = inactive /\ thrown' = thrown
          /\ \/ Time!Queue(c) = <<>> /\ evque' = [d \in DOMAIN evque \ {c} |-> evque[d]]
             \/ evque' = evque
      BY <2>3 DEF Time!Disconnect, Time!ByName, Time!Restrict
    <3>2. CASE evque' = evque BY <1>3, <2>3, <3>1, <3>2 DEF SliceTypes
    <3>3. CASE Time!Queue(c) = <<>> /\ evque' = [d \in DOMAIN evque \ {c} |-> evque[d]]
      BY <2>3, <3>1, <3>3 DEF Time!Queue
    <3> QED BY <3>1, <3>2, <3>3
  <2> QED BY <1>3, <2>1, <2>2, <2>3 DEF SliceTypes
<1>4. Peers' = Peers /\ Peers \subseteq Conns BY <1>1, <1>3, SlicePeers DEF Peers
<1>5. /\ link' \in [Conns -> {"new", "on", "ghost", "off"}] /\ \A d \in Conns \ {c} : link'[d] = link[d]
  BY <1>1, <1>3 DEF SliceTypes
<1>6. SliceTypes'
  <2>1. /\ run' \in DOMAIN Runs[kind'] /\ kind' \in {"ts", "timestamp"} /\ kind' \in Kinds
        /\ got' \in [Conns -> SUBSET Time!Events] /\ building' \in BOOLEAN /\ out' \in Seq(Slice)
        /\ lastEnd' \in Moments /\ curr' \in Bounds
    BY <1>1, <1>3 DEF SliceTypes
  <2>2. DOMAIN evque' \subseteq Conns /\ \A d \in DOMAIN evque' : evque'[d] \in Seq(Time!Events)
    BY <1>2, <1>3 DEF SliceTypes
  <2>3. inactive' \subseteq Conns BY <1>2, <1>3 DEF SliceTypes
  <2> QED BY <1>2, <1>5, <2>1, <2>2, <2>3 DEF SliceTypes
<1>9. SUFFICES ASSUME env \subseteq {"gaps"} PROVE OrderlyInv' BY <1>1, <1>6 DEF TimeInv
<1>10. OrderlyInv BY <1>9 DEF TimeInv
<1>11. link[c] = "on" /\ link'[c] = "off" /\ c \in DOMAIN evque
  <2>1. link[c] = "on" /\ link' = [link EXCEPT ![c] = "off"]
    BY <1>1, <1>9, <1>10 DEF OrderlyInv, ArrivalInv
  <2>2. c \in DOMAIN evque BY <1>1, <1>10, <2>1 DEF OrderlyInv, SpanInv
  <2> QED BY <1>3, <2>1, <2>2 DEF SliceTypes
<1>12. thrown' = thrown BY <1>2, <1>3, <1>11 DEF SliceTypes
<1>13. ArrivalInv'
  <2>1. \A d \in Peers : link'[d] \in {"new", "on", "off"} /\ (link'[d] = "new" => link[d] = "new")
    BY <1>4, <1>5, <1>10, <1>11 DEF OrderlyInv, ArrivalInv
  <2> QED BY <1>1, <1>4, <1>10, <1>12, <2>1 DEF OrderlyInv, ArrivalInv
<1>14. SpanInv'
  <2>1. SpanInv BY <1>10 DEF OrderlyInv
  <2>2. \A d \in Peers' : link'[d] = "on" => d \in DOMAIN evque'
    BY <1>2, <1>4, <1>5, <1>11, <2>1 DEF SpanInv
  <2>3. inactive' \subseteq DOMAIN evque'
    <3>1. inactive \subseteq DOMAIN evque BY <2>1 DEF SpanInv
    <3>2. CASE kind = "ts"
      <4>1. \A d \in inactive : evque[d] # <<>> BY <1>10, <3>2 DEF OrderlyInv, KeyedInv
      <4> QED BY <1>2, <3>1, <3>2, <4>1
    <3>3. CASE kind = "timestamp" BY <1>2, <1>11, <3>1, <3>3
    <3> QED BY <1>3, <3>2, <3>3 DEF SliceTypes
  <2>4. /\ \A d \in DOMAIN evque' : InTime(evque'[d])
        /\ \A d \in Peers' \cap DOMAIN evque' : Range(evque'[d]) \subseteq got'[d]
        /\ Time!Beg(curr') < Time!End(curr')
    BY <1>1, <1>2, <1>4, <2>1 DEF SpanInv
  <2>5. \A d \in inactive' : evque'[d] # <<>> =>
            Time!End(curr') <= Time!End(evque'[d][Len(evque'[d])])
    BY <1>1, <1>2, <2>1, <2>3 DEF SpanInv
  <2> QED BY <2>2, <2>3, <2>4, <2>5 DEF SpanInv
<1>15. ASSUME kind' = "ts" PROVE KeyedInv'
  <2>0. kind = "ts" /\ KeyedInv BY <1>1, <1>10, <1>15 DEF OrderlyInv
  <2>1. inactive' \subseteq DOMAIN evque' BY <1>14 DEF SpanInv
  <2>2. \A d \in inactive' : evque'[d] # <<>> BY <1>2, <2>0, <2>1 DEF KeyedInv
  <2>3. curr' = Time!Never \/ \E d \in DOMAIN evque' : \E i \in 1 .. Len(evque'[d]) :
                                Time!End(evque'[d][i]) = Time!End(curr')
    <3>1. ASSUME NEW d \in DOMAIN evque, NEW i \in 1 .. Len(evque[d]) PROVE d \in DOMAIN evque'
      <4>1. evque[d] # <<>> OBVIOUS
      <4> QED BY <1>2, <2>0, <4>1
    <3> QED BY <1>1, <1>2, <2>0, <3>1 DEF KeyedInv
  <2>4. \A d \in DOMAIN evque' : d \in Peers' => link'[d] # "new"
    BY <1>2, <1>4, <1>5, <1>11, <2>0 DEF KeyedInv
  <2>5. \A d \in DOMAIN evque' : \E i \in 1 .. run' : d \in Runs[kind'][i]
    BY <1>1, <1>2, <2>0 DEF KeyedInv
  <2>6. SlicesInv' /\ lastEnd' <= Time!Beg(curr') BY <1>1, <2>0 DEF KeyedInv, SlicesInv
  <2> QED BY <2>2, <2>3, <2>4, <2>5, <2>6 DEF KeyedInv
<1>16. ASSUME kind' = "timestamp" PROVE PresentInv'
  <2>0. PresentInv /\ kind = "timestamp" BY <1>1, <1>10, <1>16 DEF OrderlyInv
  <2> QED BY <1>2, <1>4, <1>5, <1>11, <2>0 DEF PresentInv
<1>17. ASSUME Undisturbed' PROVE ReachedInv' /\ QueuedInv'
  <2>1. kind = "ts" /\ DOMAIN evque' \subseteq Peers BY <1>1, <1>4, <1>11, <1>17 DEF Undisturbed
  <2>2. Undisturbed BY <1>1, <1>2, <2>1 DEF Undisturbed
  <2>3. ReachedInv /\ QueuedInv BY <1>10, <2>2 DEF OrderlyInv
  <2>4. ReachedInv' BY <1>1, <1>2, <1>4, <1>11, <2>3 DEF ReachedInv
  <2>5. \A d \in Peers' : \A e \in got'[d] : InQueue(evque', d, e) \/ InFile(out', d, e)
    <3> SUFFICES ASSUME NEW d \in Peers', NEW e \in got'[d]
                 PROVE  InQueue(evque', d, e) \/ InFile(out', d, e)
      OBVIOUS
    <3>1. InQueue(evque, d, e) \/ InFile(out, d, e) BY <1>1, <1>4, <2>3 DEF QueuedInv
    <3>2. ASSUME d \in DOMAIN evque, NEW i \in 1 .. Len(evque[d]), evque[d][i] = e
          PROVE  InQueue(evque', d, e)
      <4>1. evque[d] # <<>> BY <3>2
      <4>2. d \in DOMAIN evque' /\ evque'[d] = evque[d] BY <1>2, <2>1, <3>2, <4>1
      <4> QED BY <3>2, <4>2 DEF InQueue
    <3> QED BY <1>1, <3>1, <3>2 DEF InQueue
  <2>6. QueuedInv' BY <1>1, <1>2, <1>4, <1>12, <2>3, <2>5 DEF QueuedInv
  <2> QED BY <2>4, <2>6
<1> QED BY <1>1, <1>13, <1>14, <1>15, <1>16, <1>17 DEF OrderlyInv

\* When a source is not ready, the loop that writes slices ends.
LEMMA TimeBuildEnds == ASSUME TimeInv, Time!BuildEnds PROVE TimeInv'
<1>1. /\ kind' = kind /\ env' = env /\ run' = run /\ link' = link /\ got' = got /\ thrown' = thrown
      /\ evque' = evque /\ inactive' = inactive /\ lastEnd' = lastEnd /\ curr' = curr /\ out' = out
      /\ building' = FALSE
  BY DEF Time!BuildEnds, Time!streamVars
<1>2. Peers' = Peers BY <1>1 DEF Peers
<1>3. SliceTypes' BY <1>1 DEF TimeInv, SliceTypes
<1>4. ASSUME OrderlyInv PROVE OrderlyInv'
  <2>1. ArrivalInv /\ SpanInv BY <1>4 DEF OrderlyInv
  <2>2. ArrivalInv' BY <1>1, <1>2, <2>1 DEF ArrivalInv
  <2>3. SpanInv' BY <1>1, <1>2, <2>1 DEF SpanInv
  <2>4. KeyedInv => KeyedInv' BY <1>1, <1>2 DEF KeyedInv, SlicesInv
  <2>5. PresentInv => PresentInv' BY <1>1, <1>2 DEF PresentInv
  <2>6. Undisturbed' = Undisturbed BY <1>1, <1>2 DEF Undisturbed
  <2>7. ReachedInv /\ QueuedInv => ReachedInv' /\ QueuedInv' BY <1>1, <1>2 DEF ReachedInv, QueuedInv
  <2> QED BY <1>1, <1>4, <2>2, <2>3, <2>4, <2>5, <2>6, <2>7 DEF OrderlyInv
<1> QED BY <1>1, <1>3, <1>4 DEF TimeInv

\* Shrinking a slice to an event.
LEMMA ShrinkSays ==
  ASSUME NEW s \in Bounds, NEW e \in Time!Events
  PROVE  LET t == Time!Shrink(s, e)
         IN /\ t \in Bounds
            /\ Time!Beg(t) <= Time!Beg(e) /\ Time!Beg(t) <= Time!Beg(s)
            /\ Time!Beg(t) = Time!Beg(e) \/ Time!Beg(t) = Time!Beg(s)
            /\ Time!End(t) <= Time!End(e) /\ Time!End(t) <= Time!End(s)
            /\ Time!End(t) = Time!End(e) \/ Time!End(t) = Time!End(s)
<1> DEFINE b == IF Time!Beg(e) < Time!Beg(s) THEN Time!Beg(e) ELSE Time!Beg(s)
           d == IF Time!End(e) < Time!End(s) THEN Time!End(e) ELSE Time!End(s)
           t == Time!Shrink(s, e)
<1>1. /\ Time!Beg(e) \in Moments /\ Time!End(e) \in Moments /\ Time!Beg(s) \in Moments /\ Time!End(s) \in Moments
      /\ Time!Beg(e) \in Nat /\ Time!End(e) \in Nat /\ Time!Beg(s) \in Nat /\ Time!End(s) \in Nat
  BY EventSays, BoundsSay
<1>2. /\ b <= Time!Beg(e) /\ b <= Time!Beg(s) /\ (b = Time!Beg(e) \/ b = Time!Beg(s)) /\ b \in Moments
      /\ d <= Time!End(e) /\ d <= Time!End(s) /\ (d = Time!End(e) \/ d = Time!End(s)) /\ d \in Moments
  BY <1>1
<1>3. t = <<b, d>> BY DEF Time!Shrink
<1> HIDE DEF b, d, t
<1>4. t \in Bounds BY <1>2, <1>3 DEF Bounds
<1>5. Time!Beg(t) = b /\ Time!End(t) = d BY <1>3 DEF Time!Beg, Time!End
<1> QED BY <1>2, <1>4, <1>5 DEF t

\* What a callback does that receives an event: it throws, or queues it; the
\* slice shrinks to the event if its time has not passed.
LEMMA SliceReceive ==
  ASSUME SliceTypes, NEW c \in Conns, NEW e, Time!Receive(c, e)
  PROVE  LET q == [d \in DOMAIN evque \cup {c} |-> IF d = c THEN Append(Time!Queue(c), e) ELSE evque[d]]
             s == Time!Shrink(curr, e)
         IN /\ ~thrown /\ ~building /\ c \in Peers /\ link[c] \in {"on", "ghost"}
            /\ "late" \in env \/ \A d \in Peers : link[d] # "new"
            /\ got' = [got EXCEPT ![c] = @ \cup {e}]
            /\ kind' = kind /\ env' = env /\ run' = run /\ link' = link /\ out' = out /\ lastEnd' = lastEnd
            /\ \/ /\ kind = "ts" /\ c \notin DOMAIN evque /\ thrown' = TRUE
                  /\ evque' = evque /\ inactive' = inactive /\ curr' = curr /\ building' = building
               \/ /\ evque' = q /\ (kind = "timestamp" \/ c \in DOMAIN evque)
                  /\ \/ /\ \/ Time!Beg(e) < lastEnd
                           \/ kind = "timestamp" /\ (Time!Beg(e) >= Time!End(e) \/ lastEnd = Time!NoEnd)
                        /\ thrown' = TRUE /\ inactive' = inactive /\ curr' = curr /\ building' = building
                     \/ /\ ~(Time!Beg(e) < lastEnd)
                        /\ curr' = s /\ building' = TRUE /\ thrown' = thrown
                        /\ inactive' = IF s = curr THEN inactive \cup {c} ELSE Time!Covers(q, s)
<1> DEFINE q == [d \in DOMAIN evque \cup {c} |-> IF d = c THEN Append(Time!Queue(c), e) ELSE evque[d]]
           s == Time!Shrink(curr, e)
<1>1. Time!Put(evque, c, Append(Time!Queue(c), e)) = q BY DEF Time!Put
<1>2. Time!ByName <=> kind = "timestamp" BY DEF Time!ByName
<1>3. kind = "ts" \/ kind = "timestamp" BY DEF SliceTypes
<1>4. Time!Sends(c, e) /\ ~building /\ out' = out BY DEF Time!Receive
<1>5. /\ ~thrown /\ c \in Peers /\ link[c] \in {"on", "ghost"}
      /\ "late" \in env \/ \A d \in Peers : link[d] # "new"
      /\ got' = [got EXCEPT ![c] = @ \cup {e}]
      /\ kind' = kind /\ env' = env /\ run' = run /\ link' = link
  BY <1>4, SlicePeers DEF Time!Sends
<1> HIDE DEF q, s
<1>6. \/ /\ ~Time!ByName /\ c \notin DOMAIN evque /\ thrown' = TRUE
         /\ evque' = evque /\ inactive' = inactive /\ lastEnd' = lastEnd /\ curr' = curr /\ building' = building
      \/ /\ Time!ByName \/ c \in DOMAIN evque
         /\ evque' = q
         /\ IF Time!Beg(e) < lastEnd \/ (Time!ByName /\ (Time!Beg(e) >= Time!End(e) \/ lastEnd = Time!NoEnd))
            THEN thrown' = TRUE /\ inactive' = inactive /\ curr' = curr /\ building' = building
            ELSE /\ curr' = s
                 /\ inactive' = IF s = curr THEN inactive \cup {c} ELSE Time!Covers(q, s)
                 /\ building' = TRUE
                 /\ thrown' = thrown
         /\ lastEnd' = lastEnd
  BY <1>1 DEF Time!Receive, Time!sliceVars, s
<1>7. lastEnd' = lastEnd BY <1>6
<1>8. \/ /\ kind = "ts" /\ c \notin DOMAIN evque /\ thrown' = TRUE
         /\ evque' = evque /\ inactive' = inactive /\ curr' = curr /\ building' = building
      \/ /\ evque' = q /\ (kind = "timestamp" \/ c \in DOMAIN evque)
         /\ \/ /\ \/ Time!Beg(e) < lastEnd
                  \/ kind = "timestamp" /\ (Time!Beg(e) >= Time!End(e) \/ lastEnd = Time!NoEnd)
               /\ thrown' = TRUE /\ inactive' = inactive /\ curr' = curr /\ building' = building
            \/ /\ ~(Time!Beg(e) < lastEnd)
               /\ curr' = s /\ building' = TRUE /\ thrown' = thrown
               /\ inactive' = IF s = curr THEN inactive \cup {c} ELSE Time!Covers(q, s)
  BY <1>2, <1>3, <1>6
<1> QED BY <1>4, <1>5, <1>7, <1>8 DEF q, s

\* An event that comes is queued behind those of its source; in an orderly
\* stream its time has not passed.
LEMMA TimeReceive ==
  ASSUME TimeInv, NEW c \in Conns, NEW e \in Time!Intervals(c), Time!Receive(c, e)
  PROVE  TimeInv'
<1> DEFINE q == [d \in DOMAIN evque \cup {c} |-> IF d = c THEN Append(Time!Queue(c), e) ELSE evque[d]]
           s == Time!Shrink(curr, e)
<1>1. SliceTypes /\ e \in Time!Events BY DEF TimeInv, Time!Intervals
<1>2. /\ ~thrown /\ ~building /\ c \in Peers /\ link[c] \in {"on", "ghost"}
      /\ "late" \in env \/ \A d \in Peers : link[d] # "new"
      /\ got' = [got EXCEPT ![c] = @ \cup {e}]
      /\ kind' = kind /\ env' = env /\ run' = run /\ link' = link /\ out' = out /\ lastEnd' = lastEnd
      /\ \/ /\ kind = "ts" /\ c \notin DOMAIN evque /\ thrown' = TRUE
            /\ evque' = evque /\ inactive' = inactive /\ curr' = curr /\ building' = building
         \/ /\ evque' = q /\ (kind = "timestamp" \/ c \in DOMAIN evque)
            /\ \/ /\ \/ Time!Beg(e) < lastEnd
                     \/ kind = "timestamp" /\ (Time!Beg(e) >= Time!End(e) \/ lastEnd = Time!NoEnd)
                  /\ thrown' = TRUE /\ inactive' = inactive /\ curr' = curr /\ building' = building
               \/ /\ ~(Time!Beg(e) < lastEnd)
                  /\ curr' = s /\ building' = TRUE /\ thrown' = thrown
                  /\ inactive' = IF s = curr THEN inactive \cup {c} ELSE Time!Covers(q, s)
  BY <1>1, SliceReceive
<1>3. /\ s \in Bounds
      /\ Time!Beg(s) <= Time!Beg(e) /\ Time!Beg(s) <= Time!Beg(curr)
      /\ Time!Beg(s) = Time!Beg(e) \/ Time!Beg(s) = Time!Beg(curr)
      /\ Time!End(s) <= Time!End(e) /\ Time!End(s) <= Time!End(curr)
      /\ Time!End(s) = Time!End(e) \/ Time!End(s) = Time!End(curr)
  BY <1>1, ShrinkSays DEF SliceTypes
<1>4. /\ Time!Beg(e) \in Nat /\ Time!End(e) \in Nat /\ Time!Beg(e) < Time!End(e) /\ Time!End(e) <= MaxTime
      /\ Time!Beg(curr) \in Nat /\ Time!End(curr) \in Nat /\ Time!Beg(s) \in Nat /\ Time!End(s) \in Nat
      /\ lastEnd \in Nat /\ MaxTime \in Nat /\ Time!NoEnd = MaxTime + 2
  <2>1. MaxTime \in Nat /\ Time!NoEnd = MaxTime + 2 BY SliceAssumption DEF Time!NoEnd
  <2>2. lastEnd \in Nat BY <1>1, <2>1 DEF SliceTypes, Moments
  <2>3. curr \in Bounds BY <1>1 DEF SliceTypes
  <2> QED BY <1>1, <1>3, <2>1, <2>2, <2>3, EventSays, BoundsSay
<1>5. /\ DOMAIN q = DOMAIN evque \cup {c} /\ q[c] = Append(Time!Queue(c), e)
      /\ \A d \in DOMAIN evque \ {c} : q[d] = evque[d]
      /\ q = [d \in DOMAIN q |-> q[d]]
  OBVIOUS
<1>6. Time!Covers(q, s) \subseteq DOMAIN q /\
      \A d \in Time!Covers(q, s) : q[d] # <<>> /\ Time!End(s) <= Time!End(q[d][Len(q[d])])
  BY DEF Time!Covers, Time!Last
<1> HIDE DEF q, s
<1>7. Time!Queue(c) \in Seq(Time!Events) BY <1>1, Nothing DEF SliceTypes, Time!Queue
<1>8. q[c] \in Seq(Time!Events) BY <1>1, <1>5, <1>7
<1>9. /\ got' \in [Conns -> SUBSET Time!Events] /\ got'[c] = got[c] \cup {e}
      /\ \A d \in Conns \ {c} : got'[d] = got[d]
  BY <1>1, <1>2 DEF SliceTypes
<1>10. Peers' = Peers /\ Peers \subseteq Conns BY <1>1, <1>2, SlicePeers DEF Peers
<1>11. SliceTypes'
  <2>1. /\ run' \in DOMAIN Runs[kind'] /\ kind' \in {"ts", "timestamp"} /\ kind' \in Kinds
        /\ link' \in [Conns -> {"new", "on", "ghost", "off"}] /\ building' \in BOOLEAN /\ out' \in Seq(Slice)
        /\ lastEnd' \in Moments
    BY <1>1, <1>2 DEF SliceTypes
  <2>2. DOMAIN q \subseteq Conns /\ \A d \in DOMAIN q : q[d] \in Seq(Time!Events)
    BY <1>1, <1>5, <1>8 DEF SliceTypes
  <2>3. /\ DOMAIN evque' \subseteq Conns /\ \A d \in DOMAIN evque' : evque'[d] \in Seq(Time!Events)
        /\ evque' = [d \in DOMAIN evque' |-> evque'[d]]
    <3>1. CASE evque' = evque BY <1>1, <3>1 DEF SliceTypes
    <3>2. CASE evque' = q BY <1>5, <2>2, <3>2
    <3> QED BY <1>2, <3>1, <3>2
  <2>4. inactive' \subseteq Conns /\ curr' \in Bounds BY <1>1, <1>2, <1>3, <1>6, <2>2 DEF SliceTypes
  <2> QED BY <1>9, <2>1, <2>3, <2>4 DEF SliceTypes
<1>12. SUFFICES ASSUME env \subseteq {"gaps"} PROVE OrderlyInv' BY <1>2, <1>11 DEF TimeInv
<1>13. OrderlyInv BY <1>12 DEF TimeInv
<1>14. link[c] = "on" /\ (\A d \in Peers : link[d] # "new") /\ c \in DOMAIN evque
  <2>1. link[c] = "on" BY <1>2, <1>12, <1>13 DEF OrderlyInv, ArrivalInv
  <2> QED BY <1>2, <1>12, <1>13, <2>1 DEF OrderlyInv, SpanInv
<1>15. \A o \in got[c] : o \in Time!Events /\ Time!End(o) <= Time!Beg(e)
  BY <1>1, <1>12 DEF Time!Intervals, SliceTypes
<1>16. evque' = q BY <1>2, <1>14
<1>17. /\ \A d \in DOMAIN evque : evque[d] \in Seq(Time!Events) /\ InTime(evque[d])
       /\ Range(evque[c]) \subseteq got[c]
  BY <1>1, <1>2, <1>13, <1>14 DEF OrderlyInv, SpanInv, SliceTypes
<1>18. /\ InTime(q[c]) /\ q[c] # <<>> /\ Len(q[c]) = Len(evque[c]) + 1 /\ q[c][Len(q[c])] = e
       /\ \A i \in 1 .. Len(evque[c]) : q[c][i] = evque[c][i]
       /\ Range(q[c]) = Range(evque[c]) \cup {e} /\ DOMAIN q = DOMAIN evque
  <2>1. q[c] = Append(evque[c], e) BY <1>5, <1>14 DEF Time!Queue
  <2>2. \A o \in Range(evque[c]) : Time!End(o) <= Time!Beg(e) BY <1>15, <1>17
  <2> DEFINE p == evque[c]
             r == Append(p, e)
  <2>3. p \in Seq(Time!Events) /\ InTime(p) /\ \A o \in Range(p) : Time!End(o) <= Time!Beg(e)
    BY <1>14, <1>17, <2>2
  <2>4. r = q[c] BY <2>1
  <2> HIDE DEF p
  <2>5. /\ r \in Seq(Time!Events) /\ InTime(r) /\ r # <<>>
        /\ Len(r) = Len(p) + 1 /\ r[Len(p) + 1] = e
        /\ \A i \in 1 .. Len(p) : r[i] = p[i]
        /\ Range(r) = Range(p) \cup {e}
    BY <1>1, <2>3, SpanAdded
  <2> HIDE DEF r
  <2>6. r[Len(r)] = e BY <2>5
  <2>7. DOMAIN q = DOMAIN evque BY <1>5, <1>14
  <2> QED BY <2>4, <2>5, <2>6, <2>7 DEF p
<1>19. ArrivalInv'
  <2>1. ArrivalInv BY <1>13 DEF OrderlyInv
  <2>2. building' => ~thrown' BY <1>2
  <2>3. \E d \in Peers' : got'[d] # {} BY <1>2, <1>9, <1>10
  <2> QED BY <1>2, <1>10, <1>14, <2>1, <2>2, <2>3 DEF ArrivalInv
<1>20. SpanInv
  BY <1>13 DEF OrderlyInv
<1>21. SpanInv'
  <2>1. \A d \in DOMAIN evque' : InTime(evque'[d]) BY <1>5, <1>16, <1>17, <1>18
  <2>2. \A d \in Peers' : link'[d] = "on" => d \in DOMAIN evque' BY <1>2, <1>10, <1>16, <1>18, <1>20 DEF SpanInv
  <2>3. \A d \in Peers' \cap DOMAIN evque' : Range(evque'[d]) \subseteq got'[d]
    BY <1>5, <1>9, <1>10, <1>16, <1>17, <1>18, <1>20 DEF SpanInv
  <2>4. inactive' \subseteq DOMAIN evque' BY <1>2, <1>6, <1>14, <1>16, <1>18, <1>20 DEF SpanInv
  <2>5. Time!Beg(curr') < Time!End(curr') BY <1>2, <1>3, <1>4, <1>20 DEF SpanInv
  <2>6. ASSUME kind' = "ts" \/ ~thrown', NEW d \in inactive', evque'[d] # <<>>
        PROVE  Time!End(curr') <= Time!End(evque'[d][Len(evque'[d])])
    <3>1. CASE curr' = s /\ s # curr
      <4>1. d \in Time!Covers(q, s) BY <1>2, <2>6, <3>1
      <4> QED BY <1>6, <1>16, <3>1, <4>1
    <3>2. CASE curr' = curr /\ d # c
      <4>1. d \in inactive /\ d \in DOMAIN evque BY <1>2, <1>20, <2>6, <3>2 DEF SpanInv
      <4>2. evque'[d] = evque[d] BY <1>5, <1>16, <3>2, <4>1
      <4> QED BY <1>2, <1>20, <2>6, <3>2, <4>1, <4>2 DEF SpanInv
    <3>3. CASE curr' = curr /\ d = c /\ s = curr BY <1>3, <1>16, <1>18, <3>3
    <3>4. CASE curr' = curr /\ d = c /\ s # curr
      <4>1. kind = "ts" /\ c \in inactive BY <1>2, <2>6, <3>4
      <4>2. evque[c] # <<>> /\ Time!End(curr) <= Time!End(evque[c][Len(evque[c])])
        BY <1>13, <1>20, <4>1 DEF OrderlyInv, KeyedInv, SpanInv
      <4>3. evque[c][Len(evque[c])] \in Range(evque[c])
        <5>1. Len(evque[c]) \in DOMAIN evque[c] BY <1>14, <1>17, <4>2
        <5> QED BY <5>1 DEF Range
      <4>4. /\ evque[c][Len(evque[c])] \in Time!Events
            /\ Time!End(evque[c][Len(evque[c])]) <= Time!Beg(e)
        BY <1>15, <1>17, <4>3
      <4>5. Time!End(evque[c][Len(evque[c])]) \in Nat BY <4>4, EventSays
      <4>6. Time!End(curr) <= Time!End(e) BY <1>4, <4>2, <4>4, <4>5
      <4> QED BY <1>16, <1>18, <3>4, <4>6
    <3> QED BY <1>2, <3>1, <3>2, <3>3, <3>4
  <2> QED BY <2>1, <2>2, <2>3, <2>4, <2>5, <2>6 DEF SpanInv
<1>22. ASSUME kind' = "ts" PROVE KeyedInv'
  <2>0. kind = "ts" /\ KeyedInv BY <1>2, <1>13, <1>22 DEF OrderlyInv
  <2>1. \A d \in inactive' : evque'[d] # <<>>
    <3>1. \A d \in inactive : q[d] # <<>> BY <1>5, <1>18, <1>20, <2>0 DEF KeyedInv, SpanInv
    <3> QED BY <1>2, <1>6, <1>16, <1>18, <3>1
  <2>2. lastEnd' <= Time!Beg(curr')
    <3>1. lastEnd <= Time!Beg(curr) BY <2>0 DEF KeyedInv
    <3> QED BY <1>2, <1>3, <1>4, <3>1
  <2>3. curr' = Time!Never \/ \E d \in DOMAIN evque' : \E i \in 1 .. Len(evque'[d]) :
                                Time!End(evque'[d][i]) = Time!End(curr')
    <3>1. ASSUME NEW d \in DOMAIN evque, NEW i \in 1 .. Len(evque[d])
          PROVE  d \in DOMAIN evque' /\ i \in 1 .. Len(evque'[d]) /\ evque'[d][i] = evque[d][i]
      <4>1. CASE d = c
        <5>1. Len(evque[c]) \in Nat BY <1>14, <1>17
        <5>2. i \in 1 .. Len(q[c]) BY <1>18, <3>1, <4>1, <5>1
        <5> QED BY <1>14, <1>16, <1>18, <4>1, <5>2
      <4>2. CASE d # c BY <1>5, <1>16, <1>18, <4>2
      <4> QED BY <4>1, <4>2
    <3>2. CASE curr' = curr BY <2>0, <3>1, <3>2 DEF KeyedInv
    <3>3. CASE curr' = s /\ Time!End(s) = Time!End(e)
      <4>1. c \in DOMAIN evque' /\ Len(evque'[c]) \in 1 .. Len(evque'[c])
        <5>1. Len(evque[c]) \in Nat BY <1>14, <1>17
        <5> QED BY <1>14, <1>16, <1>18, <5>1
      <4>2. Time!End(evque'[c][Len(evque'[c])]) = Time!End(curr') BY <1>16, <1>18, <3>3
      <4> QED BY <4>1, <4>2
    <3>4. CASE curr' = s /\ Time!End(s) = Time!End(curr) /\ Time!End(s) # Time!End(e)
      <4>1. Time!End(curr) < Time!End(e) BY <1>3, <1>4, <3>4
      <4>2. curr # Time!Never
        <5>1. Time!End(Time!Never) = MaxTime + 2 BY <1>4 DEF Time!Never, Time!End
        <5> QED BY <1>4, <4>1, <5>1
      <4> QED BY <2>0, <3>1, <3>4, <4>2 DEF KeyedInv
    <3> QED BY <1>2, <1>3, <3>2, <3>3, <3>4
  <2>4. \A d \in DOMAIN evque' : \E i \in 1 .. run' : d \in Runs[kind'][i]
    BY <1>2, <1>16, <1>18, <2>0 DEF KeyedInv
  <2>5. \A d \in DOMAIN evque' : d \in Peers' => link'[d] # "new"
    BY <1>2, <1>10, <1>14
  <2>6. SlicesInv' BY <1>2, <2>0 DEF KeyedInv, SlicesInv
  <2> QED BY <2>1, <2>2, <2>3, <2>4, <2>5, <2>6 DEF KeyedInv
<1>23. ASSUME kind' = "timestamp" PROVE PresentInv'
  <2>0. kind = "timestamp" /\ PresentInv BY <1>2, <1>13, <1>23 DEF OrderlyInv
  <2>1. \A d \in DOMAIN evque' : evque'[d] # <<>> => d \in Peers' /\ link'[d] = "on"
    BY <1>2, <1>5, <1>10, <1>14, <1>16, <1>18, <2>0 DEF PresentInv
  <2>2. \A d \in inactive' : d \in Peers' /\ link'[d] = "on"
    BY <1>2, <1>6, <1>10, <1>14, <1>16, <2>0, <2>1 DEF PresentInv
  <2> QED BY <2>1, <2>2 DEF PresentInv
<1>24. ASSUME Undisturbed' PROVE ReachedInv' /\ QueuedInv'
  <2>1. Undisturbed BY <1>2, <1>10, <1>16, <1>18, <1>24 DEF Undisturbed
  <2>2. ReachedInv /\ QueuedInv BY <1>13, <2>1 DEF OrderlyInv
  <2>3. lastEnd = 0 \/ \E o \in got[c] : lastEnd <= Time!End(o)
    <3>1. evque # <<>> BY <1>14
    <3> QED BY <1>14, <2>2, <3>1 DEF ReachedInv
  <2>4. lastEnd <= Time!Beg(e) /\ lastEnd # Time!NoEnd
    <3>1. CASE lastEnd = 0 BY <1>4, <3>1
    <3>2. ASSUME NEW o \in got[c], lastEnd <= Time!End(o) PROVE lastEnd <= Time!Beg(e)
      <4>1. Time!End(o) \in Nat /\ Time!End(o) <= Time!Beg(e) BY <1>15, EventSays
      <4> QED BY <1>4, <3>2, <4>1
    <3> QED BY <1>4, <2>3, <3>1, <3>2
  <2>5. curr' = s /\ thrown' = thrown BY <1>2, <1>4, <1>14, <2>4
  <2>6. ReachedInv'
    <3>1. CASE lastEnd = 0 BY <1>2, <3>1 DEF ReachedInv
    <3>2. CASE lastEnd # 0
      <4>1. \A d \in DOMAIN evque : \E o \in got[d] : lastEnd <= Time!End(o)
        <5>1. evque # <<>> BY <1>14
        <5> QED BY <2>2, <3>2, <5>1 DEF ReachedInv
      <4>2. \A d \in Conns : got[d] \subseteq got'[d] BY <1>9
      <4>3. DOMAIN evque' \subseteq Conns /\ DOMAIN evque' = DOMAIN evque BY <1>11, <1>16, <1>18 DEF SliceTypes
      <4>4. \A d \in DOMAIN evque' : \E o \in got'[d] : lastEnd' <= Time!End(o) BY <1>2, <4>1, <4>2, <4>3
      <4>5. \E d \in Peers' : got'[d] # {} BY <1>2, <1>9, <1>10
      <4> QED BY <4>4, <4>5 DEF ReachedInv
    <3> QED BY <3>1, <3>2
  <2>7. \A d \in Peers' : \A o \in got'[d] : InQueue(evque', d, o) \/ InFile(out', d, o)
    <3> SUFFICES ASSUME NEW d \in Peers, NEW o \in got'[d]
                 PROVE  InQueue(q, d, o) \/ InFile(out, d, o)
      BY <1>2, <1>10, <1>16
    <3>1. CASE d # c
      <4>1. InQueue(evque, d, o) \/ InFile(out, d, o) BY <1>9, <1>10, <2>2, <3>1 DEF QueuedInv
      <4> QED BY <1>5, <3>1, <4>1 DEF InQueue
    <3>2. CASE d = c /\ o \in got[c]
      <4>1. InQueue(evque, c, o) \/ InFile(out, c, o) BY <1>10, <2>2, <3>2 DEF QueuedInv
      <4>2. ASSUME NEW i \in 1 .. Len(evque[c]), evque[c][i] = o PROVE InQueue(q, c, o)
        <5>1. Len(evque[c]) \in Nat BY <1>14, <1>17
        <5>2. i \in 1 .. Len(q[c]) BY <1>18, <4>2, <5>1
        <5> QED BY <1>14, <1>18, <4>2, <5>2 DEF InQueue
      <4> QED BY <3>2, <4>1, <4>2 DEF InQueue
    <3>3. CASE d = c /\ o = e
      <4>1. Len(q[c]) \in 1 .. Len(q[c])
        <5>1. Len(evque[c]) \in Nat BY <1>14, <1>17
        <5> QED BY <1>18, <5>1
      <4> QED BY <1>14, <1>18, <3>3, <4>1 DEF InQueue
    <3> QED BY <1>9, <3>1, <3>2, <3>3
  <2>8. ASSUME NEW d \in DOMAIN evque', NEW i \in 1 .. Len(evque'[d])
        PROVE  \/ Time!End(curr') <= Time!End(evque'[d][i])
               \/ i = 1 /\ InFile(out', d, evque'[d][i])
    <3>1. CASE d = c /\ i = Len(q[c]) BY <1>3, <1>16, <1>18, <2>5, <3>1
    <3>2. CASE ~(d = c /\ i = Len(q[c]))
      <4>1. d \in DOMAIN evque /\ i \in 1 .. Len(evque[d]) /\ evque'[d][i] = evque[d][i]
        <5>1. CASE d = c
          <6>1. Len(evque[c]) \in Nat BY <1>14, <1>17
          <6>2. i \in 1 .. Len(evque[c]) + 1 /\ i # Len(evque[c]) + 1 BY <1>16, <1>18, <2>8, <3>2, <5>1
          <6>3. i \in 1 .. Len(evque[c]) BY <6>1, <6>2
          <6> QED BY <1>14, <1>16, <1>18, <5>1, <6>3
        <5>2. CASE d # c BY <1>5, <1>16, <1>18, <2>8, <5>2
        <5> QED BY <5>1, <5>2
      <4>2. \/ Time!End(curr) <= Time!End(evque[d][i])
            \/ i = 1 /\ InFile(out, d, evque[d][i])
        BY <2>2, <4>1 DEF QueuedInv
      <4>3. CASE Time!End(curr) <= Time!End(evque[d][i])
        <5>1. evque[d][i] \in Time!Events BY <1>17, <4>1
        <5>2. Time!End(evque[d][i]) \in Nat BY <5>1, EventSays
        <5> QED BY <1>3, <1>4, <2>5, <4>1, <4>3, <5>2
      <4> QED BY <1>2, <4>1, <4>2, <4>3
    <3> QED BY <3>1, <3>2
  <2>9. ~thrown' BY <1>2, <2>5
  <2> QED BY <2>6, <2>7, <2>8, <2>9 DEF QueuedInv
<1> QED BY <1>2, <1>19, <1>21, <1>22, <1>23, <1>24 DEF OrderlyInv

\* An event without a timestamp is not of an orderly stream.
LEMMA TimeUntimed == ASSUME TimeInv, NEW c \in Conns, Time!ReceiveUntimed(c) PROVE TimeInv'
<1>1. /\ "bad" \in env
      /\ kind' = kind /\ env' = env /\ run' = run /\ link' = link /\ got' = got
      /\ evque' = evque /\ inactive' = inactive /\ lastEnd' = lastEnd /\ curr' = curr
      /\ building' = building /\ out' = out
  BY DEF Time!ReceiveUntimed, Time!sliceVars
<1>2. SliceTypes' BY <1>1 DEF TimeInv, SliceTypes
<1>3. ~(env' \subseteq {"gaps"}) BY <1>1
<1> QED BY <1>2, <1>3 DEF TimeInv

\* A new run: an Ex0TsDataCollector keeps the queues, which are of connections
\* that are not of this run; the other one empties them.
LEMMA TimeStartRun == ASSUME TimeInv, Time!StartRun PROVE TimeInv'
<1>1. /\ ~building /\ run < Len(Runs[kind]) /\ run' = run + 1
      /\ link' = [c \in Conns |-> "new"] /\ got' = [c \in Conns |-> {}] /\ thrown' = FALSE
      /\ kind' = kind /\ env' = env /\ out' = <<>> /\ building' = building
  BY DEF Time!StartRun, Time!Restarts
<1>2. \/ /\ kind = "timestamp" /\ evque' = [c \in DOMAIN evque |-> <<>>]
         /\ inactive' = {} /\ lastEnd' = 0 /\ curr' = Time!Never
      \/ /\ kind = "ts" /\ evque' = evque /\ inactive' = inactive /\ lastEnd' = lastEnd /\ curr' = curr
  BY DEF Time!StartRun, Time!ByName, TimeInv, SliceTypes
<1>3. SliceTypes BY DEF TimeInv
<1>4. /\ Time!Never \in Bounds /\ 0 \in Moments /\ Time!Beg(Time!Never) < Time!End(Time!Never)
  BY SliceAssumption DEF Time!Never, Time!NoBeg, Time!NoEnd, Bounds, Moments, Time!Beg, Time!End
<1>5. Runs[kind] \in Seq(SUBSET Conns) BY <1>3, StreamsAssumption DEF SliceTypes
<1>6. run \in 1 .. Len(Runs[kind]) /\ run' \in 1 .. Len(Runs[kind]) /\ run \in Nat /\ Len(Runs[kind]) \in Nat
  <2>1. run \in 1 .. Len(Runs[kind]) /\ Len(Runs[kind]) \in Nat BY <1>3, <1>5 DEF SliceTypes
  <2> QED BY <1>1, <2>1
<1>7. DOMAIN evque' = DOMAIN evque /\ evque' = [c \in DOMAIN evque' |-> evque'[c]]
  BY <1>2, <1>3 DEF SliceTypes
<1>8. SliceTypes'
  <2>1. run' \in DOMAIN Runs[kind'] /\ kind' \in {"ts", "timestamp"} /\ kind' \in Kinds
    BY <1>1, <1>3, <1>5, <1>6 DEF SliceTypes
  <2>2. link' \in [Conns -> {"new", "on", "ghost", "off"}] /\ got' \in [Conns -> SUBSET Time!Events]
    BY <1>1
  <2>3. \A c \in DOMAIN evque' : evque'[c] \in Seq(Time!Events) BY <1>2, <1>3, Nothing DEF SliceTypes
  <2>4. DOMAIN evque' \subseteq Conns BY <1>3, <1>7 DEF SliceTypes
  <2>5. inactive' \subseteq Conns /\ lastEnd' \in Moments /\ curr' \in Bounds
    BY <1>2, <1>3, <1>4 DEF SliceTypes
  <2>6. building' \in BOOLEAN /\ out' \in Seq(Slice) BY <1>1, <1>3, Nothing DEF SliceTypes
  <2> QED BY <1>7, <2>1, <2>2, <2>3, <2>4, <2>5, <2>6 DEF SliceTypes
<1>9. SUFFICES ASSUME env \subseteq {"gaps"} PROVE OrderlyInv' BY <1>1, <1>8 DEF TimeInv
<1>10. OrderlyInv BY <1>9 DEF TimeInv
<1>11. Peers' \subseteq Conns
  <2>1. Peers' = Runs[kind][run'] BY <1>1 DEF Peers
  <2> QED BY <1>5, <1>6, <2>1
<1>12. /\ \A c \in Peers' : link'[c] = "new" /\ got'[c] = {}
       /\ DOMAIN out' = {} /\ out' = <<>> /\ building' = FALSE
  BY <1>1, <1>3, <1>11 DEF SliceTypes
<1>13. kind = "ts" => Peers' \cap DOMAIN evque = {}
  <2> SUFFICES ASSUME kind = "ts", NEW c \in Peers', c \in DOMAIN evque PROVE FALSE OBVIOUS
  <2>1. PICK i \in 1 .. run : c \in Runs["ts"][i] BY <1>10 DEF OrderlyInv, KeyedInv
  <2>2. c \in Runs["ts"][run'] BY <1>1 DEF Peers
  <2>3. i \in DOMAIN Runs["ts"] /\ run' \in DOMAIN Runs["ts"] /\ i # run' BY <1>1, <1>5, <1>6
  <2>4. "ts" \in Kinds BY <1>3 DEF SliceTypes
  <2> QED BY <2>1, <2>2, <2>3, <2>4, SliceAssumption
<1>14. ArrivalInv' BY <1>12 DEF ArrivalInv
<1>15. SpanInv'
  <2>1. SpanInv BY <1>10 DEF OrderlyInv
  <2>2. InTime(<<>>) /\ Range(<<>>) = {} BY Nothing DEF InTime
  <2>3. \A c \in Peers' : link'[c] # "on" BY <1>12
  <2>4. CASE kind = "ts" BY <1>1, <1>2, <1>13, <2>1, <2>3, <2>4 DEF SpanInv
  <2>5. CASE kind = "timestamp" BY <1>1, <1>2, <1>4, <1>7, <2>2, <2>3, <2>5 DEF SpanInv
  <2> QED BY <1>2, <2>4, <2>5
<1>16. ASSUME kind' = "ts" PROVE KeyedInv'
  <2>0. kind = "ts" /\ KeyedInv BY <1>1, <1>10, <1>16 DEF OrderlyInv
  <2>1. /\ evque' = evque /\ inactive' = inactive /\ lastEnd' = lastEnd /\ curr' = curr
    BY <1>2, <2>0
  <2>2. \A c \in DOMAIN evque' : \E i \in 1 .. run' : c \in Runs[kind'][i]
    <3> SUFFICES ASSUME NEW c \in DOMAIN evque PROVE \E i \in 1 .. run' : c \in Runs[kind][i] BY <1>1, <2>1
    <3>1. PICK i \in 1 .. run : c \in Runs[kind][i] BY <2>0 DEF KeyedInv
    <3>2. i \in 1 .. run' BY <1>1, <1>6
    <3> QED BY <3>1, <3>2
  <2>3. \A c \in DOMAIN evque' : c \in Peers' => link'[c] # "new" BY <1>13, <2>0, <2>1
  <2>4. SlicesInv' BY <1>12 DEF SlicesInv
  <2> QED BY <2>0, <2>1, <2>2, <2>3, <2>4 DEF KeyedInv
<1>17. ASSUME kind' = "timestamp" PROVE PresentInv'
  <2>1. kind = "timestamp" BY <1>1, <1>17
  <2> QED BY <1>2, <1>7, <2>1 DEF PresentInv
<1>18. ASSUME Undisturbed' PROVE ReachedInv' /\ QueuedInv'
  <2>1. CASE kind = "ts"
    <3>1. DOMAIN evque' = {} BY <1>1, <1>2, <1>13, <1>18, <2>1 DEF Undisturbed
    <3>2. evque' = <<>> BY <1>7, <3>1
    <3>3. ReachedInv' BY <1>1, <2>1, <3>2 DEF ReachedInv
    <3>4. QueuedInv' BY <1>1, <1>12, <3>1 DEF QueuedInv
    <3> QED BY <3>3, <3>4
  <2>2. CASE kind = "timestamp"
    <3>1. ReachedInv' BY <1>2, <2>2 DEF ReachedInv
    <3>2. \A c \in DOMAIN evque' : 1 .. Len(evque'[c]) = {} BY <1>2, <1>7, <2>2
    <3>3. QueuedInv' BY <1>1, <1>12, <3>2 DEF QueuedInv
    <3> QED BY <3>1, <3>3
  <2> QED BY <1>2, <2>1, <2>2
<1> QED BY <1>14, <1>15, <1>16, <1>17, <1>18 DEF OrderlyInv
-----------------------------------------------------------------------------
\* One round of the loop, for one queue: what is left of it is in order and
\* ends with the same event; what is left is what comes next, and before it at
\* most the event that is used now.
LEMMA RoundSays ==
  ASSUME NEW q \in Seq(Time!Events), NEW s \in Bounds, InTime(q), Time!Beg(s) < Time!End(s)
  PROVE  LET r == Time!Rest(q, s)
             p == Time!Proposal(q, s)
             U == Time!Used(q, s)
         IN /\ r \in Seq(Time!Events) /\ InTime(r) /\ Range(r) \subseteq Range(q)
            /\ r # <<>> => q # <<>> /\ r[Len(r)] = q[Len(q)]
            /\ p # <<>> => /\ r # <<>> /\ Time!End(s) <= Time!Beg(Head(p))
                           /\ Time!End(Head(p)) <= Time!End(r[Len(r)])
                           /\ \E i \in 1 .. Len(r) : r[i] = Head(p)
            /\ \A k \in 1 .. Len(q) :
                 (\E i \in 1 .. Len(r) : r[i] = q[k]) \/ ~Time!Beyond(q[k], s)
            /\ \A i \in 1 .. Len(r) :
                 \/ p # <<>> /\ Time!End(Head(p)) <= Time!End(r[i])
                 \/ i = 1 /\ U # {} /\ q[Time!Max(U)] = r[1]
<1> DEFINE n == Time!Stop(q, s)
           m == NextPlace(q, s)
           r == Time!Rest(q, s)
           p == Time!Proposal(q, s)
           U == Time!Used(q, s)
<1>1. /\ n \in 0 .. Len(q) /\ Len(q) \in Nat
      /\ n = 0 => \A i \in 1 .. Len(q) : ~Time!Beyond(q[i], s)
      /\ n # 0 => \A i \in 1 .. Len(q) : i < n => ~Time!Beyond(q[i], s)
  BY StopSays
<1>2. /\ r \in Seq(Time!Events)
      /\ n = 0 => r = <<>>
      /\ n # 0 => /\ Len(r) = Len(q) - n + 1 /\ r # <<>>
                  /\ \A i \in 1 .. Len(r) : n + i - 1 \in 1 .. Len(q) /\ r[i] = q[n + i - 1]
  BY RestSays
<1>3. /\ p # <<>> => m \in 1 .. Len(q) /\ Head(p) = q[m] /\ n # 0 /\ r # <<>>
      /\ p = <<>> => n = 0 \/ (Time!Long(q, s) /\ n = Len(q))
  BY ProposalSays
<1>4. m = IF Time!Long(q, s) THEN n + 1 ELSE n BY DEF NextPlace
<1>5. \A i \in 1 .. Len(q) :
        (n # 0 /\ m <= i) => Time!End(s) <= Time!Beg(q[i]) /\ Time!End(Head(p)) <= Time!End(q[i])
  BY ReadSays
<1>6. Time!Long(q, s) => n # 0 /\ n \in 1 .. Len(q) /\ U # {} /\ Time!Max(U) = n
  <2> SUFFICES ASSUME Time!Long(q, s) PROVE n # 0 /\ n \in 1 .. Len(q) /\ U # {} /\ Time!Max(U) = n OBVIOUS
  <2>1. n # 0 BY DEF Time!Long
  <2>2. n \in 1 .. Len(q) BY <1>1, <2>1
  <2>3. n \in U BY <2>2 DEF Time!Used
  <2>4. \A i \in U : i <= n
    <3>1. \A i \in U : i < n \/ i = n BY <2>1 DEF Time!Used
    <3>2. U \subseteq 1 .. Len(q) BY DEF Time!Used
    <3> HIDE DEF U, n
    <3> QED BY <2>2, <3>1, <3>2
  <2>5. /\ U \subseteq 1 .. Len(q) /\ Time!Max(U) \in U /\ \A i \in U : i <= Time!Max(U) BY <2>3, UsedSays
  <2> HIDE DEF U, n
  <2>6. Time!Max(U) <= n /\ n <= Time!Max(U) /\ Time!Max(U) \in 1 .. Len(q) BY <2>3, <2>4, <2>5
  <2>7. Time!Max(U) = n BY <1>1, <2>2, <2>6
  <2> QED BY <2>1, <2>2, <2>3, <2>7
<1> HIDE DEF n, m, r, p, U
<1>7. Len(r) \in Nat /\ DOMAIN r = 1 .. Len(r) /\ DOMAIN q = 1 .. Len(q) BY <1>2
<1>8. n = 0 => 1 .. Len(r) = {} BY <1>2
<1>9. InTime(r)
  <2> SUFFICES ASSUME NEW i \in 1 .. Len(r), NEW j \in 1 .. Len(r), i < j
               PROVE  Time!End(r[i]) <= Time!Beg(r[j])
    BY DEF InTime
  <2>1. n # 0 BY <1>8
  <2>2. /\ n + i - 1 \in 1 .. Len(q) /\ r[i] = q[n + i - 1]
        /\ n + j - 1 \in 1 .. Len(q) /\ r[j] = q[n + j - 1] BY <1>2, <2>1
  <2>3. n + i - 1 < n + j - 1 BY <1>1
  <2> QED BY <2>2, <2>3 DEF InTime
<1>10. Range(r) \subseteq Range(q)
  <2> SUFFICES ASSUME NEW i \in 1 .. Len(r) PROVE r[i] \in Range(q) BY <1>7 DEF Range
  <2>1. n + i - 1 \in DOMAIN q /\ r[i] = q[n + i - 1] BY <1>2, <1>7, <1>8
  <2> QED BY <2>1 DEF Range
<1>11. r # <<>> => q # <<>> /\ Len(r) \in 1 .. Len(r) /\ r[Len(r)] = q[Len(q)] /\ Len(q) \in 1 .. Len(q) /\ n # 0
  <2> SUFFICES ASSUME r # <<>>
               PROVE  /\ q # <<>> /\ Len(r) \in 1 .. Len(r) /\ r[Len(r)] = q[Len(q)]
                      /\ Len(q) \in 1 .. Len(q) /\ n # 0
    OBVIOUS
  <2>1. n # 0 /\ Len(r) \in 1 .. Len(r) BY <1>2
  <2>2. n + Len(r) - 1 = Len(q) BY <1>1, <1>2, <2>1
  <2>3. r[Len(r)] = q[Len(q)] /\ Len(q) \in 1 .. Len(q) BY <1>2, <2>1, <2>2
  <2>4. q # <<>> BY <1>1, <2>3
  <2> QED BY <2>1, <2>3, <2>4
<1>12. p # <<>> => /\ r # <<>> /\ Time!End(s) <= Time!Beg(Head(p))
                   /\ Time!End(Head(p)) <= Time!End(r[Len(r)])
                   /\ \E i \in 1 .. Len(r) : r[i] = Head(p)
  <2> SUFFICES ASSUME p # <<>>
               PROVE  /\ r # <<>> /\ Time!End(s) <= Time!Beg(Head(p))
                      /\ Time!End(Head(p)) <= Time!End(r[Len(r)])
                      /\ \E i \in 1 .. Len(r) : r[i] = Head(p)
    OBVIOUS
  <2>1. m \in 1 .. Len(q) /\ Head(p) = q[m] /\ n # 0 /\ r # <<>> /\ m <= m /\ m <= Len(q) BY <1>1, <1>3
  <2>2. Time!End(s) <= Time!Beg(Head(p)) BY <1>5, <2>1
  <2>3. Time!End(Head(p)) <= Time!End(r[Len(r)]) BY <1>5, <1>11, <2>1
  <2>4. m - n + 1 \in 1 .. Len(r) /\ n + (m - n + 1) - 1 = m
    <3>1. m = n \/ m = n + 1 BY <1>4
    <3> QED BY <1>1, <1>2, <2>1, <3>1
  <2>5. r[m - n + 1] = Head(p) BY <1>2, <2>1, <2>4
  <2> QED BY <2>1, <2>2, <2>3, <2>4, <2>5
<1>13. \A k \in 1 .. Len(q) : (\E i \in 1 .. Len(r) : r[i] = q[k]) \/ ~Time!Beyond(q[k], s)
  <2> SUFFICES ASSUME NEW k \in 1 .. Len(q), Time!Beyond(q[k], s)
               PROVE  \E i \in 1 .. Len(r) : r[i] = q[k]
    OBVIOUS
  <2>1. n # 0 /\ n <= k BY <1>1
  <2>2. k - n + 1 \in 1 .. Len(r) /\ n + (k - n + 1) - 1 = k BY <1>1, <1>2, <2>1
  <2> QED BY <1>2, <2>1, <2>2
<1>14. ASSUME NEW i \in 1 .. Len(r)
       PROVE  \/ p # <<>> /\ Time!End(Head(p)) <= Time!End(r[i])
              \/ i = 1 /\ U # {} /\ q[Time!Max(U)] = r[1]
  <2>1. n # 0 /\ n + i - 1 \in 1 .. Len(q) /\ r[i] = q[n + i - 1] BY <1>2, <1>8
  <2>2. CASE m <= n + i - 1
    <3>1. p # <<>>
      <4>1. SUFFICES ASSUME p = <<>> PROVE FALSE OBVIOUS
      <4>2. m = Len(q) + 1 BY <1>1, <1>3, <1>4, <2>1, <4>1
      <4> QED BY <1>1, <2>1, <2>2, <4>2
    <3> QED BY <1>5, <2>1, <2>2, <3>1
  <2>3. CASE ~(m <= n + i - 1)
    <3>1. Time!Long(q, s) /\ i = 1 BY <1>1, <1>4, <2>1, <2>3
    <3>2. n + i - 1 = n BY <1>1, <3>1
    <3> QED BY <1>6, <2>1, <3>1, <3>2
  <2> QED BY <2>2, <2>3
<1> QED BY <1>2, <1>9, <1>10, <1>11, <1>12, <1>13, <1>14 DEF r, p, U

\* What the sources use of slice s, and those that have something next.
Parts(q, s) ==
  [c \in {d \in DOMAIN q : Time!Used(q[d], s) # {}} |-> q[c][Time!Max(Time!Used(q[c], s))]]
Nexts(q, s) == {c \in DOMAIN q : Time!Proposal(q[c], s) # <<>>}

\* One round of the loop, in the names of this module.
LEMMA BuildSays ==
  ASSUME SliceTypes, Time!BuildEvent
  PROVE  /\ building /\ (kind = "ts" => inactive # {}) /\ Cardinality(inactive) = Cardinality(DOMAIN evque)
         /\ kind' = kind /\ env' = env /\ run' = run /\ link' = link /\ got' = got
         /\ \/ /\ kind = "timestamp"
               /\ \E c \in DOMAIN evque : /\ evque[c] # <<>> /\ Time!Rest(evque[c], curr) = <<>>
                                          /\ Time!End(evque[c][Len(evque[c])]) # Time!End(curr)
               /\ thrown' = TRUE /\ building' = FALSE
               /\ evque' = evque /\ inactive' = inactive /\ lastEnd' = lastEnd /\ curr' = curr /\ out' = out
            \/ /\ thrown' = thrown /\ building' = building
               /\ out' = Append(out, [at |-> curr, sub |-> Parts(evque, curr)])
               /\ evque' = [c \in DOMAIN evque |-> Time!Rest(evque[c], curr)]
               /\ \A c \in inactive' \cap DOMAIN evque :
                    \/ c \in Nexts(evque, curr)
                    \/ /\ c \in inactive /\ Time!Rest(evque[c], curr) = <<>>
                       /\ \/ kind = "timestamp" \/ evque[c] = <<>>
                          \/ Time!End(evque[c][Len(evque[c])]) # Time!End(curr)
               /\ inactive' \subseteq DOMAIN evque \cup inactive
               /\ inactive' \ DOMAIN evque = inactive \ DOMAIN evque
               /\ lastEnd' = Time!End(curr)
               /\ curr' = Time!NextSlice(evque, curr)
<1>1. Time!ByName <=> kind = "timestamp" BY DEF Time!ByName
<1>2. kind \in {"ts", "timestamp"} BY DEF SliceTypes
<1>3. \A S : Time!Cardinality(S) = Cardinality(S) BY DEF Time!Cardinality, Cardinality
<1>4. /\ building /\ (kind = "ts" => inactive # {}) /\ Cardinality(inactive) = Cardinality(DOMAIN evque)
      /\ kind' = kind /\ env' = env /\ run' = run /\ link' = link /\ got' = got
  BY <1>1, <1>2, <1>3 DEF Time!BuildEvent
<1>5. CASE /\ Time!RunsDry(evque, curr) /\ thrown' = TRUE /\ building' = FALSE
           /\ evque' = evque /\ inactive' = inactive /\ lastEnd' = lastEnd /\ curr' = curr /\ out' = out
  BY <1>1, <1>4, <1>5 DEF Time!RunsDry, Time!Last
<1>6. CASE /\ out' = Append(out, [at |-> curr, sub |-> Parts(evque, curr)])
           /\ evque' = [c \in DOMAIN evque |-> Time!Rest(evque[c], curr)]
           /\ inactive' = Time!ReadyAfter(evque, curr) \cup (inactive \ DOMAIN evque)
           /\ lastEnd' = Time!End(curr)
           /\ curr' = Time!NextSlice(evque, curr)
           /\ thrown' = thrown /\ building' = building
  <2>1. Time!ReadyAfter(evque, curr) =
          {c \in DOMAIN evque :
             \/ c \in Nexts(evque, curr)
             \/ /\ c \in inactive /\ Time!Rest(evque[c], curr) = <<>>
                /\ Time!ByName \/ evque[c] = <<>> \/ Time!End(evque[c][Len(evque[c])]) # Time!End(curr)}
    BY DEF Time!ReadyAfter, Time!Last, Nexts
  <2>2. \A c \in inactive' \cap DOMAIN evque :
          \/ c \in Nexts(evque, curr)
          \/ /\ c \in inactive /\ Time!Rest(evque[c], curr) = <<>>
             /\ \/ kind = "timestamp" \/ evque[c] = <<>>
                \/ Time!End(evque[c][Len(evque[c])]) # Time!End(curr)
    BY <1>1, <1>6, <2>1
  <2>3. Time!ReadyAfter(evque, curr) \subseteq DOMAIN evque BY <2>1
  <2>4. /\ inactive' \subseteq DOMAIN evque \cup inactive
        /\ inactive' \ DOMAIN evque = inactive \ DOMAIN evque
    BY <1>6, <2>3
  <2> QED BY <1>4, <1>6, <2>2, <2>4
<1> QED BY <1>5, <1>6 DEF Time!BuildEvent, Parts

\* The event that is written.
LEMMA PartsSay ==
  ASSUME SliceTypes
  PROVE  /\ DOMAIN Parts(evque, curr) = {d \in DOMAIN evque : Time!Used(evque[d], curr) # {}}
         /\ \A c \in DOMAIN Parts(evque, curr) :
              /\ c \in Conns /\ Time!Max(Time!Used(evque[c], curr)) \in 1 .. Len(evque[c])
              /\ Parts(evque, curr)[c] = evque[c][Time!Max(Time!Used(evque[c], curr))]
              /\ Parts(evque, curr)[c] \in Time!Events
              /\ Time!Beg(Parts(evque, curr)[c]) < Time!End(curr)
              /\ Time!Beg(curr) < Time!End(Parts(evque, curr)[c])
         /\ [at |-> curr, sub |-> Parts(evque, curr)] \in Slice
<1> DEFINE P == Parts(evque, curr)
<1>1. DOMAIN P = {d \in DOMAIN evque : Time!Used(evque[d], curr) # {}} BY DEF Parts
<1>2. \A c \in DOMAIN P : P[c] = evque[c][Time!Max(Time!Used(evque[c], curr))] BY DEF Parts
<1>3. P = [c \in DOMAIN P |-> P[c]] BY DEF Parts
<1>4. DOMAIN evque \subseteq Conns /\ curr \in Bounds BY DEF SliceTypes
<1> HIDE DEF P
<1>5. ASSUME NEW c \in DOMAIN P
      PROVE  /\ c \in Conns /\ Time!Max(Time!Used(evque[c], curr)) \in 1 .. Len(evque[c])
             /\ P[c] \in Time!Events
             /\ Time!Beg(P[c]) < Time!End(curr) /\ Time!Beg(curr) < Time!End(P[c])
  <2>1. evque[c] \in Seq(Time!Events) /\ Time!Used(evque[c], curr) # {} /\ c \in Conns
    BY <1>1, <1>4, <1>5 DEF SliceTypes
  <2>2. /\ Time!Used(evque[c], curr) \subseteq 1 .. Len(evque[c])
        /\ \A i \in Time!Used(evque[c], curr) :
             Time!Beg(evque[c][i]) < Time!End(curr) /\ Time!Beg(curr) < Time!End(evque[c][i])
        /\ Time!Max(Time!Used(evque[c], curr)) \in Time!Used(evque[c], curr)
    BY <1>4, <2>1, UsedSays
  <2>3. Time!Max(Time!Used(evque[c], curr)) \in 1 .. Len(evque[c]) BY <2>2
  <2>4. P[c] \in Time!Events BY <1>2, <2>1, <2>3
  <2> QED BY <1>2, <2>1, <2>2, <2>3, <2>4
<1>6. DOMAIN P \in SUBSET Conns /\ P \in [DOMAIN P -> Time!Events] BY <1>3, <1>5
<1>7. [at |-> curr, sub |-> P] \in Slice BY <1>4, <1>6 DEF Slice
<1> QED BY <1>1, <1>2, <1>5, <1>7 DEF P

\* In an orderly stream all sources are ready, and none runs dry.
LEMMA BuildReady ==
  ASSUME TimeInv, env \subseteq {"gaps"}, Time!BuildEvent
  PROVE  /\ ~thrown /\ inactive = DOMAIN evque
         /\ \A c \in DOMAIN evque : evque[c] # <<>> =>
              /\ Len(evque[c]) \in 1 .. Len(evque[c])
              /\ Time!End(curr) <= Time!End(evque[c][Len(evque[c])])
              /\ Time!Rest(evque[c], curr) = <<>> => Time!End(evque[c][Len(evque[c])]) = Time!End(curr)
         /\ thrown' = thrown /\ building' = TRUE
         /\ out' = Append(out, [at |-> curr, sub |-> Parts(evque, curr)])
         /\ evque' = [c \in DOMAIN evque |-> Time!Rest(evque[c], curr)]
         /\ inactive' \subseteq DOMAIN evque
         /\ \A c \in inactive' :
              \/ c \in Nexts(evque, curr)
              \/ /\ Time!Rest(evque[c], curr) = <<>>
                 /\ kind = "timestamp" \/ evque[c] = <<>>
         /\ lastEnd' = Time!End(curr) /\ curr' = Time!NextSlice(evque, curr)
<1>1. SliceTypes /\ OrderlyInv BY DEF TimeInv
<1>2. building /\ Cardinality(inactive) = Cardinality(DOMAIN evque) BY <1>1, BuildSays
<1>3. ~thrown BY <1>1, <1>2 DEF OrderlyInv, ArrivalInv
<1>4. SpanInv /\ curr \in Bounds BY <1>1 DEF OrderlyInv, SliceTypes
<1>5. inactive = DOMAIN evque
  <2>1. inactive \in SUBSET DOMAIN evque BY <1>4 DEF SpanInv
  <2>2. IsFiniteSet(DOMAIN evque) BY <1>1, StreamsAssumption, FS_Subset DEF SliceTypes
  <2> QED BY <1>2, <2>1, <2>2, FS_Subset
<1>6. ASSUME NEW c \in DOMAIN evque, evque[c] # <<>>
      PROVE  /\ Len(evque[c]) \in 1 .. Len(evque[c])
             /\ Time!End(curr) <= Time!End(evque[c][Len(evque[c])])
             /\ Time!Rest(evque[c], curr) = <<>> => Time!End(evque[c][Len(evque[c])]) = Time!End(curr)
  <2>1. evque[c] \in Seq(Time!Events) BY <1>1 DEF SliceTypes
  <2>2. Len(evque[c]) \in 1 .. Len(evque[c]) BY <1>6, <2>1
  <2>3. Time!End(curr) <= Time!End(evque[c][Len(evque[c])]) BY <1>3, <1>4, <1>5, <1>6 DEF SpanInv
  <2>4. Time!Beg(curr) < Time!End(curr) BY <1>4 DEF SpanInv
  <2>5. Time!Rest(evque[c], curr) = <<>> => Time!Stop(evque[c], curr) = 0 BY <1>4, <2>1, RestSays
  <2>6. Time!Stop(evque[c], curr) = 0 => Time!End(evque[c][Len(evque[c])]) = Time!End(curr)
    BY <1>4, <1>6, <2>1, <2>3, <2>4, CoveredSays
  <2> QED BY <2>2, <2>3, <2>5, <2>6
<1>7. ~ \E c \in DOMAIN evque : /\ evque[c] # <<>> /\ Time!Rest(evque[c], curr) = <<>>
                                /\ Time!End(evque[c][Len(evque[c])]) # Time!End(curr)
  BY <1>6
<1>8. /\ thrown' = thrown /\ building' = building
      /\ out' = Append(out, [at |-> curr, sub |-> Parts(evque, curr)])
      /\ evque' = [c \in DOMAIN evque |-> Time!Rest(evque[c], curr)]
      /\ \A c \in inactive' \cap DOMAIN evque :
           \/ c \in Nexts(evque, curr)
           \/ /\ c \in inactive /\ Time!Rest(evque[c], curr) = <<>>
              /\ \/ kind = "timestamp" \/ evque[c] = <<>>
                 \/ Time!End(evque[c][Len(evque[c])]) # Time!End(curr)
      /\ inactive' \subseteq DOMAIN evque \cup inactive
      /\ lastEnd' = Time!End(curr)
      /\ curr' = Time!NextSlice(evque, curr)
  BY <1>1, <1>7, BuildSays
<1>9. inactive' \subseteq DOMAIN evque BY <1>5, <1>8
<1>10. \A c \in inactive' : \/ c \in Nexts(evque, curr)
                            \/ /\ Time!Rest(evque[c], curr) = <<>>
                               /\ kind = "timestamp" \/ evque[c] = <<>>
  <2> SUFFICES ASSUME NEW c \in inactive', c \notin Nexts(evque, curr)
               PROVE  Time!Rest(evque[c], curr) = <<>> /\ (kind = "timestamp" \/ evque[c] = <<>>)
    OBVIOUS
  <2>1. c \in DOMAIN evque BY <1>9
  <2>2. /\ Time!Rest(evque[c], curr) = <<>>
        /\ \/ kind = "timestamp" \/ evque[c] = <<>>
           \/ Time!End(evque[c][Len(evque[c])]) # Time!End(curr)
    BY <1>8, <2>1
  <2> QED BY <1>6, <2>1, <2>2
<1> QED BY <1>2, <1>3, <1>5, <1>6, <1>8, <1>9, <1>10

\* A slice that is written has the types.
LEMMA BuildTypes == ASSUME SliceTypes, Time!BuildEvent PROVE SliceTypes'
<1>1. /\ kind' = kind /\ env' = env /\ run' = run /\ link' = link /\ got' = got
      /\ \/ /\ building' = FALSE
            /\ evque' = evque /\ inactive' = inactive /\ lastEnd' = lastEnd /\ curr' = curr /\ out' = out
         \/ /\ building' = building
            /\ out' = Append(out, [at |-> curr, sub |-> Parts(evque, curr)])
            /\ evque' = [c \in DOMAIN evque |-> Time!Rest(evque[c], curr)]
            /\ inactive' \subseteq DOMAIN evque \cup inactive
            /\ lastEnd' = Time!End(curr)
            /\ curr' = Time!NextSlice(evque, curr)
  BY BuildSays
<1>2. CASE evque' = evque /\ inactive' = inactive /\ lastEnd' = lastEnd /\ curr' = curr /\ out' = out
           /\ building' = FALSE
  BY <1>1, <1>2 DEF SliceTypes
<1>3. CASE /\ building' = building
           /\ out' = Append(out, [at |-> curr, sub |-> Parts(evque, curr)])
           /\ evque' = [c \in DOMAIN evque |-> Time!Rest(evque[c], curr)]
           /\ inactive' \subseteq DOMAIN evque \cup inactive
           /\ lastEnd' = Time!End(curr)
           /\ curr' = Time!NextSlice(evque, curr)
  <2>1. curr \in Bounds /\ DOMAIN evque \subseteq Conns /\ \A c \in DOMAIN evque : evque[c] \in Seq(Time!Events)
    BY DEF SliceTypes
  <2>2. /\ DOMAIN evque' = DOMAIN evque /\ \A c \in DOMAIN evque' : evque'[c] \in Seq(Time!Events)
        /\ evque' = [c \in DOMAIN evque' |-> evque'[c]]
    BY <1>3, <2>1, RestSays
  <2>3. curr' \in Bounds BY <1>3, <2>1, NextSays
  <2>4. lastEnd' \in Moments BY <1>3, <2>1, BoundsSay
  <2>5. out' \in Seq(Slice)
    <3>1. [at |-> curr, sub |-> Parts(evque, curr)] \in Slice BY PartsSay
    <3> QED BY <1>3, <3>1 DEF SliceTypes
  <2> QED BY <1>1, <1>3, <2>1, <2>2, <2>3, <2>4, <2>5 DEF SliceTypes
<1> QED BY <1>1, <1>2, <1>3

\* What is left of each queue, and the next slice.
LEMMA BuildLeaves ==
  ASSUME TimeInv, env \subseteq {"gaps"}, Time!BuildEvent
  PROVE  /\ DOMAIN evque' = DOMAIN evque
         /\ \A c \in DOMAIN evque :
              /\ evque[c] \in Seq(Time!Events) /\ InTime(evque[c])
              /\ evque'[c] = Time!Rest(evque[c], curr)
              /\ evque'[c] \in Seq(Time!Events) /\ InTime(evque'[c]) /\ Range(evque'[c]) \subseteq Range(evque[c])
              /\ evque'[c] # <<>> => evque[c] # <<>>
              /\ \A k \in 1 .. Len(evque[c]) :
                   (\E i \in 1 .. Len(evque'[c]) : evque'[c][i] = evque[c][k]) \/ ~Time!Beyond(evque[c][k], curr)
              /\ \A i \in 1 .. Len(evque'[c]) :
                   \/ Time!End(curr') <= Time!End(evque'[c][i])
                   \/ i = 1 /\ c \in DOMAIN Parts(evque, curr) /\ Parts(evque, curr)[c] = evque'[c][1]
         /\ \A c \in Nexts(evque, curr) :
              evque'[c] # <<>> /\ Time!End(curr') <= Time!End(evque'[c][Len(evque'[c])])
         /\ \/ curr' = Time!Never /\ Nexts(evque, curr) = {}
            \/ /\ Time!End(curr) <= Time!Beg(curr')
               /\ \E c \in DOMAIN evque' : \E i \in 1 .. Len(evque'[c]) :
                    Time!End(evque'[c][i]) = Time!End(curr')
         /\ Time!Beg(curr') < Time!End(curr')
<1>1. SliceTypes /\ OrderlyInv BY DEF TimeInv
<1>2. /\ evque' = [c \in DOMAIN evque |-> Time!Rest(evque[c], curr)] /\ curr' = Time!NextSlice(evque, curr)
  BY BuildReady
<1>3. /\ curr \in Bounds /\ Time!Beg(curr) < Time!End(curr)
      /\ \A c \in DOMAIN evque : evque[c] \in Seq(Time!Events) /\ InTime(evque[c])
  BY <1>1 DEF SliceTypes, OrderlyInv, SpanInv
<1> DEFINE W == Nexts(evque, curr)
           H(c) == Head(Time!Proposal(evque[c], curr))
<1>4. DOMAIN evque' = DOMAIN evque /\ \A c \in DOMAIN evque : evque'[c] = Time!Rest(evque[c], curr) BY <1>2
<1>5. \A c \in DOMAIN evque :
        /\ evque'[c] \in Seq(Time!Events) /\ InTime(evque'[c]) /\ Range(evque'[c]) \subseteq Range(evque[c])
        /\ evque'[c] # <<>> => evque[c] # <<>>
        /\ c \in W => /\ evque'[c] # <<>> /\ Time!End(curr) <= Time!Beg(H(c))
                      /\ Time!End(H(c)) <= Time!End(evque'[c][Len(evque'[c])])
                      /\ \E i \in 1 .. Len(evque'[c]) : evque'[c][i] = H(c)
        /\ \A k \in 1 .. Len(evque[c]) :
             (\E i \in 1 .. Len(evque'[c]) : evque'[c][i] = evque[c][k]) \/ ~Time!Beyond(evque[c][k], curr)
        /\ \A i \in 1 .. Len(evque'[c]) :
             \/ c \in W /\ Time!End(H(c)) <= Time!End(evque'[c][i])
             \/ /\ i = 1 /\ Time!Used(evque[c], curr) # {}
                /\ evque[c][Time!Max(Time!Used(evque[c], curr))] = evque'[c][1]
  BY <1>3, <1>4, RoundSays DEF Nexts
<1>6. W = {d \in DOMAIN evque : Time!Proposal(evque[d], curr) # <<>>} BY DEF Nexts
<1>7. /\ curr' \in Bounds /\ Time!Beg(curr') < Time!End(curr')
      /\ W = {} => curr' = Time!Never
      /\ \A c \in W : Time!End(curr') <= Time!End(H(c))
      /\ W # {} => /\ \E c \in W : Time!Beg(curr') = Time!Beg(H(c))
                   /\ \E c \in W : Time!End(curr') = Time!End(H(c))
  BY <1>2, <1>3, <1>6, NextSays
<1>8. W \subseteq DOMAIN evque BY <1>6
<1> HIDE DEF W, H
<1>9. Time!End(curr') \in Nat BY <1>7, BoundsSay
<1>10. ASSUME NEW c \in W
       PROVE  /\ Time!End(H(c)) \in Nat /\ evque'[c] # <<>> /\ Len(evque'[c]) \in 1 .. Len(evque'[c])
              /\ \A i \in 1 .. Len(evque'[c]) : Time!End(evque'[c][i]) \in Nat
  <2>1. evque'[c] \in Seq(Time!Events) /\ evque'[c] # <<>> BY <1>5, <1>8
  <2>2. PICK i \in 1 .. Len(evque'[c]) : evque'[c][i] = H(c) BY <1>5, <1>8
  <2>3. \A k \in 1 .. Len(evque'[c]) : evque'[c][k] \in Time!Events BY <2>1
  <2>4. Len(evque'[c]) \in 1 .. Len(evque'[c]) BY <2>1
  <2> QED BY <2>1, <2>2, <2>3, <2>4, EventSays
<1>11. ASSUME NEW c \in DOMAIN evque, NEW i \in 1 .. Len(evque'[c])
       PROVE  \/ Time!End(curr') <= Time!End(evque'[c][i])
              \/ i = 1 /\ c \in DOMAIN Parts(evque, curr) /\ Parts(evque, curr)[c] = evque'[c][1]
  <2>1. CASE c \in W /\ Time!End(H(c)) <= Time!End(evque'[c][i])
    <3>1. Time!End(curr') <= Time!End(H(c)) BY <1>7, <2>1
    <3>2. Time!End(evque'[c][i]) \in Nat /\ Time!End(H(c)) \in Nat BY <1>10, <2>1
    <3> QED BY <1>9, <2>1, <3>1, <3>2
  <2>2. CASE /\ i = 1 /\ Time!Used(evque[c], curr) # {}
             /\ evque[c][Time!Max(Time!Used(evque[c], curr))] = evque'[c][1]
    BY <1>1, <2>2, PartsSay
  <2> QED BY <1>5, <2>1, <2>2
<1>12. \A c \in W : evque'[c] # <<>> /\ Time!End(curr') <= Time!End(evque'[c][Len(evque'[c])])
  <2> SUFFICES ASSUME NEW c \in W PROVE Time!End(curr') <= Time!End(evque'[c][Len(evque'[c])]) BY <1>10
  <2>1. Time!End(curr') <= Time!End(H(c)) /\ Time!End(H(c)) <= Time!End(evque'[c][Len(evque'[c])])
    BY <1>5, <1>7, <1>8
  <2>2. Time!End(H(c)) \in Nat /\ Time!End(evque'[c][Len(evque'[c])]) \in Nat BY <1>10
  <2> QED BY <1>9, <2>1, <2>2
<1>13. \/ curr' = Time!Never /\ W = {}
       \/ /\ Time!End(curr) <= Time!Beg(curr')
          /\ \E c \in DOMAIN evque' : \E i \in 1 .. Len(evque'[c]) :
               Time!End(evque'[c][i]) = Time!End(curr')
  <2> SUFFICES ASSUME W # {}
               PROVE  /\ Time!End(curr) <= Time!Beg(curr')
                      /\ \E c \in DOMAIN evque' : \E i \in 1 .. Len(evque'[c]) :
                           Time!End(evque'[c][i]) = Time!End(curr')
    BY <1>7
  <2>1. PICK c \in W : Time!Beg(curr') = Time!Beg(H(c)) BY <1>7
  <2>2. Time!End(curr) <= Time!Beg(curr') BY <1>5, <1>8, <2>1
  <2>3. PICK d \in W : Time!End(curr') = Time!End(H(d)) BY <1>7
  <2>4. PICK i \in 1 .. Len(evque'[d]) : evque'[d][i] = H(d) BY <1>5, <1>8
  <2>5. d \in DOMAIN evque' BY <1>4, <1>8
  <2> QED BY <2>2, <2>3, <2>4, <2>5
<1> QED BY <1>3, <1>4, <1>5, <1>7, <1>11, <1>12, <1>13 DEF W

\* In an Ex0TsDataCollector the slice that is written lies between the last
\* one and the next one, and its end is the end of an event in it.
LEMMA BuildKeyed ==
  ASSUME TimeInv, env \subseteq {"gaps"}, kind = "ts", Time!BuildEvent
  PROVE  KeyedInv'
<1>1. SliceTypes /\ OrderlyInv /\ KeyedInv BY DEF TimeInv, OrderlyInv
<1>2. /\ kind' = kind /\ run' = run /\ link' = link /\ inactive # {} BY <1>1, BuildSays
<1>3. /\ inactive = DOMAIN evque
      /\ \A c \in DOMAIN evque : evque[c] # <<>> =>
           /\ Len(evque[c]) \in 1 .. Len(evque[c])
           /\ Time!End(curr) <= Time!End(evque[c][Len(evque[c])])
      /\ out' = Append(out, [at |-> curr, sub |-> Parts(evque, curr)])
      /\ inactive' \subseteq DOMAIN evque
      /\ \A c \in inactive' : c \in Nexts(evque, curr) \/ (kind = "timestamp" \/ evque[c] = <<>>)
      /\ lastEnd' = Time!End(curr)
  BY BuildReady
<1>4. /\ DOMAIN evque' = DOMAIN evque
      /\ \A c \in Nexts(evque, curr) : evque'[c] # <<>>
      /\ \/ curr' = Time!Never
         \/ /\ Time!End(curr) <= Time!Beg(curr')
            /\ \E c \in DOMAIN evque' : \E i \in 1 .. Len(evque'[c]) :
                 Time!End(evque'[c][i]) = Time!End(curr')
  BY BuildLeaves
<1>5. /\ curr \in Bounds /\ Time!Beg(curr) < Time!End(curr) /\ lastEnd <= Time!Beg(curr)
      /\ \A c \in DOMAIN evque : evque[c] \in Seq(Time!Events) /\ InTime(evque[c]) /\ evque[c] # <<>>
      /\ Peers' = Peers
  BY <1>1, <1>2, <1>3 DEF SliceTypes, OrderlyInv, SpanInv, KeyedInv, Peers
<1>6. /\ MaxTime \in Nat /\ Time!Never = <<MaxTime + 1, MaxTime + 2>>
      /\ Time!Beg(Time!Never) = MaxTime + 1 /\ Time!End(Time!Never) = MaxTime + 2
  BY SliceAssumption DEF Time!Never, Time!NoBeg, Time!NoEnd, Time!Beg, Time!End
<1>7. /\ Time!Beg(curr) \in Nat /\ Time!End(curr) \in Nat /\ lastEnd \in Nat
  <2>1. Time!NoEnd = MaxTime + 2 BY DEF Time!NoEnd
  <2>2. lastEnd \in Nat BY <1>1, <1>6, <2>1 DEF SliceTypes, Moments
  <2> QED BY <1>5, <2>2, BoundsSay
<1>8. Time!End(curr) <= MaxTime
  <2>1. PICK c \in DOMAIN evque : TRUE BY <1>2, <1>3
  <2>2. /\ Time!End(curr) <= Time!End(evque[c][Len(evque[c])]) /\ Len(evque[c]) \in 1 .. Len(evque[c])
    BY <1>3, <1>5, <2>1
  <2>3. evque[c][Len(evque[c])] \in Time!Events BY <1>5, <2>1, <2>2
  <2>4. /\ Time!End(evque[c][Len(evque[c])]) \in Nat /\ Time!End(evque[c][Len(evque[c])]) <= MaxTime
    BY <2>3, EventSays
  <2> QED BY <1>6, <1>7, <2>2, <2>4
<1>9. \A c \in inactive' : evque'[c] # <<>> BY <1>3, <1>4, <1>5
<1>10. lastEnd' <= Time!Beg(curr')
  <2>1. CASE curr' = Time!Never BY <1>3, <1>6, <1>7, <1>8, <2>1
  <2> QED BY <1>3, <1>4, <2>1
<1>11. /\ \A c \in DOMAIN evque' : \E i \in 1 .. run' : c \in Runs[kind'][i]
       /\ \A c \in DOMAIN evque' : c \in Peers' => link'[c] # "new"
  BY <1>1, <1>2, <1>4, <1>5 DEF KeyedInv
<1>12. SlicesInv'
  <2> DEFINE o == [at |-> curr, sub |-> Parts(evque, curr)]
  <2>1. out \in Seq(Slice) /\ o \in Slice BY <1>1, PartsSay DEF SliceTypes
  <2>2. o.at = curr /\ o.sub = Parts(evque, curr) OBVIOUS
  <2>3. out' = Append(out, o) BY <1>3
  <2> HIDE DEF o
  <2>4. /\ Len(out) \in Nat /\ DOMAIN out = 1 .. Len(out) /\ DOMAIN out' = 1 .. Len(out) + 1
        /\ out'[Len(out) + 1] = o /\ \A i \in 1 .. Len(out) : out'[i] = out[i]
    BY <2>1, <2>3
  <2>5. \A c \in DOMAIN o.sub : /\ Time!Beg(o.sub[c]) < Time!End(o.at)
                                /\ Time!Beg(o.at) < Time!End(o.sub[c])
    BY <1>1, <2>2, PartsSay
  <2>6. \E c \in DOMAIN o.sub : Time!End(o.sub[c]) = Time!End(o.at)
    <3>1. curr # Time!Never BY <1>6, <1>7, <1>8
    <3>0. PICK c \in DOMAIN evque : \E k \in 1 .. Len(evque[c]) : Time!End(evque[c][k]) = Time!End(curr)
      BY <1>1, <3>1 DEF KeyedInv
    <3>2. PICK k \in 1 .. Len(evque[c]) : Time!End(evque[c][k]) = Time!End(curr) BY <3>0
    <3>3. Time!Used(evque[c], curr) # {} /\ Time!Max(Time!Used(evque[c], curr)) = k
      BY <1>5, <3>2, ReadSays
    <3>4. c \in DOMAIN Parts(evque, curr) /\ Parts(evque, curr)[c] = evque[c][k]
      BY <1>1, <3>2, <3>3, PartsSay
    <3> QED BY <2>2, <3>2, <3>4
  <2>7. ASSUME NEW i \in 1 .. Len(out)
        PROVE  /\ Time!Beg(out[i].at) < Time!End(out[i].at) /\ Time!End(out[i].at) \in Nat
               /\ Time!End(out[i].at) <= lastEnd
    <3>1. out[i].at \in Bounds
      <4>1. out[i] \in Slice BY <2>1
      <4> QED BY <4>1 DEF Slice
    <3> QED BY <1>1, <2>4, <3>1, BoundsSay DEF KeyedInv, SlicesInv
  <2>8. ASSUME NEW i \in DOMAIN out'
        PROVE  /\ Time!Beg(out'[i].at) < Time!End(out'[i].at) /\ Time!End(out'[i].at) <= lastEnd'
               /\ \A j \in DOMAIN out' : i < j => Time!End(out'[i].at) <= Time!Beg(out'[j].at)
               /\ \A c \in DOMAIN out'[i].sub : /\ Time!Beg(out'[i].sub[c]) < Time!End(out'[i].at)
                                                /\ Time!Beg(out'[i].at) < Time!End(out'[i].sub[c])
               /\ \E c \in DOMAIN out'[i].sub : Time!End(out'[i].sub[c]) = Time!End(out'[i].at)
    <3>1. CASE i \in 1 .. Len(out)
      <4>1. /\ Time!Beg(out[i].at) < Time!End(out[i].at) /\ Time!End(out[i].at) \in Nat
            /\ Time!End(out[i].at) <= lastEnd
        BY <2>7, <3>1
      <4>2. Time!End(out[i].at) <= lastEnd' /\ Time!End(out[i].at) <= Time!Beg(curr)
        BY <1>3, <1>5, <1>7, <4>1
      <4>3. ASSUME NEW j \in DOMAIN out', i < j PROVE Time!End(out'[i].at) <= Time!Beg(out'[j].at)
        <5>1. CASE j = Len(out) + 1 BY <2>2, <2>4, <3>1, <4>2, <5>1
        <5>2. CASE j \in 1 .. Len(out) BY <1>1, <2>4, <3>1, <4>3, <5>2 DEF KeyedInv, SlicesInv
        <5> QED BY <2>4, <5>1, <5>2
      <4>4. /\ \A c \in DOMAIN out[i].sub : /\ Time!Beg(out[i].sub[c]) < Time!End(out[i].at)
                                            /\ Time!Beg(out[i].at) < Time!End(out[i].sub[c])
            /\ \E c \in DOMAIN out[i].sub : Time!End(out[i].sub[c]) = Time!End(out[i].at)
        BY <1>1, <2>4, <3>1 DEF KeyedInv, SlicesInv
      <4>5. out'[i] = out[i] BY <2>4, <3>1
      <4> QED BY <4>1, <4>2, <4>3, <4>4, <4>5
    <3>2. CASE i = Len(out) + 1
      <4>1. out'[i] = o BY <2>4, <3>2
      <4>2. \A j \in DOMAIN out' : ~(i < j) BY <2>4, <3>2
      <4>3. Time!Beg(o.at) < Time!End(o.at) /\ Time!End(o.at) <= lastEnd' BY <1>3, <1>5, <1>7, <2>2
      <4> QED BY <2>5, <2>6, <4>1, <4>2, <4>3
    <3> QED BY <2>4, <3>1, <3>2
  <2> QED BY <2>8 DEF SlicesInv
<1> QED BY <1>4, <1>9, <1>10, <1>11, <1>12 DEF KeyedInv

\* Without disturbance what is read of a queue up to the end of the slice is
\* written: it ends with the slice, or it was written before.
LEMMA BuildQueued ==
  ASSUME TimeInv, env \subseteq {"gaps"}, Time!BuildEvent, Undisturbed'
  PROVE  ReachedInv' /\ QueuedInv'
<1>1. SliceTypes /\ OrderlyInv BY DEF TimeInv
<1>2. /\ kind' = kind /\ run' = run /\ link' = link /\ got' = got /\ building BY <1>1, BuildSays
<1>3. /\ ~thrown /\ inactive = DOMAIN evque
      /\ \A c \in DOMAIN evque : evque[c] # <<>> =>
           /\ Len(evque[c]) \in 1 .. Len(evque[c])
           /\ Time!End(curr) <= Time!End(evque[c][Len(evque[c])])
      /\ thrown' = thrown
      /\ out' = Append(out, [at |-> curr, sub |-> Parts(evque, curr)])
      /\ lastEnd' = Time!End(curr)
  BY BuildReady
<1>4. /\ DOMAIN evque' = DOMAIN evque
      /\ \A c \in DOMAIN evque :
           /\ evque[c] \in Seq(Time!Events) /\ InTime(evque[c])
           /\ \A k \in 1 .. Len(evque[c]) :
                (\E i \in 1 .. Len(evque'[c]) : evque'[c][i] = evque[c][k]) \/ ~Time!Beyond(evque[c][k], curr)
           /\ \A i \in 1 .. Len(evque'[c]) :
                \/ Time!End(curr') <= Time!End(evque'[c][i])
                \/ i = 1 /\ c \in DOMAIN Parts(evque, curr) /\ Parts(evque, curr)[c] = evque'[c][1]
  BY BuildLeaves
<1>5. Peers' = Peers /\ curr \in Bounds /\ Time!Beg(curr) < Time!End(curr)
  BY <1>1, <1>2 DEF Peers, SliceTypes, OrderlyInv, SpanInv
<1> DEFINE o == [at |-> curr, sub |-> Parts(evque, curr)]
<1>6. out \in Seq(Slice) /\ o \in Slice BY <1>1, PartsSay DEF SliceTypes
<1>7. o.sub = Parts(evque, curr) /\ out' = Append(out, o) BY <1>3
<1> HIDE DEF o
<1>8. /\ Len(out) \in Nat /\ DOMAIN out = 1 .. Len(out) /\ DOMAIN out' = 1 .. Len(out) + 1
      /\ out'[Len(out) + 1] = o /\ \A i \in 1 .. Len(out) : out'[i] = out[i]
  BY <1>6, <1>7
<1>9. \A c : \A e : InFile(out, c, e) => InFile(out', c, e)
  <2>1. \A i \in DOMAIN out : i \in DOMAIN out' /\ out'[i] = out[i] BY <1>8
  <2> QED BY <2>1 DEF InFile
<1>10. \A c \in DOMAIN Parts(evque, curr) : InFile(out', c, Parts(evque, curr)[c])
  <2>1. Len(out) + 1 \in DOMAIN out' BY <1>8
  <2> QED BY <1>7, <1>8, <2>1 DEF InFile
<1>11. Undisturbed
  <2>1. \A i \in DOMAIN out : i \in DOMAIN out' /\ out'[i] = out[i] BY <1>8
  <2> QED BY <1>2, <1>4, <1>5, <2>1 DEF Undisturbed
<1>12. QueuedInv BY <1>1, <1>11 DEF OrderlyInv
<1>13. \A c \in DOMAIN evque : c \in Peers /\ evque[c] # <<>>
  <2>1. CASE kind = "ts"
    <3>1. DOMAIN evque \subseteq Peers BY <1>11, <2>1 DEF Undisturbed
    <3> QED BY <1>1, <1>3, <2>1, <3>1 DEF OrderlyInv, KeyedInv
  <2>2. CASE kind = "timestamp"
    <3>1. \A c \in DOMAIN evque : c \in Peers BY <1>1, <1>3, <2>2 DEF OrderlyInv, PresentInv
    <3>2. DOMAIN o.sub = Peers
      <4>1. Len(out) + 1 \in DOMAIN out' BY <1>8
      <4> QED BY <1>2, <1>5, <1>8, <2>2, <4>1 DEF Undisturbed
    <3>3. ASSUME NEW c \in DOMAIN evque PROVE evque[c] # <<>>
      <4>1. c \in DOMAIN Parts(evque, curr) BY <1>7, <3>1, <3>2
      <4>2. Time!Max(Time!Used(evque[c], curr)) \in 1 .. Len(evque[c]) BY <1>1, <4>1, PartsSay
      <4> QED BY <1>4, <4>2
    <3> QED BY <3>1, <3>3
  <2> QED BY <1>11, <2>1, <2>2 DEF Undisturbed
<1>14. ReachedInv'
  <2>1. \E c \in Peers' : got'[c] # {} BY <1>1, <1>2, <1>5 DEF OrderlyInv, ArrivalInv
  <2>2. ASSUME NEW c \in DOMAIN evque' PROVE \E e \in got'[c] : lastEnd' <= Time!End(e)
    <3>1. c \in DOMAIN evque /\ c \in Peers /\ evque[c] # <<>> BY <1>4, <1>13
    <3>2. Len(evque[c]) \in 1 .. Len(evque[c]) /\ lastEnd' <= Time!End(evque[c][Len(evque[c])])
      BY <1>3, <3>1
    <3>3. evque[c][Len(evque[c])] \in Range(evque[c])
      <4>1. DOMAIN evque[c] = 1 .. Len(evque[c]) BY <1>4, <3>1
      <4> QED BY <3>2, <4>1 DEF Range
    <3>4. Range(evque[c]) \subseteq got[c] BY <1>1, <3>1 DEF OrderlyInv, SpanInv
    <3> QED BY <1>2, <3>2, <3>3, <3>4
  <2> QED BY <2>1, <2>2 DEF ReachedInv
<1>15. \A c \in Peers' : \A e \in got'[c] : InQueue(evque', c, e) \/ InFile(out', c, e)
  <2> SUFFICES ASSUME NEW c \in Peers, NEW e \in got[c], ~InFile(out', c, e)
               PROVE  InQueue(evque', c, e)
    BY <1>2, <1>5
  <2>1. InQueue(evque, c, e) BY <1>9, <1>12 DEF QueuedInv
  <2>2. c \in DOMAIN evque BY <2>1 DEF InQueue
  <2>3. PICK k \in 1 .. Len(evque[c]) : evque[c][k] = e BY <2>1 DEF InQueue
  <2>4. Time!End(curr) <= Time!End(e) BY <1>9, <1>12, <2>2, <2>3 DEF QueuedInv
  <2>5. Time!Beyond(e, curr)
    <3>1. SUFFICES ASSUME ~Time!Beyond(e, curr) PROVE FALSE OBVIOUS
    <3>2. e \in Time!Events BY <1>4, <2>2, <2>3
    <3>3. Time!End(e) \in Nat /\ Time!Beg(curr) \in Nat /\ Time!End(curr) \in Nat BY <1>5, <3>2, EventSays, BoundsSay
    <3>4. Time!End(e) = Time!End(curr) BY <1>5, <2>4, <3>1, <3>3 DEF Time!Beyond
    <3>5. Time!Used(evque[c], curr) # {} /\ Time!Max(Time!Used(evque[c], curr)) = k
      BY <1>4, <1>5, <2>2, <2>3, <3>4, ReadSays
    <3>6. c \in DOMAIN Parts(evque, curr) /\ Parts(evque, curr)[c] = e
      BY <1>1, <2>2, <2>3, <3>5, PartsSay
    <3> QED BY <1>10, <3>6
  <2>6. \E i \in 1 .. Len(evque'[c]) : evque'[c][i] = e BY <1>4, <2>2, <2>3, <2>5
  <2> QED BY <1>4, <2>2, <2>6 DEF InQueue
<1>16. \A c \in DOMAIN evque' : \A i \in 1 .. Len(evque'[c]) :
         \/ Time!End(curr') <= Time!End(evque'[c][i])
         \/ i = 1 /\ InFile(out', c, evque'[c][i])
  <2> SUFFICES ASSUME NEW c \in DOMAIN evque', NEW i \in 1 .. Len(evque'[c])
               PROVE  \/ Time!End(curr') <= Time!End(evque'[c][i])
                      \/ i = 1 /\ InFile(out', c, evque'[c][i])
    OBVIOUS
  <2>1. \/ Time!End(curr') <= Time!End(evque'[c][i])
        \/ i = 1 /\ c \in DOMAIN Parts(evque, curr) /\ Parts(evque, curr)[c] = evque'[c][1]
    BY <1>4
  <2>2. CASE i = 1 /\ c \in DOMAIN Parts(evque, curr) /\ Parts(evque, curr)[c] = evque'[c][1]
    <3>1. InFile(out', c, Parts(evque, curr)[c]) BY <1>10, <2>2
    <3> QED BY <2>2, <3>1
  <2> QED BY <2>1, <2>2
<1> QED BY <1>3, <1>14, <1>15, <1>16 DEF QueuedInv

\* One round of the loop that writes slices.
LEMMA TimeBuildEvent == ASSUME TimeInv, Time!BuildEvent PROVE TimeInv'
<1>1. SliceTypes BY DEF TimeInv
<1>2. SliceTypes' BY <1>1, BuildTypes
<1>3. /\ kind' = kind /\ env' = env /\ run' = run /\ link' = link /\ got' = got /\ building BY <1>1, BuildSays
<1>4. SUFFICES ASSUME env \subseteq {"gaps"} PROVE OrderlyInv' BY <1>2, <1>3 DEF TimeInv
<1>5. OrderlyInv /\ ArrivalInv /\ SpanInv BY <1>4 DEF TimeInv, OrderlyInv
<1>6. Peers' = Peers BY <1>3 DEF Peers
<1>7. /\ ~thrown' /\ inactive = DOMAIN evque /\ inactive' \subseteq DOMAIN evque
      /\ \A c \in inactive' : c \in Nexts(evque, curr) \/ Time!Rest(evque[c], curr) = <<>>
  <2>1. /\ ~thrown /\ thrown' = thrown /\ inactive = DOMAIN evque /\ inactive' \subseteq DOMAIN evque
        /\ \A c \in inactive' :
             \/ c \in Nexts(evque, curr)
             \/ /\ Time!Rest(evque[c], curr) = <<>>
                /\ kind = "timestamp" \/ evque[c] = <<>>
    BY <1>4, BuildReady
  <2> QED BY <2>1
<1>8. /\ DOMAIN evque' = DOMAIN evque
      /\ \A c \in DOMAIN evque :
           /\ evque'[c] = Time!Rest(evque[c], curr)
           /\ InTime(evque'[c]) /\ Range(evque'[c]) \subseteq Range(evque[c])
           /\ evque'[c] # <<>> => evque[c] # <<>>
      /\ \A c \in Nexts(evque, curr) : Time!End(curr') <= Time!End(evque'[c][Len(evque'[c])])
      /\ Time!Beg(curr') < Time!End(curr')
  BY <1>4, BuildLeaves
<1>9. ArrivalInv' BY <1>3, <1>5, <1>6, <1>7 DEF ArrivalInv
<1>10. SpanInv'
  <2>1. \A c \in Peers' : link'[c] = "on" => c \in DOMAIN evque' BY <1>3, <1>5, <1>6, <1>8 DEF SpanInv
  <2>2. \A c \in Peers' \cap DOMAIN evque' : Range(evque'[c]) \subseteq got'[c]
    BY <1>3, <1>5, <1>6, <1>8 DEF SpanInv
  <2>3. \A c \in inactive' : evque'[c] # <<>> => Time!End(curr') <= Time!End(evque'[c][Len(evque'[c])])
    BY <1>7, <1>8
  <2> QED BY <1>7, <1>8, <2>1, <2>2, <2>3 DEF SpanInv
<1>11. kind' = "ts" => KeyedInv' BY <1>3, <1>4, BuildKeyed
<1>12. kind' = "timestamp" => PresentInv'
  <2> SUFFICES ASSUME kind = "timestamp" PROVE PresentInv' BY <1>3
  <2>1. PresentInv BY <1>5 DEF OrderlyInv
  <2> QED BY <1>3, <1>6, <1>7, <1>8, <2>1 DEF PresentInv
<1>13. Undisturbed' => ReachedInv' /\ QueuedInv' BY <1>4, BuildQueued
<1> QED BY <1>9, <1>10, <1>11, <1>12, <1>13 DEF OrderlyInv
-----------------------------------------------------------------------------
(***************************************************************************)
(* TimestampSync: in every behaviour.                                      *)
(***************************************************************************)
\* A collector that merges by time takes its own steps.
LEMMA TimeSteps ==
  ASSUME [CollectorsNext]_<<vars, sliceVars, roundVars, fileVars>>, kind \in {"ts", "timestamp"}
  PROVE  Time!Next \/ UNCHANGED <<vars, sliceVars>>
<1>1. CollectorsNext => Time!Next BY DEF CollectorsNext, Merge!Programs
<1> QED BY <1>1

\* Every step keeps TimeInv.
LEMMA TimeKeeps ==
  ASSUME TimeInv, Time!Next \/ UNCHANGED <<vars, sliceVars>>
  PROVE  TimeInv'
<1>1. CASE UNCHANGED <<vars, sliceVars>>
  <2>1. /\ kind' = kind /\ env' = env /\ run' = run /\ link' = link /\ got' = got /\ thrown' = thrown
        /\ evque' = evque /\ inactive' = inactive /\ lastEnd' = lastEnd /\ curr' = curr
        /\ building' = building /\ out' = out
    BY <1>1 DEF vars, tgVars, streamVars, sliceVars
  <2>2. Peers' = Peers BY <2>1 DEF Peers
  <2>3. SliceTypes' = SliceTypes BY <2>1 DEF SliceTypes
  <2>4. ArrivalInv' = ArrivalInv /\ SpanInv' = SpanInv BY <2>1, <2>2 DEF ArrivalInv, SpanInv
  <2>5. KeyedInv' = KeyedInv BY <2>1, <2>2 DEF KeyedInv, SlicesInv
  <2>6. PresentInv' = PresentInv /\ Undisturbed' = Undisturbed BY <2>1, <2>2 DEF PresentInv, Undisturbed
  <2>7. ReachedInv' = ReachedInv /\ QueuedInv' = QueuedInv BY <2>1, <2>2 DEF ReachedInv, QueuedInv
  <2> QED BY <2>1, <2>3, <2>4, <2>5, <2>6, <2>7 DEF TimeInv, OrderlyInv
<1>2. CASE Time!Next
  <2>1. ASSUME NEW c \in Conns, Time!Connect(c) PROVE TimeInv' BY <2>1, TimeConnect
  <2>2. ASSUME NEW c \in Conns, Time!Disconnect(c) PROVE TimeInv' BY <2>2, TimeDisconnect
  <2>3. ASSUME NEW c \in Conns, Time!ReceiveUntimed(c) PROVE TimeInv' BY <2>3, TimeUntimed
  <2>4. ASSUME NEW c \in Conns, NEW e \in Time!Intervals(c), Time!Receive(c, e) PROVE TimeInv'
    BY <2>4, TimeReceive
  <2> QED BY <1>2, <2>1, <2>2, <2>3, <2>4, TimeBuildEvent, TimeBuildEnds, TimeStartRun DEF Time!Next
<1> QED BY <1>1, <1>2

\* TimeInv says what TimesMerged promises.
LEMMA TimeSays == ASSUME TimeInv PROVE TimesMerged
<1>1. SliceTypes BY DEF TimeInv
<1>2. Time!TypeOK BY <1>1 DEF SliceTypes, Bounds, Moments, Time!TypeOK
<1>3. out \in Seq(Slice) /\ DOMAIN out = 1 .. Len(out) /\ Len(out) \in Nat BY <1>1 DEF SliceTypes
<1>4. Time!SlicesOrdered /\ Time!EachSliceUsesOne
  <2>1. SUFFICES ASSUME kind = "ts", env \subseteq {"gaps"}, NEW i \in DOMAIN out
                 PROVE  /\ Time!Beg(out[i].at) < Time!End(out[i].at)
                        /\ i < Len(out) => Time!End(out[i].at) <= Time!Beg(out[i + 1].at)
                        /\ \A c \in DOMAIN out[i].sub : /\ Time!Beg(out[i].sub[c]) < Time!End(out[i].at)
                                                        /\ Time!Beg(out[i].at) < Time!End(out[i].sub[c])
                        /\ \E c \in DOMAIN out[i].sub : Time!End(out[i].sub[c]) = Time!End(out[i].at)
    BY DEF Time!SlicesOrdered, Time!EachSliceUsesOne
  <2>2. SlicesInv BY <2>1 DEF TimeInv, OrderlyInv, KeyedInv
  <2>3. i < Len(out) => i + 1 \in DOMAIN out /\ i < i + 1 BY <1>3
  <2> QED BY <2>2, <2>3 DEF SlicesInv
<1>5. Time!NothingSkipped
  <2>1. SUFFICES ASSUME Time!Orderly
                 PROVE  /\ thrown => \A c \in Peers : got[c] = {}
                        /\ \A c \in Peers : \A e \in got[c] : Time!Queued(c, e) \/ Time!Written(c, e)
    BY SlicePeers DEF Time!NothingSkipped
  <2>2. Undisturbed
    <3>1. /\ kind = "ts" => DOMAIN evque \subseteq Peers
          /\ kind = "timestamp" => /\ \A c \in Peers : link[c] = "on"
                                   /\ \A i \in DOMAIN out : DOMAIN out[i].sub = Peers
      BY <2>1, SlicePeers DEF Time!Orderly
    <3> QED BY <1>1, <3>1 DEF Undisturbed, SliceTypes
  <2>3. QueuedInv BY <2>1, <2>2 DEF TimeInv, OrderlyInv, Time!Orderly
  <2>4. ASSUME NEW c \in Peers, NEW e \in got[c] PROVE Time!Queued(c, e) \/ Time!Written(c, e)
    <3>1. CASE InQueue(evque, c, e)
      <4>1. Time!Queue(c) = evque[c] BY <3>1 DEF InQueue, Time!Queue
      <4> QED BY <3>1, <4>1 DEF InQueue, Time!Queued
    <3>2. CASE InFile(out, c, e) BY <3>2 DEF InFile, Time!Written
    <3> QED BY <2>3, <3>1, <3>2 DEF QueuedInv
  <2> QED BY <2>3, <2>4 DEF QueuedInv
<1> QED BY <1>2, <1>4, <1>5 DEF TimesMerged

\* The collectors that merge by time: slices follow each other and overlap all
\* that is in them, no event of an orderly stream is lost between its queue and
\* the file, and each slice that is written uses up an event.
THEOREM TimesAreMerged == CollectorsSpec => []TimesMerged
<1> DEFINE Inv == kind \in {"ts", "timestamp"} => TimeInv
<1>1. CollectorsInit => Inv BY TimeStarts
<1>2. ASSUME Inv, [CollectorsNext]_<<vars, sliceVars, roundVars, fileVars>> PROVE Inv'
  <2>1. kind' = kind BY <1>2, KindStays
  <2>2. kind \in {"ts", "timestamp"} => Time!Next \/ UNCHANGED <<vars, sliceVars>> BY <1>2, TimeSteps
  <2> QED BY <1>2, <2>1, <2>2, TimeKeeps
<1>3. Inv => TimesMerged
  <2>1. kind \notin {"ts", "timestamp"} => TimesMerged BY DEF TimesMerged
  <2> QED BY <2>1, TimeSays
<1> QED BY <1>1, <1>2, <1>3, PTL DEF CollectorsSpec
=============================================================================
