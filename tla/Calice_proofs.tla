---------------------------- MODULE Calice_proofs ----------------------------
(***************************************************************************)
(* The collectors of the AHCAL, its BIF and the telescope, for every set   *)
(* of connections, every sequence of runs, every mishap and every bound.   *)
(***************************************************************************)
EXTENDS Collectors_proofs

-----------------------------------------------------------------------------
(***************************************************************************)
(* PairSync: the triggers that both producers delivered.                   *)
(***************************************************************************)
Paired == {Bif, Cal}

PairTypes ==
  /\ kind = "pair" /\ got \in [Conns -> SUBSET Nat]
  /\ evque \in [Paired -> Seq(Nat)] /\ out \in Seq(Nat)

\* The producers were started under the names that the collectors compare with,
\* of CaliceDataCollector the plain ones.
Prefixed == "prefixed" \in env

\* What is queued and what was written was delivered, and the queues go on
\* where the file ends.
PairQueues ==
  \A c \in Paired :
    /\ Rises(evque[c]) /\ Range(evque[c]) \subseteq got[c] /\ Range(out) \subseteq got[c]
    /\ \A x \in Range(out), y \in Range(evque[c]) : x < y

\* What c delivered waits, is written, or will never be delivered by d, which
\* is further.
Skipped(c, d) ==
  \A u \in got[c] : \/ u \in Range(evque[c]) \/ u \in Range(out)
                    \/ u \notin got[d] /\ \E v \in got[d] : u < v

PairInv ==
  /\ PairTypes /\ ~Prefixed
  /\ PairQueues /\ Rises(out) /\ Skipped(Bif, Cal) /\ Skipped(Cal, Bif)

\* Under names that are not known nothing is queued or written.
PairIdle == kind = "pair" /\ Prefixed /\ evque = [c \in Paired |-> <<>>] /\ out = <<>>

\* At first nothing is queued, written or delivered.
LEMMA PairStarts == ASSUME CollectorsInit, kind = "pair" PROVE PairInv \/ PairIdle
<1>1. Pairs!Init
  BY DEF CollectorsInit, Init, StreamsInit, Position!Init, Position!StreamsInit, Time!Init, Time!StreamsInit,
         Overlaps!Init, Overlaps!StreamsInit, Merge!Init, Merge!Programs
<1>2. /\ got = [c \in Conns |-> {}] /\ evque = [c \in Paired |-> <<>>] /\ out = <<>>
  BY <1>1 DEF Pairs!Init, Pairs!StreamsInit, Paired
<1>3. Paired \subseteq Conns BY NamesAssumption DEF Paired
<1>4. PairTypes BY <1>2 DEF PairTypes
<1>5. /\ \A c \in Paired : evque[c] = <<>> /\ got[c] = {}
      /\ Range(out) = {} /\ Rises(out) /\ Range(<<>>) = {} /\ Rises(<<>>)
  BY <1>2, <1>3, Nothing
<1>6. PairQueues BY <1>5 DEF PairQueues
<1>7. Skipped(Bif, Cal) /\ Skipped(Cal, Bif) BY <1>5 DEF Skipped, Paired
<1> QED BY <1>2, <1>4, <1>5, <1>6, <1>7 DEF PairInv, PairIdle

\* An event is queued, if its producer is one of the two.
LEMMA PairReceive ==
  ASSUME PairInv, NEW c \in Conns, NEW t \in Pairs!Triggers(c), Pairs!Receive(c, t)
  PROVE  PairInv'
<1>1. /\ got' = [got EXCEPT ![c] = @ \cup {t}] /\ out' = out /\ kind' = kind /\ env' = env
      /\ evque' = IF c \in Paired THEN [evque EXCEPT ![c] = Append(@, t)] ELSE evque
      /\ t \in Nat /\ \A u \in got[c] : u < t
  <2>1. Pairs!Known(c) <=> c \in Paired BY DEF Pairs!Known, Pairs!GetName, PairInv, Prefixed, Paired
  <2> QED BY <2>1 DEF Pairs!Receive, Pairs!Sends, Pairs!Triggers
<1>2. PairTypes /\ PairQueues /\ Rises(out) /\ Skipped(Bif, Cal) /\ Skipped(Cal, Bif)
  BY DEF PairInv
<1>3. Paired \subseteq Conns BY NamesAssumption DEF Paired
<1>4. got'[c] = got[c] \cup {t} /\ \A d \in Conns \ {c} : got'[d] = got[d]
  BY <1>1, <1>2 DEF PairTypes
<1>5. ASSUME NEW d \in Paired
      PROVE  /\ evque'[d] \in Seq(Nat) /\ Rises(evque'[d])
             /\ Range(evque'[d]) = Range(evque[d]) \cup (got'[d] \ got[d])
             /\ Range(evque'[d]) \subseteq got'[d] /\ Range(out) \subseteq got'[d]
             /\ \A x \in Range(out), y \in Range(evque'[d]) : x < y
  <2>1. /\ evque[d] \in Seq(Nat) /\ Rises(evque[d]) /\ Range(evque[d]) \subseteq got[d]
        /\ Range(out) \subseteq got[d] /\ d \in Conns
        /\ \A x \in Range(out), y \in Range(evque[d]) : x < y
    BY <1>2, <1>3 DEF PairTypes, PairQueues
  <2>2. CASE d = c
    <3>1. evque'[d] = Append(evque[d], t) BY <1>1, <1>2, <2>2 DEF PairTypes
    <3>2. \A x \in Range(evque[d]) : x < t BY <1>1, <2>1, <2>2
    <3>3. Append(evque[d], t) \in Seq(Nat) /\ Rises(Append(evque[d], t))
          /\ Range(Append(evque[d], t)) = Range(evque[d]) \cup {t}
      <4> DEFINE s == evque[d]
      <4>1. s \in Seq(Nat) /\ Rises(s) /\ \A x \in Range(s) : x < t BY <2>1, <3>2
      <4> HIDE DEF s
      <4>2. Append(s, t) \in Seq(Nat) /\ Rises(Append(s, t)) /\ Range(Append(s, t)) = Range(s) \cup {t}
        BY <1>1, <4>1, Added
      <4> QED BY <4>2 DEF s
    <3>4. got'[d] \ got[d] = {t} BY <1>1, <1>2, <1>4, <2>2 DEF PairTypes
    <3>5. \A x \in Range(out) : x < t BY <1>1, <2>1, <2>2
    <3> QED BY <1>4, <2>1, <2>2, <3>1, <3>3, <3>4, <3>5
  <2>3. CASE d # c
    <3>1. evque'[d] = evque[d] BY <1>1, <1>2, <2>3 DEF PairTypes
    <3>2. got'[d] = got[d] BY <1>4, <2>1, <2>3
    <3> QED BY <2>1, <3>1, <3>2
  <2> QED BY <2>2, <2>3
<1>6. PairTypes'
  <2>1. got' \in [Conns -> SUBSET Nat] BY <1>1, <1>2 DEF PairTypes
  <2>2. evque' \in [Paired -> Seq(Nat)] BY <1>1, <1>2, <1>5 DEF PairTypes
  <2> QED BY <1>1, <1>2, <2>1, <2>2 DEF PairTypes
<1>7. PairQueues' BY <1>1, <1>5 DEF PairQueues
<1>8. ASSUME NEW b \in Paired, NEW d \in Paired, b # d, Skipped(b, d) PROVE Skipped(b, d)'
  <2>1. SUFFICES ASSUME NEW u \in got'[b]
                 PROVE  \/ u \in Range(evque'[b]) \/ u \in Range(out)
                        \/ u \notin got'[d] /\ \E v \in got'[d] : u < v
    BY <1>1 DEF Skipped
  <2>2. CASE u \notin got[b] BY <1>5, <2>2
  <2>3. CASE u \in got[b] /\ u \notin Range(evque'[b]) /\ u \notin Range(out)
    <3>1. u \notin Range(evque[b]) BY <1>5, <2>3
    <3>2. u \notin got[d] /\ \E v \in got[d] : u < v BY <1>8, <2>3, <3>1 DEF Skipped
    <3>3. got[d] \subseteq got'[d] BY <1>3, <1>4
    <3>4. u \notin got'[d]
      <4>1. CASE d = c
        <5>1. PICK v \in got[d] : u < v BY <3>2
        <5>2. u \in Nat /\ v \in Nat /\ v < t BY <1>1, <1>2, <1>3, <2>3, <4>1, <5>1 DEF PairTypes
        <5> QED BY <1>1, <1>4, <3>2, <4>1, <5>1, <5>2
      <4>2. CASE d # c BY <1>3, <1>4, <3>2, <4>2
      <4> QED BY <4>1, <4>2
    <3> QED BY <3>2, <3>3, <3>4
  <2> QED BY <2>2, <2>3
<1>9. Skipped(Bif, Cal)' /\ Skipped(Cal, Bif)' BY <1>2, <1>8, NamesAssumption DEF Paired
<1>10. Rises(out)' BY <1>1, <1>2 DEF Rises
<1> QED BY <1>1, <1>6, <1>7, <1>9, <1>10 DEF PairInv, Prefixed

\* The side with the smaller front loses it, and equal fronts are written.
LEMMA PairPair == ASSUME PairInv, Pairs!Pair PROVE PairInv'
<1> DEFINE b == Head(evque[Bif])
<1> DEFINE c == Head(evque[Cal])
<1> DEFINE S == IF b = c THEN Paired ELSE IF b > c THEN {Cal} ELSE {Bif}
<1>1. /\ evque[Bif] # <<>> /\ evque[Cal] # <<>> /\ got' = got /\ kind' = kind /\ env' = env
      /\ evque' = [d \in Paired |-> IF d \in S THEN Tail(evque[d]) ELSE evque[d]]
      /\ out' = IF b = c THEN Append(out, b) ELSE out
  BY DEF Pairs!Pair, Pairs!AtRest, Pairs!Skip, Pairs!streamVars, Paired
<1>2. PairTypes /\ PairQueues /\ Rises(out) /\ Skipped(Bif, Cal) /\ Skipped(Cal, Bif)
  BY DEF PairInv
<1>3. Bif \in Paired /\ Cal \in Paired /\ Bif # Cal /\ Paired = {Bif, Cal} /\ Paired \subseteq Conns
  BY NamesAssumption DEF Paired
<1>4. ASSUME NEW d \in Paired
      PROVE  /\ evque[d] \in Seq(Nat) /\ Rises(evque[d]) /\ evque[d] # <<>>
             /\ Tail(evque[d]) \in Seq(Nat) /\ Rises(Tail(evque[d])) /\ Head(evque[d]) \in Nat
             /\ Range(evque[d]) = {Head(evque[d])} \cup Range(Tail(evque[d]))
             /\ Range(evque[d]) \subseteq got[d] /\ Range(out) \subseteq got[d]
             /\ \A x \in Range(out), y \in Range(evque[d]) : x < y
             /\ \A x \in Range(Tail(evque[d])) : Head(evque[d]) < x
             /\ got[d] \subseteq Nat
  <2>1. evque[d] \in Seq(Nat) /\ Rises(evque[d]) /\ evque[d] # <<>>
    BY <1>1, <1>2, <1>3 DEF PairTypes, PairQueues
  <2>2. /\ Tail(evque[d]) \in Seq(Nat) /\ Rises(Tail(evque[d])) /\ Head(evque[d]) \in Nat
        /\ Range(evque[d]) = {Head(evque[d])} \cup Range(Tail(evque[d]))
        /\ \A x \in Range(Tail(evque[d])) : Head(evque[d]) < x
    BY <2>1, Taken
  <2> QED BY <1>2, <1>3, <2>1, <2>2 DEF PairQueues, PairTypes
<1>5. b \in Nat /\ c \in Nat BY <1>3, <1>4
<1> HIDE DEF b, c
<1>6. b = Head(evque[Bif]) /\ c = Head(evque[Cal]) BY DEF b, c
<1>7. \A d \in Paired : evque'[d] = IF d \in S THEN Tail(evque[d]) ELSE evque[d] BY <1>1
<1>8. out' \in Seq(Nat) /\ Rises(out') /\ Range(out') = IF b = c THEN Range(out) \cup {b} ELSE Range(out)
  <2>1. out \in Seq(Nat) BY <1>2 DEF PairTypes
  <2>2. \A x \in Range(out) : x < b BY <1>3, <1>4, <1>6
  <2>3. Append(out, b) \in Seq(Nat) /\ Rises(Append(out, b)) /\ Range(Append(out, b)) = Range(out) \cup {b}
    BY <1>2, <1>5, <2>1, <2>2, Added
  <2> QED BY <1>1, <1>2, <2>1, <2>3
<1>9. PairTypes'
  <2>1. evque' \in [Paired -> Seq(Nat)] BY <1>1, <1>4
  <2> QED BY <1>1, <1>2, <1>8, <2>1 DEF PairTypes
<1>10. \A d \in Paired : b = c => d \in S /\ b \in Range(evque[d]) /\ b = Head(evque[d])
  BY <1>3, <1>4, <1>6
<1>11. PairQueues'
  <2>1. ASSUME NEW d \in Paired
        PROVE  /\ Rises(evque'[d]) /\ Range(evque'[d]) \subseteq got[d] /\ Range(out') \subseteq got[d]
               /\ \A x \in Range(out'), y \in Range(evque'[d]) : x < y
    <3>1. CASE b = c
      <4>1. evque'[d] = Tail(evque[d]) /\ b \in Range(evque[d]) /\ b = Head(evque[d])
        BY <1>7, <1>10, <3>1
      <4>2. Range(out') = Range(out) \cup {b} BY <1>8, <3>1
      <4> QED BY <1>4, <4>1, <4>2
    <3>2. CASE b # c
      <4>1. Range(out') = Range(out) BY <1>8, <3>2
      <4>2. Range(evque'[d]) \subseteq Range(evque[d]) /\ Rises(evque'[d]) BY <1>4, <1>7
      <4> QED BY <1>4, <4>1, <4>2
    <3> QED BY <3>1, <3>2
  <2> QED BY <1>1, <2>1 DEF PairQueues
<1>12. ASSUME NEW d \in Paired, NEW e \in Paired, d # e, Skipped(d, e) PROVE Skipped(d, e)'
  <2>1. SUFFICES ASSUME NEW u \in got[d], u \notin Range(evque'[d]), u \notin Range(out')
                 PROVE  u \notin got[e] /\ \E v \in got[e] : u < v
    BY <1>1 DEF Skipped
  <2>2. u \notin Range(out) BY <1>8, <2>1
  <2>3. CASE u \notin Range(evque[d]) BY <1>12, <2>2, <2>3 DEF Skipped
  <2>4. CASE u \in Range(evque[d])
    <3>1. d \in S /\ u = Head(evque[d]) BY <1>4, <1>7, <2>1, <2>4
    <3>2. b # c BY <1>8, <1>10, <2>1, <3>1
    <3>3. u < Head(evque[e]) /\ Head(evque[e]) \in Range(evque[e]) /\ Head(evque[e]) \in Nat
      <4>1. CASE d = Bif
        <5>1. e = Cal /\ u = b /\ c = Head(evque[e]) BY <1>3, <1>6, <1>12, <3>1, <4>1
        <5>2. ~(b > c) BY <1>3, <3>1, <3>2, <4>1
        <5>3. b < c BY <1>5, <3>2, <5>2
        <5> QED BY <1>4, <1>5, <5>1, <5>3
      <4>2. CASE d = Cal
        <5>1. e = Bif /\ u = c /\ b = Head(evque[e]) BY <1>3, <1>6, <1>12, <3>1, <4>2
        <5>2. b > c BY <1>3, <3>1, <3>2, <4>2
        <5>3. c < b BY <1>5, <5>2
        <5> QED BY <1>4, <1>5, <5>1, <5>3
      <4> QED BY <1>3, <4>1, <4>2
    <3>4. Head(evque[e]) \in got[e] BY <1>4, <3>3
    <3>5. u \notin got[e]
      <4>1. SUFFICES ASSUME u \in got[e] PROVE FALSE OBVIOUS
      <4>2. u \in Nat BY <1>4
      <4>3. u \notin Range(evque[e])
        <5>1. \A x \in Range(evque[e]) : x = Head(evque[e]) \/ Head(evque[e]) < x BY <1>4
        <5>2. \A x \in Range(evque[e]) : x \in Nat BY <1>4
        <5> QED BY <3>3, <4>2, <5>1, <5>2
      <4>5. Skipped(e, d) BY <1>2, <1>3, <1>12
      <4> QED BY <2>1, <2>2, <4>1, <4>3, <4>5 DEF Skipped
    <3> QED BY <3>3, <3>4, <3>5
  <2> QED BY <2>3, <2>4
<1>13. Skipped(Bif, Cal)' /\ Skipped(Cal, Bif)' BY <1>2, <1>3, <1>12
<1> QED BY <1>1, <1>8, <1>9, <1>11, <1>13 DEF PairInv, Prefixed

\* DoStartRun empties the queues.
LEMMA PairStartRun == ASSUME PairInv, Pairs!StartRun PROVE PairInv'
<1>1. /\ kind' = kind /\ env' = env
      /\ got' = [c \in Conns |-> {}] /\ evque' = [c \in Paired |-> <<>>] /\ out' = <<>>
  BY DEF Pairs!StartRun, Pairs!Restarts, Paired
<1>3. Paired \subseteq Conns BY NamesAssumption DEF Paired
<1>4. PairTypes' BY <1>1 DEF PairTypes, PairInv
<1>5. /\ \A c \in Paired : evque'[c] = <<>> /\ got'[c] = {}
      /\ Range(out') = {} /\ Rises(out') /\ Range(<<>>) = {} /\ Rises(<<>>)
  BY <1>1, <1>3, Nothing
<1>6. PairQueues' BY <1>5 DEF PairQueues
<1>7. Skipped(Bif, Cal)' /\ Skipped(Cal, Bif)' BY <1>5 DEF Skipped, Paired
<1> QED BY <1>1, <1>4, <1>5, <1>6, <1>7 DEF PairInv, Prefixed

\* Every step keeps what is known of the pairs.
LEMMA PairKeeps == ASSUME PairInv, Pairs!Next \/ UNCHANGED vars PROVE PairInv'
<1>1. ASSUME UNCHANGED <<kind, env, got, evque, out>> PROVE PairInv'
  BY <1>1 DEF PairInv, PairTypes, PairQueues, Skipped, Rises, Prefixed
<1>2. ASSUME NEW c \in Conns, Pairs!Connect(c) \/ Pairs!Disconnect(c) PROVE PairInv'
  BY <1>1, <1>2 DEF Pairs!Connect, Pairs!Disconnect, Pairs!Joins, Pairs!Leaves
<1>3. ASSUME NEW c \in Conns, NEW t \in Pairs!Triggers(c), Pairs!Receive(c, t) PROVE PairInv'
  BY <1>3, PairReceive
<1>4. CASE UNCHANGED vars BY <1>1, <1>4 DEF vars, streamVars, tgVars
<1> QED BY <1>2, <1>3, <1>4, PairPair, PairStartRun DEF Pairs!Next

\* A name with the type in front is not a plain one.
LEMMA Unlike == \A c : <<"Producer", c>> # <<c>>
OBVIOUS

\* Under unknown names everything is ignored.
LEMMA PairIdles == ASSUME PairIdle, Pairs!Next \/ UNCHANGED vars PROVE PairIdle'
<1>1. kind = "pair" /\ Prefixed /\ evque = [c \in Paired |-> <<>>] /\ out = <<>> BY DEF PairIdle
<1>2. SUFFICES UNCHANGED <<kind, env, evque, out>> BY <1>1 DEF PairIdle, Prefixed
<1>3. ASSUME NEW c \in Conns, Pairs!Connect(c) \/ Pairs!Disconnect(c) PROVE UNCHANGED <<kind, env, evque, out>>
  BY <1>3 DEF Pairs!Connect, Pairs!Disconnect, Pairs!Joins, Pairs!Leaves
<1>4. ASSUME NEW c \in Conns, NEW t \in Pairs!Triggers(c), Pairs!Receive(c, t)
      PROVE  UNCHANGED <<kind, env, evque, out>>
  <2>1. ~Pairs!Known(c) BY <1>1, Unlike DEF Pairs!Known, Pairs!GetName, Prefixed
  <2> QED BY <1>4, <2>1 DEF Pairs!Receive, Pairs!Sends
<1>5. ~Pairs!Pair BY <1>1 DEF Pairs!Pair, Pairs!AtRest, Paired
<1>6. CASE Pairs!StartRun BY <1>1, <1>6 DEF Pairs!StartRun, Pairs!Restarts, Paired
<1>7. CASE UNCHANGED vars BY <1>7 DEF vars, streamVars, tgVars
<1> QED BY <1>3, <1>4, <1>5, <1>6, <1>7 DEF Pairs!Next

\* When a queue is empty, everything that both delivered is written.
LEMMA PairSays == ASSUME PairInv PROVE Pairs!PairsComplete
<1>1. PairTypes /\ PairQueues /\ Rises(out) /\ Skipped(Bif, Cal) /\ Skipped(Cal, Bif)
  BY DEF PairInv
<1>2. Pairs!Known(Bif) /\ Pairs!Known(Cal) BY DEF Pairs!Known, Pairs!GetName, PairInv, Prefixed
<1>3. SUFFICES ASSUME Pairs!AtRest
               PROVE  /\ {out[i] : i \in DOMAIN out} = got[Bif] \cap got[Cal]
                      /\ \A i, j \in DOMAIN out : i < j => out[i] < out[j]
  BY <1>2 DEF Pairs!PairsComplete
<1>4. DOMAIN out = 1 .. Len(out) BY <1>1 DEF PairTypes
<1>5. Range(out) = {out[i] : i \in DOMAIN out} BY DEF Range
<1>6. PICK c \in Paired : evque[c] = <<>> BY <1>3 DEF Pairs!AtRest, Paired
<1>7. Range(evque[c]) = {} BY <1>6, Nothing
<1>8. Range(out) \subseteq got[Bif] \cap got[Cal] BY <1>1 DEF PairQueues, Paired
<1>9. got[Bif] \cap got[Cal] \subseteq Range(out) BY <1>1, <1>6, <1>7 DEF Skipped, Paired
<1> QED BY <1>1, <1>4, <1>5, <1>8, <1>9 DEF Rises

\* Of unknown producers nothing is written.
LEMMA PairIdleSays == ASSUME PairIdle PROVE Pairs!PairsComplete
<1>1. out = <<>> /\ DOMAIN out = {} BY DEF PairIdle
<1>2. ~Pairs!Known(Bif) BY Unlike DEF Pairs!Known, Pairs!GetName, PairIdle, Prefixed
<1> QED BY <1>1, <1>2 DEF Pairs!PairsComplete
-----------------------------------------------------------------------------
(***************************************************************************)
(* OverlapSync: the AHCAL, its BIF and the telescope.                      *)
(***************************************************************************)
Event == Nat \X Nat \X Nat
Parties == {Bif, Cal, Tel}
Packet == UNION {[D -> Event] : D \in SUBSET Parties}
Unused == <<0, 0, 0>>

\* The times of event e of c when the clock of the AHCAL is ahead by off.
Beg(off, c, e) == IF c = Cal THEN 32 * e[1] - off ELSE e[1]
End(off, c, e) == IF c = Cal THEN 32 * e[2] - off ELSE e[2]
Trg(c, e) == Overlaps!Trg(c, e)

\* The order of the events of c.
Precedes(c, x, y) ==
  /\ c \in Paired => x[1] < y[1] /\ x[2] < y[2]
  /\ x[3] # 0 => x[3] < y[3]
Upto(c, x, y) == x = y \/ Precedes(c, x, y)
Ordered(c, s) == \A i, j \in 1 .. Len(s) : i < j => Precedes(c, s[i], s[j])

\* Event x of c and event y of d.
Meets(off, c, x, d, y) == Beg(off, c, x) < End(off, d, y) /\ Beg(off, d, y) < End(off, c, x)

\* The telescope's events have triggers, and those of the AHCAL next to it.
Proper(c, e) ==
  /\ e[1] < e[2]
  /\ c = Tel \/ (c = Cal /\ kind = "caltel") => e[3] > 0

OverlapTypes ==
  /\ kind \in {"calts", "caltel"} /\ got \in [Conns -> SUBSET Event]
  /\ \A c \in Parties : \A e \in got[c] : Proper(c, e)
  /\ evque \in [Parties -> Seq(Event)] /\ last \in [Parties -> Event]
  /\ out \in Seq(Packet)

\* The offset between the clocks in this run.
Started == Overlaps!Offset(Overlaps!Start(Cal), Overlaps!Start(Bif))

\* The offset is known when there is something to merge: with the first events
\* of all it is computed from their tags, and of the BIF none is dropped before.
ClockInv(off) ==
  /\ Prefixed /\ off = Started
  /\ \A c \in Paired : \A e \in got[c] : Beg(off, c, e) >= 0
  /\ offsetDone => offset = off
  /\ ~offsetDone => thrown \/ \E c \in Overlaps!Sources : evque[c] = <<>>
  /\ kind = "calts" => accept /\ (~offsetDone => got[Bif] = Range(evque[Bif]))

\* What waits was delivered, in order, and after what was used last; between
\* the runs nothing waits.
WaitingInv ==
  \A c \in Parties :
    /\ Ordered(c, evque[c]) /\ Range(evque[c]) \subseteq got[c]
    /\ last[c] # Unused => /\ last[c] \in got[c]
                           /\ \A x \in Range(evque[c]) : Precedes(c, last[c], x)
    /\ ~accept => evque[c] = <<>> /\ last[c] = Unused

\* What was used last begins before the other side ends.
ReachInv(off, c, d) ==
  last[c] # Unused => /\ \A x \in Range(evque[d]) : Beg(off, c, last[c]) < End(off, d, x)
                      /\ \E o \in got[d] : Beg(off, c, last[c]) < End(off, d, o)

\* What is written was delivered, not after what was used last, in order, and
\* what is written together overlaps.
FileInv(off) ==
  /\ \A w \in Range(out) :
       /\ \A c \in Paired \cap DOMAIN w :
            /\ w[c] \in got[c]
            /\ accept => last[c] # Unused /\ w[c][1] <= last[c][1]
       /\ Paired \subseteq DOMAIN w => Meets(off, Bif, w[Bif], Cal, w[Cal])
  /\ \A c \in Paired : \A i, j \in DOMAIN out :
       i < j /\ c \in DOMAIN out[i] /\ c \in DOMAIN out[j] => out[i][c][1] <= out[j][c][1]

Lossless == env \cap {"bad", "full"} = {}

\* What no longer waits is not after what was used last.
UsedInv ==
  Lossless /\ accept =>
    \A c \in Parties : \A e \in got[c] :
      e \in Range(evque[c]) \/ (last[c] # Unused /\ Upto(c, e, last[c])) \/ (c = Tel /\ kind = "calts")

\* Event x of c overlaps nothing of d, now and later.
Lonely(off, c, x, d) ==
  /\ \A e \in got[d] : ~Meets(off, c, x, d, e)
  /\ \E o \in got[d] : End(off, c, x) <= Beg(off, d, o)

\* What is written without the other side overlaps nothing of it.
AloneInv(off, c, d) ==
  Lossless => \A w \in Range(out) : c \in DOMAIN w /\ d \notin DOMAIN w => Lonely(off, c, w[c], d)

\* What no longer waits is written, or it is of the BIF and lonely.
KeptInv(off) ==
  Lossless /\ accept =>
    \A c \in Parties : \A e \in got[c] :
      \/ e \in Range(evque[c]) \/ \E w \in Range(out) : c \in DOMAIN w /\ w[c] = e
      \/ kind = "caltel" /\ c = Bif /\ Lonely(off, Bif, e, Cal)
      \/ c = Tel /\ kind = "calts"

\* The telescope is not ahead of the AHCAL, and an event of the AHCAL is
\* written with the event of its trigger, or there is none and none will come.
TelescopeInv ==
  kind = "caltel" =>
    /\ last[Tel] # Unused => last[Cal] # Unused /\ Trg(Tel, last[Tel]) <= Trg(Cal, last[Cal])
    /\ \A w \in Range(out) : Cal \in DOMAIN w =>
         IF Tel \in DOMAIN w THEN Trg(Tel, w[Tel]) = Trg(Cal, w[Cal])
         ELSE Lossless => /\ \A e \in got[Tel] : Trg(Tel, e) # Trg(Cal, w[Cal])
                          /\ \E o \in got[Tel] : Trg(Tel, o) >= Trg(Cal, w[Cal])

OverlapInv(off) ==
  /\ OverlapTypes /\ ClockInv(off) /\ WaitingInv
  /\ ReachInv(off, Bif, Cal) /\ ReachInv(off, Cal, Bif) /\ FileInv(off)
  /\ UsedInv /\ AloneInv(off, Bif, Cal) /\ AloneInv(off, Cal, Bif) /\ KeptInv(off) /\ TelescopeInv

\* Under names that are not known nothing is queued or written.
OverlapIdle ==
  /\ kind \in {"calts", "caltel"} /\ ~Prefixed
  /\ evque = [c \in Parties |-> <<>>] /\ out = <<>>

\* The starts of the clocks are times.
LEMMA StartedIs ==
  /\ Overlaps!Start(Bif) \in Nat /\ Overlaps!Start(Cal) \in Nat
  /\ Started = 32 * Overlaps!Start(Cal) - Overlaps!Start(Bif) - 120 /\ Started \in Int
<1>1. ASSUME NEW c \in Paired PROVE Overlaps!Start(c) \in Nat
  <2>1. FirstROC[c] \in Seq(Nat) BY ClockAssumption DEF Paired
  <2> QED BY <2>1 DEF Overlaps!Start
<1>2. Overlaps!Start(Bif) \in Nat /\ Overlaps!Start(Cal) \in Nat BY <1>1 DEF Paired
<1> QED BY <1>2 DEF Started, Overlaps!Offset

\* So is that of the next run.
LEMMA StartedThen == Started' \in Int
<1>1. Bif \in {Bif, Cal} /\ Cal \in {Bif, Cal} OBVIOUS
<1>2. Overlaps!Start(Cal)' \in Int /\ Overlaps!Start(Bif)' \in Int
  BY <1>1, ClockAssumption DEF Overlaps!Start
<1> QED BY <1>2 DEF Started, Overlaps!Offset

\* Converted times are integers, and begin before they end.
LEMMA TimesAre ==
  ASSUME NEW off \in Int, NEW c, NEW e \in Event
  PROVE  /\ Beg(off, c, e) \in Int /\ End(off, c, e) \in Int
         /\ e[1] < e[2] => Beg(off, c, e) < End(off, c, e)
BY DEF Beg, End, Event

\* The triggers of a producer are shifted alike, and never down.
LEMMA TriggersAre ==
  ASSUME NEW c, NEW x \in Event, NEW y \in Event
  PROVE  /\ Trg(c, x) \in Nat /\ x[3] <= Trg(c, x) /\ x[3] \in Nat
         /\ x[3] < y[3] => Trg(c, x) < Trg(c, y)
         /\ x[3] <= y[3] => Trg(c, x) <= Trg(c, y)
<1> DEFINE n == CASE c = Cal /\ Shift > 0 -> Shift [] c = Tel /\ Shift < 0 -> -Shift [] OTHER -> 0
<1>1. n \in Nat
  <2>1. Shift \in Int BY ClockAssumption
  <2>2. CASE c = Cal /\ Shift > 0
    <3>1. Cal # Tel BY NamesAssumption
    <3> QED BY <2>1, <2>2, <3>1
  <2>3. CASE c = Tel /\ Shift < 0
    <3>1. Cal # Tel BY NamesAssumption
    <3> QED BY <2>1, <2>3, <3>1
  <2>4. CASE ~(c = Cal /\ Shift > 0) /\ ~(c = Tel /\ Shift < 0) BY <2>4
  <2> QED BY <2>2, <2>3, <2>4
<1>2. Trg(c, x) = x[3] + n /\ Trg(c, y) = y[3] + n BY DEF Trg, Overlaps!Trg
<1>3. x[3] \in Nat /\ y[3] \in Nat BY DEF Event
<1> HIDE DEF n
<1> QED BY <1>1, <1>2, <1>3

\* Whichever of the two is shifted.
LEMMA SameTrigger ==
  ASSUME NEW x \in Event, NEW y \in Event
  PROVE  Trg(Tel, x) = Trg(Cal, y) <=> x[3] = y[3] + Shift
<1>1. Tel # Cal /\ Shift \in Int BY NamesAssumption, ClockAssumption
<1>2. x[3] \in Int /\ y[3] \in Int BY DEF Event
<1>3. /\ Trg(Tel, x) = x[3] + (IF Shift < 0 THEN -Shift ELSE 0)
      /\ Trg(Cal, y) = y[3] + (IF Shift > 0 THEN Shift ELSE 0)
  BY <1>1 DEF Trg, Overlaps!Trg
<1>4. CASE Shift < 0
  <2>1. Trg(Tel, x) = x[3] - Shift /\ Trg(Cal, y) = y[3] BY <1>1, <1>2, <1>3, <1>4
  <2> QED BY <1>1, <1>2, <2>1
<1>5. CASE Shift >= 0
  <2>1. Trg(Tel, x) = x[3] /\ Trg(Cal, y) = y[3] + Shift BY <1>1, <1>2, <1>3, <1>5
  <2> QED BY <1>1, <1>2, <2>1
<1> QED BY <1>1, <1>4, <1>5

\* The events of one producer are in one order.
LEMMA PrecedesTransitive ==
  ASSUME NEW c, NEW x \in Event, NEW y \in Event, NEW z \in Event, Precedes(c, x, y), Precedes(c, y, z)
  PROVE  Precedes(c, x, z)
BY DEF Precedes, Event

\* What comes up to another event does not begin, end or trigger later.
LEMMA UptoSays ==
  ASSUME NEW off \in Int, NEW c, NEW x \in Event, NEW y \in Event, Upto(c, x, y)
  PROVE  /\ c \in Paired => /\ x[1] <= y[1]
                             /\ Beg(off, c, x) <= Beg(off, c, y) /\ End(off, c, x) <= End(off, c, y)
         /\ Trg(c, x) <= Trg(c, y)
<1>1. x[1] \in Nat /\ y[1] \in Nat /\ x[2] \in Nat /\ y[2] \in Nat /\ x[3] \in Nat /\ y[3] \in Nat
  BY DEF Event
<1>2. c \in Paired => x[1] <= y[1] /\ x[2] <= y[2] BY <1>1 DEF Upto, Precedes
<1>3. x[3] <= y[3] BY <1>1 DEF Upto, Precedes
<1>4. x[1] <= y[1] => Beg(off, c, x) <= Beg(off, c, y) BY <1>1 DEF Beg
<1>5. x[2] <= y[2] => End(off, c, x) <= End(off, c, y) BY <1>1 DEF End
<1> QED BY <1>2, <1>3, <1>4, <1>5, TriggersAre

\* An event is queued.
LEMMA Queued ==
  ASSUME NEW c, NEW s \in Seq(Event), Ordered(c, s), NEW t \in Event,
         \A x \in Range(s) : Precedes(c, x, t)
  PROVE  /\ Append(s, t) \in Seq(Event) /\ Ordered(c, Append(s, t))
         /\ Range(Append(s, t)) = Range(s) \cup {t}
<1>1. /\ Append(s, t) \in Seq(Event) /\ Len(s) \in Nat /\ Len(Append(s, t)) = Len(s) + 1
      /\ Append(s, t)[Len(s) + 1] = t
  OBVIOUS
<1>2. \A i \in 1 .. Len(s) : Append(s, t)[i] = s[i] OBVIOUS
<1>3. DOMAIN s = 1 .. Len(s) /\ DOMAIN Append(s, t) = 1 .. Len(s) + 1 BY <1>1
<1>4. \A i \in 1 .. Len(s) : Precedes(c, s[i], t)
  <2>1. \A i \in 1 .. Len(s) : s[i] \in Range(s) BY <1>3 DEF Range
  <2> QED BY <2>1
<1> DEFINE r == Append(s, t)
<1>5. r[Len(s) + 1] = t /\ (\A i \in 1 .. Len(s) : r[i] = s[i]) /\ Len(r) = Len(s) + 1
      /\ DOMAIN r = 1 .. Len(s) + 1
  BY <1>1, <1>2, <1>3
<1> HIDE DEF r
<1>6. Ordered(c, r)
  <2>1. SUFFICES ASSUME NEW i \in 1 .. Len(r), NEW j \in 1 .. Len(r), i < j
                 PROVE  Precedes(c, r[i], r[j])
    BY DEF Ordered
  <2>2. i \in 1 .. Len(s) /\ (j \in 1 .. Len(s) \/ j = Len(s) + 1) BY <1>1, <1>5, <2>1
  <2> QED BY <1>4, <1>5, <2>1, <2>2 DEF Ordered
<1>7. Range(r) = Range(s) \cup {t}
  <2>1. \A i \in 1 .. Len(s) + 1 : i \in 1 .. Len(s) \/ i = Len(s) + 1 BY <1>1
  <2>2. \A x \in Range(r) : x \in Range(s) \cup {t} BY <1>3, <1>5, <2>1 DEF Range
  <2>3. \A i \in 1 .. Len(s) : i \in 1 .. Len(s) + 1 BY <1>1
  <2>4. \A x \in Range(s) : x \in Range(r) BY <1>3, <1>5, <2>3 DEF Range
  <2>5. t \in Range(r)
    <3>1. Len(s) + 1 \in DOMAIN r BY <1>1, <1>5
    <3> QED BY <1>5, <3>1 DEF Range
  <2> QED BY <2>2, <2>4, <2>5
<1> QED BY <1>1, <1>6, <1>7 DEF r

\* The first event of a queue is used.
LEMMA Used ==
  ASSUME NEW c, NEW s \in Seq(Event), Ordered(c, s), s # <<>>
  PROVE  /\ Tail(s) \in Seq(Event) /\ Ordered(c, Tail(s)) /\ Head(s) \in Event
         /\ Range(s) = {Head(s)} \cup Range(Tail(s))
         /\ \A x \in Range(Tail(s)) : Precedes(c, Head(s), x)
<1>1. /\ Tail(s) \in Seq(Event) /\ Len(s) \in Nat \ {0} /\ Len(Tail(s)) = Len(s) - 1
      /\ Head(s) = s[1] /\ Head(s) \in Event
  OBVIOUS
<1>2. \A i \in 1 .. Len(s) - 1 : Tail(s)[i] = s[i + 1] OBVIOUS
<1>3. DOMAIN s = 1 .. Len(s) /\ DOMAIN Tail(s) = 1 .. Len(s) - 1 BY <1>1
<1> DEFINE r == Tail(s)
<1>4. (\A i \in 1 .. Len(s) - 1 : r[i] = s[i + 1]) /\ Len(r) = Len(s) - 1 /\ DOMAIN r = 1 .. Len(s) - 1
  BY <1>1, <1>2, <1>3
<1> HIDE DEF r
<1>5. \A i \in 1 .. Len(s) - 1 : i + 1 \in 1 .. Len(s) /\ 1 < i + 1 BY <1>1
<1>6. 1 \in 1 .. Len(s) BY <1>1
<1>7. Ordered(c, r)
  <2>1. SUFFICES ASSUME NEW i \in 1 .. Len(r), NEW j \in 1 .. Len(r), i < j
                 PROVE  Precedes(c, r[i], r[j])
    BY DEF Ordered
  <2>2. i + 1 \in 1 .. Len(s) /\ j + 1 \in 1 .. Len(s) /\ i + 1 < j + 1 BY <1>1, <1>4, <2>1
  <2> QED BY <1>4, <2>1, <2>2 DEF Ordered
<1>8. \A x \in Range(r) : Precedes(c, Head(s), x) BY <1>1, <1>4, <1>5, <1>6 DEF Range, Ordered
<1>9. Range(s) = {Head(s)} \cup Range(r)
  <2>1. \A i \in 1 .. Len(s) : i = 1 \/ (i - 1 \in 1 .. Len(s) - 1 /\ (i - 1) + 1 = i) BY <1>1
  <2>2. \A i \in 1 .. Len(s) : i = 1 \/ (i - 1 \in DOMAIN r /\ r[i - 1] = s[i]) BY <1>4, <2>1
  <2>3. \A x \in Range(s) : x \in {Head(s)} \cup Range(r) BY <1>1, <1>3, <2>2 DEF Range
  <2>4. \A x \in Range(r) : x \in Range(s) BY <1>3, <1>4, <1>5 DEF Range
  <2>5. Head(s) \in Range(s) BY <1>1, <1>3, <1>6 DEF Range
  <2> QED BY <2>3, <2>4, <2>5
<1> QED BY <1>1, <1>7, <1>8, <1>9 DEF r

\* A queue is split before event n.
LEMMA Split ==
  ASSUME NEW c, NEW s \in Seq(Event), Ordered(c, s), NEW n \in 1 .. Len(s)
  PROVE  /\ SubSeq(s, 1, n - 1) \in Seq(Event) /\ Len(SubSeq(s, 1, n - 1)) = n - 1
         /\ \A i \in 1 .. n - 1 : SubSeq(s, 1, n - 1)[i] = s[i]
         /\ SubSeq(s, n, Len(s)) \in Seq(Event) /\ Ordered(c, SubSeq(s, n, Len(s)))
         /\ SubSeq(s, n, Len(s)) # <<>> /\ Head(SubSeq(s, n, Len(s))) = s[n]
         /\ Range(s) = Range(SubSeq(s, 1, n - 1)) \cup Range(SubSeq(s, n, Len(s)))
         /\ \A x \in Range(SubSeq(s, n, Len(s))) : Upto(c, s[n], x)
         /\ \A x \in Range(SubSeq(s, 1, n - 1)) : Upto(c, x, s[n - 1]) /\ Precedes(c, x, s[n])
<1>1. Len(s) \in Nat /\ n \in Int /\ n - 1 \in Nat /\ DOMAIN s = 1 .. Len(s) /\ \A i \in 1 .. Len(s) : s[i] \in Event
  OBVIOUS
<1> DEFINE a == SubSeq(s, 1, n - 1)
<1> DEFINE b == SubSeq(s, n, Len(s))
<1>2. a \in Seq(Event) /\ Len(a) = n - 1 /\ \A i \in 1 .. n - 1 : a[i] = s[i]
  <2>1. \A i \in 1 .. n - 1 : s[i] \in Event BY <1>1
  <2> QED BY <1>1, <2>1, SubSeqProperties
<1>3. b \in Seq(Event) /\ Len(b) = Len(s) - n + 1 /\ \A i \in 1 .. Len(s) - n + 1 : b[i] = s[n + i - 1]
  <2>1. n <= Len(s) /\ \A i \in n .. Len(s) : s[i] \in Event BY <1>1
  <2> QED BY <1>1, <2>1, SubSeqProperties
<1> HIDE DEF a, b
<1>4. DOMAIN a = 1 .. n - 1 /\ DOMAIN b = 1 .. Len(s) - n + 1 BY <1>2, <1>3
<1>5. b # <<>> /\ Head(b) = s[n]
  <2>1. Len(b) > 0 BY <1>1, <1>3
  <2>2. b # <<>> /\ Head(b) = b[1] BY <1>3, <2>1
  <2>3. b[1] = s[n + 1 - 1] /\ n + 1 - 1 = n BY <1>1, <1>3
  <2> QED BY <2>2, <2>3
<1>6. Ordered(c, b)
  <2>1. SUFFICES ASSUME NEW i \in 1 .. Len(b), NEW j \in 1 .. Len(b), i < j
                 PROVE  Precedes(c, b[i], b[j])
    BY DEF Ordered
  <2>2. n + i - 1 \in 1 .. Len(s) /\ n + j - 1 \in 1 .. Len(s) /\ n + i - 1 < n + j - 1
    BY <1>1, <1>3, <2>1
  <2>3. Precedes(c, s[n + i - 1], s[n + j - 1]) BY <2>2 DEF Ordered
  <2> QED BY <1>3, <2>1, <2>3
<1>7. Range(s) = Range(a) \cup Range(b)
  <2>1. ASSUME NEW i \in 1 .. Len(s) PROVE s[i] \in Range(a) \cup Range(b)
    <3>1. CASE i < n
      <4>1. i \in DOMAIN a /\ a[i] = s[i] BY <1>1, <1>2, <1>4, <3>1
      <4> QED BY <4>1 DEF Range
    <3>2. CASE ~(i < n)
      <4>1. i - n + 1 \in 1 .. Len(s) - n + 1 /\ n + (i - n + 1) - 1 = i BY <1>1, <3>2
      <4>2. i - n + 1 \in DOMAIN b /\ b[i - n + 1] = s[i] BY <1>3, <1>4, <4>1
      <4> QED BY <4>2 DEF Range
    <3> QED BY <3>1, <3>2
  <2>2. \A i \in DOMAIN a : a[i] \in Range(s)
    <3>1. \A i \in 1 .. n - 1 : i \in DOMAIN s BY <1>1
    <3> QED BY <1>2, <1>4, <3>1 DEF Range
  <2>3. \A i \in DOMAIN b : b[i] \in Range(s)
    <3>1. \A i \in 1 .. Len(s) - n + 1 : n + i - 1 \in DOMAIN s BY <1>1
    <3> QED BY <1>3, <1>4, <3>1 DEF Range
  <2> QED BY <1>1, <2>1, <2>2, <2>3 DEF Range
<1>8. \A x \in Range(b) : Upto(c, s[n], x)
  <2>1. ASSUME NEW i \in 1 .. Len(s) - n + 1 PROVE Upto(c, s[n], b[i])
    <3>1. CASE i = 1
      <4>1. n + i - 1 = n BY <1>1, <3>1
      <4> QED BY <1>3, <4>1 DEF Upto
    <3>2. CASE i # 1
      <4>1. n < n + i - 1 /\ n + i - 1 \in 1 .. Len(s) BY <1>1, <3>2
      <4> QED BY <1>3, <4>1 DEF Upto, Ordered
    <3> QED BY <3>1, <3>2
  <2> QED BY <1>4, <2>1 DEF Range
<1>9. \A x \in Range(a) : Upto(c, x, s[n - 1]) /\ Precedes(c, x, s[n])
  <2>1. ASSUME NEW i \in 1 .. n - 1 PROVE Upto(c, s[i], s[n - 1]) /\ Precedes(c, s[i], s[n])
    <3>1. i \in 1 .. Len(s) /\ n - 1 \in 1 .. Len(s) /\ i < n BY <1>1, <2>1
    <3>2. Precedes(c, s[i], s[n]) BY <3>1 DEF Ordered
    <3>3. i = n - 1 \/ i < n - 1 BY <1>1, <2>1
    <3>4. Upto(c, s[i], s[n - 1]) BY <3>1, <3>3 DEF Upto, Ordered
    <3> QED BY <3>2, <3>4
  <2> QED BY <1>2, <1>4, <2>1 DEF Range
<1> QED BY <1>2, <1>3, <1>5, <1>6, <1>7, <1>8, <1>9 DEF a, b

\* At first nothing is queued, written or delivered.
LEMMA OverlapStarts ==
  ASSUME CollectorsInit, kind \in {"calts", "caltel"}, NEW off \in Int, off = Started
  PROVE  OverlapInv(off) \/ OverlapIdle
<1>1. Overlaps!Init
  BY DEF CollectorsInit, Init, StreamsInit, Position!Init, Position!StreamsInit, Time!Init, Time!StreamsInit,
         Pairs!Init, Pairs!StreamsInit, Merge!Init, Merge!Programs
<1>2. /\ got = [c \in Conns |-> {}] /\ evque = [c \in Parties |-> <<>>] /\ out = <<>>
      /\ last = [c \in Parties |-> Unused] /\ accept = TRUE /\ offsetDone = FALSE
  BY <1>1 DEF Overlaps!Init, Overlaps!StreamsInit, Overlaps!Empty, Overlaps!Unused, Overlaps!None,
              Overlaps!Timed, Parties, Unused
<1>3. SUFFICES ASSUME Prefixed PROVE OverlapInv(off) BY <1>2 DEF OverlapIdle
<1>4. Parties \subseteq Conns /\ Paired \subseteq Parties /\ Bif \in Parties /\ Cal \in Parties /\ Tel \in Parties
  BY NamesAssumption DEF Parties, Paired
<1>5. /\ \A c \in Parties : got[c] = {} /\ evque[c] = <<>> /\ last[c] = Unused
      /\ Range(out) = {} /\ Range(<<>>) = {} /\ DOMAIN out = {} /\ \A c : Ordered(c, <<>>)
  BY <1>2, <1>4, Nothing DEF Ordered
<1>6. OverlapTypes
  <2>1. Unused \in Event BY DEF Unused, Event
  <2>2. evque \in [Parties -> Seq(Event)] /\ last \in [Parties -> Event] BY <1>2, <2>1
  <2>3. got \in [Conns -> SUBSET Event] /\ out \in Seq(Packet) BY <1>2
  <2> QED BY <1>5, <2>2, <2>3 DEF OverlapTypes
<1>7. ClockInv(off)
  <2>1. Bif \in Overlaps!Sources BY DEF Overlaps!Sources, Overlaps!Timed
  <2> QED BY <1>2, <1>3, <1>4, <1>5, <2>1 DEF ClockInv
<1>8. WaitingInv BY <1>2, <1>5 DEF WaitingInv
<1>9. ReachInv(off, Bif, Cal) /\ ReachInv(off, Cal, Bif) BY <1>4, <1>5 DEF ReachInv
<1>10. FileInv(off) BY <1>5 DEF FileInv
<1>11. UsedInv /\ KeptInv(off) BY <1>5 DEF UsedInv, KeptInv
<1>12. AloneInv(off, Bif, Cal) /\ AloneInv(off, Cal, Bif) BY <1>5 DEF AloneInv
<1>13. TelescopeInv BY <1>4, <1>5 DEF TelescopeInv
<1> QED BY <1>6, <1>7, <1>8, <1>9, <1>10, <1>11, <1>12, <1>13 DEF OverlapInv

\* What is written is events, by their producers.
LEMMA PacketIs ==
  ASSUME NEW w \in Packet
  PROVE  DOMAIN w \subseteq Parties /\ \A c \in DOMAIN w : w[c] \in Event
<1>1. PICK D \in SUBSET Parties : w \in [D -> Event] BY DEF Packet
<1> QED BY <1>1

\* What was written, too.
LEMMA FilePackets ==
  ASSUME OverlapTypes
  PROVE  \A w \in Range(out) : w \in Packet /\ DOMAIN w \subseteq Parties /\ \A c \in DOMAIN w : w[c] \in Event
<1>1. Range(out) \subseteq Packet BY InRange DEF OverlapTypes
<1> QED BY <1>1, PacketIs

\* The parts of Receive: what comes is after all that came, and is queued
\* unless something goes wrong.
LEMMA OverlapArrives ==
  ASSUME OverlapTypes, WaitingInv, NEW off \in Int, ClockInv(off),
         NEW c \in Conns, NEW e \in Overlaps!Sendable(c),
         NEW unfit \in Overlaps!Unfit(c), Overlaps!Receive(c, e, unfit)
  PROVE  /\ UNCHANGED <<kind, env, run, last, accept, out>> /\ e \in Event
         /\ got' = [got EXCEPT ![c] = @ \cup {e}]
         /\ \A o \in got[c] : Precedes(c, o, e)
         /\ c \in Parties => Proper(c, e)
         /\ c \in Paired => Beg(off, c, e) >= 0
         /\ \A d \in Parties \ {c} : evque'[d] = evque[d]
         /\ DOMAIN evque' = Parties
         /\ c \in Parties => evque'[c] \in {evque[c], <<>>, Append(evque[c], e)}
         /\ ~accept => evque' = evque
         /\ Lossless /\ accept /\ c \in Parties /\ ~(c = Tel /\ kind = "calts") =>
              evque'[c] = Append(evque[c], e)
<1>1. /\ UNCHANGED <<kind, env, run, last, accept, out>>
      /\ got' = [got EXCEPT ![c] = @ \cup {e}]
      /\ IF Overlaps!Dropped(c, unfit) THEN evque' = evque
         ELSE evque' = [evque EXCEPT ![c] = IF Overlaps!Full(c) THEN <<>> ELSE Append(@, e)]
  BY DEF Overlaps!Receive, Overlaps!Sends
<1>2. e \in Overlaps!Candidates(c) /\ \A o \in got[c] : Precedes(c, o, e)
  BY DEF Overlaps!Sendable, Precedes, Overlaps!Before, Overlaps!Timed, Paired
<1>3. e \in Event /\ (c \in Parties => Proper(c, e)) /\ (c \in Paired => Beg(off, c, e) >= 0)
  <2>1. CASE c \notin Paired
    <3>1. PICK t \in TriggerNs[c] : e = <<0, 1, t>>
      BY <1>2, <2>1 DEF Overlaps!Candidates, Overlaps!Timed, Paired
    <3>2. t \in Nat /\ t > 0 BY <3>1, ClockAssumption
    <3> QED BY <3>1, <3>2, <2>1 DEF Event, Proper, Paired
  <2>2. CASE c \in Paired
    <3> DEFINE Given == IF kind = "caltel" /\ c = Cal THEN TriggerNs[c] ELSE {0}
    <3>0. e \in Overlaps!Times(c) \X Overlaps!Times(c) \X Given /\ e[1] < e[2]
      BY <1>2, <2>2 DEF Overlaps!Candidates, Overlaps!WithTel, Overlaps!Timed, Paired
    <3>1. /\ e \in Overlaps!Times(c) \X Overlaps!Times(c) \X Nat /\ e[1] < e[2]
          /\ (kind = "caltel" /\ c = Cal) => e[3] > 0
      <4>1. TriggerNs[c] \subseteq Nat \ {0} BY ClockAssumption
      <4> QED BY <3>0, <4>1
    <3>2. Overlaps!Start(c) \in Nat BY <2>2, StartedIs DEF Paired
    <3>3. \A t \in Delays[c] : t \in Nat BY <2>2, ClockAssumption DEF Paired
    <3>4. \A t \in Overlaps!Times(c) : t \in Nat /\ t >= Overlaps!Start(c)
      BY <3>2, <3>3 DEF Overlaps!Times
    <3>5. e \in Event /\ e[1] \in Nat /\ e[1] >= Overlaps!Start(c) BY <3>1, <3>4 DEF Event
    <3>6. Proper(c, e)
      <4>1. c # Tel BY <2>2, NamesAssumption DEF Paired
      <4> QED BY <3>1, <4>1 DEF Proper
    <3>7. Beg(off, c, e) >= 0
      <4>1. CASE c = Cal
        <5>1. off = 32 * Overlaps!Start(Cal) - Overlaps!Start(Bif) - 120 BY StartedIs DEF ClockInv
        <5>2. 32 * e[1] >= 32 * Overlaps!Start(Cal) BY <3>2, <3>5, <4>1
        <5> QED BY <3>5, <4>1, <5>1, <5>2, StartedIs DEF Beg
      <4>2. CASE c # Cal BY <3>5, <4>2 DEF Beg
      <4> QED BY <4>1, <4>2
    <3> QED BY <3>5, <3>6, <3>7
  <2> QED BY <2>1, <2>2
<1>4. DOMAIN evque = Parties BY DEF OverlapTypes
<1>5. /\ \A d \in Parties \ {c} : evque'[d] = evque[d]
      /\ DOMAIN evque' = Parties
      /\ c \in Parties => evque'[c] \in {evque[c], <<>>, Append(evque[c], e)}
  BY <1>1, <1>4
<1>6. ~accept => evque' = evque BY <1>1 DEF Overlaps!Dropped
<1>7. ASSUME Lossless, accept, c \in Parties, ~(c = Tel /\ kind = "calts")
      PROVE  evque'[c] = Append(evque[c], e)
  <2>1. Overlaps!Known(c)
    BY <1>7 DEF Overlaps!Known, Overlaps!GetName, ClockInv, Prefixed,
                Overlaps!Sources, Overlaps!WithTel, Overlaps!Timed, Parties, OverlapTypes
  <2>2. ~Overlaps!Full(c) BY <1>7 DEF Overlaps!Full, Lossless
  <2>3. ~unfit BY <1>7 DEF Lossless, Overlaps!Unfit
  <2>4. ~Overlaps!Dropped(c, unfit) BY <1>7, <2>1, <2>3 DEF Overlaps!Dropped
  <2> QED BY <1>1, <1>4, <1>7, <2>2, <2>4
<1> QED BY <1>1, <1>2, <1>3, <1>5, <1>6, <1>7

\* What overlaps nothing of d still overlaps nothing when more comes of d.
LEMMA LonelyStays ==
  ASSUME NEW off \in Int, NEW c, NEW d \in Paired, NEW x \in Event, Lonely(off, c, x, d),
         got[d] \subseteq Event, got'[d] \subseteq Event, got[d] \subseteq got'[d],
         \A e \in got'[d] : e \in got[d] \/ \A o \in got[d] : Precedes(d, o, e)
  PROVE  Lonely(off, c, x, d)'
<1>1. PICK o \in got[d] : End(off, c, x) <= Beg(off, d, o) BY DEF Lonely
<1>2. ASSUME NEW e \in got'[d] PROVE ~Meets(off, c, x, d, e)
  <2>1. CASE e \in got[d] BY <2>1 DEF Lonely
  <2>2. CASE Precedes(d, o, e)
    <3>1. o \in Event /\ e \in Event OBVIOUS
    <3>2. Beg(off, d, o) <= Beg(off, d, e) BY <2>2, <3>1, UptoSays DEF Upto
    <3>3. Beg(off, d, o) \in Int /\ Beg(off, d, e) \in Int /\ End(off, c, x) \in Int
      BY <3>1, TimesAre
    <3> QED BY <1>1, <3>2, <3>3 DEF Meets
  <2> QED BY <1>1, <1>2, <2>1, <2>2
<1> QED BY <1>1, <1>2 DEF Lonely

\* When there is an event of everybody the offset is the true one.
LEMMA OverlapTimes ==
  ASSUME OverlapTypes, WaitingInv, NEW off \in Int, ClockInv(off),
         NEW c \in Conns, NEW e \in Overlaps!Sendable(c),
         NEW unfit \in Overlaps!Unfit(c), Overlaps!Receive(c, e, unfit),
         \A d \in Parties : evque'[d] \in Seq(Event) /\ Ordered(d, evque'[d])
  PROVE  ClockInv(off)'
<1> DEFINE q == [evque EXCEPT ![c] = IF Overlaps!Full(c) THEN <<>> ELSE Append(@, e)]
<1> DEFINE starts == ~Overlaps!Full(c) /\ ~offsetDone /\ \A s \in Overlaps!Sources : q[s] # <<>>
<1>1. /\ UNCHANGED <<kind, env, run, accept>>
      /\ got' = [got EXCEPT ![c] = @ \cup {e}]
      /\ c \in Paired => Beg(off, c, e) >= 0
      /\ e \in Event
  BY OverlapArrives
<1>2. IF Overlaps!Dropped(c, unfit) THEN UNCHANGED <<evque, offsetDone, offset, thrown>>
      ELSE /\ evque' = q
           /\ thrown' = (starts /\ ~Overlaps!BORESeen(q))
           /\ offsetDone' = (offsetDone \/ (starts /\ Overlaps!BORESeen(q)))
           /\ offset' = IF starts /\ Overlaps!BORESeen(q)
                        THEN Overlaps!Offset(Overlaps!Tag(Cal, q), Overlaps!Tag(Bif, q)) ELSE offset
  BY DEF Overlaps!Receive, Overlaps!clockVars
<1>3. /\ Paired \subseteq Parties /\ Parties \subseteq Conns /\ Bif \in Paired /\ Cal \in Paired
      /\ Overlaps!Sources \subseteq Parties /\ Paired \subseteq Overlaps!Sources /\ Bif # Cal
  BY NamesAssumption DEF Parties, Paired, Overlaps!Sources, Overlaps!Timed
<1>4. got \in [Conns -> SUBSET Event] /\ evque \in [Parties -> Seq(Event)] BY DEF OverlapTypes
<1> HIDE DEF q, starts
<1>5. Prefixed' /\ off = Started'
  BY <1>1 DEF ClockInv, Prefixed, Started, Overlaps!Start
<1>6. \A d \in Paired : \A x \in got'[d] : Beg(off, d, x) >= 0
  BY <1>1, <1>3, <1>4 DEF ClockInv
<1>7. ASSUME kind = "calts", ~offsetDone
      PROVE  accept /\ got'[Bif] = Range(q[Bif]) /\ evque'[Bif] = q[Bif]
  <2>1. accept /\ got[Bif] = Range(evque[Bif]) BY <1>7 DEF ClockInv
  <2>2. CASE c # Bif
    <3>1. got'[Bif] = got[Bif] BY <1>1, <1>3, <1>4, <2>2
    <3>2. q[Bif] = evque[Bif] BY <1>3, <1>4, <2>2 DEF q
    <3> QED BY <1>2, <2>1, <3>1, <3>2
  <2>3. CASE c = Bif
    <3>1. ~Overlaps!Dropped(c, unfit)
      BY <1>3, <1>7, <2>1, <2>3
         DEF Overlaps!Dropped, Overlaps!Known, Overlaps!GetName, Overlaps!Unfit, Overlaps!WithTel,
             ClockInv, Prefixed
    <3>2. ~Overlaps!Full(c) BY <1>7 DEF Overlaps!Full, Overlaps!WithTel
    <3>3. q[Bif] = Append(evque[Bif], e) BY <1>3, <1>4, <2>3, <3>2 DEF q
    <3>4. got'[Bif] = got[Bif] \cup {e} BY <1>1, <1>3, <1>4, <2>3
    <3>5. evque[Bif] \in Seq(Event) /\ Ordered(Bif, evque[Bif]) BY <1>3, <1>4 DEF WaitingInv
    <3>6. \A x \in Range(evque[Bif]) : Precedes(Bif, x, e) BY <2>1, <2>3, OverlapArrives
    <3> DEFINE s == evque[Bif]
    <3>7. s \in Seq(Event) /\ Ordered(Bif, s) /\ \A x \in Range(s) : Precedes(Bif, x, e)
      BY <3>5, <3>6
    <3> HIDE DEF s
    <3>8. Range(Append(s, e)) = Range(s) \cup {e} BY <1>1, <3>7, Queued
    <3> QED BY <1>2, <2>1, <3>1, <3>3, <3>4, <3>8 DEF s
  <2> QED BY <2>2, <2>3
<1>8. ~offsetDone' => thrown' \/ \E s \in Overlaps!Sources : evque'[s] = <<>>
  <2>1. CASE Overlaps!Dropped(c, unfit) BY <1>2, <2>1 DEF ClockInv
  <2>2. CASE ~Overlaps!Dropped(c, unfit)
    <3>1. SUFFICES ASSUME ~offsetDone', ~thrown' PROVE \E s \in Overlaps!Sources : evque'[s] = <<>>
      OBVIOUS
    <3>2. ~starts /\ ~offsetDone /\ evque' = q BY <1>2, <2>2, <3>1
    <3>3. CASE Overlaps!Full(c)
      <4>1. c \in Overlaps!Sources BY <2>2 DEF Overlaps!Dropped, Overlaps!Known
      <4>2. evque'[c] = <<>> BY <1>3, <1>4, <3>2, <3>3, <4>1 DEF q
      <4> QED BY <4>1, <4>2
    <3>4. CASE ~Overlaps!Full(c) BY <3>2, <3>4 DEF starts
    <3> QED BY <3>3, <3>4
  <2> QED BY <2>1, <2>2
<1>9. offsetDone' => offset' = off
  <2>1. CASE ~(~Overlaps!Dropped(c, unfit) /\ starts /\ Overlaps!BORESeen(q))
    <3>1. offset' = offset /\ (offsetDone' => offsetDone)
      <4>1. CASE Overlaps!Dropped(c, unfit) BY <1>2, <4>1
      <4>2. CASE ~Overlaps!Dropped(c, unfit) /\ ~(starts /\ Overlaps!BORESeen(q)) BY <1>2, <4>2
      <4> QED BY <2>1, <4>1, <4>2
    <3> QED BY <3>1 DEF ClockInv
  <2>2. CASE ~Overlaps!Dropped(c, unfit) /\ starts /\ Overlaps!BORESeen(q)
    <3>1. offset' = Overlaps!Offset(Overlaps!Tag(Cal, q), Overlaps!Tag(Bif, q)) /\ evque' = q /\ ~offsetDone
      BY <1>2, <2>2 DEF starts
    <3>2. Overlaps!IsBORE(Cal, q)
      BY <1>3, <2>2 DEF Overlaps!BORESeen
    <3>3. Overlaps!IsBORE(Bif, q)
      <4>1. CASE Overlaps!WithTel BY <1>3, <2>2, <4>1 DEF Overlaps!BORESeen
      <4>2. CASE ~Overlaps!WithTel
        <5>1. kind = "calts" BY <4>2 DEF Overlaps!WithTel, OverlapTypes
        <5>2. got'[Bif] = Range(q[Bif]) BY <1>7, <3>1, <5>1
        <5> DEFINE s == q[Bif]
        <5>3. s \in Seq(Event) /\ Ordered(Bif, s) /\ s # <<>> BY <1>3, <2>2, <3>1 DEF starts
        <5> HIDE DEF s
        <5>4. Range(s) = {Head(s)} \cup Range(Tail(s)) /\ \A x \in Range(Tail(s)) : Precedes(Bif, Head(s), x)
          BY <5>3, Used
        <5>5. \A x \in got'[Bif] : x = Head(q[Bif]) \/ Precedes(Bif, Head(q[Bif]), x) BY <5>2, <5>4 DEF s
        <5> QED BY <5>5 DEF Overlaps!IsBORE, Overlaps!Before, Precedes, Overlaps!Timed, Paired
      <4> QED BY <4>1, <4>2
    <3>4. offset' = Started BY <3>1, <3>2, <3>3 DEF Overlaps!Tag, Started
    <3> QED BY <3>4 DEF ClockInv
  <2> QED BY <2>1, <2>2
<1>10. Overlaps!Sources' = Overlaps!Sources BY <1>1 DEF Overlaps!Sources, Overlaps!WithTel
<1>11. kind' = "calts" => accept' /\ (~offsetDone' => got'[Bif] = Range(evque'[Bif]))
  <2>1. offsetDone => offsetDone' BY <1>2
  <2> QED BY <1>1, <1>7, <2>1 DEF ClockInv
<1> QED BY <1>1, <1>5, <1>6, <1>8, <1>9, <1>10, <1>11 DEF ClockInv

\* What comes is queued, or it is dropped by a collector that loses events.
LEMMA OverlapReceive ==
  ASSUME NEW off \in Int, OverlapInv(off), NEW c \in Conns, NEW e \in Overlaps!Sendable(c),
         NEW unfit \in Overlaps!Unfit(c), Overlaps!Receive(c, e, unfit)
  PROVE  OverlapInv(off)'
<1>1. /\ OverlapTypes /\ ClockInv(off) /\ WaitingInv /\ ReachInv(off, Bif, Cal) /\ ReachInv(off, Cal, Bif) /\ FileInv(off)
      /\ UsedInv /\ AloneInv(off, Bif, Cal) /\ AloneInv(off, Cal, Bif) /\ KeptInv(off) /\ TelescopeInv
  BY DEF OverlapInv
<1>2. /\ UNCHANGED <<kind, env, run, last, accept, out>> /\ e \in Event
      /\ got' = [got EXCEPT ![c] = @ \cup {e}]
      /\ \A o \in got[c] : Precedes(c, o, e)
      /\ c \in Parties => Proper(c, e)
      /\ c \in Paired => Beg(off, c, e) >= 0
      /\ \A d \in Parties \ {c} : evque'[d] = evque[d]
      /\ DOMAIN evque' = Parties
      /\ c \in Parties => evque'[c] \in {evque[c], <<>>, Append(evque[c], e)}
      /\ ~accept => evque' = evque
      /\ Lossless /\ accept /\ c \in Parties /\ ~(c = Tel /\ kind = "calts") =>
           evque'[c] = Append(evque[c], e)
  BY <1>1, OverlapArrives
<1>3. /\ Parties \subseteq Conns /\ Paired \subseteq Parties /\ Parties = {Bif, Cal, Tel} /\ Tel \notin Paired
      /\ Bif \in Paired /\ Cal \in Paired /\ Tel \in Parties
  BY NamesAssumption DEF Parties, Paired
<1>4. /\ got \in [Conns -> SUBSET Event] /\ evque \in [Parties -> Seq(Event)] /\ last \in [Parties -> Event]
      /\ out \in Seq(Packet) /\ kind \in {"calts", "caltel"}
      /\ \A d \in Parties : \A x \in got[d] : Proper(d, x)
  BY <1>1 DEF OverlapTypes
<1>5. got'[c] = got[c] \cup {e} /\ (\A d \in Conns \ {c} : got'[d] = got[d]) /\ got' \in [Conns -> SUBSET Event]
  BY <1>2, <1>4
<1>6. ASSUME NEW d \in Conns
      PROVE  /\ got[d] \subseteq got'[d] /\ got[d] \subseteq Event /\ got'[d] \subseteq Event
             /\ \A x \in got'[d] : x \in got[d] \/ \A o \in got[d] : Precedes(d, o, x)
             /\ \A x \in got'[d] : x \in got[d] \/ (x = e /\ d = c)
  <2>1. CASE d = c BY <1>2, <1>4, <1>5, <2>1
  <2>2. CASE d # c BY <1>4, <1>5, <2>2
  <2> QED BY <2>1, <2>2
<1>7. ASSUME NEW d \in Parties
      PROVE  /\ evque'[d] \in Seq(Event) /\ Ordered(d, evque'[d]) /\ Range(evque'[d]) \subseteq got'[d]
             /\ \A x \in Range(evque'[d]) : x \in Range(evque[d]) \/ \A o \in got[d] : Precedes(d, o, x)
             /\ Lossless /\ accept /\ ~(d = Tel /\ kind = "calts") =>
                  /\ Range(evque[d]) \subseteq Range(evque'[d])
                  /\ \A x \in got'[d] : x \in got[d] \/ x \in Range(evque'[d])
  <2>1. evque[d] \in Seq(Event) /\ Ordered(d, evque[d]) /\ Range(evque[d]) \subseteq got[d] /\ d \in Conns
    BY <1>1, <1>3, <1>4 DEF WaitingInv
  <2>2. CASE d # c
    <3>1. evque'[d] = evque[d] /\ got'[d] = got[d] BY <1>2, <1>5, <2>1, <2>2
    <3> QED BY <2>1, <3>1
  <2>3. CASE d = c
    <3> DEFINE s == evque[d]
    <3>1. s \in Seq(Event) /\ Ordered(d, s) /\ (\A x \in Range(s) : Precedes(d, x, e))
      BY <1>2, <2>1, <2>3
    <3>2. evque'[d] \in {s, <<>>, Append(s, e)} /\ Range(s) \subseteq got[d] BY <1>2, <2>1, <2>3
    <3>3. Lossless /\ accept /\ ~(d = Tel /\ kind = "calts") => evque'[d] = Append(s, e)
      BY <1>2, <2>3
    <3> HIDE DEF s
    <3>4. Append(s, e) \in Seq(Event) /\ Ordered(d, Append(s, e)) /\ Range(Append(s, e)) = Range(s) \cup {e}
      BY <1>2, <3>1, Queued
    <3>5. <<>> \in Seq(Event) /\ Ordered(d, <<>>) /\ Range(<<>>) = {} BY Nothing DEF Ordered
    <3>6. got'[d] = got[d] \cup {e} /\ \A o \in got[d] : Precedes(d, o, e) BY <1>2, <1>5, <2>3
    <3>7. evque'[d] \in Seq(Event) /\ Ordered(d, evque'[d]) BY <3>1, <3>2, <3>4, <3>5
    <3>8. Range(evque'[d]) \subseteq Range(s) \cup {e} BY <3>2, <3>4, <3>5
    <3>9. Lossless /\ accept /\ ~(d = Tel /\ kind = "calts") => Range(evque'[d]) = Range(s) \cup {e}
      BY <3>3, <3>4
    <3> QED BY <3>2, <3>6, <3>7, <3>8, <3>9 DEF s
  <2> QED BY <2>2, <2>3
<1>8. OverlapTypes'
  <2>1. \A d \in Parties : \A x \in got'[d] : Proper(d, x)'
    <3>1. \A d \in Parties : \A x \in got'[d] : Proper(d, x) BY <1>2, <1>3, <1>4, <1>6
    <3> QED BY <1>2, <3>1 DEF Proper
  <2>2. evque' \in [Parties -> Seq(Event)]
    <3>1. evque' = [d \in Parties |-> evque'[d]]
      <4>1. CASE evque' = evque BY <1>4, <4>1
      <4>2. CASE evque' # evque
        <5>1. evque' = [evque EXCEPT ![c] = IF Overlaps!Full(c) THEN <<>> ELSE Append(@, e)]
          BY <4>2 DEF Overlaps!Receive
        <5> QED BY <1>4, <5>1
      <4> QED BY <4>1, <4>2
    <3> QED BY <1>7, <3>1
  <2> QED BY <1>2, <1>4, <1>5, <2>1, <2>2 DEF OverlapTypes
<1>9. WaitingInv'
  <2>1. ASSUME NEW d \in Parties
        PROVE  /\ last[d] # Unused => /\ last[d] \in got'[d]
                                      /\ \A x \in Range(evque'[d]) : Precedes(d, last[d], x)
               /\ ~accept => evque'[d] = <<>> /\ last[d] = Unused
    BY <1>1, <1>2, <1>3, <1>6, <1>7 DEF WaitingInv
  <2> QED BY <1>2, <1>7, <2>1 DEF WaitingInv
<1>10. ASSUME NEW b \in Paired, NEW d \in Paired, ReachInv(off, b, d) PROVE ReachInv(off, b, d)'
  <2>1. SUFFICES ASSUME last[b] # Unused
                 PROVE  /\ \A x \in Range(evque'[d]) : Beg(off, b, last[b]) < End(off, d, x)
                        /\ \E o \in got'[d] : Beg(off, b, last[b]) < End(off, d, o)
    BY <1>2 DEF ReachInv
  <2>2. (\A x \in Range(evque[d]) : Beg(off, b, last[b]) < End(off, d, x)) BY <1>10, <2>1 DEF ReachInv
  <2>3. PICK o \in got[d] : Beg(off, b, last[b]) < End(off, d, o) BY <1>10, <2>1 DEF ReachInv
  <2>4. d \in Parties /\ d # Tel /\ b \in Parties BY <1>3
  <2>5. ASSUME NEW x \in Range(evque'[d]), Precedes(d, o, x) PROVE Beg(off, b, last[b]) < End(off, d, x)
    <3>1. o \in Event /\ x \in Event /\ last[b] \in Event BY <1>3, <1>4, <1>6, <1>7, <2>4
    <3>2. End(off, d, o) \in Int /\ End(off, d, x) \in Int /\ Beg(off, b, last[b]) \in Int
      BY <3>1, TimesAre
    <3>3. End(off, d, o) <= End(off, d, x) BY <2>5, <3>1, UptoSays DEF Upto
    <3> QED BY <2>3, <3>2, <3>3
  <2> QED BY <1>3, <1>6, <1>7, <2>2, <2>3, <2>4, <2>5
<1>11. FileInv(off)'
  <2>1. \A d \in Paired : got[d] \subseteq got'[d] BY <1>3, <1>6
  <2> QED BY <1>1, <1>2, <2>1 DEF FileInv
<1>12. Lossless' = Lossless BY <1>2 DEF Lossless
<1>13. UsedInv' BY <1>1, <1>2, <1>7, <1>12 DEF UsedInv
<1>14. ASSUME NEW b \in Parties, NEW d \in Paired, AloneInv(off, b, d) PROVE AloneInv(off, b, d)'
  <2>1. SUFFICES ASSUME Lossless, NEW w \in Range(out), b \in DOMAIN w, d \notin DOMAIN w
                 PROVE  Lonely(off, b, w[b], d)'
    BY <1>2, <1>12 DEF AloneInv
  <2>2. Lonely(off, b, w[b], d) BY <1>14, <2>1 DEF AloneInv
  <2>3. w[b] \in Event BY <1>1, <2>1, FilePackets
  <2>4. d \in Conns BY <1>3
  <2> DEFINE x == w[b]
  <2>5. x \in Event /\ Lonely(off, b, x, d) BY <2>2, <2>3
  <2> HIDE DEF x
  <2>6. Lonely(off, b, x, d)' BY <1>6, <2>4, <2>5, LonelyStays
  <2> QED BY <2>6 DEF x
<1>15. KeptInv(off)'
  <2>1. SUFFICES ASSUME Lossless, accept, NEW d \in Parties, NEW x \in got'[d]
                 PROVE  \/ x \in Range(evque'[d]) \/ \E w \in Range(out) : d \in DOMAIN w /\ w[d] = x
                        \/ kind = "caltel" /\ d = Bif /\ Lonely(off, Bif, x, Cal)'
                        \/ d = Tel /\ kind = "calts"
    BY <1>2, <1>12 DEF KeptInv
  <2>2. CASE x \notin got[d] BY <1>7, <2>1, <2>2
  <2>3. CASE x \in got[d]
    <3>1. CASE kind = "caltel" /\ d = Bif /\ Lonely(off, Bif, x, Cal)
      <4>1. x \in Event /\ Cal \in Conns BY <1>3, <1>6, <2>3
      <4>2. Lonely(off, Bif, x, Cal)' BY <1>3, <1>6, <3>1, <4>1, LonelyStays
      <4> QED BY <3>1, <4>2
    <3>2. CASE x \in Range(evque[d]) BY <1>7, <2>1, <3>2
    <3> QED BY <1>1, <2>1, <2>3, <3>1, <3>2 DEF KeptInv
  <2> QED BY <2>2, <2>3
<1>16. TelescopeInv'
  <2>1. SUFFICES ASSUME kind = "caltel", Lossless, NEW w \in Range(out), Cal \in DOMAIN w, Tel \notin DOMAIN w
                 PROVE  /\ \A x \in got'[Tel] : Trg(Tel, x) # Trg(Cal, w[Cal])
                        /\ \E o \in got'[Tel] : Trg(Tel, o) >= Trg(Cal, w[Cal])
    BY <1>1, <1>2, <1>12 DEF TelescopeInv
  <2>2. (\A x \in got[Tel] : Trg(Tel, x) # Trg(Cal, w[Cal])) BY <1>1, <2>1 DEF TelescopeInv
  <2>3. PICK o \in got[Tel] : Trg(Tel, o) >= Trg(Cal, w[Cal]) BY <1>1, <2>1 DEF TelescopeInv
  <2>4. Tel \in Conns BY <1>3
  <2>5. ASSUME NEW x \in got'[Tel], Precedes(Tel, o, x) PROVE Trg(Tel, x) # Trg(Cal, w[Cal])
    <3>1. x \in Event /\ o \in Event /\ w[Cal] \in Event BY <1>1, <1>6, <2>1, <2>4, FilePackets
    <3>2. Trg(Tel, x) \in Nat /\ Trg(Tel, o) \in Nat /\ Trg(Cal, w[Cal]) \in Nat BY <3>1, TriggersAre
    <3>3. o[3] > 0 BY <1>3, <1>4 DEF Proper
    <3>4. o[3] < x[3] BY <2>5, <3>1, <3>3 DEF Precedes, Event
    <3>5. Trg(Tel, o) < Trg(Tel, x) BY <3>1, <3>4, TriggersAre
    <3> QED BY <2>3, <3>2, <3>5
  <2> QED BY <1>6, <2>2, <2>3, <2>4, <2>5
<1>17. ClockInv(off)' BY <1>1, <1>7, OverlapTimes
<1> QED BY <1>1, <1>3, <1>8, <1>9, <1>10, <1>11, <1>13, <1>14, <1>15, <1>16, <1>17 DEF OverlapInv

-----------------------------------------------------------------------------
\* The producers that have a part in the round.
InRound == Overlaps!Taken \cup Overlaps!Again

\* The round of the AHCAL and the BIF: what begins before the round ends is
\* taken, and of one that is not taken the last event takes part if it reaches
\* into the round.
LEMMA RoundSides ==
  ASSUME NEW off \in Int, OverlapInv(off), Overlaps!Round
  PROVE  /\ UNCHANGED <<kind, env, run, got, accept, offsetDone, offset>> /\ accept
         /\ Overlaps!Taken \subseteq Paired /\ InRound \subseteq Paired /\ Overlaps!Taken # {}
         /\ \A c \in Paired :
              /\ evque[c] # <<>>
              /\ last'[c] = IF c \in Overlaps!Taken THEN Head(evque[c]) ELSE last[c]
              /\ evque'[c] = IF c \in Overlaps!Taken THEN Tail(evque[c]) ELSE evque[c]
         /\ Bif \in InRound /\ Cal \in InRound => Meets(off, Bif, last'[Bif], Cal, last'[Cal])
         /\ \A c \in Paired, d \in Paired : c # d /\ d \notin Overlaps!Taken =>
              /\ c \in Overlaps!Taken /\ End(off, c, Head(evque[c])) <= Beg(off, d, Head(evque[d]))
              /\ d \notin InRound /\ last[d] # Unused => End(off, d, last[d]) <= Beg(off, c, Head(evque[c]))
              /\ d \in InRound => last[d] # Unused
         /\ DOMAIN Overlaps!Sub = InRound /\ \A c \in InRound : Overlaps!Sub[c] = last'[c]
         /\ Overlaps!Triggered <=> Cal \in InRound
         /\ Cal \in InRound => Overlaps!Trigger = Trg(Cal, last'[Cal])
<1> DEFINE f == [c \in Paired |-> Head(evque[c])]
<1> DEFINE T == Overlaps!Taken
<1> DEFINE A == Overlaps!Again
<1>1. OverlapTypes /\ ClockInv(off) /\ WaitingInv /\ ReachInv(off, Bif, Cal) /\ ReachInv(off, Cal, Bif) BY DEF OverlapInv
<1>2. /\ Paired \subseteq Parties /\ Paired = {Bif, Cal} /\ Bif \in Paired /\ Cal \in Paired /\ Bif # Cal
      /\ Overlaps!Timed = Paired /\ Parties = {Bif, Cal, Tel} /\ Tel \notin Paired /\ Parties \subseteq Conns
  BY NamesAssumption DEF Parties, Paired, Overlaps!Timed
<1>3. /\ got \in [Conns -> SUBSET Event] /\ evque \in [Parties -> Seq(Event)] /\ last \in [Parties -> Event]
      /\ \A c \in Parties : \A e \in got[c] : Proper(c, e)
  BY <1>1 DEF OverlapTypes
<1>4. Overlaps!Mergeable(evque) BY DEF Overlaps!Round, Overlaps!AtRest
<1>5. \A c \in Paired : evque[c] # <<>>
  BY <1>2, <1>4 DEF Overlaps!Mergeable, Overlaps!Sources
<1>6. UNCHANGED <<kind, env, run, got, accept, offsetDone, offset>>
  BY DEF Overlaps!Round, Overlaps!streamVars, Overlaps!clockVars
<1>7. accept BY <1>1, <1>2, <1>5 DEF WaitingInv
<1>8. \A c \in Paired : /\ last'[c] = IF c \in T THEN f[c] ELSE last[c]
                        /\ evque'[c] = IF c \in T THEN Tail(evque[c]) ELSE evque[c]
  <2>1. DOMAIN last = Parties /\ DOMAIN evque = Parties BY <1>3
  <2>2. \A c \in Paired : c # Tel /\ c \in Parties BY <1>2
  <2> QED BY <2>1, <2>2 DEF Overlaps!Round, Overlaps!First
<1>9. ASSUME NEW c \in Paired
      PROVE  /\ f[c] \in Event /\ f[c] \in got[c] /\ last[c] \in Event
             /\ Beg(off, c, f[c]) \in Nat /\ End(off, c, f[c]) \in Int /\ Beg(off, c, f[c]) < End(off, c, f[c])
             /\ End(off, c, last[c]) \in Int
  <2>1. evque[c] \in Seq(Event) /\ evque[c] # <<>> /\ c \in Parties BY <1>2, <1>3, <1>5
  <2>2. Head(evque[c]) \in Event /\ Head(evque[c]) = evque[c][1] /\ 1 \in DOMAIN evque[c] BY <2>1
  <2>3. Head(evque[c]) \in got[c] BY <1>1, <2>1, <2>2 DEF WaitingInv, Range
  <2>4. Proper(c, Head(evque[c])) BY <1>3, <2>1, <2>3
  <2>5. last[c] \in Event BY <1>3, <2>1
  <2>6. Beg(off, c, Head(evque[c])) >= 0 BY <1>1, <2>3 DEF ClockInv
  <2> QED BY <2>2, <2>3, <2>4, <2>5, <2>6, TimesAre DEF Proper
<1>10. \A c \in Paired : Overlaps!First(c) = f[c] BY DEF Overlaps!First
<1>11. offset = off
  <2>1. offsetDone
    <3>1. ~thrown BY DEF Overlaps!Round, Overlaps!AtRest
    <3>2. \A c \in Overlaps!Sources : evque[c] # <<>> BY <1>4 DEF Overlaps!Mergeable
    <3> QED BY <1>1, <3>1, <3>2 DEF ClockInv
  <2> QED BY <1>1, <2>1 DEF ClockInv
<1>12. ASSUME NEW c \in Paired
       PROVE  /\ Overlaps!Beg(c, Overlaps!First(c)) = Beg(off, c, f[c])
              /\ Overlaps!End(c, Overlaps!First(c)) = End(off, c, f[c])
              /\ Overlaps!LastEnd(c) = IF last[c] = Unused THEN 0 ELSE End(off, c, last[c])
  BY <1>10, <1>11 DEF Overlaps!Beg, Overlaps!End, Overlaps!LastEnd, Overlaps!None, Unused, Beg, End
<1> DEFINE g == [c \in Paired |-> IF last[c] = Unused THEN 0 ELSE End(off, c, last[c])]
<1>13. \A c \in Paired : g[c] = (IF last[c] = Unused THEN 0 ELSE End(off, c, last[c])) /\ g[c] \in Int
  BY <1>9
<1> HIDE DEF f, g
<1>14. ASSUME NEW c \in Paired, NEW d \in Paired, c # d
       PROVE  /\ c \in T <=> Beg(off, c, f[c]) < End(off, c, f[c]) /\ Beg(off, c, f[c]) < End(off, d, f[d])
              /\ d \in A <=> d \notin T /\ (g[d] > Beg(off, c, f[c]) \/ g[d] > Beg(off, d, f[d]))
  <2>1. /\ Overlaps!RoundEnd \in {End(off, c, f[c]), End(off, d, f[d])}
        /\ Overlaps!RoundEnd <= End(off, c, f[c]) /\ Overlaps!RoundEnd <= End(off, d, f[d]) /\ Overlaps!RoundEnd \in Int
    BY <1>2, <1>9, <1>12, <1>14 DEF Overlaps!RoundEnd, Overlaps!Lesser
  <2>2. /\ Overlaps!RoundBeg \in {Beg(off, c, f[c]), Beg(off, d, f[d])}
        /\ Overlaps!RoundBeg <= Beg(off, c, f[c]) /\ Overlaps!RoundBeg <= Beg(off, d, f[d]) /\ Overlaps!RoundBeg \in Nat
    BY <1>2, <1>9, <1>12, <1>14 DEF Overlaps!RoundBeg, Overlaps!Lesser
  <2>3. c \in T <=> Beg(off, c, f[c]) < Overlaps!RoundEnd
    BY <1>2, <1>12 DEF Overlaps!Taken
  <2>4. d \in A <=> d \notin T /\ g[d] > Overlaps!RoundBeg
    BY <1>2, <1>12, <1>13 DEF Overlaps!Again
  <2>5. c \in T <=> Beg(off, c, f[c]) < End(off, c, f[c]) /\ Beg(off, c, f[c]) < End(off, d, f[d]) BY <1>9, <2>1, <2>3
  <2>6. d \in A <=> d \notin T /\ (g[d] > Beg(off, c, f[c]) \/ g[d] > Beg(off, d, f[d]))
    BY <1>9, <1>13, <2>2, <2>4
  <2> QED BY <2>5, <2>6
<1>15. T \subseteq Paired /\ A \subseteq Paired /\ T \cap A = {}
  BY <1>2 DEF Overlaps!Taken, Overlaps!Again
<1> HIDE DEF T, A
<1>16. InRound = T \cup A BY DEF InRound, T, A
<1>17. ASSUME NEW c \in Paired, NEW d \in Paired, c # d, d \notin T
       PROVE  /\ c \in T /\ End(off, c, f[c]) <= Beg(off, d, f[d])
              /\ d \notin InRound => g[d] <= Beg(off, c, f[c])
              /\ d \in InRound => last[d] # Unused /\ End(off, d, last[d]) > Beg(off, c, f[c])
  <2>1. d \in T <=> Beg(off, d, f[d]) < End(off, d, f[d]) /\ Beg(off, d, f[d]) < End(off, c, f[c]) BY <1>14, <1>17
  <2>2. c \in T <=> Beg(off, c, f[c]) < End(off, c, f[c]) /\ Beg(off, c, f[c]) < End(off, d, f[d]) BY <1>14, <1>17
  <2>3. d \in A <=> d \notin T /\ (g[d] > Beg(off, c, f[c]) \/ g[d] > Beg(off, d, f[d])) BY <1>14, <1>17
  <2>4. End(off, c, f[c]) <= Beg(off, d, f[d]) BY <1>9, <1>17, <2>1
  <2>5. c \in T BY <1>9, <2>2, <2>4
  <2>6. d \notin InRound => g[d] <= Beg(off, c, f[c]) BY <1>9, <1>13, <1>16, <1>17, <2>3
  <2>7. d \in InRound => g[d] > Beg(off, c, f[c]) BY <1>9, <1>13, <1>16, <1>17, <2>3, <2>4
  <2>8. d \in InRound => last[d] # Unused /\ g[d] = End(off, d, last[d]) BY <1>9, <1>13, <2>7
  <2> QED BY <2>4, <2>5, <2>6, <2>7, <2>8
<1>18. T # {} BY <1>2, <1>17
<1>19. ASSUME Bif \in InRound, Cal \in InRound PROVE Meets(off, Bif, last'[Bif], Cal, last'[Cal])
  <2>1. CASE Bif \in T /\ Cal \in T
    <3>1. last'[Bif] = f[Bif] /\ last'[Cal] = f[Cal] BY <1>2, <1>8, <2>1
    <3>2. Beg(off, Bif, f[Bif]) < End(off, Cal, f[Cal]) /\ Beg(off, Cal, f[Cal]) < End(off, Bif, f[Bif]) BY <1>2, <1>14, <2>1
    <3> QED BY <3>1, <3>2 DEF Meets
  <2>2. ASSUME NEW c \in Paired, NEW d \in Paired, c # d, d \notin T, d \in InRound, ReachInv(off, d, c)
        PROVE  Meets(off, c, last'[c], d, last'[d]) /\ Meets(off, d, last'[d], c, last'[c])
    <3>1. c \in T /\ last[d] # Unused /\ End(off, d, last[d]) > Beg(off, c, f[c]) BY <1>17, <2>2
    <3>2. last'[c] = f[c] /\ last'[d] = last[d] BY <1>8, <2>2, <3>1
    <3>3. evque[c] \in Seq(Event) /\ evque[c] # <<>> BY <1>2, <1>3, <1>5
    <3>4. f[c] \in Range(evque[c])
      <4>1. Head(evque[c]) = evque[c][1] /\ 1 \in DOMAIN evque[c] BY <3>3
      <4> QED BY <4>1 DEF Range, f
    <3>5. Beg(off, d, last[d]) < End(off, c, f[c]) BY <2>2, <3>1, <3>4 DEF ReachInv
    <3>6. Beg(off, c, f[c]) < End(off, d, last[d]) BY <1>9, <2>2, <3>1
    <3> QED BY <3>2, <3>5, <3>6 DEF Meets
  <2> QED BY <1>1, <1>2, <1>19, <2>1, <2>2
<1>20. DOMAIN Overlaps!Sub = InRound /\ \A c \in InRound : Overlaps!Sub[c] = last'[c]
  <2>1. Overlaps!Sub = [c \in InRound |-> IF c \in T THEN Overlaps!First(c) ELSE last[c]]
    BY DEF Overlaps!Sub, InRound, T
  <2> QED BY <1>8, <1>10, <1>15, <1>16, <2>1
<1>21. Overlaps!Triggered <=> Cal \in InRound
  <2>1. Overlaps!Triggered <=> Cal \in T \/ A # {} BY DEF Overlaps!Triggered, T, A
  <2>2. A # {} => Cal \in InRound BY <1>2, <1>15, <1>16, <1>17
  <2> QED BY <1>15, <1>16, <2>1, <2>2
<1>22. Cal \in InRound => Overlaps!Trigger = Trg(Cal, last'[Cal])
  BY <1>20 DEF Overlaps!Trigger, Trg
<1>23. InRound \subseteq Paired BY <1>15, <1>16
<1>24. \A c \in Paired : f[c] = Head(evque[c]) BY DEF f
<1>25. T = Overlaps!Taken BY DEF T
<1>26. \A d \in Paired : last[d] # Unused => g[d] = End(off, d, last[d]) BY <1>13
<1> QED BY <1>5, <1>6, <1>7, <1>8, <1>15, <1>17, <1>18, <1>19, <1>20, <1>21, <1>22, <1>23, <1>24, <1>25, <1>26

\* The telescope's part in a round: its queue is split at the trigger of the
\* AHCAL, for which it has an event or a later one.
LEMMA RoundTelescope ==
  ASSUME NEW off \in Int, OverlapInv(off), Overlaps!Round, kind = "caltel", Cal \in InRound
  PROVE  /\ Overlaps!Earlier \in Seq(Event) /\ Overlaps!Later \in Seq(Event)
         /\ Ordered(Tel, Overlaps!Later) /\ Overlaps!Later # <<>>
         /\ Range(evque[Tel]) = Range(Overlaps!Earlier) \cup Range(Overlaps!Later)
         /\ Head(Overlaps!Later) \in Range(evque[Tel])
         /\ Trg(Tel, Head(Overlaps!Later)) >= Trg(Cal, last'[Cal])
         /\ \A x \in Range(Overlaps!Later) : Upto(Tel, Head(Overlaps!Later), x)
         /\ \A x \in Range(Overlaps!Earlier) :
              /\ Trg(Tel, x) < Trg(Cal, last'[Cal]) /\ Upto(Tel, x, Overlaps!LastTel)
              /\ Precedes(Tel, x, Head(Overlaps!Later))
         /\ IF Overlaps!Earlier = <<>> THEN Overlaps!LastTel = last[Tel]
            ELSE Overlaps!LastTel \in Range(Overlaps!Earlier)
         /\ Overlaps!NextMatches <=> Trg(Tel, Head(Overlaps!Later)) = Trg(Cal, last'[Cal])
         /\ evque'[Tel] = IF Overlaps!NextMatches THEN Tail(Overlaps!Later) ELSE Overlaps!Later
         /\ last'[Tel] = IF Overlaps!NextMatches THEN Head(Overlaps!Later) ELSE Overlaps!LastTel
         /\ last'[Cal] \in Event
         /\ Overlaps!Partner =
              IF Overlaps!NextMatches THEN <<Head(Overlaps!Later)>>
              ELSE IF Overlaps!LastTel # Unused /\ Trg(Tel, Overlaps!LastTel) = Trg(Cal, last'[Cal])
                   THEN <<Overlaps!LastTel>> ELSE <<>>
<1> DEFINE s == evque[Tel]
<1> DEFINE g == Trg(Cal, last'[Cal])
<1> DEFINE I == {i \in 1 .. Len(s) : Trg(Tel, s[i]) >= g}
<1> DEFINE n == Overlaps!NotBefore
<1>1. OverlapTypes /\ WaitingInv BY DEF OverlapInv
<1>2. /\ Tel \in Parties /\ Cal \in Parties /\ Cal \in Paired /\ Paired = {Bif, Cal} /\ Bif # Cal
      /\ Tel \notin Paired /\ Bif \in Paired
  BY NamesAssumption DEF Parties, Paired
<1>3. /\ evque \in [Parties -> Seq(Event)] /\ last \in [Parties -> Event]
      /\ \A c \in Parties : \A e \in got[c] : Proper(c, e)
  BY <1>1 DEF OverlapTypes
<1>4. Overlaps!Triggered /\ Overlaps!Trigger = g BY RoundSides
<1>5. Overlaps!Mergeable(evque) /\ Overlaps!WithTel
  BY DEF Overlaps!Round, Overlaps!AtRest, Overlaps!WithTel
<1>6. /\ s # <<>> /\ evque[Cal] # <<>>
      /\ Trg(Tel, Overlaps!Last(s)) >= Trg(Cal, Head(evque[Cal]))
  BY <1>2, <1>5 DEF Overlaps!Mergeable, Overlaps!Sources, Overlaps!Timed, Overlaps!WithTel, Trg
<1>7. s \in Seq(Event) /\ Ordered(Tel, s) /\ Len(s) \in Nat \ {0} /\ \A i \in 1 .. Len(s) : s[i] \in Event /\ s[i] \in got[Tel]
  <2>1. s \in Seq(Event) /\ Ordered(Tel, s) /\ Range(s) \subseteq got[Tel] BY <1>1, <1>2, <1>3 DEF WaitingInv
  <2>2. Len(s) \in Nat \ {0} /\ DOMAIN s = 1 .. Len(s) BY <1>6, <2>1
  <2> QED BY <2>1, <2>2 DEF Range
<1>8. last'[Cal] \in {last[Cal], Head(evque[Cal])} BY <1>2, RoundSides
<1>9. Head(evque[Cal]) \in Event /\ Head(evque[Cal]) \in Range(evque[Cal])
  <2>1. evque[Cal] \in Seq(Event) BY <1>2, <1>3
  <2>2. Head(evque[Cal]) \in Event /\ Head(evque[Cal]) = evque[Cal][1] /\ 1 \in DOMAIN evque[Cal] BY <1>6, <2>1
  <2> QED BY <2>2 DEF Range
<1>10. last'[Cal] \in Event /\ g \in Nat /\ g <= Trg(Cal, Head(evque[Cal]))
  <2>1. last[Cal] \in Event BY <1>2, <1>3
  <2>2. last'[Cal] \in Event BY <1>8, <1>9, <2>1
  <2>3. CASE last'[Cal] = Head(evque[Cal]) BY <1>9, <2>3, TriggersAre
  <2>4. CASE last'[Cal] = last[Cal]
    <3>1. CASE last[Cal] = Unused
      <4>1. last[Cal][3] = 0 /\ Head(evque[Cal])[3] \in Nat BY <1>9, <3>1 DEF Unused, Event
      <4>2. last[Cal][3] <= Head(evque[Cal])[3] BY <4>1
      <4> QED BY <1>9, <2>1, <2>2, <2>4, <4>2, TriggersAre
    <3>2. CASE last[Cal] # Unused
      <4>1. last[Cal] \in got[Cal] /\ Precedes(Cal, last[Cal], Head(evque[Cal]))
        BY <1>1, <1>2, <1>9, <3>2 DEF WaitingInv
      <4>2. Upto(Cal, last[Cal], Head(evque[Cal])) BY <4>1 DEF Upto
      <4>3. Trg(Cal, last[Cal]) <= Trg(Cal, Head(evque[Cal])) BY <1>9, <2>1, <4>2, UptoSays
      <4> QED BY <2>1, <2>2, <2>4, <4>3, TriggersAre
    <3> QED BY <3>1, <3>2
  <2> QED BY <1>8, <2>2, <2>3, <2>4
<1>11. Overlaps!Last(s) = s[Len(s)] BY DEF Overlaps!Last
<1>12. n = IF I # {} THEN CHOOSE x \in I : \A y \in I : x <= y ELSE 0
  BY <1>4 DEF Overlaps!NotBefore, Overlaps!SelectInSeq, Overlaps!Min, Trg
<1>13. /\ Overlaps!Earlier = IF n = 0 THEN s ELSE SubSeq(s, 1, n - 1)
       /\ Overlaps!Later = SubSeq(s, Len(Overlaps!Earlier) + 1, Len(s))
  BY DEF Overlaps!Earlier, Overlaps!Later
<1>14. \A i \in 1 .. Len(s) : Trg(Tel, s[i]) \in Nat /\ Trg(Tel, s[i]) > 0
  <2>1. ASSUME NEW i \in 1 .. Len(s) PROVE Trg(Tel, s[i]) \in Nat /\ Trg(Tel, s[i]) > 0
    <3>1. s[i] \in Event /\ s[i][3] > 0 BY <1>2, <1>3, <1>7 DEF Proper
    <3> QED BY <3>1, TriggersAre
  <2> QED BY <2>1
<1> DEFINE E == Overlaps!Earlier
<1> DEFINE L == Overlaps!Later
<1> DEFINE t == Overlaps!LastTel
<1>15. /\ Overlaps!NextMatches <=> L # <<>> /\ Trg(Tel, Head(L)) = g
       /\ t = IF E # <<>> THEN E[Len(E)] ELSE last[Tel]
       /\ Overlaps!Partner =
              IF Overlaps!NextMatches THEN <<Head(L)>>
              ELSE IF t # Unused /\ Trg(Tel, t) = g THEN <<t>> ELSE <<>>
  BY <1>4 DEF Overlaps!NextMatches, Overlaps!LastTel, Overlaps!Last, Overlaps!Partner, Trg,
              Overlaps!None, Unused
<1>16. /\ evque'[Tel] = IF Overlaps!NextMatches THEN Tail(L) ELSE L
       /\ last'[Tel] = IF Overlaps!NextMatches THEN Head(L) ELSE t
  <2>1. DOMAIN last = Parties /\ DOMAIN evque = Parties BY <1>3
  <2>2. Tel \notin Overlaps!Taken BY <1>2, RoundSides
  <2> QED BY <1>2, <1>4, <1>5, <2>1, <2>2 DEF Overlaps!Round
<1> HIDE DEF s, g, I, n, E, L, t
<1>17. n \in 1 .. Len(s) /\ Trg(Tel, s[n]) >= g /\ \A i \in 1 .. n - 1 : Trg(Tel, s[i]) < g
  <2>1. Len(s) \in I
    <3>1. Trg(Tel, s[Len(s)]) >= Trg(Cal, Head(evque[Cal])) BY <1>6, <1>11
    <3>2. Trg(Cal, Head(evque[Cal])) \in Nat BY <1>9, TriggersAre
    <3>3. Len(s) \in 1 .. Len(s) BY <1>7
    <3> QED BY <1>10, <1>14, <3>1, <3>2, <3>3 DEF I
  <2>2. I \in SUBSET Nat BY DEF I
  <2>3. \E x \in I : \A y \in I : x <= y BY <2>1, <2>2, Least
  <2>4. n \in I /\ \A y \in I : n <= y BY <1>12, <2>1, <2>3, Zenon
  <2>5. n \in 1 .. Len(s) /\ Trg(Tel, s[n]) >= g BY <2>4 DEF I
  <2>6. ASSUME NEW i \in 1 .. n - 1 PROVE Trg(Tel, s[i]) < g
    <3>1. i \in 1 .. Len(s) /\ ~(n <= i) BY <1>7, <2>5, <2>6
    <3>2. i \notin I BY <2>4, <3>1
    <3> QED BY <1>10, <1>14, <3>1, <3>2 DEF I
  <2> QED BY <2>5, <2>6
<1>18. E = SubSeq(s, 1, n - 1)
  <2>1. n # 0 BY <1>17
  <2> QED BY <1>13, <2>1 DEF E
<1>19. /\ E \in Seq(Event) /\ Len(E) = n - 1 /\ \A i \in 1 .. n - 1 : E[i] = s[i]
       /\ SubSeq(s, n, Len(s)) \in Seq(Event) /\ Ordered(Tel, SubSeq(s, n, Len(s)))
       /\ SubSeq(s, n, Len(s)) # <<>> /\ Head(SubSeq(s, n, Len(s))) = s[n]
       /\ Range(s) = Range(E) \cup Range(SubSeq(s, n, Len(s)))
       /\ \A x \in Range(SubSeq(s, n, Len(s))) : Upto(Tel, s[n], x)
       /\ \A x \in Range(E) : Upto(Tel, x, s[n - 1]) /\ Precedes(Tel, x, s[n])
  BY <1>7, <1>17, <1>18, Split
<1>20. L = SubSeq(s, n, Len(s))
  <2>1. Len(E) + 1 = n BY <1>17, <1>19
  <2> QED BY <1>13, <2>1 DEF E, L
<1>21. /\ L \in Seq(Event) /\ Ordered(Tel, L) /\ L # <<>> /\ Head(L) = s[n]
       /\ Range(s) = Range(E) \cup Range(L) /\ \A x \in Range(L) : Upto(Tel, Head(L), x)
       /\ \A x \in Range(E) : Upto(Tel, x, s[n - 1]) /\ Precedes(Tel, x, Head(L))
  BY <1>19, <1>20
<1>22. DOMAIN E = 1 .. n - 1 BY <1>19
<1>23. \A x \in Range(E) : Trg(Tel, x) < g BY <1>17, <1>19, <1>22 DEF Range
<1>24. CASE E = <<>>
  <2>1. Range(E) = {} BY <1>24, Nothing
  <2>2. t = last[Tel] BY <1>15, <1>24
  <2>3. s[n] \in Range(s) BY <1>7, <1>17 DEF Range
  <2> QED BY <1>10, <1>15, <1>16, <1>17, <1>19, <1>21, <1>24, <2>1, <2>2, <2>3 DEF s, g, E, L, t
<1>25. CASE E # <<>>
  <2>1. t = E[Len(E)] BY <1>15, <1>25
  <2>2. Len(E) \in DOMAIN E /\ Len(E) = n - 1 BY <1>19, <1>25
  <2>3. t = s[n - 1] /\ t \in Range(E) BY <1>19, <1>22, <2>1, <2>2 DEF Range
  <2>4. \A x \in Range(E) : Upto(Tel, x, t) BY <1>21, <2>3
  <2>5. s[n] \in Range(s) BY <1>7, <1>17 DEF Range
  <2> QED BY <1>10, <1>15, <1>16, <1>17, <1>19, <1>21, <1>23, <1>25, <2>3, <2>4, <2>5 DEF s, g, E, L, t
<1> QED BY <1>24, <1>25

\* A round that has no part for the telescope leaves it alone.
LEMMA RoundWithout ==
  ASSUME NEW off \in Int, OverlapInv(off), Overlaps!Round, kind = "calts" \/ Cal \notin InRound
  PROVE  evque'[Tel] = evque[Tel] /\ last'[Tel] = last[Tel]
<1>1. DOMAIN last = Parties /\ DOMAIN evque = Parties BY DEF OverlapInv, OverlapTypes
<1>2. Tel \in Parties /\ Tel \notin Paired BY NamesAssumption DEF Parties, Paired
<1>3. Tel \notin Overlaps!Taken BY <1>2, RoundSides
<1>4. ~(Overlaps!WithTel /\ Overlaps!Triggered) BY RoundSides DEF Overlaps!WithTel
<1> QED BY <1>1, <1>2, <1>3, <1>4 DEF Overlaps!Round

\* A packet of the telescope alone, and the packet of the round.
OfTelescope(w) == DOMAIN w = {Tel} /\ w[Tel] \in Range(Overlaps!Earlier)
OfRound(w) ==
  /\ DOMAIN w \ {Tel} = InRound /\ \A c \in InRound : w[c] = last'[c]
  /\ Tel \in DOMAIN w <=> kind = "caltel" /\ Overlaps!Partner # <<>>
  /\ Tel \in DOMAIN w => w[Tel] = Overlaps!Partner[1]

\* A part of the file and the part after it.
LEMMA Joint ==
  ASSUME NEW s \in Seq(Packet), NEW t \in Seq(Packet)
  PROVE  /\ s \o t \in Seq(Packet) /\ Len(s \o t) = Len(s) + Len(t)
         /\ \A i \in 1 .. Len(s) : (s \o t)[i] = s[i]
         /\ \A i \in 1 .. Len(t) : (s \o t)[Len(s) + i] = t[i]
BY ConcatProperties

\* What is written in a round.
LEMMA RoundWrites ==
  ASSUME NEW off \in Int, OverlapInv(off), Overlaps!Round
  PROVE  /\ Overlaps!Written \in Seq(Packet)
         /\ \A w \in Range(Overlaps!Written) :
              /\ kind = "caltel" => Cal \in InRound
              /\ OfRound(w) \/ (kind = "caltel" /\ OfTelescope(w))
         /\ kind = "calts" \/ Cal \in InRound => \E w \in Range(Overlaps!Written) : OfRound(w)
         /\ kind = "caltel" /\ Cal \in InRound =>
              \A x \in Range(Overlaps!Earlier) :
                \E w \in Range(Overlaps!Written) : Tel \in DOMAIN w /\ w[Tel] = x
<1> DEFINE W == Overlaps!Written
<1> DEFINE E == Overlaps!Earlier
<1> DEFINE P == Overlaps!Partner
<1> DEFINE J == Overlaps!Joined
<1>1. OverlapTypes /\ WaitingInv BY DEF OverlapInv
<1>2. /\ Paired \subseteq Parties /\ Paired = {Bif, Cal} /\ Tel \in Parties /\ Tel \notin Paired
      /\ Cal \in Paired /\ Cal \in Parties
  BY NamesAssumption DEF Parties, Paired
<1>3. /\ evque \in [Parties -> Seq(Event)] /\ last \in [Parties -> Event] /\ kind \in {"calts", "caltel"}
  BY <1>1 DEF OverlapTypes
<1>4. /\ InRound \subseteq Paired /\ DOMAIN Overlaps!Sub = InRound
      /\ \A c \in InRound : Overlaps!Sub[c] = last'[c]
      /\ Overlaps!Triggered <=> Cal \in InRound
  BY RoundSides
<1>5. \A c \in Paired : last'[c] \in Event
  <2>1. ASSUME NEW c \in Paired PROVE last'[c] \in Event
    <3>1. evque[c] # <<>> /\ last'[c] \in {Head(evque[c]), last[c]} BY RoundSides
    <3>2. evque[c] \in Seq(Event) /\ last[c] \in Event BY <1>2, <1>3
    <3>3. Head(evque[c]) \in Event BY <3>1, <3>2
    <3> QED BY <3>1, <3>2, <3>3
  <2> QED BY <2>1
<1>6. CASE kind = "calts"
  <2>1. W = <<Overlaps!Sub>> BY <1>6 DEF Overlaps!Written, Overlaps!WithTel
  <2>2. Overlaps!Sub \in Packet
    <3>1. Overlaps!Sub = [c \in InRound |-> Overlaps!Sub[c]] BY <1>4 DEF Overlaps!Sub
    <3>2. Overlaps!Sub \in [InRound -> Event] BY <1>4, <1>5, <3>1
    <3>3. InRound \in SUBSET Parties BY <1>2, <1>4
    <3> QED BY <3>2, <3>3 DEF Packet
  <2>3. OfRound(Overlaps!Sub) BY <1>2, <1>4, <1>6 DEF OfRound
  <2> DEFINE x == Overlaps!Sub
  <2> HIDE DEF x
  <2>4. <<x>> \in Seq({x}) /\ Range(<<x>>) = {x} BY DEF Range
  <2>5. Range(W) = {Overlaps!Sub} BY <2>1, <2>4 DEF x
  <2>6. W \in Seq(Packet) BY <2>1, <2>2
  <2> QED BY <1>6, <2>3, <2>5, <2>6
<1>7. CASE kind = "caltel" /\ Cal \notin InRound
  <2>1. W = <<>> BY <1>4, <1>7 DEF Overlaps!Written, Overlaps!WithTel
  <2>2. Range(W) = {} BY <2>1, Nothing
  <2> QED BY <1>7, <2>1, <2>2
<1>8. CASE kind = "caltel" /\ Cal \in InRound
  <2> DEFINE F == [i \in DOMAIN E |-> Overlaps!Alone(Tel, E[i])]
  <2>1. W = F \o <<J>> BY <1>4, <1>8 DEF Overlaps!Written, Overlaps!WithTel
  <2>2. E \in Seq(Event) BY <1>8, RoundTelescope
  <2>3. P \in {<<Head(Overlaps!Later)>>, <<Overlaps!LastTel>>, <<>>} BY <1>8, RoundTelescope
  <2>4. P # <<>> => P[1] \in Event
    <3>1. /\ Overlaps!Later \in Seq(Event) /\ Overlaps!Later # <<>>
          /\ Overlaps!LastTel = last[Tel] \/ Overlaps!LastTel \in Range(E)
      BY <1>8, RoundTelescope
    <3>2. Head(Overlaps!Later) \in Event BY <3>1
    <3>3. Range(E) \subseteq Event BY <2>2, InRange
    <3>4. Overlaps!LastTel \in Event BY <1>2, <1>3, <3>1, <3>3
    <3> HIDE DEF P
    <3>5. CASE P = <<Head(Overlaps!Later)>> BY <3>2, <3>5
    <3>6. CASE P = <<Overlaps!LastTel>> BY <3>4, <3>6
    <3> QED BY <2>3, <3>5, <3>6
  <2>5. J \in Packet /\ OfRound(J)
    <3>1. J = [c \in InRound \cup (IF P = <<>> THEN {} ELSE {Tel}) |-> IF c = Tel THEN P[1] ELSE Overlaps!Sub[c]]
      BY <1>4 DEF Overlaps!Joined
    <3> HIDE DEF J, P
    <3>2. DOMAIN J = InRound \cup (IF P = <<>> THEN {} ELSE {Tel}) BY <3>1
    <3>3. \A c \in InRound : c # Tel /\ c \in Paired BY <1>2, <1>4
    <3>4. \A c \in DOMAIN J : J[c] \in Event BY <1>4, <1>5, <2>4, <3>1, <3>2, <3>3
    <3>5. J \in [DOMAIN J -> Event] BY <3>1, <3>4
    <3>6. DOMAIN J \in SUBSET Parties BY <1>2, <1>4, <3>2
    <3>7. J \in Packet BY <3>5, <3>6 DEF Packet
    <3>8. \A c \in InRound : J[c] = last'[c] BY <1>4, <3>1, <3>3
    <3>9. Tel \in DOMAIN J <=> P # <<>> BY <3>2, <3>3
    <3>10. P # <<>> => J[Tel] = P[1] BY <3>1
    <3>11. DOMAIN J \ {Tel} = InRound BY <3>2, <3>3
    <3> QED BY <1>8, <3>7, <3>8, <3>9, <3>10, <3>11 DEF OfRound, P
  <2>6. Len(E) \in Nat /\ DOMAIN E = 1 .. Len(E) /\ \A i \in 1 .. Len(E) : E[i] \in Event BY <2>2
  <2>7. F \in Seq(Packet) /\ Len(F) = Len(E) /\ \A i \in 1 .. Len(E) : F[i] = [c \in {Tel} |-> E[i]]
    <3>1. F = [i \in 1 .. Len(E) |-> [c \in {Tel} |-> E[i]]] BY <2>6 DEF Overlaps!Alone
    <3>2. \A i \in 1 .. Len(E) : [c \in {Tel} |-> E[i]] \in Packet
      <4>1. {Tel} \in SUBSET Parties BY <1>2
      <4>2. \A i \in 1 .. Len(E) : [c \in {Tel} |-> E[i]] \in [{Tel} -> Event] BY <2>6
      <4> QED BY <4>1, <4>2 DEF Packet
    <3> HIDE DEF F
    <3>3. F \in [1 .. Len(E) -> Packet] BY <3>1, <3>2
    <3>4. F \in Seq(Packet) BY <2>6, <3>3, SeqDef
    <3>5. Len(F) = Len(E)
      <4>1. DOMAIN F = 1 .. Len(E) BY <3>3
      <4> QED BY <2>6, <3>4, <4>1
    <3> QED BY <3>1, <3>4, <3>5
  <2> HIDE DEF W, E, F, J, P
  <2>8. /\ W \in Seq(Packet) /\ Len(W) = Len(E) + 1 /\ W[Len(E) + 1] = J
        /\ \A i \in 1 .. Len(E) : W[i] = F[i]
    <3>1. <<J>> \in Seq(Packet) /\ Len(<<J>>) = 1 /\ <<J>>[1] = J BY <2>5
    <3> DEFINE b == <<J>>
    <3>2. b \in Seq(Packet) /\ Len(b) = 1 /\ b[1] = J BY <3>1
    <3>3. W = F \o b BY <2>1
    <3> HIDE DEF b
    <3>4. /\ F \o b \in Seq(Packet) /\ Len(F \o b) = Len(F) + Len(b)
          /\ \A i \in 1 .. Len(F) : (F \o b)[i] = F[i]
          /\ \A i \in 1 .. Len(b) : (F \o b)[Len(F) + i] = b[i]
      BY <2>7, <3>2, Joint
    <3>5. 1 \in 1 .. Len(b) BY <3>2
    <3>6. W[Len(E) + 1] = J BY <2>7, <3>2, <3>3, <3>4, <3>5
    <3> QED BY <2>7, <3>2, <3>3, <3>4, <3>6
  <2>9. DOMAIN W = 1 .. Len(E) + 1 BY <2>6, <2>8
  <2>10. ASSUME NEW w \in Range(W) PROVE OfRound(w) \/ OfTelescope(w)
    <3>1. PICK i \in 1 .. Len(E) + 1 : w = W[i] BY <2>9 DEF Range
    <3>2. CASE i = Len(E) + 1 BY <2>5, <2>8, <3>1, <3>2
    <3>3. CASE i \in 1 .. Len(E)
      <4>1. w = [c \in {Tel} |-> E[i]] BY <2>7, <2>8, <3>1, <3>3
      <4>2. E[i] \in Range(E) BY <2>6, <3>3 DEF Range
      <4>3. DOMAIN w = {Tel} /\ w[Tel] = E[i] BY <4>1
      <4> QED BY <4>2, <4>3 DEF OfTelescope, E
    <3> QED BY <2>6, <3>2, <3>3
  <2>11. J \in Range(W)
    <3>1. Len(E) + 1 \in DOMAIN W BY <2>6, <2>9
    <3> QED BY <2>8, <3>1 DEF Range
  <2>12. ASSUME NEW x \in Range(E) PROVE \E w \in Range(W) : Tel \in DOMAIN w /\ w[Tel] = x
    <3>1. PICK i \in 1 .. Len(E) : x = E[i] BY <2>6 DEF Range
    <3>2. W[i] = [c \in {Tel} |-> x] BY <2>7, <2>8, <3>1
    <3>3. i \in DOMAIN W BY <2>6, <2>9
    <3>4. W[i] \in Range(W) BY <3>3 DEF Range
    <3> QED BY <3>2, <3>4
  <2> QED BY <1>8, <2>5, <2>8, <2>10, <2>11, <2>12 DEF W, E
<1> QED BY <1>3, <1>6, <1>7, <1>8

\* What is in the file after it has grown.
LEMMA FileGrows ==
  ASSUME NEW s \in Seq(Packet), NEW t \in Seq(Packet)
  PROVE  /\ s \o t \in Seq(Packet) /\ Range(s \o t) = Range(s) \cup Range(t)
         /\ \A i \in DOMAIN (s \o t) :
              \/ i \in DOMAIN s /\ (s \o t)[i] = s[i]
              \/ i > Len(s) /\ i \in Nat /\ (s \o t)[i] \in Range(t)
         /\ Len(s) \in Nat /\ \A i \in DOMAIN s : i \in Nat /\ i <= Len(s)
<1> DEFINE u == s \o t
<1>1. /\ u \in Seq(Packet) /\ Len(u) = Len(s) + Len(t) /\ Len(s) \in Nat /\ Len(t) \in Nat
      /\ \A i \in 1 .. Len(s) : u[i] = s[i]
      /\ \A i \in 1 .. Len(t) : u[Len(s) + i] = t[i]
      /\ DOMAIN s = 1 .. Len(s) /\ DOMAIN t = 1 .. Len(t)
  BY Joint
<1> HIDE DEF u
<1>2. DOMAIN u = 1 .. Len(s) + Len(t) BY <1>1
<1>3. ASSUME NEW i \in DOMAIN u
      PROVE  (i \in DOMAIN s /\ u[i] = s[i]) \/ (i > Len(s) /\ i \in Nat /\ u[i] \in Range(t))
  <2>1. CASE i <= Len(s) BY <1>1, <1>2, <2>1
  <2>2. CASE ~(i <= Len(s))
    <3>1. i - Len(s) \in 1 .. Len(t) /\ Len(s) + (i - Len(s)) = i BY <1>1, <1>2, <2>2
    <3>2. u[i] = t[i - Len(s)] BY <1>1, <3>1
    <3>3. u[i] \in Range(t) BY <1>1, <3>1, <3>2 DEF Range
    <3> QED BY <1>1, <1>2, <2>2, <3>3
  <2> QED BY <2>1, <2>2
<1>4. Range(u) \subseteq Range(s) \cup Range(t) BY <1>3 DEF Range
<1>5. \A i \in DOMAIN s : i \in DOMAIN u /\ u[i] = s[i] BY <1>1, <1>2
<1>6. \A i \in DOMAIN t : Len(s) + i \in DOMAIN u /\ u[Len(s) + i] = t[i] BY <1>1, <1>2
<1>7. Range(s) \subseteq Range(u) BY <1>5 DEF Range
<1>8. Range(t) \subseteq Range(u) BY <1>6 DEF Range
<1>9. \A i \in DOMAIN s : i \in Nat /\ i <= Len(s) BY <1>1
<1> QED BY <1>1, <1>3, <1>4, <1>7, <1>8, <1>9 DEF u

\* The order has no gaps.
LEMMA UptoTransitive ==
  ASSUME NEW c, NEW x \in Event, NEW y \in Event, NEW z \in Event, Upto(c, x, y), Upto(c, y, z)
  PROVE  Upto(c, x, z)
<1>1. CASE x = y \/ y = z BY <1>1 DEF Upto
<1>2. CASE x # y /\ y # z
  <2>1. Precedes(c, x, y) /\ Precedes(c, y, z) BY <1>2 DEF Upto
  <2> QED BY <2>1, PrecedesTransitive DEF Upto
<1> QED BY <1>1, <1>2

\* The fronts of the queues of a round.
LEMMA RoundFronts ==
  ASSUME NEW off \in Int, OverlapInv(off), Overlaps!Round, NEW c \in Paired
  PROVE  /\ evque[c] \in Seq(Event) /\ Ordered(c, evque[c]) /\ Range(evque[c]) \subseteq got[c]
         /\ Tail(evque[c]) \in Seq(Event) /\ Ordered(c, Tail(evque[c]))
         /\ Head(evque[c]) \in Event /\ Head(evque[c]) \in got[c]
         /\ Beg(off, c, Head(evque[c])) < End(off, c, Head(evque[c])) /\ Head(evque[c]) # Unused
         /\ Range(evque[c]) = {Head(evque[c])} \cup Range(Tail(evque[c]))
         /\ \A x \in Range(Tail(evque[c])) : Precedes(c, Head(evque[c]), x)
         /\ \A x \in Range(evque[c]) : x \in Event /\ Upto(c, Head(evque[c]), x)
         /\ last[c] # Unused => last[c] \in got[c] /\ Precedes(c, last[c], Head(evque[c]))
         /\ last[c] \in Event /\ c # Tel /\ c \in Parties
<1>1. OverlapTypes /\ WaitingInv BY DEF OverlapInv
<1>2. c \in Parties /\ c # Tel BY NamesAssumption DEF Parties, Paired
<1>3. evque[c] \in Seq(Event) /\ Ordered(c, evque[c]) /\ evque[c] # <<>> /\ Range(evque[c]) \subseteq got[c]
      /\ last[c] \in Event
  BY <1>1, <1>2, RoundSides DEF OverlapTypes, WaitingInv
<1> DEFINE s == evque[c]
<1>4. s \in Seq(Event) /\ Ordered(c, s) /\ s # <<>> /\ Range(s) \subseteq got[c] BY <1>3
<1>5. last[c] # Unused => last[c] \in got[c] /\ \A x \in Range(s) : Precedes(c, last[c], x)
  BY <1>1, <1>2 DEF WaitingInv
<1> HIDE DEF s
<1>6. /\ Tail(s) \in Seq(Event) /\ Ordered(c, Tail(s)) /\ Head(s) \in Event
      /\ Range(s) = {Head(s)} \cup Range(Tail(s))
      /\ \A x \in Range(Tail(s)) : Precedes(c, Head(s), x)
  BY <1>4, Used
<1>7. Range(s) \subseteq Event BY <1>4, InRange
<1>8. Proper(c, Head(s)) BY <1>1, <1>2, <1>4, <1>6 DEF OverlapTypes
<1>9. Head(s) # Unused BY <1>8 DEF Proper, Unused
<1>10. Beg(off, c, Head(s)) < End(off, c, Head(s)) BY <1>6, <1>8, TimesAre DEF Proper
<1>11. \A x \in Range(s) : Upto(c, Head(s), x) BY <1>6 DEF Upto
<1> QED BY <1>2, <1>3, <1>4, <1>5, <1>6, <1>7, <1>9, <1>10, <1>11 DEF s

\* What a round takes from a queue of c.
Takes(c) ==
  /\ evque'[c] \in Seq(Event) /\ Ordered(c, evque'[c]) /\ Range(evque'[c]) \subseteq Range(evque[c])
  /\ last'[c] \in Event
  /\ last'[c] # Unused => /\ last'[c] \in got[c]
                          /\ \A x \in Range(evque'[c]) : Precedes(c, last'[c], x)
  /\ last[c] # Unused => last'[c] # Unused /\ Upto(c, last[c], last'[c])
  /\ \A x \in Range(evque[c]) : x \in Range(evque'[c]) \/ (last'[c] # Unused /\ Upto(c, x, last'[c]))

\* It takes from the AHCAL and the BIF at most the front.
LEMMA RoundTakes == ASSUME NEW off \in Int, OverlapInv(off), Overlaps!Round, NEW c \in Paired PROVE Takes(c)
<1>1. /\ last'[c] = IF c \in Overlaps!Taken THEN Head(evque[c]) ELSE last[c]
      /\ evque'[c] = IF c \in Overlaps!Taken THEN Tail(evque[c]) ELSE evque[c]
  BY RoundSides
<1>2. /\ evque[c] \in Seq(Event) /\ Ordered(c, evque[c]) /\ Range(evque[c]) \subseteq got[c]
      /\ Tail(evque[c]) \in Seq(Event) /\ Ordered(c, Tail(evque[c]))
      /\ Head(evque[c]) \in Event /\ Head(evque[c]) \in got[c] /\ Head(evque[c]) # Unused
      /\ Range(evque[c]) = {Head(evque[c])} \cup Range(Tail(evque[c]))
      /\ \A x \in Range(Tail(evque[c])) : Precedes(c, Head(evque[c]), x)
      /\ last[c] # Unused => last[c] \in got[c] /\ Precedes(c, last[c], Head(evque[c]))
      /\ last[c] \in Event /\ c \in Parties
  BY RoundFronts
<1>3. CASE c \in Overlaps!Taken
  <2>1. last'[c] = Head(evque[c]) /\ evque'[c] = Tail(evque[c]) BY <1>1, <1>3
  <2> QED BY <1>2, <2>1 DEF Takes, Upto
<1>4. CASE c \notin Overlaps!Taken
  <2>1. last'[c] = last[c] /\ evque'[c] = evque[c] BY <1>1, <1>4
  <2>2. last[c] # Unused => \A x \in Range(evque[c]) : Precedes(c, last[c], x)
    BY <1>2 DEF OverlapInv, WaitingInv
  <2> QED BY <1>2, <2>1, <2>2 DEF Takes, Upto
<1> QED BY <1>3, <1>4

\* From the telescope it takes all up to the trigger.
LEMMA TelescopeTakes == ASSUME NEW off \in Int, OverlapInv(off), Overlaps!Round PROVE Takes(Tel)
<1>1. OverlapTypes /\ WaitingInv BY DEF OverlapInv
<1>2. Tel \in Parties BY DEF Parties
<1>3. /\ evque[Tel] \in Seq(Event) /\ Ordered(Tel, evque[Tel]) /\ Range(evque[Tel]) \subseteq got[Tel]
      /\ last[Tel] \in Event /\ kind \in {"calts", "caltel"}
      /\ last[Tel] # Unused => last[Tel] \in got[Tel] /\ \A x \in Range(evque[Tel]) : Precedes(Tel, last[Tel], x)
      /\ \A x \in got[Tel] : Proper(Tel, x)
  BY <1>1, <1>2 DEF OverlapTypes, WaitingInv
<1>4. CASE kind = "calts" \/ Cal \notin InRound
  <2>1. evque'[Tel] = evque[Tel] /\ last'[Tel] = last[Tel] BY <1>4, RoundWithout
  <2> QED BY <1>3, <2>1 DEF Takes, Upto
<1>5. CASE kind = "caltel" /\ Cal \in InRound
  <2> DEFINE E == Overlaps!Earlier
  <2> DEFINE L == Overlaps!Later
  <2> DEFINE t == Overlaps!LastTel
  <2>1. /\ E \in Seq(Event) /\ L \in Seq(Event) /\ Ordered(Tel, L) /\ L # <<>>
        /\ Range(evque[Tel]) = Range(E) \cup Range(L) /\ Head(L) \in Range(evque[Tel])
        /\ \A x \in Range(L) : Upto(Tel, Head(L), x)
        /\ \A x \in Range(E) : Upto(Tel, x, t) /\ Precedes(Tel, x, Head(L))
        /\ IF E = <<>> THEN t = last[Tel] ELSE t \in Range(E)
        /\ evque'[Tel] = IF Overlaps!NextMatches THEN Tail(L) ELSE L
        /\ last'[Tel] = IF Overlaps!NextMatches THEN Head(L) ELSE t
    BY <1>5, RoundTelescope
  <2> HIDE DEF E, L, t
  <2>2. /\ Tail(L) \in Seq(Event) /\ Ordered(Tel, Tail(L)) /\ Head(L) \in Event
        /\ Range(L) = {Head(L)} \cup Range(Tail(L))
        /\ \A x \in Range(Tail(L)) : Precedes(Tel, Head(L), x)
    BY <2>1, Used
  <2>3. Range(evque[Tel]) \subseteq Event BY <1>3, InRange
  <2>4. \A x \in Range(evque[Tel]) : x # Unused
    BY <1>3 DEF Proper, Unused
  <2>5. CASE Overlaps!NextMatches
    <3>1. evque'[Tel] = Tail(L) /\ last'[Tel] = Head(L) BY <2>1, <2>5
    <3>2. Range(Tail(L)) \subseteq Range(evque[Tel]) BY <2>1, <2>2
    <3>3. Head(L) # Unused /\ Head(L) \in got[Tel] BY <1>3, <2>1, <2>4
    <3>4. last[Tel] # Unused => Upto(Tel, last[Tel], Head(L)) BY <1>3, <2>1 DEF Upto
    <3>5. \A x \in Range(evque[Tel]) : x \in Range(Tail(L)) \/ Upto(Tel, x, Head(L))
      BY <2>1, <2>2 DEF Upto
    <3> QED BY <2>2, <3>1, <3>2, <3>3, <3>4, <3>5 DEF Takes
  <2>6. CASE ~Overlaps!NextMatches
    <3>1. evque'[Tel] = L /\ last'[Tel] = t BY <2>1, <2>6
    <3>2. Range(L) \subseteq Range(evque[Tel]) BY <2>1
    <3>3. CASE E = <<>>
      <4>1. t = last[Tel] /\ Range(E) = {} BY <2>1, <3>3, Nothing
      <4>2. \A x \in Range(evque[Tel]) : x \in Range(L) BY <2>1, <4>1
      <4> QED BY <1>3, <2>1, <3>1, <3>2, <4>1, <4>2 DEF Takes, Upto
    <3>4. CASE E # <<>>
      <4>1. t \in Range(E) /\ t \in Range(evque[Tel]) /\ t # Unused /\ t \in got[Tel] /\ t \in Event
        BY <1>3, <2>1, <2>3, <2>4, <3>4
      <4>2. last[Tel] # Unused => Upto(Tel, last[Tel], t) BY <1>3, <4>1 DEF Upto
      <4>3. ASSUME NEW x \in Range(L) PROVE Precedes(Tel, t, x)
        <5>1. Precedes(Tel, t, Head(L)) /\ Upto(Tel, Head(L), x) /\ x \in Event
          BY <2>1, <2>3, <4>1
        <5> QED BY <2>2, <4>1, <5>1, PrecedesTransitive DEF Upto
      <4>4. \A x \in Range(evque[Tel]) : x \in Range(L) \/ Upto(Tel, x, t) BY <2>1
      <4> QED BY <2>1, <3>1, <3>2, <4>1, <4>2, <4>3, <4>4 DEF Takes
    <3> QED BY <3>3, <3>4
  <2> QED BY <2>5, <2>6
<1> QED BY <1>3, <1>4, <1>5

\* What was used last by the time of a round begins before the other side ends.
LEMMA RoundReaches ==
  ASSUME NEW off \in Int, OverlapInv(off), Overlaps!Round, NEW c \in Paired, NEW d \in Paired, c # d, ReachInv(off, c, d)
  PROVE  ReachInv(off, c, d)'
<1>1. Takes(d) /\ got' = got BY RoundTakes, RoundSides
<1>2. CASE c \notin Overlaps!Taken
  <2>1. last'[c] = last[c] BY <1>2, RoundSides
  <2> QED BY <1>1, <2>1 DEF ReachInv, Takes
<1>3. CASE c \in Overlaps!Taken
  <2> DEFINE h == Head(evque[c])
  <2> DEFINE k == Head(evque[d])
  <2>1. last'[c] = h BY <1>3, RoundSides
  <2>2. h \in Event /\ Beg(off, c, h) < End(off, c, h) BY RoundFronts
  <2>3. /\ k \in Event /\ k \in got[d] /\ Beg(off, d, k) < End(off, d, k) /\ d # Tel
        /\ \A x \in Range(evque[d]) : x \in Event /\ Upto(d, k, x)
    BY RoundFronts
  <2>4. Paired = {Bif, Cal} /\ Overlaps!Taken \subseteq InRound BY DEF Paired, InRound
  <2>5. d \in Overlaps!Taken => Beg(off, c, h) < End(off, d, k)
    <3>1. SUFFICES ASSUME d \in Overlaps!Taken PROVE Beg(off, c, h) < End(off, d, k) OBVIOUS
    <3>2. Meets(off, Bif, last'[Bif], Cal, last'[Cal]) BY <1>3, <2>4, <3>1, RoundSides
    <3>3. last'[d] = k BY <3>1, RoundSides
    <3> QED BY <2>1, <2>4, <3>2, <3>3 DEF Meets
  <2>6. d \notin Overlaps!Taken => End(off, c, h) <= Beg(off, d, k) BY RoundSides
  <2> HIDE DEF h, k
  <2>7. Beg(off, c, h) \in Int /\ End(off, c, h) \in Int /\ Beg(off, d, k) \in Int /\ End(off, d, k) \in Int
    BY <2>2, <2>3, TimesAre
  <2>8. Beg(off, c, h) < End(off, d, k) BY <2>2, <2>3, <2>5, <2>6, <2>7
  <2>9. ASSUME NEW x \in Range(evque'[d]) PROVE Beg(off, c, h) < End(off, d, x)
    <3>1. x \in Range(evque[d]) BY <1>1 DEF Takes
    <3>2. x \in Event /\ Upto(d, k, x) BY <2>3, <3>1
    <3>3. End(off, d, k) <= End(off, d, x) /\ End(off, d, x) \in Int BY <2>3, <3>2, UptoSays, TimesAre
    <3> QED BY <2>7, <2>8, <3>3
  <2> QED BY <1>1, <2>1, <2>3, <2>8, <2>9 DEF ReachInv
<1> QED BY <1>2, <1>3

\* A front that is used without the other side overlaps nothing of it.
LEMMA RoundLonely ==
  ASSUME NEW off \in Int, OverlapInv(off), Overlaps!Round, Lossless, NEW c \in Paired, NEW d \in Paired, c # d, d \notin InRound
  PROVE  Lonely(off, c, Head(evque[c]), d)
<1> DEFINE h == Head(evque[c])
<1> DEFINE k == Head(evque[d])
<1>1. d \notin Overlaps!Taken BY DEF InRound
<1>2. End(off, c, h) <= Beg(off, d, k) /\ (last[d] # Unused => End(off, d, last[d]) <= Beg(off, c, h))
  BY <1>1, RoundSides
<1>3. h \in Event BY RoundFronts
<1>4. /\ k \in Event /\ k \in got[d] /\ d # Tel /\ last[d] \in Event /\ d \in Parties
      /\ \A x \in Range(evque[d]) : x \in Event /\ Upto(d, k, x)
  BY RoundFronts
<1> HIDE DEF h, k
<1>5. ASSUME NEW e \in got[d] PROVE ~Meets(off, c, h, d, e)
  <2>1. e \in Event
    <3>1. d \in Conns BY <1>4, NamesAssumption DEF Parties
    <3> QED BY <1>4, <3>1 DEF OverlapInv, OverlapTypes
  <2>2. /\ Beg(off, d, e) \in Int /\ End(off, d, e) \in Int /\ Beg(off, c, h) \in Int /\ End(off, c, h) \in Int
        /\ Beg(off, d, k) \in Int /\ End(off, d, last[d]) \in Int
    BY <1>3, <1>4, <2>1, TimesAre
  <2>3. CASE e \in Range(evque[d])
    <3>1. Beg(off, d, k) <= Beg(off, d, e) BY <1>4, <2>1, <2>3, UptoSays
    <3>2. End(off, c, h) <= Beg(off, d, e) BY <1>2, <2>2, <3>1
    <3> QED BY <2>2, <3>2 DEF Meets
  <2>4. CASE e \notin Range(evque[d])
    <3>1. accept BY RoundSides
    <3>2. last[d] # Unused /\ Upto(d, e, last[d]) BY <1>4, <2>4, <3>1 DEF OverlapInv, UsedInv
    <3>3. End(off, d, e) <= End(off, d, last[d]) BY <1>4, <2>1, <3>2, UptoSays
    <3>4. End(off, d, e) <= Beg(off, c, h) BY <1>2, <2>2, <3>2, <3>3
    <3> QED BY <2>2, <3>4 DEF Meets
  <2> QED BY <2>3, <2>4
<1>6. Lonely(off, c, h, d) BY <1>2, <1>4, <1>5 DEF Lonely
<1> QED BY <1>6 DEF h

\* A producer that has a part in the round has used an event.
LEMMA RoundUses ==
  ASSUME NEW off \in Int, OverlapInv(off), Overlaps!Round, NEW c \in InRound
  PROVE  c \in Paired /\ last'[c] # Unused /\ last'[c] \in got[c] /\ last'[c] \in Event
<1>1. c \in Paired BY RoundSides
<1>2. Takes(c) BY <1>1, RoundTakes
<1>3. last'[c] # Unused
  <2>1. CASE c \in Overlaps!Taken
    <3>1. last'[c] = Head(evque[c]) BY <1>1, <2>1, RoundSides
    <3> QED BY <1>1, <3>1, RoundFronts
  <2>2. CASE c \notin Overlaps!Taken
    <3>1. PICK d \in Paired : c # d BY <1>1, NamesAssumption DEF Paired
    <3>2. last'[c] = last[c] /\ last[c] # Unused BY <1>1, <2>2, <3>1, RoundSides
    <3> QED BY <3>2
  <2> QED BY <2>1, <2>2
<1> QED BY <1>1, <1>2, <1>3 DEF Takes

\* What is in the file after a round.
LEMMA RoundFile ==
  ASSUME NEW off \in Int, OverlapInv(off), Overlaps!Round
  PROVE  FileInv(off)'
<1>1. OverlapTypes /\ FileInv(off) BY DEF OverlapInv
<1>2. Tel \notin Paired /\ Paired = {Bif, Cal} /\ Bif \in Paired /\ Cal \in Paired
  BY NamesAssumption DEF Paired
<1>3. got' = got /\ accept' = accept /\ accept BY RoundSides
<1>4. \A c \in Paired : Takes(c) BY RoundTakes
<1>5. ASSUME NEW w \in Range(Overlaps!Written), NEW c \in Paired \cap DOMAIN w
      PROVE  c \in InRound /\ w[c] = last'[c] /\ last'[c] # Unused /\ last'[c] \in got[c] /\ last'[c] \in Event
  <2>1. OfRound(w) \/ OfTelescope(w) BY RoundWrites
  <2>2. c # Tel BY <1>2
  <2>3. OfRound(w) BY <2>1, <2>2 DEF OfTelescope
  <2>4. c \in InRound /\ w[c] = last'[c] BY <2>2, <2>3 DEF OfRound
  <2> QED BY <2>4, RoundUses
<1> DEFINE W == Overlaps!Written
<1>6. out' = out \o W BY DEF Overlaps!Round
<1>7. W \in Seq(Packet) /\ out \in Seq(Packet) BY <1>1, RoundWrites DEF OverlapTypes
<1> HIDE DEF W
<1>8. /\ Range(out') = Range(out) \cup Range(W)
      /\ \A i \in DOMAIN out' :
           \/ i \in DOMAIN out /\ out'[i] = out[i]
           \/ i > Len(out) /\ i \in Nat /\ out'[i] \in Range(W)
      /\ Len(out) \in Nat /\ \A i \in DOMAIN out : i \in Nat /\ i <= Len(out)
  BY <1>6, <1>7, FileGrows
<1>9. ASSUME NEW w \in Range(out), NEW c \in Paired \cap DOMAIN w
      PROVE  /\ w[c] \in got[c] /\ w[c] \in Event /\ last'[c] \in Event
             /\ last'[c] # Unused /\ w[c][1] <= last'[c][1]
  <2>1. w[c] \in got[c] /\ last[c] # Unused /\ w[c][1] <= last[c][1] BY <1>1, <1>3, <1>9 DEF FileInv
  <2>2. w[c] \in Event BY <1>1, <1>9, FilePackets
  <2>3. last[c] \in Event /\ c # Tel BY <1>9, RoundFronts
  <2>4. last'[c] # Unused /\ last'[c] \in Event /\ Upto(c, last[c], last'[c]) BY <1>4, <1>9, <2>1 DEF Takes
  <2>5. last[c][1] <= last'[c][1] BY <1>9, <2>3, <2>4, UptoSays
  <2>6. w[c][1] \in Nat /\ last[c][1] \in Nat /\ last'[c][1] \in Nat BY <2>2, <2>3, <2>4 DEF Event
  <2> QED BY <2>1, <2>2, <2>4, <2>5, <2>6
<1>10. ASSUME NEW w \in Range(out')
       PROVE  /\ \A c \in Paired \cap DOMAIN w : w[c] \in got[c] /\ last'[c] # Unused /\ w[c][1] <= last'[c][1]
              /\ Paired \subseteq DOMAIN w => Meets(off, Bif, w[Bif], Cal, w[Cal])
  <2>1. CASE w \in Range(out)
    <3>1. Paired \subseteq DOMAIN w => Meets(off, Bif, w[Bif], Cal, w[Cal]) BY <1>1, <2>1 DEF FileInv
    <3> QED BY <1>9, <2>1, <3>1
  <2>2. CASE w \in Range(W)
    <3>1. \A c \in Paired \cap DOMAIN w :
            /\ c \in InRound /\ w[c] = last'[c] /\ last'[c] # Unused /\ last'[c] \in got[c] /\ last'[c] \in Event
      BY <1>5, <2>2 DEF W
    <3>2. \A c \in Paired \cap DOMAIN w : w[c][1] <= last'[c][1]
      BY <3>1 DEF Event
    <3>3. ASSUME Paired \subseteq DOMAIN w PROVE Meets(off, Bif, w[Bif], Cal, w[Cal])
      <4>1. /\ Bif \in InRound /\ w[Bif] = last'[Bif] /\ Cal \in InRound /\ w[Cal] = last'[Cal]
        BY <1>2, <3>1, <3>3
      <4> QED BY <4>1, RoundSides
    <3> QED BY <3>1, <3>2, <3>3
  <2> QED BY <1>8, <2>1, <2>2
<1>11. ASSUME NEW c \in Paired, NEW i \in DOMAIN out', NEW j \in DOMAIN out', i < j,
              c \in DOMAIN out'[i], c \in DOMAIN out'[j]
       PROVE  out'[i][c][1] <= out'[j][c][1]
  <2>1. CASE i \in DOMAIN out /\ out'[i] = out[i] /\ j \in DOMAIN out /\ out'[j] = out[j]
    BY <1>1, <1>11, <2>1 DEF FileInv
  <2>2. CASE j > Len(out) /\ out'[j] \in Range(W)
    <3>1. out'[j][c] = last'[c] BY <1>5, <1>11, <2>2 DEF W
    <3>2. out'[i] \in Range(out') BY DEF Range
    <3> QED BY <1>10, <1>11, <3>1, <3>2
  <2>3. CASE i > Len(out) /\ i \in Nat /\ j \in DOMAIN out BY <1>8, <1>11, <2>3
  <2> QED BY <1>8, <2>1, <2>2, <2>3
<1> QED BY <1>3, <1>10, <1>11 DEF FileInv

\* What the round writes is added to the file.
LEMMA RoundAdds ==
  ASSUME NEW off \in Int, OverlapInv(off), Overlaps!Round
  PROVE  out' \in Seq(Packet) /\ Range(out') = Range(out) \cup Range(Overlaps!Written)
<1> DEFINE W == Overlaps!Written
<1>1. out' = out \o W BY DEF Overlaps!Round
<1>2. W \in Seq(Packet) /\ out \in Seq(Packet) BY RoundWrites DEF OverlapInv, OverlapTypes
<1> HIDE DEF W
<1> QED BY <1>1, <1>2, FileGrows DEF W

\* What is written without the other side in a round overlaps nothing of it.
LEMMA RoundAlone ==
  ASSUME NEW off \in Int, OverlapInv(off), Overlaps!Round, NEW c \in Paired, NEW d \in Paired, c # d, AloneInv(off, c, d)
  PROVE  AloneInv(off, c, d)'
<1>1. got' = got /\ Lossless' = Lossless BY RoundSides DEF Lossless
<1>2. SUFFICES ASSUME Lossless, NEW w \in Range(out'), c \in DOMAIN w, d \notin DOMAIN w
               PROVE  Lonely(off, c, w[c], d)
  BY <1>1 DEF AloneInv, Lonely
<1>3. CASE w \in Range(out) BY <1>2, <1>3 DEF AloneInv
<1>4. CASE w \in Range(Overlaps!Written)
  <2>1. OfRound(w) \/ OfTelescope(w) BY <1>4, RoundWrites
  <2>2. c # Tel /\ d # Tel BY NamesAssumption DEF Paired
  <2>3. OfRound(w) BY <1>2, <2>1, <2>2 DEF OfTelescope
  <2>4. c \in InRound /\ w[c] = last'[c] /\ d \notin InRound BY <1>2, <2>2, <2>3 DEF OfRound
  <2>5. d \notin Overlaps!Taken BY <2>4 DEF InRound
  <2>6. c \in Overlaps!Taken BY <2>5, RoundSides
  <2>7. w[c] = Head(evque[c]) BY <2>4, <2>6, RoundSides
  <2> QED BY <1>2, <2>4, <2>7, RoundLonely
<1> QED BY <1>2, <1>3, <1>4, RoundAdds

\* What a round takes is written, or it is of the BIF and overlaps nothing.
LEMMA RoundKeepsAll == ASSUME NEW off \in Int, OverlapInv(off), Overlaps!Round PROVE KeptInv(off)'
<1>1. got' = got /\ Lossless' = Lossless /\ kind' = kind /\ accept' = accept
  BY RoundSides DEF Lossless
<1>2. SUFFICES ASSUME Lossless, accept, NEW c \in Parties, NEW e \in got[c]
               PROVE  \/ e \in Range(evque'[c]) \/ \E w \in Range(out') : c \in DOMAIN w /\ w[c] = e
                      \/ kind = "caltel" /\ c = Bif /\ Lonely(off, Bif, e, Cal)
                      \/ c = Tel /\ kind = "calts"
  BY <1>1 DEF KeptInv, Lonely
<1>3. Range(out') = Range(out) \cup Range(Overlaps!Written) BY RoundAdds
<1>4. /\ kind \in {"calts", "caltel"} /\ Paired = {Bif, Cal} /\ Parties = {Bif, Cal, Tel} /\ Cal \in Paired
      /\ Tel \notin Paired /\ Bif # Cal
  BY NamesAssumption DEF Paired, Parties, OverlapInv, OverlapTypes
<1>5. CASE e \notin Range(evque[c]) BY <1>2, <1>3, <1>5 DEF OverlapInv, KeptInv
<1>6. CASE e \in Range(evque[c]) /\ c \in Paired
  <2>1. SUFFICES ASSUME e \notin Range(evque'[c])
                 PROVE  \/ \E w \in Range(out') : c \in DOMAIN w /\ w[c] = e
                        \/ kind = "caltel" /\ c = Bif /\ Lonely(off, Bif, e, Cal)
    OBVIOUS
  <2>2. evque'[c] = IF c \in Overlaps!Taken THEN Tail(evque[c]) ELSE evque[c] BY <1>6, RoundSides
  <2>3. c \in Overlaps!Taken BY <1>6, <2>1, <2>2
  <2>4. Range(evque[c]) = {Head(evque[c])} \cup Range(Tail(evque[c])) BY <1>6, RoundFronts
  <2>5. e = Head(evque[c]) /\ last'[c] = e BY <1>6, <2>1, <2>2, <2>3, <2>4, RoundSides
  <2>6. c \in InRound BY <2>3 DEF InRound
  <2>7. CASE kind = "calts" \/ Cal \in InRound
    <3>1. PICK w \in Range(Overlaps!Written) : OfRound(w) BY <2>7, RoundWrites
    <3>2. c \in DOMAIN w /\ w[c] = e BY <2>5, <2>6, <3>1 DEF OfRound
    <3> QED BY <1>3, <3>1, <3>2
  <2>8. CASE kind = "caltel" /\ Cal \notin InRound
    <3>1. c = Bif BY <1>4, <1>6, <2>6, <2>8
    <3>2. Lonely(off, Bif, Head(evque[c]), Cal) BY <1>2, <1>4, <1>6, <2>8, <3>1, RoundLonely
    <3> QED BY <2>5, <2>8, <3>1, <3>2
  <2> QED BY <1>4, <2>7, <2>8
<1>7. CASE e \in Range(evque[c]) /\ c = Tel /\ kind = "caltel"
  <2>1. CASE Cal \notin InRound BY <1>7, <2>1, RoundWithout
  <2>2. CASE Cal \in InRound
    <3> DEFINE E == Overlaps!Earlier
    <3> DEFINE L == Overlaps!Later
    <3>1. /\ L \in Seq(Event) /\ Ordered(Tel, L) /\ L # <<>>
          /\ Range(evque[Tel]) = Range(E) \cup Range(L)
          /\ evque'[Tel] = IF Overlaps!NextMatches THEN Tail(L) ELSE L
          /\ Overlaps!NextMatches => Overlaps!Partner = <<Head(L)>>
      BY <1>7, <2>2, RoundTelescope
    <3>2. CASE e \in Range(E)
      <4>1. \E w \in Range(Overlaps!Written) : Tel \in DOMAIN w /\ w[Tel] = e
        BY <1>7, <2>2, <3>2, RoundWrites
      <4> QED BY <1>3, <1>7, <4>1
    <3>3. CASE e \in Range(L) /\ ~Overlaps!NextMatches BY <1>7, <3>1, <3>3
    <3>4. CASE e \in Range(L) /\ Overlaps!NextMatches
      <4> HIDE DEF L
      <4>1. Range(L) = {Head(L)} \cup Range(Tail(L)) BY <3>1, Used
      <4>2. CASE e \in Range(Tail(L)) BY <1>7, <3>1, <3>4, <4>2
      <4>3. CASE e = Head(L)
        <5>1. PICK w \in Range(Overlaps!Written) : OfRound(w) BY <2>2, RoundWrites
        <5>2. Overlaps!Partner = <<e>> BY <3>1, <3>4, <4>3
        <5>3. Overlaps!Partner # <<>> /\ Overlaps!Partner[1] = e BY <5>2
        <5>4. Tel \in DOMAIN w /\ w[Tel] = e BY <1>7, <5>1, <5>3 DEF OfRound
        <5> QED BY <1>3, <1>7, <5>1, <5>4
      <4> QED BY <3>4, <4>1, <4>2, <4>3
    <3> QED BY <1>7, <3>1, <3>2, <3>3, <3>4
  <2> QED BY <2>1, <2>2
<1> QED BY <1>2, <1>4, <1>5, <1>6, <1>7

\* The trigger of what is used of the AHCAL does not fall.
LEMMA TriggerRises ==
  ASSUME NEW off \in Int, OverlapInv(off), Overlaps!Round, last[Cal] # Unused
  PROVE  last'[Cal] # Unused /\ Trg(Cal, last[Cal]) <= Trg(Cal, last'[Cal])
         /\ Trg(Cal, last[Cal]) \in Nat /\ Trg(Cal, last'[Cal]) \in Nat
<1>1. Cal \in Paired BY DEF Paired
<1>2. Takes(Cal) /\ last[Cal] \in Event BY <1>1, RoundTakes, RoundFronts
<1> QED BY <1>2, UptoSays, TriggersAre DEF Takes

\* The telescope in a round.
LEMMA RoundMatches == ASSUME NEW off \in Int, OverlapInv(off), Overlaps!Round PROVE TelescopeInv'
<1>1. /\ got' = got /\ Lossless' = Lossless /\ kind' = kind /\ accept
  BY RoundSides DEF Lossless
<1>2. SUFFICES ASSUME kind = "caltel"
      PROVE  /\ last'[Tel] # Unused => last'[Cal] # Unused /\ Trg(Tel, last'[Tel]) <= Trg(Cal, last'[Cal])
             /\ \A w \in Range(out') : Cal \in DOMAIN w =>
                  IF Tel \in DOMAIN w THEN Trg(Tel, w[Tel]) = Trg(Cal, w[Cal])
                  ELSE Lossless => /\ \A e \in got[Tel] : Trg(Tel, e) # Trg(Cal, w[Cal])
                                   /\ \E o \in got[Tel] : Trg(Tel, o) >= Trg(Cal, w[Cal])
  BY <1>1 DEF TelescopeInv
<1>3. TelescopeInv /\ OverlapTypes /\ WaitingInv /\ UsedInv BY DEF OverlapInv
<1>4. Cal \in Paired /\ Tel \in Parties /\ Tel \notin Paired /\ Cal # Tel /\ Parties \subseteq Conns
  BY NamesAssumption DEF Paired, Parties
<1>5. ASSUME last[Tel] # Unused
      PROVE  /\ last'[Cal] # Unused /\ Trg(Tel, last[Tel]) <= Trg(Cal, last'[Cal])
             /\ Trg(Tel, last[Tel]) \in Nat /\ Trg(Cal, last'[Cal]) \in Nat
  <2>1. last[Cal] # Unused /\ Trg(Tel, last[Tel]) <= Trg(Cal, last[Cal]) BY <1>2, <1>3, <1>5 DEF TelescopeInv
  <2>2. last[Tel] \in Event BY <1>3, <1>4 DEF OverlapTypes
  <2>3. Trg(Tel, last[Tel]) \in Nat BY <2>2, TriggersAre
  <2> QED BY <2>1, <2>3, TriggerRises
<1>6. CASE Cal \notin InRound
  <2>1. last'[Tel] = last[Tel] BY <1>6, RoundWithout
  <2>2. Range(Overlaps!Written) = {} BY <1>2, <1>6, RoundWrites
  <2>3. Range(out') = Range(out) BY <2>2, RoundAdds
  <2> QED BY <1>2, <1>3, <1>5, <2>1, <2>3 DEF TelescopeInv
<1>7. CASE Cal \in InRound
  <2> DEFINE E == Overlaps!Earlier
  <2> DEFINE L == Overlaps!Later
  <2> DEFINE t == Overlaps!LastTel
  <2> DEFINE g == Trg(Cal, last'[Cal])
  <2>1. /\ L \in Seq(Event) /\ L # <<>> /\ last'[Cal] \in Event
        /\ Range(evque[Tel]) = Range(E) \cup Range(L) /\ Head(L) \in Range(evque[Tel])
        /\ Trg(Tel, Head(L)) >= g
        /\ \A x \in Range(L) : Upto(Tel, Head(L), x)
        /\ \A x \in Range(E) : Trg(Tel, x) < g
        /\ IF E = <<>> THEN t = last[Tel] ELSE t \in Range(E)
        /\ Overlaps!NextMatches <=> Trg(Tel, Head(L)) = g
        /\ last'[Tel] = IF Overlaps!NextMatches THEN Head(L) ELSE t
        /\ Overlaps!Partner = IF Overlaps!NextMatches THEN <<Head(L)>>
                              ELSE IF t # Unused /\ Trg(Tel, t) = g THEN <<t>> ELSE <<>>
    BY <1>2, <1>7, RoundTelescope
  <2>2. last'[Cal] # Unused BY <1>7, RoundUses
  <2>3. evque[Tel] \in Seq(Event) /\ Range(evque[Tel]) \subseteq got[Tel] /\ got[Tel] \subseteq Event
    BY <1>3, <1>4 DEF OverlapTypes, WaitingInv
  <2>4. \A x \in got[Tel] : Trg(Tel, x) \in Nat /\ Trg(Tel, x) > 0
    <3>1. ASSUME NEW x \in got[Tel] PROVE Trg(Tel, x) \in Nat /\ Trg(Tel, x) > 0
      <4>1. x \in Event /\ x[3] > 0 BY <1>3, <1>4, <2>3 DEF OverlapTypes, Proper
      <4> QED BY <4>1, TriggersAre
    <3> QED BY <3>1
  <2>5. g \in Nat BY <2>1, TriggersAre
  <2>6. Head(L) \in got[Tel] BY <2>1, <2>3
  <2> HIDE DEF E, L, t
  <2>7. last'[Tel] # Unused => Trg(Tel, last'[Tel]) <= g
    <3>1. CASE Overlaps!NextMatches BY <2>1, <2>4, <2>5, <2>6, <3>1
    <3>2. CASE ~Overlaps!NextMatches /\ E = <<>> BY <1>5, <2>1, <3>2
    <3>3. CASE ~Overlaps!NextMatches /\ E # <<>>
      <4>1. last'[Tel] = t /\ t \in Range(E) BY <2>1, <3>3
      <4>2. Trg(Tel, t) < g /\ t \in got[Tel] BY <2>1, <2>3, <4>1
      <4> QED BY <2>4, <2>5, <4>1, <4>2
    <3> QED BY <3>1, <3>2, <3>3
  <2>8. ASSUME Overlaps!Partner = <<>>, Lossless, NEW e \in got[Tel] PROVE Trg(Tel, e) # g
    <3>1. ~Overlaps!NextMatches /\ Trg(Tel, Head(L)) > g /\ ~(t # Unused /\ Trg(Tel, t) = g)
      <4>1. ~Overlaps!NextMatches /\ ~(t # Unused /\ Trg(Tel, t) = g)
        <5>1. <<Head(L)>> # <<>> /\ <<t>> # <<>> OBVIOUS
        <5> QED BY <2>1, <2>8, <5>1, Zenon
      <4> QED BY <2>1, <2>4, <2>5, <2>6, <4>1
    <3>2. CASE e \in Range(E)
      <4>1. Trg(Tel, e) < g BY <2>1, <3>2
      <4> QED BY <2>4, <2>5, <4>1
    <3>3. CASE e \in Range(L)
      <4>1. Trg(Tel, Head(L)) <= Trg(Tel, e) BY <2>1, <2>3, <2>6, <3>3, UptoSays
      <4> QED BY <2>4, <2>5, <2>6, <3>1, <4>1
    <3>4. CASE e \notin Range(evque[Tel])
      <4>1. last[Tel] # Unused /\ Upto(Tel, e, last[Tel])
        BY <1>1, <1>2, <1>3, <1>4, <2>8, <3>4 DEF UsedInv
      <4>2. last[Tel] \in Event /\ e \in Event BY <1>3, <1>4, <2>3 DEF OverlapTypes
      <4>3. Trg(Tel, e) <= Trg(Tel, last[Tel]) BY <4>1, <4>2, UptoSays
      <4>4. Trg(Tel, last[Tel]) <= g /\ Trg(Tel, last[Tel]) \in Nat BY <1>5, <4>1
      <4>5. Trg(Tel, last[Tel]) # g
        <5>1. CASE E = <<>>
          <6>1. t = last[Tel] BY <2>1, <5>1
          <6> QED BY <3>1, <4>1, <6>1
        <5>2. CASE E # <<>>
          <6>1. t \in Range(E) BY <2>1, <5>2
          <6>2. Trg(Tel, t) < g /\ t \in Range(evque[Tel]) /\ t \in got[Tel] BY <2>1, <2>3, <6>1
          <6>3. last[Tel] \in got[Tel] /\ Precedes(Tel, last[Tel], t)
            BY <1>3, <1>4, <4>1, <6>2 DEF WaitingInv
          <6>4. last[Tel][3] > 0 /\ last[Tel] \in Event /\ t \in Event
            BY <1>3, <1>4, <2>3, <6>2, <6>3 DEF OverlapTypes, Proper
          <6>5. last[Tel][3] < t[3] BY <6>3, <6>4 DEF Precedes, Event
          <6>6. Trg(Tel, last[Tel]) < Trg(Tel, t) BY <6>4, <6>5, TriggersAre
          <6> QED BY <2>4, <2>5, <4>4, <6>2, <6>6
        <5> QED BY <5>1, <5>2
      <4> QED BY <2>4, <2>5, <4>3, <4>4, <4>5
    <3> QED BY <2>1, <3>2, <3>3, <3>4
  <2>9. ASSUME NEW w \in Range(Overlaps!Written), Cal \in DOMAIN w
        PROVE  IF Tel \in DOMAIN w THEN Trg(Tel, w[Tel]) = Trg(Cal, w[Cal])
               ELSE Lossless => /\ \A e \in got[Tel] : Trg(Tel, e) # Trg(Cal, w[Cal])
                                /\ \E o \in got[Tel] : Trg(Tel, o) >= Trg(Cal, w[Cal])
    <3>1. OfRound(w)
      <4>1. OfRound(w) \/ OfTelescope(w) BY <2>9, RoundWrites
      <4> QED BY <1>4, <2>9, <4>1 DEF OfTelescope
    <3>2. Trg(Cal, w[Cal]) = g BY <1>7, <3>1 DEF OfRound
    <3> HIDE DEF g
    <3>3. CASE Tel \in DOMAIN w
      <4>1. Overlaps!Partner # <<>> /\ w[Tel] = Overlaps!Partner[1] BY <3>1, <3>3 DEF OfRound
      <4>2. CASE Overlaps!NextMatches
        <5>1. Overlaps!Partner = <<Head(L)>> BY <2>1, <4>2
        <5>2. w[Tel] = Head(L) BY <4>1, <5>1
        <5> QED BY <2>1, <3>2, <3>3, <4>2, <5>2
      <4>3. CASE ~Overlaps!NextMatches
        <5>1. Overlaps!Partner = <<t>> /\ Trg(Tel, t) = g BY <2>1, <4>1, <4>3
        <5>2. w[Tel] = t BY <4>1, <5>1
        <5> QED BY <3>2, <3>3, <5>1, <5>2
      <4> QED BY <4>2, <4>3
    <3>4. CASE Tel \notin DOMAIN w
      <4>1. Overlaps!Partner = <<>> BY <1>2, <3>1, <3>4 DEF OfRound
      <4>2. Lossless => \A e \in got[Tel] : Trg(Tel, e) # Trg(Cal, w[Cal]) BY <2>8, <3>2, <4>1
      <4>3. \E o \in got[Tel] : Trg(Tel, o) >= Trg(Cal, w[Cal]) BY <2>1, <2>6, <3>2
      <4> QED BY <3>4, <4>2, <4>3
    <3> QED BY <3>3, <3>4
  <2>10. ASSUME NEW w \in Range(out), Cal \in DOMAIN w
         PROVE  IF Tel \in DOMAIN w THEN Trg(Tel, w[Tel]) = Trg(Cal, w[Cal])
                ELSE Lossless => /\ \A e \in got[Tel] : Trg(Tel, e) # Trg(Cal, w[Cal])
                                 /\ \E o \in got[Tel] : Trg(Tel, o) >= Trg(Cal, w[Cal])
    BY <1>2, <1>3, <2>10 DEF TelescopeInv
  <2> HIDE DEF g
  <2>11. \A w \in Range(out') : w \in Range(out) \/ w \in Range(Overlaps!Written) BY RoundAdds
  <2> QED BY <2>2, <2>7, <2>9, <2>10, <2>11 DEF g
<1> QED BY <1>6, <1>7

\* One round of the loop.
LEMMA OverlapRound == ASSUME NEW off \in Int, OverlapInv(off), Overlaps!Round PROVE OverlapInv(off)'
<1>1. /\ OverlapTypes /\ ClockInv(off) /\ WaitingInv /\ ReachInv(off, Bif, Cal) /\ ReachInv(off, Cal, Bif) /\ FileInv(off)
      /\ UsedInv /\ AloneInv(off, Bif, Cal) /\ AloneInv(off, Cal, Bif) /\ KeptInv(off) /\ TelescopeInv
  BY DEF OverlapInv
<1>2. UNCHANGED <<kind, env, run, got, accept, offsetDone, offset>> /\ accept BY RoundSides
<1>3. Parties = Paired \cup {Tel} /\ Bif \in Paired /\ Cal \in Paired /\ Bif # Cal /\ Parties \subseteq Conns
  BY NamesAssumption DEF Parties, Paired
<1>4. \A c \in Parties : Takes(c) BY <1>3, RoundTakes, TelescopeTakes
<1>5. OverlapTypes'
  <2>1. DOMAIN last = Parties /\ DOMAIN evque = Parties BY <1>1 DEF OverlapTypes
  <2>2. DOMAIN evque' = Parties /\ evque' = [c \in Parties |-> evque'[c]]
    BY <2>1 DEF Overlaps!Round
  <2>3. DOMAIN last' = Parties /\ last' = [c \in Parties |-> last'[c]]
    BY <2>1 DEF Overlaps!Round
  <2>4. evque' \in [Parties -> Seq(Event)] /\ last' \in [Parties -> Event]
    BY <1>4, <2>2, <2>3 DEF Takes
  <2>5. out' \in Seq(Packet) BY RoundAdds
  <2>6. \A c \in Parties : \A e \in got'[c] : Proper(c, e)' BY <1>1, <1>2 DEF OverlapTypes, Proper
  <2> QED BY <1>1, <1>2, <2>4, <2>5, <2>6 DEF OverlapTypes
<1>6. WaitingInv'
  <2>1. ASSUME NEW c \in Parties
        PROVE  /\ Ordered(c, evque'[c]) /\ Range(evque'[c]) \subseteq got[c]
               /\ last'[c] # Unused => /\ last'[c] \in got[c]
                                       /\ \A x \in Range(evque'[c]) : Precedes(c, last'[c], x)
    <3>1. Takes(c) /\ Range(evque[c]) \subseteq got[c] BY <1>1, <1>4 DEF WaitingInv
    <3> QED BY <3>1 DEF Takes
  <2> QED BY <1>2, <2>1 DEF WaitingInv
<1>7. ReachInv(off, Bif, Cal)' /\ ReachInv(off, Cal, Bif)' BY <1>1, <1>3, RoundReaches
<1>8. UsedInv'
  <2>1. Lossless' = Lossless BY <1>2 DEF Lossless
  <2>2. SUFFICES ASSUME Lossless, NEW c \in Parties, NEW e \in got[c], ~(c = Tel /\ kind = "calts")
                 PROVE  e \in Range(evque'[c]) \/ (last'[c] # Unused /\ Upto(c, e, last'[c]))
    BY <1>2, <2>1 DEF UsedInv
  <2>3. Takes(c) BY <1>4
  <2>4. CASE e \in Range(evque[c]) BY <2>3, <2>4 DEF Takes
  <2>5. CASE e \notin Range(evque[c])
    <3>1. last[c] # Unused /\ Upto(c, e, last[c]) BY <1>1, <1>2, <2>2, <2>5 DEF UsedInv
    <3>2. e \in Event /\ last[c] \in Event /\ last'[c] \in Event BY <1>1, <1>3, <2>3 DEF OverlapTypes, Takes
    <3>3. last'[c] # Unused /\ Upto(c, last[c], last'[c]) BY <2>3, <3>1 DEF Takes
    <3> DEFINE y == last[c]
    <3> DEFINE z == last'[c]
    <3>4. y \in Event /\ z \in Event /\ Upto(c, e, y) /\ Upto(c, y, z) BY <3>1, <3>2, <3>3
    <3> HIDE DEF y, z
    <3>5. Upto(c, e, z) BY <3>2, <3>4, UptoTransitive
    <3> QED BY <3>3, <3>5 DEF z
  <2> QED BY <2>4, <2>5
<1>9. AloneInv(off, Bif, Cal)' /\ AloneInv(off, Cal, Bif)' BY <1>1, <1>3, RoundAlone
<1>10. ClockInv(off)'
  <2>1. offsetDone
    <3>1. ~thrown /\ \A c \in Overlaps!Sources : evque[c] # <<>>
      BY DEF Overlaps!Round, Overlaps!AtRest, Overlaps!Mergeable
    <3> QED BY <1>1, <3>1 DEF ClockInv
  <2>2. Started' = Started BY <1>2 DEF Started, Overlaps!Start
  <2> QED BY <1>1, <1>2, <2>1, <2>2 DEF ClockInv, Prefixed
<1> QED BY <1>5, <1>6, <1>7, <1>8, <1>9, <1>10, RoundFile, RoundKeepsAll, RoundMatches DEF OverlapInv

\* DoStopRun empties the queues and forgets what was used last, and from then
\* on nothing is accepted.
LEMMA OverlapStopRun == ASSUME NEW off \in Int, OverlapInv(off), Overlaps!StopRun PROVE OverlapInv(off)'
<1>1. /\ OverlapTypes /\ ClockInv(off) /\ WaitingInv /\ ReachInv(off, Bif, Cal) /\ ReachInv(off, Cal, Bif) /\ FileInv(off)
      /\ UsedInv /\ AloneInv(off, Bif, Cal) /\ AloneInv(off, Cal, Bif) /\ KeptInv(off) /\ TelescopeInv
  BY DEF OverlapInv
<1>2. /\ UNCHANGED <<kind, env, run, got, out>> /\ accept' = FALSE /\ offsetDone' = FALSE /\ kind = "caltel"
      /\ evque' = [c \in Parties |-> <<>>] /\ last' = [c \in Parties |-> Unused]
  BY DEF Overlaps!StopRun, Overlaps!Cleared, Overlaps!streamVars, Overlaps!Empty, Overlaps!Unused,
         Overlaps!None, Overlaps!Timed, Overlaps!WithTel, Parties, Unused
<1>3. \A c \in Parties : evque'[c] = <<>> /\ last'[c] = Unused BY <1>2
<1>4. Bif \in Parties /\ Cal \in Parties /\ Tel \in Parties BY DEF Parties
<1>5. OverlapTypes'
  <2>1. Unused \in Event BY DEF Unused, Event
  <2>2. evque' \in [Parties -> Seq(Event)] /\ last' \in [Parties -> Event] BY <1>2, <2>1
  <2> QED BY <1>1, <1>2, <2>2 DEF OverlapTypes, Proper
<1>6. WaitingInv'
  <2>1. Range(<<>>) = {} /\ \A c : Ordered(c, <<>>) BY Nothing DEF Ordered
  <2> QED BY <1>3, <2>1 DEF WaitingInv
<1>7. ReachInv(off, Bif, Cal)' /\ ReachInv(off, Cal, Bif)' BY <1>3, <1>4 DEF ReachInv
<1>8. FileInv(off)' BY <1>1, <1>2 DEF FileInv
<1>9. UsedInv' /\ KeptInv(off)' BY <1>2 DEF UsedInv, KeptInv
<1>10. AloneInv(off, Bif, Cal)' /\ AloneInv(off, Cal, Bif)' BY <1>1, <1>2 DEF AloneInv, Lossless, Lonely
<1>11. TelescopeInv' BY <1>1, <1>2, <1>3, <1>4 DEF TelescopeInv, Lossless
<1>12. ClockInv(off)'
  <2>1. Started' = Started BY <1>2 DEF Started, Overlaps!Start
  <2>2. Bif \in Overlaps!Sources' BY DEF Overlaps!Sources, Overlaps!Timed
  <2> QED BY <1>1, <1>2, <1>3, <1>4, <2>1, <2>2 DEF ClockInv, Prefixed
<1> QED BY <1>5, <1>6, <1>7, <1>8, <1>9, <1>10, <1>11, <1>12 DEF OverlapInv

\* DoStartRun begins a new file.
LEMMA OverlapStartRun ==
  ASSUME NEW old \in Int, OverlapInv(old), Overlaps!StartRun, NEW off \in Int, off = Started'
  PROVE  OverlapInv(off)'
<1>1. kind' = kind /\ kind \in {"calts", "caltel"} /\ Prefixed'
  BY DEF Overlaps!StartRun, Overlaps!Restarts, OverlapInv, OverlapTypes, ClockInv, Prefixed
<1>2. /\ got' = [c \in Conns |-> {}] /\ accept' = TRUE /\ out' = <<>> /\ offsetDone' = FALSE
      /\ evque' = [c \in Parties |-> <<>>] /\ last' = [c \in Parties |-> Unused]
  BY DEF Overlaps!StartRun, Overlaps!Restarts, Overlaps!Cleared, Overlaps!Empty, Overlaps!Unused,
         Overlaps!None, Overlaps!Timed, Parties, Unused
<1>3. Parties \subseteq Conns /\ Bif \in Parties /\ Cal \in Parties /\ Tel \in Parties
  BY NamesAssumption DEF Parties
<1>4. /\ \A c \in Parties : got'[c] = {} /\ evque'[c] = <<>> /\ last'[c] = Unused
      /\ Range(out') = {} /\ Range(<<>>) = {} /\ DOMAIN out' = {} /\ \A c : Ordered(c, <<>>)
  BY <1>2, <1>3, Nothing DEF Ordered
<1>5. OverlapTypes'
  <2>1. Unused \in Event BY DEF Unused, Event
  <2>2. evque' \in [Parties -> Seq(Event)] /\ last' \in [Parties -> Event] BY <1>2, <2>1
  <2>3. got' \in [Conns -> SUBSET Event] /\ out' \in Seq(Packet) BY <1>2
  <2> QED BY <1>1, <1>4, <2>2, <2>3 DEF OverlapTypes
<1>6. WaitingInv' BY <1>4 DEF WaitingInv
<1>7. ReachInv(off, Bif, Cal)' /\ ReachInv(off, Cal, Bif)' BY <1>3, <1>4 DEF ReachInv
<1>8. FileInv(off)' BY <1>4 DEF FileInv
<1>9. UsedInv' /\ KeptInv(off)' BY <1>4 DEF UsedInv, KeptInv
<1>10. AloneInv(off, Bif, Cal)' /\ AloneInv(off, Cal, Bif)' BY <1>4 DEF AloneInv
<1>11. TelescopeInv' BY <1>3, <1>4 DEF TelescopeInv
<1>12. ClockInv(off)'
  <2>1. Bif \in Overlaps!Sources' BY DEF Overlaps!Sources, Overlaps!Timed
  <2>2. Paired \subseteq Parties BY <1>3 DEF Paired
  <2> QED BY <1>1, <1>2, <1>3, <1>4, <2>1, <2>2 DEF ClockInv
<1> QED BY <1>5, <1>6, <1>7, <1>8, <1>9, <1>10, <1>11, <1>12 DEF OverlapInv

\* Nothing of this changes with the connections.
LEMMA OverlapSame ==
  ASSUME NEW off \in Int, OverlapInv(off),
         UNCHANGED <<kind, env, run, got, thrown, evque, last, offsetDone, offset, accept, out>>
  PROVE  OverlapInv(off)'
<1>1. OverlapTypes' /\ WaitingInv'
  BY DEF OverlapInv, OverlapTypes, WaitingInv, Proper
<1>2. ReachInv(off, Bif, Cal)' /\ ReachInv(off, Cal, Bif)' BY DEF OverlapInv, ReachInv
<1>3. FileInv(off)' BY DEF OverlapInv, FileInv
<1>4. UsedInv' BY DEF OverlapInv, UsedInv, Lossless
<1>5. AloneInv(off, Bif, Cal)' /\ AloneInv(off, Cal, Bif)' BY DEF OverlapInv, AloneInv, Lossless, Lonely
<1>6. KeptInv(off)' BY DEF OverlapInv, KeptInv, Lossless, Lonely
<1>7. TelescopeInv' BY DEF OverlapInv, TelescopeInv, Lossless
<1>8. ClockInv(off)'
  <2>1. Started' = Started /\ Overlaps!Sources' = Overlaps!Sources
    BY DEF Started, Overlaps!Start, Overlaps!Sources, Overlaps!WithTel
  <2> QED BY <2>1 DEF OverlapInv, ClockInv, Prefixed
<1> QED BY <1>1, <1>2, <1>3, <1>4, <1>5, <1>6, <1>7, <1>8 DEF OverlapInv

\* Every step keeps what is known of the overlaps.
LEMMA OverlapKeeps ==
  ASSUME NEW off \in Int, OverlapInv(off), Overlaps!Next \/ UNCHANGED <<vars, roundVars>>
  PROVE  \E new \in Int : OverlapInv(new)'
<1>1. ASSUME NEW c \in Conns, Overlaps!Connect(c) \/ Overlaps!Disconnect(c) PROVE OverlapInv(off)'
  BY <1>1, OverlapSame
     DEF Overlaps!Connect, Overlaps!Disconnect, Overlaps!Joins, Overlaps!Leaves, Overlaps!clockVars
<1>2. ASSUME NEW c \in Conns, NEW e \in Overlaps!Sendable(c), NEW unfit \in Overlaps!Unfit(c),
             Overlaps!Receive(c, e, unfit)
      PROVE  OverlapInv(off)'
  BY <1>2, OverlapReceive
<1>3. CASE UNCHANGED <<vars, roundVars>>
  BY <1>3, OverlapSame DEF vars, streamVars, tgVars, roundVars
<1>4. CASE Overlaps!StartRun
  <2>1. Started' \in Int BY StartedThen
  <2>2. PICK new \in Int : new = Started' BY <2>1
  <2> QED BY <1>4, <2>2, OverlapStartRun
<1> QED BY <1>1, <1>2, <1>3, <1>4, OverlapRound, OverlapStopRun DEF Overlaps!Next

\* Under unknown names everything is ignored.
LEMMA OverlapIdles ==
  ASSUME OverlapIdle, Overlaps!Next \/ UNCHANGED <<vars, roundVars>>
  PROVE  OverlapIdle'
<1>1. /\ kind \in {"calts", "caltel"} /\ ~Prefixed
      /\ evque = [c \in Parties |-> <<>>] /\ out = <<>>
  BY DEF OverlapIdle
<1>2. SUFFICES UNCHANGED <<kind, env, evque, out>> BY <1>1 DEF OverlapIdle, Prefixed
<1>3. ASSUME NEW c \in Conns, Overlaps!Connect(c) \/ Overlaps!Disconnect(c)
      PROVE  UNCHANGED <<kind, env, evque, out>>
  BY <1>3 DEF Overlaps!Connect, Overlaps!Disconnect, Overlaps!Joins, Overlaps!Leaves
<1>4. ASSUME NEW c \in Conns, NEW e \in Overlaps!Sendable(c), NEW unfit \in Overlaps!Unfit(c),
             Overlaps!Receive(c, e, unfit)
      PROVE  UNCHANGED <<kind, env, evque, out>>
  <2>1. Overlaps!Dropped(c, unfit) BY <1>1, Unlike DEF Overlaps!Dropped, Overlaps!Known, Overlaps!GetName, Prefixed
  <2> QED BY <1>4, <2>1 DEF Overlaps!Receive, Overlaps!Sends
<1>5. ~Overlaps!Round
  <2>1. Bif \in Overlaps!Sources /\ evque[Bif] = <<>>
    BY <1>1 DEF Overlaps!Sources, Overlaps!Timed, Parties
  <2> QED BY <2>1 DEF Overlaps!Round, Overlaps!AtRest, Overlaps!Mergeable
<1>6. CASE Overlaps!StopRun
  BY <1>1, <1>6 DEF Overlaps!StopRun, Overlaps!Cleared, Overlaps!streamVars, Overlaps!Empty, Overlaps!Timed, Parties
<1>7. CASE Overlaps!StartRun
  BY <1>1, <1>7 DEF Overlaps!StartRun, Overlaps!Restarts, Overlaps!Cleared, Overlaps!Empty, Overlaps!Timed, Parties
<1>8. CASE UNCHANGED <<vars, roundVars>> BY <1>8 DEF vars, streamVars, tgVars
<1> QED BY <1>3, <1>4, <1>5, <1>6, <1>7, <1>8 DEF Overlaps!Next

\* What it says of the file.
LEMMA OverlapSays ==
  ASSUME NEW off \in Int, OverlapInv(off)
  PROVE  /\ Overlaps!TogetherOverlap /\ Overlaps!AloneIsAlone
         /\ Overlaps!EachUsed /\ Overlaps!TelescopeMatches
<1>1. /\ OverlapTypes /\ ClockInv(off) /\ WaitingInv
      /\ ReachInv(off, Bif, Cal) /\ ReachInv(off, Cal, Bif) /\ FileInv(off)
      /\ UsedInv /\ AloneInv(off, Bif, Cal) /\ AloneInv(off, Cal, Bif) /\ KeptInv(off) /\ TelescopeInv
  BY DEF OverlapInv
<1>2. /\ Overlaps!Timed = Paired /\ Paired = {Bif, Cal} /\ Bif # Cal /\ Parties = Paired \cup {Tel}
      /\ Bif \in Paired /\ Cal \in Paired /\ Tel \notin Paired
  BY NamesAssumption DEF Paired, Overlaps!Timed, Parties
<1>3. ASSUME NEW c \in Paired, NEW x \in Event, NEW d \in Paired \ {c}, NEW y \in Event
      PROVE  Overlaps!Overlap(c, x, d, y) <=> Meets(off, c, x, d, y)
  <2>1. off = 32 * Overlaps!Start(Cal) - Overlaps!Start(Bif) - 120 BY <1>1, StartedIs DEF ClockInv
  <2>2. Overlaps!Start(Cal) \in Int /\ Overlaps!Start(Bif) \in Int BY StartedIs
  <2>3. x[1] \in Int /\ x[2] \in Int /\ y[1] \in Int /\ y[2] \in Int BY <1>3 DEF Event
  <2>4. CASE c = Cal /\ d = Bif
    BY <1>2, <2>1, <2>2, <2>3, <2>4 DEF Overlaps!Overlap, Overlaps!At, Meets, Beg, End
  <2>5. CASE c = Bif /\ d = Cal
    BY <1>2, <2>1, <2>2, <2>3, <2>5 DEF Overlaps!Overlap, Overlaps!At, Meets, Beg, End
  <2> QED BY <1>2, <1>3, <2>4, <2>5
<1>4. \A i \in DOMAIN out : out[i] \in Range(out) BY DEF Range
<1>5. Overlaps!Orderly <=> Lossless BY DEF Overlaps!Orderly, Lossless
<1>6. \A c \in Paired : \A e \in got[c] : e \in Event
  BY <1>1, NamesAssumption DEF OverlapTypes, Paired
<1>7. Overlaps!TogetherOverlap
  <2>1. ASSUME NEW i \in Overlaps!Packets(Bif) \cap Overlaps!Packets(Cal)
        PROVE  Overlaps!Overlap(Bif, out[i][Bif], Cal, out[i][Cal])
    <3>1. out[i] \in Range(out) /\ Paired \subseteq DOMAIN out[i] BY <1>2, <1>4, <2>1 DEF Overlaps!Packets
    <3>2. Meets(off, Bif, out[i][Bif], Cal, out[i][Cal]) BY <1>1, <3>1 DEF FileInv
    <3>3. out[i][Bif] \in Event /\ out[i][Cal] \in Event BY <1>1, <1>2, <3>1, FilePackets
    <3> QED BY <1>2, <1>3, <3>2, <3>3
  <2>2. ASSUME NEW c \in Paired, NEW i \in Overlaps!Packets(c)
        PROVE  /\ out[i][c] \in got[c]
               /\ \A j \in Overlaps!Packets(c) : i < j => out[i][c][1] <= out[j][c][1]
    <3>1. out[i] \in Range(out) /\ c \in Paired \cap DOMAIN out[i] BY <1>4, <2>2 DEF Overlaps!Packets
    <3>2. out[i][c] \in got[c] BY <1>1, <3>1 DEF FileInv
    <3>3. ASSUME NEW j \in Overlaps!Packets(c), i < j PROVE out[i][c][1] <= out[j][c][1]
      BY <1>1, <2>2, <3>3 DEF FileInv, Overlaps!Packets
    <3> QED BY <3>2, <3>3
  <2> QED BY <1>2, <2>1, <2>2 DEF Overlaps!TogetherOverlap
<1>8. Overlaps!AloneIsAlone
  <2>1. SUFFICES ASSUME Lossless, NEW c \in Paired, NEW i \in Overlaps!Packets(c),
                        NEW d \in Paired \ DOMAIN out[i], NEW e \in got[d]
                 PROVE  ~Overlaps!Overlap(c, out[i][c], d, e)
    BY <1>2, <1>5 DEF Overlaps!AloneIsAlone
  <2>2. out[i] \in Range(out) /\ c \in DOMAIN out[i] /\ d \notin DOMAIN out[i] /\ c # d
    BY <1>4, <2>1 DEF Overlaps!Packets
  <2>3. AloneInv(off, c, d) BY <1>1, <1>2, <2>1, <2>2
  <2>4. Lonely(off, c, out[i][c], d) BY <2>1, <2>2, <2>3 DEF AloneInv
  <2>5. ~Meets(off, c, out[i][c], d, e) BY <2>1, <2>4 DEF Lonely
  <2>6. out[i][c] \in Event BY <1>1, <2>2, FilePackets
  <2> QED BY <1>3, <1>6, <2>1, <2>2, <2>5, <2>6
<1>9. Overlaps!EachUsed
  <2>1. \A c \in Overlaps!Sources : Overlaps!Known(c)
    BY <1>1 DEF Overlaps!Known, Overlaps!GetName, ClockInv, Prefixed
  <2>2. SUFFICES ASSUME Lossless, accept, NEW c \in Overlaps!Sources, NEW e \in got[c]
                 PROVE  \/ \E i \in DOMAIN evque[c] : evque[c][i] = e
                        \/ \E i \in Overlaps!Packets(c) : out[i][c] = e
                        \/ Overlaps!WithTel /\ c = Bif /\ \A d \in got[Cal] : ~Overlaps!Overlap(Cal, d, Bif, e)
    BY <1>5, <2>1 DEF Overlaps!EachUsed
  <2>3. c \in Parties /\ ~(c = Tel /\ kind = "calts")
    BY <1>2, <2>2 DEF Overlaps!Sources, Overlaps!WithTel
  <2>4. \/ e \in Range(evque[c]) \/ \E w \in Range(out) : c \in DOMAIN w /\ w[c] = e
        \/ kind = "caltel" /\ c = Bif /\ Lonely(off, Bif, e, Cal)
    BY <1>1, <2>2, <2>3 DEF KeptInv
  <2>5. CASE e \in Range(evque[c]) BY <2>5 DEF Range
  <2>6. CASE \E w \in Range(out) : c \in DOMAIN w /\ w[c] = e
    BY <2>6 DEF Range, Overlaps!Packets
  <2>7. CASE kind = "caltel" /\ c = Bif /\ Lonely(off, Bif, e, Cal)
    <3>1. \A d \in got[Cal] : ~Meets(off, Cal, d, Bif, e) BY <2>7 DEF Lonely, Meets
    <3>2. \A d \in got[Cal] : ~Overlaps!Overlap(Cal, d, Bif, e) BY <1>2, <1>3, <1>6, <2>2, <2>7, <3>1
    <3> QED BY <2>7, <3>2 DEF Overlaps!WithTel
  <2> QED BY <2>4, <2>5, <2>6, <2>7
<1>10. Overlaps!TelescopeMatches
  <2>1. SUFFICES ASSUME kind = "caltel", NEW i \in Overlaps!Packets(Cal)
                 PROVE  /\ Tel \in DOMAIN out[i] => out[i][Tel][3] = out[i][Cal][3] + Shift
                        /\ \/ ~Lossless \/ Tel \in DOMAIN out[i]
                           \/ \A e \in got[Tel] : e[3] # out[i][Cal][3] + Shift
    BY <1>5 DEF Overlaps!TelescopeMatches, Overlaps!WithTel
  <2>2. out[i] \in Range(out) /\ Cal \in DOMAIN out[i] BY <1>4, <2>1 DEF Overlaps!Packets
  <2>3. \A c \in DOMAIN out[i] : out[i][c] \in Event BY <1>1, <2>2, FilePackets
  <2>4. \A e \in got[Tel] : e \in Event
    BY <1>1, NamesAssumption DEF OverlapTypes
  <2>5. CASE Tel \in DOMAIN out[i]
    <3>1. Trg(Tel, out[i][Tel]) = Trg(Cal, out[i][Cal]) BY <1>1, <2>1, <2>2, <2>5 DEF TelescopeInv
    <3> QED BY <2>2, <2>3, <2>5, <3>1, SameTrigger
  <2>6. CASE Tel \notin DOMAIN out[i] /\ Lossless
    <3>1. \A e \in got[Tel] : Trg(Tel, e) # Trg(Cal, out[i][Cal]) BY <1>1, <2>1, <2>2, <2>6 DEF TelescopeInv
    <3> QED BY <2>2, <2>3, <2>4, <2>6, <3>1, SameTrigger
  <2> QED BY <2>5, <2>6
<1> QED BY <1>7, <1>8, <1>9, <1>10

\* Of unknown producers nothing is used.
LEMMA OverlapIdleSays ==
  ASSUME OverlapIdle
  PROVE  /\ Overlaps!TogetherOverlap /\ Overlaps!AloneIsAlone
         /\ Overlaps!EachUsed /\ Overlaps!TelescopeMatches
<1>1. /\ ~Prefixed /\ evque = [c \in Parties |-> <<>>] /\ DOMAIN out = {} BY DEF OverlapIdle
<1>2. \A c : Overlaps!Packets(c) = {} BY <1>1 DEF Overlaps!Packets
<1>3. Overlaps!EachUsed
  <2>1. ASSUME NEW c \in Overlaps!Sources PROVE ~Overlaps!Known(c) /\ DOMAIN evque[c] = {}
    <3>1. c \in Parties BY DEF Overlaps!Sources, Overlaps!Timed, Parties
    <3> QED BY <1>1, <3>1, Unlike DEF Overlaps!Known, Overlaps!GetName, Prefixed
  <2> QED BY <1>2, <2>1 DEF Overlaps!EachUsed
<1>4. Overlaps!TogetherOverlap /\ Overlaps!AloneIsAlone /\ Overlaps!TelescopeMatches
  BY <1>2 DEF Overlaps!TogetherOverlap, Overlaps!AloneIsAlone, Overlaps!TelescopeMatches
<1> QED BY <1>3, <1>4

\* For every set of connections, every sequence of runs, every mishap, every
\* pair of clocks and every shift.  CaliceDataCollector writes exactly the
\* triggers that the AHCAL and its BIF both delivered, in order, if they were
\* started under their plain names.  CaliceTsDataCollector and
\* CaliceTelDataCollector use nothing of producers with plain names; of those
\* started with their type in front, what they write together overlaps, by the
\* clocks of this run; as long as no event is unfit and no queue is full, what
\* they write alone overlaps nothing, all that came waits or is written but
\* for events of the BIF that overlap nothing, and the telescope's event is
\* the one of the shifted trigger whenever there is one.
THEOREM PairsAreMerged == CollectorsSpec => []PairsMerged
<1> DEFINE Inv == /\ kind = "pair" => PairInv \/ PairIdle
                  /\ kind \in {"calts", "caltel"} => OverlapIdle \/ \E off \in Int : OverlapInv(off)
<1>1. CollectorsInit => Inv
  <2>1. PICK off \in Int : off = Started BY StartedIs
  <2> QED BY <2>1, PairStarts, OverlapStarts
<1>2. ASSUME Inv, [CollectorsNext]_<<vars, sliceVars, roundVars, fileVars>> PROVE Inv'
  <2>1. /\ kind' = kind
        /\ kind = "pair" => Pairs!Next \/ UNCHANGED vars
        /\ kind \in {"calts", "caltel"} => Overlaps!Next \/ UNCHANGED <<vars, roundVars>>
    BY <1>2, KindStays
  <2>2. kind = "pair" => (PairInv \/ PairIdle)' BY <1>2, <2>1, PairKeeps, PairIdles
  <2>3. kind \in {"calts", "caltel"} /\ OverlapIdle => OverlapIdle' BY <2>1, OverlapIdles
  <2>4. ASSUME kind \in {"calts", "caltel"}, NEW off \in Int, OverlapInv(off)
        PROVE  \E new \in Int : OverlapInv(new)'
    BY <2>1, <2>4, OverlapKeeps
  <2> QED BY <1>2, <2>1, <2>2, <2>3, <2>4
<1>3. Inv => PairsMerged
  <2>1. kind # "pair" => Pairs!PairsComplete BY DEF Pairs!PairsComplete
  <2>2. kind \notin {"calts", "caltel"} =>
          /\ Overlaps!TogetherOverlap /\ Overlaps!AloneIsAlone
          /\ Overlaps!EachUsed /\ Overlaps!TelescopeMatches
    BY DEF Overlaps!TogetherOverlap, Overlaps!AloneIsAlone, Overlaps!EachUsed, Overlaps!TelescopeMatches,
           Overlaps!Here
  <2> QED BY <2>1, <2>2, PairSays, PairIdleSays, OverlapSays, OverlapIdleSays DEF PairsMerged
<1> QED BY <1>1, <1>2, <1>3, PTL DEF CollectorsSpec
=============================================================================
