-------------------------- MODULE Collectors_proofs --------------------------
(***************************************************************************)
(* The collectors that merge by trigger number and by position, for every  *)
(* set of connections, every sequence of runs and every mishap; and the    *)
(* programs that merge recorded files, for all files.                      *)
(***************************************************************************)
EXTENDS Collectors, TLAPS, FiniteSetTheorems, WellFoundedInduction, SequenceTheorems

-----------------------------------------------------------------------------
(***************************************************************************)
(* A collector stays what it is.                                           *)
(***************************************************************************)
\* The callbacks, the end of a run and the reset leave the kind.
LEMMA StreamsKind ==
  /\ \A c \in Conns : (Joins(c) \/ Leaves(c)) => kind' = kind
  /\ \A c \in Conns : \A e : Sends(c, e) => kind' = kind
  /\ Resets \/ Restarts => kind' = kind
BY DEF Joins, Leaves, Sends, Resets, Restarts, streamVars

\* TriggerSync.
LEMMA TriggerKind == Next => kind' = kind
<1> SUFFICES ASSUME Next PROVE kind' = kind OBVIOUS
<1>1. ASSUME NEW c \in Conns, Connect(c) \/ Disconnect(c) PROVE kind' = kind
  BY <1>1, StreamsKind DEF Connect, Disconnect
<1>2. ASSUME NEW c \in Conns, NEW t, Receive(c, t) PROVE kind' = kind
  BY <1>2, StreamsKind DEF Receive
<1>3. ASSUME NEW c \in Conns, ReceiveUntriggered(c) PROVE kind' = kind
  BY <1>3 DEF ReceiveUntriggered
<1>4. Reset \/ StartRun => kind' = kind BY StreamsKind DEF Reset, StartRun
<1> QED BY <1>1, <1>2, <1>3, <1>4 DEF Next

\* EventIDSync.
LEMMA PositionKind == Position!Next => kind' = kind
<1> SUFFICES ASSUME Position!Next PROVE kind' = kind OBVIOUS
<1>1. ASSUME NEW c \in Conns, Position!Connect(c) \/ Position!Disconnect(c) PROVE kind' = kind
  BY <1>1, StreamsKind DEF Position!Connect, Position!Disconnect, Position!Joins, Position!Leaves, Joins, Leaves, Position!Peers, Peers
<1>2. ASSUME NEW c \in Conns, NEW n, Position!Receive(c, n) PROVE kind' = kind
  BY <1>2 DEF Position!Receive, Position!Sends
<1>4. Position!StartRun => kind' = kind BY DEF Position!StartRun, Position!Restarts
<1> QED BY <1>1, <1>2, <1>4 DEF Position!Next

\* TimestampSync.
LEMMA TimeKind == Time!Next => kind' = kind
<1> SUFFICES ASSUME Time!Next PROVE kind' = kind OBVIOUS
<1>1. ASSUME NEW c \in Conns, Time!Connect(c) \/ Time!Disconnect(c) PROVE kind' = kind
  BY <1>1 DEF Time!Connect, Time!Disconnect, Time!Joins, Time!Leaves
<1>2. ASSUME NEW c \in Conns, NEW e, Time!Receive(c, e) PROVE kind' = kind
  BY <1>2 DEF Time!Receive, Time!Sends
<1>3. ASSUME NEW c \in Conns, Time!ReceiveUntimed(c) PROVE kind' = kind
  BY <1>3 DEF Time!ReceiveUntimed
<1>4. Time!BuildEvent => kind' = kind BY DEF Time!BuildEvent
<1>5. Time!BuildEnds => kind' = kind BY DEF Time!BuildEnds, Time!streamVars
<1>6. Time!StartRun => kind' = kind BY DEF Time!StartRun, Time!Restarts
<1> QED BY <1>1, <1>2, <1>3, <1>4, <1>5, <1>6 DEF Time!Next

\* PairSync.
LEMMA PairKind == Pairs!Next => kind' = kind
<1> SUFFICES ASSUME Pairs!Next PROVE kind' = kind OBVIOUS
<1>1. ASSUME NEW c \in Conns, Pairs!Connect(c) \/ Pairs!Disconnect(c) PROVE kind' = kind
  BY <1>1 DEF Pairs!Connect, Pairs!Disconnect, Pairs!Joins, Pairs!Leaves
<1>2. ASSUME NEW c \in Conns, NEW t, Pairs!Receive(c, t) PROVE kind' = kind
  BY <1>2 DEF Pairs!Receive, Pairs!Sends
<1>3. Pairs!Pair => kind' = kind BY DEF Pairs!Pair, Pairs!streamVars
<1>4. Pairs!StartRun => kind' = kind BY DEF Pairs!StartRun, Pairs!Restarts
<1> QED BY <1>1, <1>2, <1>3, <1>4 DEF Pairs!Next

\* OverlapSync.
LEMMA OverlapKind == Overlaps!Next => kind' = kind
<1> SUFFICES ASSUME Overlaps!Next PROVE kind' = kind OBVIOUS
<1>1. ASSUME NEW c \in Conns, Overlaps!Connect(c) \/ Overlaps!Disconnect(c) PROVE kind' = kind
  BY <1>1 DEF Overlaps!Connect, Overlaps!Disconnect, Overlaps!Joins, Overlaps!Leaves
<1>2. ASSUME NEW c \in Conns, NEW e, NEW untimed, Overlaps!Receive(c, e, untimed) PROVE kind' = kind
  BY <1>2 DEF Overlaps!Receive, Overlaps!Sends
<1>3. Overlaps!Round => kind' = kind BY DEF Overlaps!Round, Overlaps!streamVars
<1>4. Overlaps!StopRun => kind' = kind BY DEF Overlaps!StopRun, Overlaps!streamVars
<1>5. Overlaps!StartRun => kind' = kind BY DEF Overlaps!StartRun, Overlaps!Restarts
<1> QED BY <1>1, <1>2, <1>3, <1>4, <1>5 DEF Overlaps!Next

\* The step of a TriggerSync is one of TriggerSync, and so on; of any other
\* kind nothing becomes one.
LEMMA KindStays ==
  ASSUME [CollectorsNext]_<<vars, sliceVars, roundVars, fileVars>>
  PROVE  /\ kind' = kind
         /\ kind = "trigger" => Next \/ UNCHANGED vars
         /\ kind = "eventid" => (Position!Next /\ inactive' = inactive) \/ UNCHANGED vars
         /\ kind = "pair" => Pairs!Next \/ UNCHANGED vars
         /\ kind \in {"calts", "caltel"} => Overlaps!Next \/ UNCHANGED <<vars, roundVars>>
<1>1. CollectorsNext => kind' = kind
  BY TriggerKind, PositionKind, TimeKind, PairKind, OverlapKind, Zenon
     DEF CollectorsNext, streamVars
<1>2. CollectorsNext /\ kind = "trigger" => Next BY DEF CollectorsNext, Merge!Programs
<1>3. CollectorsNext /\ kind = "eventid" => Position!Next /\ inactive' = inactive
  BY DEF CollectorsNext, Merge!Programs
<1>4. CollectorsNext /\ kind = "pair" => Pairs!Next BY DEF CollectorsNext, Merge!Programs
<1>5. CollectorsNext /\ kind \in {"calts", "caltel"} => Overlaps!Next
  BY DEF CollectorsNext, Merge!Programs
<1> QED BY <1>1, <1>2, <1>3, <1>4, <1>5 DEF vars, streamVars
-----------------------------------------------------------------------------
(***************************************************************************)
(* Queues as sets of triggers.                                             *)
(***************************************************************************)
Rises(s) == \A i, j \in 1 .. Len(s) : i < j => s[i] < s[j]

\* A set of triggers that is not empty has a smallest one.
LEMMA Least ==
  ASSUME NEW T \in SUBSET Nat, T # {}
  PROVE  \E m \in T : \A x \in T : m <= x
<1> DEFINE W == {0 .. m : m \in T}
<1>1. IsWellFoundedOn(StrictSubsetOrdering(Nat), FiniteSubsetsOf(Nat))
  BY FS_StrictSubsetOrderingWellFounded
<1>2. W \subseteq FiniteSubsetsOf(Nat) /\ W # {}
  <2>1. ASSUME NEW m \in T PROVE 0 .. m \in FiniteSubsetsOf(Nat)
    <3>1. IsFiniteSet(0 .. m) BY FS_Interval
    <3>2. 0 .. m \subseteq Nat OBVIOUS
    <3> QED BY <3>1, <3>2 DEF FiniteSubsetsOf
  <2> QED BY <2>1
<1>3. PICK A \in W : \A B \in W : ~ (<<B, A>> \in StrictSubsetOrdering(Nat))
  BY <1>1, <1>2, WFMin
<1>4. PICK m \in T : A = 0 .. m OBVIOUS
<1>5. ASSUME NEW x \in T, x < m PROVE FALSE
  <2>1. 0 .. x \in W OBVIOUS
  <2>2. 0 .. x \subseteq 0 .. m /\ 0 .. x # 0 .. m /\ 0 .. m \subseteq Nat
    <3>1. m \in 0 .. m /\ m \notin 0 .. x BY <1>5
    <3> QED BY <1>5, <3>1
  <2>3. <<0 .. x, 0 .. m>> \in StrictSubsetOrdering(Nat) BY <2>2 DEF StrictSubsetOrdering
  <2> QED BY <1>3, <1>4, <2>1, <2>3
<1>6. \A x \in T : m <= x BY <1>5
<1> QED BY <1>6

\* An event is added at the end.
LEMMA Added ==
  ASSUME NEW T \in SUBSET Nat, NEW s \in Seq(T), Rises(s), NEW t \in T, \A x \in Range(s) : x < t
  PROVE  /\ Append(s, t) \in Seq(T) /\ Rises(Append(s, t)) /\ Append(s, t) # <<>>
         /\ Range(Append(s, t)) = Range(s) \cup {t}
<1>1. /\ Append(s, t) \in Seq(T) /\ Len(s) \in Nat /\ Len(Append(s, t)) = Len(s) + 1
      /\ Append(s, t)[Len(s) + 1] = t /\ Append(s, t) # <<>>
  OBVIOUS
<1>2. \A i \in 1 .. Len(s) : Append(s, t)[i] = s[i] OBVIOUS
<1>3. DOMAIN s = 1 .. Len(s) /\ DOMAIN Append(s, t) = 1 .. Len(s) + 1 BY <1>1
<1>4. \A i \in 1 .. Len(s) : s[i] < t /\ s[i] \in Nat
  <2>1. \A i \in 1 .. Len(s) : s[i] \in Range(s) BY <1>3 DEF Range
  <2>2. \A i \in 1 .. Len(s) : s[i] \in T OBVIOUS
  <2> QED BY <2>1, <2>2
<1> DEFINE r == Append(s, t)
<1>5. r[Len(s) + 1] = t /\ (\A i \in 1 .. Len(s) : r[i] = s[i]) /\ Len(r) = Len(s) + 1
      /\ DOMAIN r = 1 .. Len(s) + 1
  BY <1>1, <1>2, <1>3
<1> HIDE DEF r
<1>6. Rises(r) BY <1>1, <1>4, <1>5 DEF Rises
<1>7. Range(r) = Range(s) \cup {t}
  <2>1. \A i \in 1 .. Len(s) + 1 : i \in 1 .. Len(s) \/ i = Len(s) + 1 BY <1>1
  <2>2. \A x \in Range(r) : x \in Range(s) \cup {t} BY <1>3, <1>5, <2>1 DEF Range
  <2>3. \A i \in 1 .. Len(s) : i \in 1 .. Len(s) + 1 BY <1>1
  <2>4. \A x \in Range(s) : x \in Range(r) BY <1>3, <1>5, <2>3 DEF Range
  <2>5. t \in Range(r)
    <3>1. Len(s) + 1 \in DOMAIN r BY <1>1, <1>5
    <3> QED BY <1>5, <3>1 DEF Range
  <2> QED BY <2>2, <2>4, <2>5
<1> QED BY <1>1, <1>6, <1>7 DEF r

\* The first event is taken away.
LEMMA Taken ==
  ASSUME NEW T \in SUBSET Nat, NEW s \in Seq(T), Rises(s), s # <<>>
  PROVE  /\ Tail(s) \in Seq(T) /\ Rises(Tail(s)) /\ Head(s) \in T
         /\ Range(s) = {Head(s)} \cup Range(Tail(s))
         /\ \A x \in Range(Tail(s)) : Head(s) < x
<1>1. /\ Tail(s) \in Seq(T) /\ Len(s) \in Nat \ {0} /\ Len(Tail(s)) = Len(s) - 1
      /\ Head(s) = s[1] /\ Head(s) \in T
  OBVIOUS
<1>2. \A i \in 1 .. Len(s) - 1 : Tail(s)[i] = s[i + 1] OBVIOUS
<1>3. DOMAIN s = 1 .. Len(s) /\ DOMAIN Tail(s) = 1 .. Len(s) - 1 BY <1>1
<1> DEFINE r == Tail(s)
<1>4. (\A i \in 1 .. Len(s) - 1 : r[i] = s[i + 1]) /\ Len(r) = Len(s) - 1 /\ DOMAIN r = 1 .. Len(s) - 1
  BY <1>1, <1>2, <1>3
<1> HIDE DEF r
<1>5. \A i \in 1 .. Len(s) - 1 : i + 1 \in 1 .. Len(s) /\ 1 < i + 1 BY <1>1
<1>6. 1 \in 1 .. Len(s) BY <1>1
<1>7. Rises(r) BY <1>1, <1>4, <1>5 DEF Rises
<1>8. \A x \in Range(r) : Head(s) < x BY <1>1, <1>4, <1>5, <1>6 DEF Range, Rises
<1>9. Range(s) = {Head(s)} \cup Range(r)
  <2>1. \A i \in 1 .. Len(s) : i = 1 \/ (i - 1 \in 1 .. Len(s) - 1 /\ (i - 1) + 1 = i) BY <1>1
  <2>2. \A i \in 1 .. Len(s) : i = 1 \/ (i - 1 \in DOMAIN r /\ r[i - 1] = s[i]) BY <1>4, <2>1
  <2>3. \A x \in Range(s) : x \in {Head(s)} \cup Range(r) BY <1>1, <1>3, <2>2 DEF Range
  <2>4. \A x \in Range(r) : x \in Range(s) BY <1>3, <1>4, <1>5 DEF Range
  <2>5. Head(s) \in Range(s) BY <1>1, <1>3, <1>6 DEF Range
  <2> QED BY <2>3, <2>4, <2>5
<1> QED BY <1>1, <1>7, <1>8, <1>9 DEF r

\* Only the empty queue has no events.
LEMMA Nothing ==
  /\ Range(<<>>) = {} /\ Rises(<<>>) /\ \A T : <<>> \in Seq(T)
  /\ \A T : \A s \in Seq(T) : s # <<>> => Range(s) # {}
<1>1. Range(<<>>) = {} /\ Rises(<<>>) /\ \A T : <<>> \in Seq(T) BY DEF Range, Rises
<1>2. ASSUME NEW T, NEW s \in Seq(T), s # <<>> PROVE Range(s) # {}
  <2>1. 1 \in DOMAIN s BY <1>2
  <2> QED BY <2>1 DEF Range
<1> QED BY <1>1, <1>2

\* What is in a queue of triggers is a trigger.
LEMMA InRange == ASSUME NEW T, NEW s \in Seq(T) PROVE Range(s) \subseteq T
<1>1. \A i \in DOMAIN s : s[i] \in T OBVIOUS
<1> QED BY <1>1 DEF Range
-----------------------------------------------------------------------------
(***************************************************************************)
(* TriggerSync: one event is queued, and what can be merged is merged.     *)
(***************************************************************************)
Triggered == 1 .. MaxTrigger

QueuesOK(q) ==
  /\ DOMAIN q \subseteq Conns
  /\ \A c \in DOMAIN q : q[c] \in Seq(Triggered) /\ Rises(q[c])

\* The parts of Receive.
Extended(c, t) == Put(evque, c, Append(Queue(c), t))
Rest(q) == [d \in DOMAIN q |-> IF d \in From(q) THEN Tail(q[d]) ELSE q[d]]
Over(q) == {d \in inactive \cap DOMAIN q : Rest(q)[d] = <<>>}

\* Receive in these terms.
LEMMA ReceiveIs ==
  ASSUME NEW c, NEW t, Receive(c, t)
  PROVE  /\ Sends(c, t)
         /\ \/ /\ ~Complete(Extended(c, t)) /\ evque' = Extended(c, t)
               /\ UNCHANGED <<inactive, out>>
            \/ /\ Complete(Extended(c, t))
               /\ evque' = Restrict(Rest(Extended(c, t)), DOMAIN Extended(c, t) \ Over(Extended(c, t)))
               /\ inactive' = inactive \ Over(Extended(c, t))
               /\ out' = Append(out, [tg |-> First(Extended(c, t)), from |-> From(Extended(c, t))])
BY DEF Receive, Extended, Rest, Over

\* The smallest front is there, it is the front of the sources that are
\* merged, and what remains of every queue is later.
LEMMA Merging ==
  ASSUME NEW q, QueuesOK(q), DOMAIN q # {}, Complete(q)
  PROVE  /\ First(q) \in Triggered /\ From(q) \subseteq DOMAIN q /\ DOMAIN Rest(q) = DOMAIN q
         /\ \E d \in DOMAIN q : d \in From(q)
         /\ \A d \in DOMAIN q :
              /\ Rest(q)[d] \in Seq(Triggered) /\ Rises(Rest(q)[d])
              /\ Range(q[d]) # {}
              /\ \A x \in Range(Rest(q)[d]) : x \in Range(q[d]) /\ First(q) < x
              /\ \A x \in Range(q[d]) :
                   x = First(q) \/ (First(q) < x /\ x \in Range(Rest(q)[d]))
              /\ d \in From(q) <=> First(q) \in Range(q[d])
              /\ d \notin From(q) => Rest(q)[d] = q[d]
<1> DEFINE F == First(q)
<1>1. ASSUME NEW d \in DOMAIN q
      PROVE  /\ q[d] \in Seq(Triggered) /\ Rises(q[d]) /\ q[d] # <<>>
             /\ Tail(q[d]) \in Seq(Triggered) /\ Rises(Tail(q[d])) /\ Head(q[d]) \in Triggered
             /\ Range(q[d]) = {Head(q[d])} \cup Range(Tail(q[d]))
             /\ Range(q[d]) \subseteq Triggered
             /\ \A x \in Range(Tail(q[d])) : Head(q[d]) < x
  <2>1. q[d] \in Seq(Triggered) /\ Rises(q[d]) /\ q[d] # <<>> BY DEF QueuesOK, Complete
  <2>2. Triggered \subseteq Nat BY DEF Triggered
  <2>3. Range(q[d]) \subseteq Triggered BY <2>1, InRange
  <2> QED BY <2>1, <2>2, <2>3, Taken
<1>2. F \in Fronts(q) /\ \A d \in DOMAIN q : F <= Head(q[d])
  <2>1. Fronts(q) # {} /\ \A d \in DOMAIN q : Head(q[d]) \in Fronts(q) BY DEF Fronts
  <2>2. Fronts(q) \in SUBSET Nat BY <1>1 DEF Fronts, Triggered
  <2>3. \E m \in Fronts(q) : \A x \in Fronts(q) : m <= x BY <2>1, <2>2, Least
  <2>4. F = CHOOSE m \in Fronts(q) : \A x \in Fronts(q) : m <= x BY DEF First, Min
  <2>5. F \in Fronts(q) /\ \A x \in Fronts(q) : F <= x BY <2>3, <2>4, Zenon
  <2> QED BY <2>1, <2>5
<1>3. PICK e \in DOMAIN q : F = Head(q[e]) BY <1>2 DEF Fronts
<1>4. F \in Triggered /\ F \in Nat BY <1>1, <1>3 DEF Triggered
<1>5. \A d \in DOMAIN q : d \in From(q) <=> Head(q[d]) = F BY DEF From
<1>6. \A d \in DOMAIN q : Rest(q)[d] = IF Head(q[d]) = F THEN Tail(q[d]) ELSE q[d]
  BY <1>5 DEF Rest
<1>7. From(q) \subseteq DOMAIN q /\ DOMAIN Rest(q) = DOMAIN q BY DEF From, Rest
<1> HIDE DEF F
<1>8. ASSUME NEW d \in DOMAIN q
      PROVE  /\ Rest(q)[d] \in Seq(Triggered) /\ Rises(Rest(q)[d])
             /\ Range(q[d]) # {}
             /\ \A x \in Range(Rest(q)[d]) : x \in Range(q[d]) /\ F < x
             /\ \A x \in Range(q[d]) : x = F \/ (F < x /\ x \in Range(Rest(q)[d]))
             /\ d \in From(q) <=> F \in Range(q[d])
             /\ d \notin From(q) => Rest(q)[d] = q[d]
  <2>1. F <= Head(q[d]) /\ Head(q[d]) \in Nat BY <1>1, <1>2 DEF Triggered
  <2>2. \A x \in Range(q[d]) : x \in Nat BY <1>1 DEF Triggered
  <2>3. CASE Head(q[d]) = F
    <3>1. Rest(q)[d] = Tail(q[d]) /\ d \in From(q) BY <1>5, <1>6, <2>3
    <3> QED BY <1>1, <2>3, <3>1
  <2>4. CASE Head(q[d]) # F
    <3>1. Rest(q)[d] = q[d] /\ d \notin From(q) BY <1>5, <1>6, <2>4
    <3>2. F < Head(q[d]) BY <1>4, <2>1, <2>4
    <3>3. \A x \in Range(q[d]) : F < x BY <1>1, <1>4, <2>1, <2>2, <3>2
    <3>4. F \notin Range(q[d]) BY <1>4, <3>3
    <3>6. Range(q[d]) # {} BY <1>1
    <3>5. q[d] \in Seq(Triggered) /\ Rises(q[d]) BY <1>1
    <3> QED BY <3>1, <3>3, <3>4, <3>5, <3>6, Zenon
  <2> QED BY <2>3, <2>4
<1> QED BY <1>3, <1>4, <1>5, <1>7, <1>8 DEF F
-----------------------------------------------------------------------------
(***************************************************************************)
(* TriggerSync, whatever happens to the connections.                       *)
(***************************************************************************)
TriggerRuns == Runs["trigger"]

StreamTypes ==
  /\ kind = "trigger" /\ "trigger" \in Kinds
  /\ run \in DOMAIN TriggerRuns
  /\ link \in [Conns -> {"new", "on", "ghost", "off"}]
  /\ got \in [Conns -> SUBSET Triggered]

\* No connection of a later run is known.
KeyInv == \A j \in DOMAIN TriggerRuns : run < j => TriggerRuns[j] \cap DOMAIN evque = {}

\* What is queued for a connection of this run came in this run.
HeldInv == \A c \in Peers \cap DOMAIN evque : Range(evque[c]) \subseteq got[c]

\* What was written came before what is queued.
WrittenInv ==
  \A i \in DOMAIN out : \A c \in out[i].from :
    /\ c \in Peers => out[i].tg \in got[c]
    /\ c \in DOMAIN evque => \A x \in Range(evque[c]) : out[i].tg < x

OutTypes == out \in Seq([tg : Triggered, from : SUBSET Conns])

TriggerInv ==
  /\ StreamTypes /\ OutTypes /\ inactive \subseteq Conns /\ QueuesOK(evque)
  /\ KeyInv /\ HeldInv /\ WrittenInv /\ SourceOrder

\* The connections of a run are connections.
LEMMA PeersAre ==
  ASSUME StreamTypes
  PROVE  Peers \subseteq Conns /\ Peers = TriggerRuns[run]
<1>1. TriggerRuns \in Seq(SUBSET Conns)
  BY StreamsAssumption DEF TriggerRuns, StreamTypes
<1> QED BY <1>1 DEF StreamTypes, Peers, TriggerRuns

\* The event is at the end of its queue, and later than all of its source.
LEMMA Extends ==
  ASSUME TriggerInv, NEW c \in Conns, NEW t \in Triggers(c), Sends(c, t),
         NEW q, q = Extended(c, t)
  PROVE  /\ QueuesOK(q) /\ DOMAIN q = DOMAIN evque \cup {c} /\ c \in Peers
         /\ t \in Triggered /\ (\A u \in got[c] : u < t)
         /\ got' \in [Conns -> SUBSET Triggered]
         /\ got'[c] = got[c] \cup {t} /\ \A d \in Conns \ {c} : got'[d] = got[d]
         /\ \A d \in DOMAIN q \ {c} : d \in DOMAIN evque /\ q[d] = evque[d]
         /\ q[c] = Append(Queue(c), t) /\ Range(q[c]) = Range(Queue(c)) \cup {t}
         /\ \A d \in Peers \cap DOMAIN q : Range(q[d]) \subseteq got'[d]
         /\ \A i \in DOMAIN out : \A d \in out[i].from :
              /\ d \in Peers => out[i].tg \in got'[d]
              /\ d \in DOMAIN q => \A x \in Range(q[d]) : out[i].tg < x
<1>0. StreamTypes /\ QueuesOK(evque) /\ HeldInv /\ WrittenInv BY DEF TriggerInv
<1>1. t \in Triggered /\ (\A u \in got[c] : u < t) /\ c \in Peers
  BY DEF Triggers, Triggered, Sends
<1>2. /\ got' \in [Conns -> SUBSET Triggered]
      /\ got'[c] = got[c] \cup {t} /\ \A d \in Conns \ {c} : got'[d] = got[d]
  BY <1>0, <1>1 DEF StreamTypes, Sends
<1>3. Queue(c) \in Seq(Triggered) /\ Rises(Queue(c)) /\ Range(Queue(c)) \subseteq got[c]
  BY <1>0, <1>1, Nothing DEF Queue, QueuesOK, HeldInv
<1>4. /\ q[c] = Append(Queue(c), t) /\ DOMAIN q = DOMAIN evque \cup {c}
      /\ \A d \in DOMAIN q \ {c} : d \in DOMAIN evque /\ q[d] = evque[d]
  BY DEF Extended, Put
<1>5. Triggered \in SUBSET Nat BY DEF Triggered
<1>6. /\ q[c] \in Seq(Triggered) /\ Rises(q[c]) /\ Range(q[c]) = Range(Queue(c)) \cup {t}
  <2>1. \A x \in Range(Queue(c)) : x < t BY <1>1, <1>3
  <2> QED BY <1>1, <1>3, <1>4, <1>5, <2>1, Added
<1>7. QueuesOK(q) BY <1>0, <1>4, <1>6 DEF QueuesOK
<1>8. ASSUME NEW d \in Peers \cap DOMAIN q PROVE Range(q[d]) \subseteq got'[d]
  <2>1. CASE d = c BY <1>2, <1>3, <1>6, <2>1
  <2>2. CASE d # c
    <3>1. d \in Conns /\ d \in DOMAIN evque /\ q[d] = evque[d] BY <1>4, <1>7, <2>2 DEF QueuesOK
    <3> QED BY <1>0, <1>2, <2>2, <3>1 DEF HeldInv
  <2> QED BY <2>1, <2>2
<1>9. ASSUME NEW i \in DOMAIN out, NEW d \in out[i].from
      PROVE  /\ d \in Peers => out[i].tg \in got'[d]
             /\ d \in DOMAIN q => \A x \in Range(q[d]) : out[i].tg < x
  <2>1. /\ d \in Peers => out[i].tg \in got[d]
        /\ d \in DOMAIN evque => \A x \in Range(evque[d]) : out[i].tg < x
    BY <1>0 DEF WrittenInv
  <2>2. d \in Peers => out[i].tg \in got'[d]
    <3>1. Peers \subseteq Conns BY <1>0, PeersAre
    <3> QED BY <1>2, <2>1, <3>1
  <2>3. CASE d = c
    <3>1. out[i].tg < t BY <1>1, <2>1, <2>3
    <3>2. \A x \in Range(Queue(c)) : out[i].tg < x
      BY <2>1, <2>3, Nothing DEF Queue
    <3> QED BY <1>6, <2>2, <2>3, <3>1, <3>2
  <2>4. CASE d # c
    <3>1. d \in DOMAIN q => d \in DOMAIN evque /\ q[d] = evque[d] BY <1>4, <2>4
    <3> QED BY <2>1, <2>2, <3>1
  <2> QED BY <2>3, <2>4
<1> QED BY <1>1, <1>2, <1>4, <1>6, <1>7, <1>8, <1>9

\* At first nothing was received.
LEMMA TriggerStarts == ASSUME CollectorsInit, kind = "trigger" PROVE TriggerInv
<1>1. Init /\ "trigger" \in Kinds
  BY DEF CollectorsInit, Position!Init, Position!StreamsInit, Time!Init, Time!StreamsInit,
         Pairs!Init, Pairs!StreamsInit, Overlaps!Init, Overlaps!StreamsInit, Merge!Init, Merge!Programs
<1>2. StreamsInit("trigger") /\ evque = <<>> /\ inactive = {} /\ out = <<>> BY <1>1 DEF Init
<1>3. StreamTypes
  <2>1. TriggerRuns \in Seq(SUBSET Conns) \ {<<>>} BY <1>1, StreamsAssumption DEF TriggerRuns
  <2>2. 1 \in DOMAIN TriggerRuns BY <2>1
  <2> QED BY <1>1, <1>2, <2>2 DEF StreamsInit, StreamTypes
<1>4. DOMAIN evque = {} /\ DOMAIN out = {} BY <1>2
<1>5. OutTypes BY <1>2 DEF OutTypes
<1>6. QueuesOK(evque) BY <1>4 DEF QueuesOK
<1>7. KeyInv /\ HeldInv BY <1>4 DEF KeyInv, HeldInv
<1>8. WrittenInv /\ SourceOrder BY <1>4 DEF WrittenInv, SourceOrder
<1> QED BY <1>2, <1>3, <1>5, <1>6, <1>7, <1>8 DEF TriggerInv
-----------------------------------------------------------------------------
(***************************************************************************)
(* Each callback keeps TriggerInv.                                         *)
(***************************************************************************)
\* SourceOrder only depends on what is written and on the kind.
LEMMA OrderFromHeld ==
  ASSUME OutTypes, SourceOrder, kind = "trigger", NEW F \in Triggered, NEW S \in SUBSET Conns,
         \A i \in DOMAIN out : \A c \in out[i].from : c \in S => out[i].tg < F,
         out' = Append(out, [tg |-> F, from |-> S])
  PROVE  /\ OutTypes' /\ DOMAIN out' = DOMAIN out \cup {Len(out) + 1}
         /\ Len(out) + 1 \notin DOMAIN out
         /\ \A i \in DOMAIN out : out'[i] = out[i]
         /\ out'[Len(out) + 1] = [tg |-> F, from |-> S]
         /\ (kind' = kind => SourceOrder')
<1> DEFINE R == [tg : Triggered, from : SUBSET Conns]
           e == [tg |-> F, from |-> S]
<1>1. out \in Seq(R) /\ e \in R BY DEF OutTypes
<1>2. e.tg = F /\ e.from = S OBVIOUS
<1> HIDE DEF R, e
<1>3. /\ out' \in Seq(R) /\ Len(out) \in Nat /\ DOMAIN out = 1 .. Len(out)
      /\ DOMAIN out' = 1 .. Len(out) + 1
      /\ \A i \in 1 .. Len(out) : out'[i] = out[i]
      /\ out'[Len(out) + 1] = e
  BY <1>1 DEF e
<1>4. OutTypes' BY <1>3 DEF OutTypes, R
<1>5. DOMAIN out' = DOMAIN out \cup {Len(out) + 1} /\ Len(out) + 1 \notin DOMAIN out BY <1>3
<1>6. ASSUME NEW i \in DOMAIN out', NEW j \in DOMAIN out', i < j,
             out'[i].from \cap out'[j].from # {}
      PROVE  out'[i].tg < out'[j].tg
  <2>1. i \in DOMAIN out BY <1>3, <1>6
  <2>2. out'[i] = out[i] BY <1>3, <2>1
  <2>3. CASE j \in DOMAIN out
    <3>1. out'[j] = out[j] BY <1>3, <2>3
    <3> QED BY <1>6, <2>1, <2>2, <2>3, <3>1 DEF SourceOrder
  <2>4. CASE j = Len(out) + 1
    <3>1. out'[j] = e BY <1>3, <2>4
    <3>2. PICK c \in out[i].from : c \in S BY <1>2, <1>6, <2>2, <3>1
    <3> QED BY <1>2, <2>1, <2>2, <3>1, <3>2
  <2> QED BY <1>5, <2>3, <2>4
<1>7. SourceOrder' BY <1>6 DEF SourceOrder
<1> QED BY <1>3, <1>4, <1>5, <1>7 DEF e

\* OnConnect and OnDisconnect only empty queues.
LEMMA QueuesShrink ==
  ASSUME TriggerInv, StreamTypes', run' = run, got' = got, out' = out,
         inactive' \subseteq Conns, DOMAIN evque' \subseteq DOMAIN evque \cup Peers,
         \A c \in DOMAIN evque' : evque'[c] = <<>> \/ (c \in DOMAIN evque /\ evque'[c] = evque[c])
  PROVE  TriggerInv'
<1>0. /\ StreamTypes /\ OutTypes /\ QueuesOK(evque) /\ KeyInv /\ HeldInv /\ WrittenInv
      /\ SourceOrder
  BY DEF TriggerInv
<1>1. kind' = kind /\ Peers' = Peers /\ Peers \subseteq Conns /\ Peers = TriggerRuns[run]
  <2>1. kind' = kind BY <1>0 DEF StreamTypes
  <2> QED BY <1>0, <2>1, PeersAre DEF Peers
<1>2. QueuesOK(evque')
  <2>1. DOMAIN evque' \subseteq Conns BY <1>0, <1>1 DEF QueuesOK
  <2> QED BY <1>0, <2>1, Nothing DEF QueuesOK
<1>3. KeyInv'
  <2>1. SUFFICES ASSUME NEW j \in DOMAIN TriggerRuns, run < j
                 PROVE  TriggerRuns[j] \cap DOMAIN evque' = {}
    BY DEF KeyInv, TriggerRuns
  <2>2. TriggerRuns[j] \cap Peers = {}
    <3>1. run \in DOMAIN TriggerRuns /\ run # j /\ "trigger" \in Kinds
      <4>1. TriggerRuns \in Seq(SUBSET Conns) BY <1>0, StreamsAssumption DEF StreamTypes, TriggerRuns
      <4>2. run \in Nat BY <1>0, <4>1 DEF StreamTypes
      <4> QED BY <1>0, <2>1, <4>2 DEF StreamTypes
    <3> QED BY <1>1, <3>1, KeysAssumption DEF TriggerRuns
  <2> QED BY <1>0, <2>1, <2>2 DEF KeyInv
<1>4. HeldInv'
  <2>1. \A c \in Peers' \cap DOMAIN evque' : Range(evque'[c]) \subseteq got'[c]
    BY <1>0, <1>1, Nothing DEF HeldInv
  <2> QED BY <2>1 DEF HeldInv
<1>5. WrittenInv'
  <2>1. ASSUME NEW i \in DOMAIN out, NEW c \in out[i].from
        PROVE  /\ c \in Peers' => out[i].tg \in got'[c]
               /\ c \in DOMAIN evque' => \A x \in Range(evque'[c]) : out[i].tg < x
    BY <1>0, <1>1, Nothing DEF WrittenInv
  <2> QED BY <2>1 DEF WrittenInv
<1>6. SourceOrder' /\ OutTypes' BY <1>0, <1>1 DEF SourceOrder, OutTypes
<1> QED BY <1>2, <1>3, <1>4, <1>5, <1>6 DEF TriggerInv

\* A new connection has an empty queue.
LEMMA ConnectKeeps ==
  ASSUME TriggerInv, NEW c \in Conns, Connect(c)
  PROVE  TriggerInv'
<1>0. StreamTypes /\ inactive \subseteq Conns BY DEF TriggerInv
<1>1. /\ Joins(c) /\ evque' = Put(evque, c, <<>>) /\ inactive' = inactive \ {c} /\ out' = out
  BY DEF Connect
<1>2. StreamTypes' /\ run' = run /\ got' = got /\ c \in Peers BY <1>0, <1>1 DEF StreamTypes, Joins
<1>3. /\ DOMAIN evque' = DOMAIN evque \cup {c}
      /\ \A d \in DOMAIN evque' : evque'[d] = <<>> \/ (d \in DOMAIN evque /\ evque'[d] = evque[d])
  BY <1>1 DEF Put
<1> QED BY <1>0, <1>1, <1>2, <1>3, QueuesShrink

\* The end of a connection clears all or marks it.
LEMMA DisconnectKeeps ==
  ASSUME TriggerInv, NEW c \in Conns, Disconnect(c)
  PROVE  TriggerInv'
<1>0. StreamTypes /\ inactive \subseteq Conns BY DEF TriggerInv
<1>1. /\ Leaves(c) /\ out' = out
      /\ \/ inactive' = {} /\ evque' = <<>>
         \/ inactive' = inactive \cup {c} /\ evque' = evque
  BY DEF Disconnect
<1>2. StreamTypes' /\ run' = run /\ got' = got BY <1>0, <1>1 DEF StreamTypes, Leaves
<1>3. /\ inactive' \subseteq Conns /\ DOMAIN evque' \subseteq DOMAIN evque
      /\ \A d \in DOMAIN evque' : d \in DOMAIN evque /\ evque'[d] = evque[d]
  BY <1>0, <1>1
<1> QED BY <1>1, <1>2, <1>3, QueuesShrink

\* A reset clears the maps.
LEMMA ResetKeeps == ASSUME TriggerInv, Reset PROVE TriggerInv'
<1>0. StreamTypes BY DEF TriggerInv
<1>1. UNCHANGED streamVars /\ evque' = <<>> /\ inactive' = {} /\ out' = out BY DEF Reset, Resets
<1>2. StreamTypes' /\ run' = run /\ got' = got BY <1>0, <1>1 DEF StreamTypes, streamVars
<1>3. /\ inactive' \subseteq Conns /\ DOMAIN evque' = {} BY <1>1
<1> QED BY <1>1, <1>2, <1>3, QueuesShrink

\* An event without a trigger number changes no map.
LEMMA UntriggeredKeeps ==
  ASSUME TriggerInv, NEW c \in Conns, ReceiveUntriggered(c) PROVE TriggerInv'
<1>0. StreamTypes /\ inactive \subseteq Conns BY DEF TriggerInv
<1>1. UNCHANGED <<kind, run, link, got, tgVars>> BY DEF ReceiveUntriggered
<1>2. StreamTypes' BY <1>0, <1>1 DEF StreamTypes
<1>3. run' = run /\ got' = got /\ out' = out /\ inactive' = inactive /\ evque' = evque
  BY <1>1 DEF tgVars
<1> QED BY <1>0, <1>2, <1>3, QueuesShrink

\* What is left of the last run is of connections that do not come back.
LEMMA StartKeeps == ASSUME TriggerInv, StartRun PROVE TriggerInv'
<1>0. StreamTypes /\ inactive \subseteq Conns /\ QueuesOK(evque) /\ KeyInv BY DEF TriggerInv
<1>1. /\ run < Len(Runs[kind]) /\ run' = run + 1 /\ link' = [c \in Conns |-> "new"]
      /\ got' = [c \in Conns |-> {}] /\ kind' = kind
      /\ out' = <<>> /\ UNCHANGED <<evque, inactive>>
  BY DEF StartRun, Restarts
<1>2. TriggerRuns \in Seq(SUBSET Conns) BY <1>0, StreamsAssumption DEF StreamTypes, TriggerRuns
<1>3. StreamTypes' /\ run \in Nat /\ run' \in DOMAIN TriggerRuns
  <2>1. run \in Nat /\ run' \in DOMAIN TriggerRuns BY <1>0, <1>1, <1>2 DEF StreamTypes, TriggerRuns
  <2> QED BY <1>0, <1>1, <2>1 DEF StreamTypes
<1>4. Peers' = TriggerRuns[run'] BY <1>0, <1>1 DEF Peers, StreamTypes, TriggerRuns
<1>5. Peers' \cap DOMAIN evque = {} BY <1>0, <1>1, <1>3, <1>4 DEF KeyInv
<1>6. KeyInv'
  <2>1. \A j \in DOMAIN TriggerRuns : j \in Nat BY <1>2
  <2>2. \A j \in DOMAIN TriggerRuns : run' < j => run < j BY <1>1, <1>3, <2>1
  <2>3. \A j \in DOMAIN TriggerRuns : run' < j => TriggerRuns[j] \cap DOMAIN evque' = {}
    BY <1>0, <1>1, <2>2 DEF KeyInv
  <2> QED BY <2>3 DEF KeyInv, TriggerRuns
<1>7. HeldInv'
  <2>1. Peers' \cap DOMAIN evque' = {} BY <1>1, <1>5
  <2> QED BY <2>1 DEF HeldInv
<1>8. DOMAIN out' = {} BY <1>1
<1>9. OutTypes' BY <1>1 DEF OutTypes
<1>10. WrittenInv' /\ SourceOrder' BY <1>8 DEF WrittenInv, SourceOrder
<1> QED BY <1>0, <1>1, <1>3, <1>6, <1>7, <1>9, <1>10 DEF TriggerInv, QueuesOK

\* What Receive does, in the terms of Merging: either the event only waits, or
\* the smallest trigger F of the queues q is written.
LEMMA ReceiveCases ==
  ASSUME TriggerInv, NEW c \in Conns, NEW t \in Triggers(c), Receive(c, t),
         NEW q, q = Extended(c, t)
  PROVE  \/ /\ ~Complete(q) /\ evque' = q /\ UNCHANGED <<inactive, out>>
         \/ /\ Complete(q) /\ First(q) \in Triggered /\ From(q) \subseteq DOMAIN q
            /\ DOMAIN evque' = DOMAIN q \ Over(q) /\ Over(q) \subseteq inactive
            /\ inactive' = inactive \ Over(q)
            /\ out' = Append(out, [tg |-> First(q), from |-> From(q)])
            /\ \A d \in DOMAIN q :
                 /\ d \in Over(q) <=> d \in inactive /\ Rest(q)[d] = <<>>
                 /\ d \notin Over(q) => evque'[d] = Rest(q)[d]
                 /\ Rest(q)[d] \in Seq(Triggered) /\ Rises(Rest(q)[d])
                 /\ Range(q[d]) # {}
                 /\ \A x \in Range(Rest(q)[d]) : x \in Range(q[d]) /\ First(q) < x
                 /\ \A x \in Range(q[d]) :
                      x = First(q) \/ (First(q) < x /\ x \in Range(Rest(q)[d]))
                 /\ d \in From(q) <=> First(q) \in Range(q[d])
                 /\ d \notin From(q) => Rest(q)[d] = q[d]
<1>1. /\ Sends(c, t)
      /\ \/ /\ ~Complete(q) /\ evque' = q
            /\ UNCHANGED <<inactive, out>>
         \/ /\ Complete(q)
            /\ evque' = Restrict(Rest(q), DOMAIN q \ Over(q))
            /\ inactive' = inactive \ Over(q)
            /\ out' = Append(out, [tg |-> First(q), from |-> From(q)])
  BY ReceiveIs
<1>2. QueuesOK(q) /\ c \in DOMAIN q
  <2>1. Sends(c, t) BY <1>1
  <2>2. QueuesOK(q) /\ DOMAIN q = DOMAIN evque \cup {c} BY <2>1, Extends
  <2> QED BY <2>2
<1>3. CASE ~Complete(q) BY <1>1, <1>3
<1>4. CASE Complete(q)
  <2>1. /\ evque' = Restrict(Rest(q), DOMAIN q \ Over(q))
        /\ inactive' = inactive \ Over(q)
        /\ out' = Append(out, [tg |-> First(q), from |-> From(q)])
    BY <1>1, <1>4
  <2>2. Over(q) \subseteq inactive /\ \A d \in DOMAIN q : d \in Over(q) <=> d \in inactive /\ Rest(q)[d] = <<>>
    BY DEF Over
  <2>3. /\ First(q) \in Triggered /\ From(q) \subseteq DOMAIN q /\ DOMAIN Rest(q) = DOMAIN q
        /\ \A d \in DOMAIN q :
              /\ Rest(q)[d] \in Seq(Triggered) /\ Rises(Rest(q)[d])
              /\ Range(q[d]) # {}
              /\ \A x \in Range(Rest(q)[d]) : x \in Range(q[d]) /\ First(q) < x
              /\ \A x \in Range(q[d]) :
                   x = First(q) \/ (First(q) < x /\ x \in Range(Rest(q)[d]))
              /\ d \in From(q) <=> First(q) \in Range(q[d])
              /\ d \notin From(q) => Rest(q)[d] = q[d]
    <3>1. DOMAIN q # {} BY <1>2
    <3> QED BY <1>2, <1>4, <3>1, Merging
  <2>4. DOMAIN evque' = DOMAIN q \ Over(q) /\ \A d \in DOMAIN q \ Over(q) : evque'[d] = Rest(q)[d]
    BY <2>1, <2>3 DEF Restrict
  <2> QED BY <1>4, <2>1, <2>2, <2>3, <2>4, Zenon
<1> QED BY <1>3, <1>4

\* What is written is smaller than all that is still queued.
LEMMA ReceiveKeeps ==
  ASSUME TriggerInv, NEW c \in Conns, NEW t \in Triggers(c), Receive(c, t)
  PROVE  TriggerInv'
<1> DEFINE q == Extended(c, t)
<1>0. StreamTypes /\ OutTypes /\ inactive \subseteq Conns /\ KeyInv /\ SourceOrder
  BY DEF TriggerInv
<1>1. Sends(c, t) BY DEF Receive
<1>2. /\ QueuesOK(q) /\ DOMAIN q = DOMAIN evque \cup {c} /\ c \in Peers
      /\ got' \in [Conns -> SUBSET Triggered]
      /\ \A d \in Peers \cap DOMAIN q : Range(q[d]) \subseteq got'[d]
      /\ \A i \in DOMAIN out : \A d \in out[i].from :
           /\ d \in Peers => out[i].tg \in got'[d]
           /\ d \in DOMAIN q => \A x \in Range(q[d]) : out[i].tg < x
  BY <1>1, Extends
<1>3. /\ kind' = kind /\ run' = run /\ link' = link /\ Peers' = Peers
  BY <1>1 DEF Sends, Peers
<1>4. StreamTypes' BY <1>0, <1>2, <1>3 DEF StreamTypes
<1>5. \A j \in DOMAIN TriggerRuns : run < j => TriggerRuns[j] \cap DOMAIN q = {}
  <2>1. SUFFICES ASSUME NEW j \in DOMAIN TriggerRuns, run < j
                 PROVE  TriggerRuns[j] \cap DOMAIN q = {}
    OBVIOUS
  <2>2. Peers = TriggerRuns[run] BY <1>0, PeersAre
  <2>3. run \in DOMAIN TriggerRuns /\ run # j /\ "trigger" \in Kinds
    <3>1. TriggerRuns \in Seq(SUBSET Conns) BY <1>0, StreamsAssumption DEF StreamTypes, TriggerRuns
    <3>2. run \in Nat BY <1>0, <3>1 DEF StreamTypes
    <3> QED BY <1>0, <2>1, <3>2 DEF StreamTypes
  <2>4. TriggerRuns[j] \cap Peers = {} BY <2>2, <2>3, KeysAssumption DEF TriggerRuns
  <2>5. TriggerRuns[j] \cap DOMAIN evque = {} BY <1>0, <2>1 DEF KeyInv
  <2> QED BY <1>2, <2>4, <2>5
<1> HIDE DEF q
<1>6. CASE ~Complete(q)
  <2>1. evque' = q /\ UNCHANGED <<inactive, out>> BY <1>6, ReceiveCases DEF q
  <2>2. QueuesOK(evque') /\ KeyInv' /\ HeldInv'
    BY <1>2, <1>3, <1>5, <2>1 DEF KeyInv, HeldInv, TriggerRuns
  <2>3. WrittenInv' /\ SourceOrder' /\ OutTypes'
    BY <1>0, <1>2, <1>3, <2>1 DEF WrittenInv, SourceOrder, OutTypes
  <2> QED BY <1>0, <1>4, <2>1, <2>2, <2>3 DEF TriggerInv
<1>7. CASE Complete(q)
  <2> DEFINE F == First(q)
  <2>1. /\ F \in Triggered /\ From(q) \subseteq DOMAIN q
        /\ DOMAIN evque' = DOMAIN q \ Over(q)
        /\ inactive' = inactive \ Over(q)
        /\ out' = Append(out, [tg |-> F, from |-> From(q)])
        /\ \A d \in DOMAIN q :
             /\ d \notin Over(q) => evque'[d] = Rest(q)[d]
             /\ Rest(q)[d] \in Seq(Triggered) /\ Rises(Rest(q)[d])
             /\ \A x \in Range(Rest(q)[d]) : x \in Range(q[d]) /\ F < x
             /\ d \in From(q) <=> F \in Range(q[d])
    BY <1>7, ReceiveCases DEF q
  <2> HIDE DEF F
  <2>2. QueuesOK(evque') BY <1>2, <2>1 DEF QueuesOK
  <2>3. KeyInv' /\ HeldInv'
    <3>1. KeyInv' BY <1>3, <1>5, <2>1 DEF KeyInv, TriggerRuns
    <3>2. ASSUME NEW d \in Peers' \cap DOMAIN evque' PROVE Range(evque'[d]) \subseteq got'[d]
      BY <1>2, <1>3, <2>1
    <3> QED BY <3>1, <3>2 DEF HeldInv
  <2>4. /\ OutTypes' /\ DOMAIN out' = DOMAIN out \cup {Len(out) + 1}
        /\ \A i \in DOMAIN out : out'[i] = out[i]
        /\ out'[Len(out) + 1] = [tg |-> F, from |-> From(q)]
        /\ SourceOrder'
    <3>1. From(q) \in SUBSET Conns BY <1>2, <2>1 DEF QueuesOK
    <3>2. \A i \in DOMAIN out : \A d \in out[i].from : d \in From(q) => out[i].tg < F
      BY <1>2, <2>1
    <3> QED BY <1>0, <1>3, <2>1, <3>1, <3>2, OrderFromHeld DEF StreamTypes
  <2>5. WrittenInv'
    <3>1. ASSUME NEW i \in DOMAIN out', NEW d \in out'[i].from
          PROVE  /\ d \in Peers' => out'[i].tg \in got'[d]
                 /\ d \in DOMAIN evque' => \A x \in Range(evque'[d]) : out'[i].tg < x
      <4>1. CASE i \in DOMAIN out
        <5>1. out'[i] = out[i] BY <2>4, <4>1
        <5>2. d \in out[i].from BY <3>1, <5>1
        <5> QED BY <1>2, <1>3, <2>1, <4>1, <5>1, <5>2
      <4>2. CASE i = Len(out) + 1
        <5>1. out'[i].tg = F /\ d \in From(q) BY <2>4, <3>1, <4>2
        <5> QED BY <1>2, <1>3, <2>1, <5>1
      <4> QED BY <2>4, <3>1, <4>1, <4>2
    <3> QED BY <3>1 DEF WrittenInv
  <2>6. inactive' \subseteq Conns BY <1>0, <2>1
  <2> QED BY <1>4, <2>2, <2>3, <2>4, <2>5, <2>6 DEF TriggerInv
<1> QED BY <1>6, <1>7

\* Every step keeps it.
LEMMA TriggerKeeps == ASSUME TriggerInv, Next PROVE TriggerInv'
<1>1. ASSUME NEW c \in Conns, Connect(c) \/ Disconnect(c) \/ ReceiveUntriggered(c) PROVE TriggerInv'
  BY <1>1, ConnectKeeps, DisconnectKeeps, UntriggeredKeeps
<1>2. ASSUME NEW c \in Conns, NEW t \in Triggers(c), Receive(c, t) PROVE TriggerInv'
  BY <1>2, ReceiveKeeps
<1>3. Reset \/ StartRun => TriggerInv' BY ResetKeeps, StartKeeps
<1> QED BY <1>1, <1>2, <1>3 DEF Next
-----------------------------------------------------------------------------
(***************************************************************************)
(* TriggerSync with orderly connections.                                   *)
(***************************************************************************)
\* A connection is there from OnConnect on, it is inactive from OnDisconnect
\* on, and the maps are empty when none is left.
MapsInv ==
  env \subseteq {"gaps", "late"} =>
    /\ ~thrown
    /\ \A c \in Peers : link[c] # "ghost"
    /\ DOMAIN evque \subseteq Peers /\ inactive \subseteq DOMAIN evque
    /\ \A c \in Peers : link[c] = "on" <=> c \in DOMAIN evque \ inactive
    /\ DOMAIN evque = inactive => evque = <<>>

\* Nothing is sent before all connections are made.
FullStart ==
  /\ (\E c \in Peers : got[c] # {}) => \A d \in Peers : link[d] # "new"
  /\ out # <<>> => \E c \in Peers : got[c] # {}

\* The last trigger written divides what came: all before it is written, all
\* after it is queued, and a source that is there has come as far.
LastDivides ==
  /\ \A i \in DOMAIN out : out[i].tg <= LastTrigger
  /\ \A c \in DOMAIN evque : \A x \in Range(evque[c]) : LastTrigger < x
  /\ \A c \in Peers : \A t \in got[c] :
       /\ t <= LastTrigger => t \in Written(c)
       /\ c \in DOMAIN evque /\ LastTrigger < t => t \in Range(evque[c])
  /\ out # <<>> => \A c \in Peers : link[c] = "on" => \E u \in got[c] : LastTrigger <= u

\* While there is a connection, a source that is forgotten has nothing left.
NoneForgotten ==
  (\E d \in Peers : link[d] = "on") =>
    \A c \in Peers \ DOMAIN evque : \A t \in got[c] : t <= LastTrigger

DividesInv == env \subseteq {"gaps"} => FullStart /\ LastDivides /\ NoneForgotten

\* No trigger is missed.
CountsInv == env = {} => \A c \in Peers : \E k \in Nat : got[c] = 1 .. k

\* StartRun is a later run, with nothing received and no connection yet.
LEMMA RunStarts ==
  ASSUME TriggerInv, StartRun
  PROVE  /\ env' = env /\ ~thrown' /\ out' = <<>> /\ UNCHANGED <<evque, inactive>>
         /\ Peers' \subseteq Conns
         /\ \A c \in Peers' : link'[c] = "new" /\ got'[c] = {}
         /\ "lost" \in env \/ thrown \/ \A c \in Peers : link[c] \notin {"on", "ghost"}
<1>1. TriggerInv' BY StartKeeps
<1>2. Peers' \subseteq Conns
  <2>1. StreamTypes' BY <1>1 DEF TriggerInv
  <2>2. (StreamTypes => Peers \subseteq Conns)' BY PeersAre, PTL
  <2> QED BY <2>1, <2>2
<1> QED BY <1>2 DEF StartRun, Restarts

\* A new connection is not inactive.
LEMMA MapsConnect ==
  ASSUME TriggerInv, MapsInv, NEW c \in Conns, Connect(c)
  PROVE  MapsInv'
<1>1. /\ c \in Peers /\ link[c] = "new" /\ link' = [link EXCEPT ![c] = "on"]
      /\ env' = env /\ thrown' = thrown /\ Peers' = Peers
      /\ evque' = Put(evque, c, <<>>) /\ inactive' = inactive \ {c}
  BY DEF Connect, Joins, Peers
<1>2. link \in [Conns -> {"new", "on", "ghost", "off"}] /\ Peers \subseteq Conns
  BY PeersAre DEF TriggerInv, StreamTypes
<1>3. DOMAIN evque' = DOMAIN evque \cup {c} BY <1>1 DEF Put
<1>4. link'[c] = "on" /\ \A d \in Peers \ {c} : link'[d] = link[d] BY <1>1, <1>2
<1>5. c \in DOMAIN evque' /\ c \notin inactive' BY <1>1, <1>3
<1> QED BY <1>1, <1>3, <1>4, <1>5 DEF MapsInv

\* The sizes tell: the inactive connections are some of the connections.
LEMMA MapsDisconnect ==
  ASSUME TriggerInv, MapsInv, NEW c \in Conns, Disconnect(c)
  PROVE  MapsInv'
<1> SUFFICES ASSUME env \subseteq {"gaps", "late"}, env' = env PROVE MapsInv'
  <2>1. env' = env BY DEF Disconnect, Leaves
  <2> QED BY <2>1 DEF MapsInv
<1>0. /\ link \in [Conns -> {"new", "on", "ghost", "off"}] /\ Peers \subseteq Conns
      /\ DOMAIN evque \subseteq Conns
  BY PeersAre DEF TriggerInv, StreamTypes, QueuesOK
<1>1. /\ ~thrown /\ (\A d \in Peers : link[d] # "ghost")
      /\ DOMAIN evque \subseteq Peers /\ inactive \subseteq DOMAIN evque
      /\ \A d \in Peers : link[d] = "on" <=> d \in DOMAIN evque \ inactive
  BY DEF MapsInv
<1>2. /\ c \in Peers /\ link[c] = "on" /\ link' = [link EXCEPT ![c] = "off"]
      /\ thrown' = thrown /\ Peers' = Peers
  BY <1>1 DEF Disconnect, Leaves, Peers
<1>3. link'[c] = "off" /\ \A d \in Peers \ {c} : link'[d] = link[d] BY <1>0, <1>2
<1>4. CASE Cardinality(inactive \cup {c}) = Cardinality(DOMAIN evque)
  <2>1. inactive' = {} /\ evque' = <<>> BY <1>4 DEF Disconnect
  <2>2. inactive \cup {c} = DOMAIN evque
    <3>1. inactive \cup {c} \subseteq DOMAIN evque BY <1>1, <1>2
    <3>2. IsFiniteSet(DOMAIN evque) BY <1>0, StreamsAssumption, FS_Subset
    <3> QED BY <1>4, <3>1, <3>2, FS_Subset
  <2>3. DOMAIN evque' = {} BY <2>1
  <2>4. \A d \in Peers : link'[d] # "on" BY <1>1, <1>3, <2>2
  <2>5. \A d \in Peers : link'[d] # "ghost" BY <1>1, <1>3
  <2> QED BY <1>1, <1>2, <2>1, <2>3, <2>4, <2>5 DEF MapsInv
<1>5. CASE Cardinality(inactive \cup {c}) # Cardinality(DOMAIN evque)
  <2>1. inactive' = inactive \cup {c} /\ evque' = evque BY <1>5 DEF Disconnect
  <2>2. DOMAIN evque' # inactive' BY <1>5, <2>1
  <2>3. \A d \in Peers : link'[d] = "on" <=> d \in DOMAIN evque' \ inactive'
    BY <1>1, <1>3, <2>1
  <2>4. \A d \in Peers : link'[d] # "ghost" BY <1>1, <1>3
  <2>5. inactive' \subseteq DOMAIN evque' BY <1>1, <1>2, <2>1
  <2> QED BY <1>1, <1>2, <2>1, <2>2, <2>3, <2>4, <2>5 DEF MapsInv
<1> QED BY <1>4, <1>5

\* Only inactive connections are forgotten, and the sender is not one.
LEMMA MapsReceive ==
  ASSUME TriggerInv, MapsInv, NEW c \in Conns, NEW t \in Triggers(c), Receive(c, t)
  PROVE  MapsInv'
<1> DEFINE q == Extended(c, t)
<1>1. Sends(c, t) /\ thrown' = thrown BY DEF Receive
<1>2. /\ c \in Peers /\ link[c] \in {"on", "ghost"} /\ link' = link /\ env' = env /\ Peers' = Peers
  BY <1>1 DEF Sends, Peers
<1>3. DOMAIN q = DOMAIN evque \cup {c} BY <1>1, Extends
<1> HIDE DEF q
<1> SUFFICES ASSUME env \subseteq {"gaps", "late"} PROVE MapsInv' BY <1>2 DEF MapsInv
<1>4. /\ ~thrown /\ (\A d \in Peers : link[d] # "ghost")
      /\ DOMAIN evque \subseteq Peers /\ inactive \subseteq DOMAIN evque
      /\ \A d \in Peers : link[d] = "on" <=> d \in DOMAIN evque \ inactive
  BY DEF MapsInv
<1>5. c \in DOMAIN evque /\ c \notin inactive /\ DOMAIN q = DOMAIN evque BY <1>2, <1>3, <1>4
<1>6. \E O \in SUBSET inactive : DOMAIN evque' = DOMAIN evque \ O /\ inactive' = inactive \ O
  <2>1. CASE ~Complete(q)
    <3>1. evque' = q /\ inactive' = inactive BY <2>1, ReceiveCases DEF q
    <3>2. {} \in SUBSET inactive /\ DOMAIN evque' = DOMAIN evque \ {} /\ inactive' = inactive \ {}
      BY <1>5, <3>1
    <3> QED BY <3>2
  <2>2. CASE Complete(q)
    <3>1. DOMAIN evque' = DOMAIN q \ Over(q) /\ Over(q) \subseteq inactive /\ inactive' = inactive \ Over(q)
      BY <2>2, ReceiveCases DEF q
    <3> QED BY <1>5, <3>1
  <2> QED BY <2>1, <2>2
<1>7. PICK O \in SUBSET inactive : DOMAIN evque' = DOMAIN evque \ O /\ inactive' = inactive \ O
  BY <1>6
<1>8. DOMAIN evque' \ inactive' = DOMAIN evque \ inactive BY <1>7
<1>9. DOMAIN evque' # inactive' BY <1>5, <1>7
<1>10. DOMAIN evque' \subseteq Peers /\ inactive' \subseteq DOMAIN evque' BY <1>4, <1>7
<1> QED BY <1>1, <1>2, <1>4, <1>8, <1>9, <1>10 DEF MapsInv

\* Every step keeps the maps in step with the connections.
LEMMA MapsKeeps == ASSUME TriggerInv, MapsInv, Next PROVE MapsInv'
<1>1. ASSUME NEW c \in Conns, Connect(c) \/ Disconnect(c) PROVE MapsInv'
  BY <1>1, MapsConnect, MapsDisconnect
<1>2. ASSUME NEW c \in Conns, ReceiveUntriggered(c) PROVE MapsInv'
  BY <1>2 DEF ReceiveUntriggered, MapsInv
<1>3. ASSUME NEW c \in Conns, NEW t \in Triggers(c), Receive(c, t) PROVE MapsInv'
  BY <1>3, MapsReceive
<1>4. Reset => MapsInv' BY DEF Reset, Resets, streamVars, MapsInv
<1>5. ASSUME StartRun PROVE MapsInv'
  <2>1. /\ env' = env /\ ~thrown' /\ UNCHANGED <<evque, inactive>>
        /\ \A c \in Peers' : link'[c] = "new"
        /\ "lost" \in env \/ thrown \/ \A c \in Peers : link[c] \notin {"on", "ghost"}
    BY <1>5, RunStarts
  <2>2. SUFFICES ASSUME env \subseteq {"gaps", "late"} PROVE MapsInv' BY <2>1 DEF MapsInv
  <2>3. \A c \in Peers : link[c] # "on" BY <2>1, <2>2 DEF MapsInv
  <2>4. DOMAIN evque = inactive BY <2>2, <2>3 DEF MapsInv
  <2>5. evque = <<>> /\ DOMAIN evque = {} BY <2>2, <2>4 DEF MapsInv
  <2> QED BY <2>1, <2>4, <2>5 DEF MapsInv
<1> QED BY <1>1, <1>2, <1>3, <1>4, <1>5 DEF Next
-----------------------------------------------------------------------------
(***************************************************************************)
(* All connections are made before the first event: what is written is a   *)
(* prefix.                                                                 *)
(***************************************************************************)
\* What is written are triggers, the last one too.
LEMMA LastIsNat ==
  ASSUME OutTypes
  PROVE  (\A i \in DOMAIN out : out[i].tg \in Nat) /\ LastTrigger \in Nat
<1> DEFINE R == [tg : Triggered, from : SUBSET Conns]
<1>1. \A e \in R : e.tg \in Nat BY DEF Triggered
<1>2. out \in Seq(R) BY DEF OutTypes
<1> HIDE DEF R
<1>3. \A i \in DOMAIN out : out[i] \in R BY <1>2
<1>4. out # <<>> => Len(out) \in DOMAIN out BY <1>2
<1> QED BY <1>1, <1>3, <1>4 DEF LastTrigger

\* Without an event written the last trigger is 0, and nothing else changes
\* what is written.
LEMMA SameOut == out' = out => LastTrigger' = LastTrigger /\ \A c : Written(c)' = Written(c)
BY DEF LastTrigger, Written

\* While connections are made nothing was received.
LEMMA DividesConnect ==
  ASSUME TriggerInv, DividesInv, NEW c \in Conns, Connect(c)
  PROVE  DividesInv'
<1>1. /\ \/ "late" \in env
         \/ \A d \in Peers : link[d] \in {"new", "on"} /\ got[d] = {}
      /\ env' = env /\ Peers' = Peers /\ got' = got /\ out' = out /\ evque' = Put(evque, c, <<>>)
  BY DEF Connect, Joins, Peers
<1>2. SUFFICES ASSUME env \subseteq {"gaps"} PROVE DividesInv' BY <1>1 DEF DividesInv
<1>3. \A d \in Peers' : got'[d] = {} BY <1>1, <1>2
<1>4. out' = <<>> /\ LastTrigger' = LastTrigger
  BY <1>1, <1>2, <1>3, SameOut DEF DividesInv, FullStart
<1>5. FullStart' BY <1>3, <1>4 DEF FullStart
<1>6. \A d \in DOMAIN evque' : \A x \in Range(evque'[d]) : LastTrigger' < x
  <2>1. \A d \in DOMAIN evque' : evque'[d] = <<>> \/ (d \in DOMAIN evque /\ evque'[d] = evque[d])
    BY <1>1 DEF Put
  <2>2. \A d \in DOMAIN evque : \A x \in Range(evque[d]) : LastTrigger < x
    BY <1>2 DEF DividesInv, LastDivides
  <2> QED BY <1>4, <2>1, <2>2, Nothing
<1>7. LastDivides'
  <2>1. DOMAIN out' = {} BY <1>4
  <2> QED BY <1>3, <1>4, <1>6, <2>1 DEF LastDivides
<1>8. NoneForgotten' BY <1>3 DEF NoneForgotten
<1> QED BY <1>5, <1>7, <1>8 DEF DividesInv

\* When the queues are cleared no connection is left to write.
LEMMA DividesDisconnect ==
  ASSUME TriggerInv, MapsInv, DividesInv, NEW c \in Conns, Disconnect(c)
  PROVE  DividesInv'
<1>1. /\ env' = env /\ Peers' = Peers /\ got' = got /\ out' = out
      /\ evque' = <<>> \/ evque' = evque
  BY DEF Disconnect, Leaves, Peers
<1>2. SUFFICES ASSUME env \subseteq {"gaps"} PROVE DividesInv' BY <1>1 DEF DividesInv
<1>3. link \in [Conns -> {"new", "on", "ghost", "off"}] /\ Peers \subseteq Conns
  BY PeersAre DEF TriggerInv, StreamTypes
<1>4. link' = [link EXCEPT ![c] = "off"]
  <2>1. "ghost" \notin env BY <1>2
  <2> QED BY <2>1 DEF Disconnect, Leaves
<1>5. \A d \in Peers : link'[d] \in {"on", "new"} => link'[d] = link[d] BY <1>3, <1>4
<1>6. LastTrigger' = LastTrigger /\ (\A d : Written(d)' = Written(d)) BY <1>1, SameOut
<1>7. FullStart /\ LastDivides /\ NoneForgotten BY <1>2 DEF DividesInv
<1>8. FullStart' BY <1>1, <1>5, <1>7 DEF FullStart
<1>9. CASE evque' = <<>>
  <2>1. DOMAIN evque' = {} BY <1>9
  <2>2. \A d \in Peers' : link'[d] # "on"
    <3>1. MapsInv' BY MapsDisconnect
    <3>2. env' \subseteq {"gaps", "late"} BY <1>1, <1>2
    <3>3. \A d \in Peers' : link'[d] = "on" => d \in DOMAIN evque' BY <3>1, <3>2 DEF MapsInv
    <3> QED BY <2>1, <3>3
  <2>3. LastDivides' BY <1>1, <1>6, <1>7, <2>1, <2>2 DEF LastDivides
  <2>4. NoneForgotten' BY <2>2 DEF NoneForgotten
  <2> QED BY <1>8, <2>3, <2>4 DEF DividesInv
<1>10. CASE evque' = evque
  <2>1. LastDivides' BY <1>1, <1>5, <1>6, <1>7, <1>10 DEF LastDivides
  <2>2. NoneForgotten' BY <1>1, <1>5, <1>6, <1>7, <1>10 DEF NoneForgotten
  <2> QED BY <1>8, <2>1, <2>2 DEF DividesInv
<1> QED BY <1>1, <1>9, <1>10

\* An event that comes is later than all that is written, and what comes of
\* a source that is there is queued.
LEMMA DividesWith ==
  ASSUME TriggerInv, MapsInv, DividesInv, env \subseteq {"gaps"},
         NEW c \in Conns, NEW t \in Triggers(c), Receive(c, t), NEW q, q = Extended(c, t)
  PROVE  /\ c \in Peers /\ link[c] = "on" /\ c \in DOMAIN evque /\ c \notin inactive
         /\ DOMAIN q = DOMAIN evque /\ LastTrigger < t
         /\ \A d \in Peers : link[d] # "new"
         /\ \A d \in DOMAIN q : \A x \in Range(q[d]) : LastTrigger < x
         /\ \A d \in Peers : \A u \in got'[d] :
              /\ u <= LastTrigger => u \in Written(d)
              /\ d \in DOMAIN q /\ LastTrigger < u => u \in Range(q[d])
         /\ \A d \in Peers \ DOMAIN q : \A u \in got'[d] : u <= LastTrigger
         /\ \A d \in Peers : got[d] \subseteq got'[d]
<1>1. Sends(c, t) BY DEF Receive
<1>2. /\ c \in Peers /\ link[c] \in {"on", "ghost"} /\ \A d \in Peers : link[d] # "new"
  <2>1. "late" \notin env OBVIOUS
  <2> QED BY <1>1, <2>1 DEF Sends
<1>3. /\ \A d \in Peers : link[d] # "ghost"
      /\ \A d \in Peers : link[d] = "on" <=> d \in DOMAIN evque \ inactive
  BY DEF MapsInv
<1>4. /\ DOMAIN q = DOMAIN evque \cup {c}
      /\ t \in Triggered /\ (\A u \in got[c] : u < t)
      /\ got'[c] = got[c] \cup {t} /\ \A d \in Conns \ {c} : got'[d] = got[d]
      /\ \A d \in DOMAIN q \ {c} : d \in DOMAIN evque /\ q[d] = evque[d]
      /\ Range(q[c]) = Range(Queue(c)) \cup {t}
  <2>1. DOMAIN q = DOMAIN evque \cup {c} BY <1>1, Extends
  <2>2. t \in Triggered /\ (\A u \in got[c] : u < t) BY <1>1, Extends
  <2>3. got'[c] = got[c] \cup {t} /\ \A d \in Conns \ {c} : got'[d] = got[d] BY <1>1, Extends
  <2>4. \A d \in DOMAIN q \ {c} : d \in DOMAIN evque /\ q[d] = evque[d] BY DEF Extended, Put
  <2>5. Range(q[c]) = Range(Queue(c)) \cup {t} BY <1>1, Extends
  <2> QED BY <2>1, <2>2, <2>3, <2>4, <2>5
<1>5. link[c] = "on" /\ c \in DOMAIN evque /\ c \notin inactive /\ DOMAIN q = DOMAIN evque
  BY <1>2, <1>3, <1>4
<1>6. FullStart /\ LastDivides /\ NoneForgotten BY DEF DividesInv
<1>7. LastTrigger \in Nat /\ t \in Nat /\ 0 < t BY <1>4, LastIsNat DEF TriggerInv, Triggered
<1>8. Peers \subseteq Conns /\ \A d \in Conns : got[d] \subseteq Nat
  BY PeersAre DEF TriggerInv, StreamTypes, Triggered
<1>9. LastTrigger < t
  <2>1. CASE out = <<>> BY <1>7, <2>1 DEF LastTrigger
  <2>2. CASE out # <<>>
    <3>1. PICK u \in got[c] : LastTrigger <= u BY <1>2, <1>5, <1>6, <2>2 DEF LastDivides
    <3>2. u < t /\ u \in Nat BY <1>2, <1>4, <1>8, <3>1
    <3> QED BY <1>7, <3>1, <3>2
  <2> QED BY <2>1, <2>2
<1>10. Queue(c) = evque[c] BY <1>5 DEF Queue
<1>11. ASSUME NEW d \in DOMAIN q, NEW x \in Range(q[d]) PROVE LastTrigger < x
  <2>1. \A y \in Range(evque[d]) : LastTrigger < y BY <1>5, <1>6, <1>11 DEF LastDivides
  <2> QED BY <1>4, <1>9, <1>10, <1>11, <2>1
<1>12. ASSUME NEW d \in Peers, NEW u \in got'[d]
       PROVE  /\ u <= LastTrigger => u \in Written(d)
              /\ d \in DOMAIN q /\ LastTrigger < u => u \in Range(q[d])
  <2>1. CASE u \in got[d]
    <3>1. /\ u <= LastTrigger => u \in Written(d)
          /\ d \in DOMAIN evque /\ LastTrigger < u => u \in Range(evque[d])
      BY <1>6, <2>1 DEF LastDivides
    <3> QED BY <1>4, <1>5, <1>10, <3>1
  <2>2. CASE u \notin got[d]
    <3>1. d = c /\ u = t BY <1>4, <1>8, <1>12, <2>2
    <3> QED BY <1>4, <1>7, <1>9, <3>1
  <2> QED BY <2>1, <2>2
<1>13. ASSUME NEW d \in Peers \ DOMAIN q, NEW u \in got'[d] PROVE u <= LastTrigger
  <2>1. d # c /\ u \in got[d] /\ d \notin DOMAIN evque BY <1>4, <1>5, <1>8
  <2> QED BY <1>2, <1>5, <1>6, <2>1 DEF NoneForgotten
<1>14. \A d \in Peers : got[d] \subseteq got'[d] BY <1>4, <1>8
<1> QED BY <1>2, <1>5, <1>9, <1>11, <1>12, <1>13, <1>14

\* The trigger written is the smallest that waits: it is now the last one.
LEMMA DividesReceive ==
  ASSUME TriggerInv, MapsInv, DividesInv, NEW c \in Conns, NEW t \in Triggers(c), Receive(c, t)
  PROVE  DividesInv'
<1> DEFINE q == Extended(c, t)
           F == First(q)
<1>1. Sends(c, t) BY DEF Receive
<1>2. link' = link /\ env' = env /\ Peers' = Peers BY <1>1 DEF Sends, Peers
<1>3. SUFFICES ASSUME env \subseteq {"gaps"} PROVE DividesInv' BY <1>2 DEF DividesInv
<1> HIDE DEF q
<1>4. /\ c \in Peers /\ link[c] = "on" /\ c \in DOMAIN evque /\ c \notin inactive
      /\ DOMAIN q = DOMAIN evque /\ LastTrigger < t
      /\ \A d \in Peers : link[d] # "new"
      /\ \A d \in DOMAIN q : \A x \in Range(q[d]) : LastTrigger < x
      /\ \A d \in Peers : \A u \in got'[d] :
           /\ u <= LastTrigger => u \in Written(d)
           /\ d \in DOMAIN q /\ LastTrigger < u => u \in Range(q[d])
      /\ \A d \in Peers \ DOMAIN q : \A u \in got'[d] : u <= LastTrigger
      /\ \A d \in Peers : got[d] \subseteq got'[d]
  BY <1>3, DividesWith DEF q
<1>5. FullStart /\ LastDivides /\ NoneForgotten BY <1>3 DEF DividesInv
<1>6. /\ \A d \in Peers \cap DOMAIN q : Range(q[d]) \subseteq got'[d]
      /\ got'[c] = got[c] \cup {t} /\ got' \in [Conns -> SUBSET Triggered]
  BY <1>1, Extends DEF q
<1>7. FullStart' BY <1>2, <1>4, <1>6 DEF FullStart
<1>8. CASE ~Complete(q)
  <2>1. evque' = q /\ out' = out BY <1>8, ReceiveCases DEF q
  <2>2. LastTrigger' = LastTrigger /\ \A d : Written(d)' = Written(d) BY <2>1, SameOut
  <2>3. LastDivides'
    <3>1. \A i \in DOMAIN out' : out'[i].tg <= LastTrigger' BY <1>5, <2>1, <2>2 DEF LastDivides
    <3>2. \A d \in DOMAIN evque' : \A x \in Range(evque'[d]) : LastTrigger' < x
      BY <1>4, <2>1, <2>2
    <3>3. \A d \in Peers' : \A u \in got'[d] :
            /\ u <= LastTrigger' => u \in Written(d)'
            /\ d \in DOMAIN evque' /\ LastTrigger' < u => u \in Range(evque'[d])
      BY <1>2, <1>4, <2>1, <2>2
    <3>4. out' # <<>> => \A d \in Peers' : link'[d] = "on" => \E u \in got'[d] : LastTrigger' <= u
      BY <1>2, <1>4, <1>5, <2>1, <2>2 DEF LastDivides
    <3> QED BY <3>1, <3>2, <3>3, <3>4 DEF LastDivides
  <2>4. NoneForgotten' BY <1>2, <1>4, <2>1, <2>2 DEF NoneForgotten
  <2> QED BY <1>7, <2>3, <2>4 DEF DividesInv
<1>9. CASE Complete(q)
  <2>1. /\ F \in Triggered /\ From(q) \subseteq DOMAIN q
        /\ DOMAIN evque' = DOMAIN q \ Over(q)
        /\ Over(q) \subseteq inactive
        /\ out' = Append(out, [tg |-> F, from |-> From(q)])
        /\ \A d \in DOMAIN q :
             /\ d \in Over(q) => Rest(q)[d] = <<>>
             /\ d \notin Over(q) => evque'[d] = Rest(q)[d]
             /\ Range(q[d]) # {}
             /\ \A x \in Range(Rest(q)[d]) : x \in Range(q[d]) /\ F < x
             /\ \A x \in Range(q[d]) : x = F \/ (F < x /\ x \in Range(Rest(q)[d]))
             /\ d \in From(q) <=> F \in Range(q[d])
    BY <1>9, ReceiveCases DEF q
  <2> HIDE DEF F
  <2>2. LastTrigger \in Nat /\ F \in Nat /\ (\A d \in Peers : got'[d] \subseteq Nat)
    <3>1. Peers \subseteq Conns BY PeersAre DEF TriggerInv
    <3> QED BY <1>6, <2>1, <3>1, LastIsNat DEF TriggerInv, Triggered
  <2>3. LastTrigger < F
    <3>1. PICK x \in Range(q[c]) : x = F \/ F < x BY <1>4, <2>1
    <3>2. \E d \in DOMAIN q : d \in From(q)
      <4>1. DOMAIN q # {} /\ QueuesOK(q) BY <1>1, <1>4, Extends DEF q
      <4> QED BY <1>9, <4>1, Merging
    <3>3. PICK d \in DOMAIN q : F \in Range(q[d]) BY <2>1, <3>2
    <3> QED BY <1>4, <3>3
  <2>4. /\ LastTrigger' = F /\ out' # <<>>
        /\ \A i \in DOMAIN out' : out'[i].tg <= F
        /\ \A d : Written(d) \subseteq Written(d)'
        /\ \A d \in From(q) : F \in Written(d)'
    <3> DEFINE e == [tg |-> F, from |-> From(q)]
    <3>1. out \in Seq([tg : Triggered, from : SUBSET Conns]) BY DEF TriggerInv, OutTypes
    <3>2. e.tg = F /\ e.from = From(q) OBVIOUS
    <3>3. out' = Append(out, e) BY <2>1
    <3> HIDE DEF e
    <3>4. /\ Len(out') = Len(out) + 1 /\ out' # <<>> /\ DOMAIN out' = 1 .. Len(out) + 1
          /\ out'[Len(out) + 1] = e /\ DOMAIN out = 1 .. Len(out) /\ Len(out) \in Nat
          /\ \A i \in 1 .. Len(out) : out'[i] = out[i]
      <4>1. QueuesOK(q) BY <1>1, Extends DEF q
      <4>2. From(q) \in SUBSET Conns BY <2>1, <4>1 DEF QueuesOK
      <4>3. e \in [tg : Triggered, from : SUBSET Conns] BY <2>1, <4>2 DEF e
      <4> QED BY <3>1, <3>3, <4>3
    <3>5. LastTrigger' = F BY <3>2, <3>4 DEF LastTrigger
    <3>6. ASSUME NEW i \in DOMAIN out' PROVE out'[i].tg <= F
      <4>1. CASE i \in DOMAIN out
        <5>1. out'[i] = out[i] /\ out[i].tg <= LastTrigger BY <1>5, <3>4, <4>1 DEF LastDivides
        <5>2. out[i].tg \in Nat BY <4>1, LastIsNat DEF TriggerInv
        <5> QED BY <2>2, <2>3, <5>1, <5>2
      <4>2. CASE i = Len(out) + 1 BY <2>2, <3>2, <3>4, <4>2
      <4> QED BY <3>4, <4>1, <4>2
    <3>7. \A d : Written(d) \subseteq Written(d)'
      <4>1. DOMAIN out \subseteq DOMAIN out' /\ \A i \in DOMAIN out : out'[i] = out[i] BY <3>4
      <4> QED BY <4>1 DEF Written
    <3>8. \A d \in From(q) : F \in Written(d)'
      <4>1. Len(out) + 1 \in DOMAIN out' BY <3>4
      <4> QED BY <3>2, <3>4, <4>1 DEF Written
    <3> QED BY <3>4, <3>5, <3>6, <3>7, <3>8
  <2>5. ASSUME NEW d \in Peers, NEW u \in got'[d]
        PROVE  /\ u <= F => u \in Written(d)'
               /\ d \in DOMAIN evque' /\ F < u => u \in Range(evque'[d])
               /\ d \notin DOMAIN evque' => u <= F
    <3>1. u \in Nat BY <2>2
    <3>2. CASE u <= LastTrigger
      <4>1. u \in Written(d)' BY <1>4, <2>4, <3>2
      <4> QED BY <2>2, <2>3, <3>1, <3>2, <4>1
    <3>3. CASE LastTrigger < u
      <4>1. d \in DOMAIN q BY <1>4, <2>2, <3>1, <3>3
      <4>2. u \in Range(q[d]) BY <1>4, <3>3, <4>1
      <4>3. u = F \/ (F < u /\ u \in Range(Rest(q)[d])) BY <2>1, <4>1, <4>2
      <4>4. u = F => d \in From(q) BY <2>1, <4>1, <4>2
      <4>5. u \in Range(Rest(q)[d]) => d \in DOMAIN evque' /\ evque'[d] = Rest(q)[d]
        BY <2>1, <4>1, Nothing
      <4> QED BY <2>2, <2>4, <3>1, <4>3, <4>4, <4>5
    <3> QED BY <2>2, <3>1, <3>2, <3>3
  <2>6. ASSUME NEW d \in Peers, link[d] = "on" PROVE \E u \in got'[d] : F <= u
    <3>1. d \in DOMAIN q BY <1>3, <1>4, <2>6 DEF MapsInv
    <3>2. PICK x \in Range(q[d]) : x = F \/ F < x BY <2>1, <3>1
    <3>3. x \in got'[d] /\ x \in Nat BY <1>6, <2>2, <3>1, <3>2
    <3> QED BY <2>2, <3>2, <3>3
  <2>7. LastDivides'
    <3>1. \A d \in DOMAIN evque' : \A x \in Range(evque'[d]) : LastTrigger' < x
      BY <2>1, <2>4
    <3>2. \A d \in Peers' : \A u \in got'[d] :
            /\ u <= LastTrigger' => u \in Written(d)'
            /\ d \in DOMAIN evque' /\ LastTrigger' < u => u \in Range(evque'[d])
      BY <1>2, <2>4, <2>5
    <3>3. \A d \in Peers' : link'[d] = "on" => \E u \in got'[d] : LastTrigger' <= u
      BY <1>2, <2>4, <2>6
    <3> QED BY <2>4, <3>1, <3>2, <3>3 DEF LastDivides
  <2>8. NoneForgotten' BY <1>2, <2>4, <2>5 DEF NoneForgotten
  <2> QED BY <1>7, <2>7, <2>8 DEF DividesInv
<1> QED BY <1>8, <1>9

\* Every step keeps what the last trigger divides.
LEMMA DividesKeeps == ASSUME TriggerInv, MapsInv, DividesInv, Next PROVE DividesInv'
<1>1. ASSUME NEW c \in Conns, Connect(c) \/ Disconnect(c) PROVE DividesInv'
  BY <1>1, DividesConnect, DividesDisconnect
<1>2. ASSUME NEW c \in Conns, ReceiveUntriggered(c) PROVE DividesInv'
  BY <1>2 DEF ReceiveUntriggered, DividesInv
<1>3. ASSUME NEW c \in Conns, NEW t \in Triggers(c), Receive(c, t) PROVE DividesInv'
  BY <1>3, DividesReceive
<1>4. Reset => DividesInv' BY DEF Reset, Resets, streamVars, DividesInv
<1>5. ASSUME StartRun PROVE DividesInv'
  <2>1. /\ env' = env /\ out' = <<>> /\ UNCHANGED <<evque, inactive>>
        /\ \A c \in Peers' : link'[c] = "new" /\ got'[c] = {}
        /\ "lost" \in env \/ thrown \/ \A c \in Peers : link[c] \notin {"on", "ghost"}
    BY <1>5, RunStarts
  <2>2. SUFFICES ASSUME env \subseteq {"gaps"} PROVE DividesInv' BY <2>1 DEF DividesInv
  <2>3. env \subseteq {"gaps", "late"} /\ "lost" \notin env BY <2>2
  <2>4. DOMAIN evque = inactive BY <2>1, <2>3 DEF MapsInv
  <2>5. DOMAIN evque' = {} /\ DOMAIN out' = {}
    <3>1. evque = <<>> BY <2>3, <2>4 DEF MapsInv
    <3> QED BY <2>1, <3>1
  <2>6. FullStart' BY <2>1 DEF FullStart
  <2>7. LastDivides' BY <2>1, <2>5 DEF LastDivides
  <2>8. NoneForgotten' BY <2>1 DEF NoneForgotten
  <2> QED BY <2>6, <2>7, <2>8 DEF DividesInv
<1> QED BY <1>1, <1>2, <1>3, <1>4, <1>5 DEF Next
-----------------------------------------------------------------------------
(***************************************************************************)
(* No trigger is missed: one queue is empty.                               *)
(***************************************************************************)
\* The next trigger follows the last one.
LEMMA CountsReceive ==
  ASSUME TriggerInv, CountsInv, env = {}, NEW c \in Conns, NEW t \in Triggers(c), Sends(c, t)
  PROVE  got'[c] = 1 .. t /\ CountsInv'
<1>1. c \in Peers /\ Peers' = Peers /\ env' = env /\ got' = [got EXCEPT ![c] = @ \cup {t}]
  BY DEF Sends, Peers
<1>2. got \in [Conns -> SUBSET Triggered] /\ Peers \subseteq Conns
  BY PeersAre DEF TriggerInv, StreamTypes
<1>3. PICK k \in Nat : got[c] = 1 .. k BY <1>1 DEF CountsInv
<1>4. Cardinality(1 .. k) = k
  <2>1. Cardinality(1 .. k) = IF 1 > k THEN 0 ELSE k - 1 + 1 BY FS_Interval
  <2> QED BY <2>1
<1>5. t = k + 1 BY <1>3, <1>4 DEF Triggers
<1>6. got'[c] = 1 .. k + 1 BY <1>1, <1>2, <1>3, <1>5
<1>7. \A d \in Peers \ {c} : got'[d] = got[d] BY <1>1, <1>2
<1>8. \A d \in Peers' : \E n \in Nat : got'[d] = 1 .. n
  <2>1. k + 1 \in Nat OBVIOUS
  <2> QED BY <1>1, <1>6, <1>7, <2>1 DEF CountsInv
<1> QED BY <1>5, <1>6, <1>8 DEF CountsInv

\* Every step keeps the triggers without a gap.
LEMMA CountsKeeps == ASSUME TriggerInv, CountsInv, Next PROVE CountsInv'
<1>1. ASSUME NEW c \in Conns, Connect(c) \/ Disconnect(c) \/ ReceiveUntriggered(c) PROVE CountsInv'
  <2>1. env' = env /\ Peers' = Peers /\ got' = got
    BY <1>1 DEF Connect, Disconnect, ReceiveUntriggered, Joins, Leaves, Peers
  <2> QED BY <2>1 DEF CountsInv
<1>2. ASSUME NEW c \in Conns, NEW t \in Triggers(c), Receive(c, t) PROVE CountsInv'
  <2>1. Sends(c, t) /\ env' = env BY <1>2 DEF Receive, Sends
  <2>2. CASE env = {} BY <2>1, <2>2, CountsReceive
  <2>3. CASE env # {} BY <2>1, <2>3 DEF CountsInv
  <2> QED BY <2>2, <2>3
<1>3. Reset => CountsInv' BY DEF Reset, Resets, streamVars, CountsInv, Peers
<1>4. ASSUME StartRun PROVE CountsInv'
  <2>1. \A c \in Peers' : got'[c] = {} BY <1>4, RunStarts
  <2>2. {} = 1 .. 0 OBVIOUS
  <2> QED BY <2>1, <2>2 DEF CountsInv
<1> QED BY <1>1, <1>2, <1>3, <1>4 DEF Next

\* The event that comes is for the only queue that is empty, and it is the
\* smallest: what makes the event complete makes the queue empty again.
LEMMA PromptReceive ==
  ASSUME TriggerInv, MapsInv, DividesInv, CountsInv, Prompt,
         NEW c \in Conns, NEW t \in Triggers(c), Receive(c, t)
  PROVE  Prompt'
<1> DEFINE q == Extended(c, t)
           F == First(q)
<1>1. Sends(c, t) BY DEF Receive
<1>2. kind' = kind /\ link' = link /\ env' = env /\ Peers' = Peers BY <1>1 DEF Sends, Peers
<1>3. SUFFICES ASSUME kind = "trigger", env = {}, Peers # {}, \A d \in Peers : link[d] = "on"
               PROVE  \E d \in Peers : evque'[d] = <<>>
  BY <1>2 DEF Prompt
<1>4. \A d \in Peers : d \in DOMAIN evque \ inactive BY <1>3 DEF MapsInv
<1>5. PICK e \in Peers : evque[e] = <<>> BY <1>3 DEF Prompt
<1> HIDE DEF q
<1>6. /\ c \in Peers /\ DOMAIN q = DOMAIN evque
      /\ \A d \in DOMAIN q : \A x \in Range(q[d]) : LastTrigger < x
      /\ \A d \in Peers : \A u \in got'[d] :
           d \in DOMAIN q /\ LastTrigger < u => u \in Range(q[d])
      /\ DOMAIN evque \subseteq Peers
  <2>1. env \subseteq {"gaps"} /\ env \subseteq {"gaps", "late"} BY <1>3
  <2>2. DOMAIN evque \subseteq Peers BY <2>1 DEF MapsInv
  <2> QED BY <2>1, <2>2, DividesWith DEF q
<1>7. /\ q[c] = Append(evque[c], t)
      /\ \A d \in DOMAIN q \ {c} : q[d] = evque[d]
  BY <1>4, <1>6 DEF q, Extended, Put, Queue
<1>8. CASE ~Complete(q)
  <2>1. evque' = q BY <1>8, ReceiveCases DEF q
  <2>2. PICK d \in DOMAIN q : q[d] = <<>> BY <1>8 DEF Complete
  <2> QED BY <1>6, <2>1, <2>2
<1>9. CASE Complete(q)
  <2>1. e = c BY <1>4, <1>5, <1>6, <1>7, <1>9 DEF Complete
  <2>2. q[c] = <<t>> /\ Tail(q[c]) = <<>> /\ Head(q[c]) = t /\ Range(q[c]) = {t}
    <3>1. q[c] = Append(<<>>, t) BY <1>5, <1>7, <2>1
    <3>2. q[c] = <<t>> BY <3>1
    <3>3. DOMAIN <<t>> = {1} /\ <<t>>[1] = t OBVIOUS
    <3>4. Range(<<t>>) = {t} BY <3>3 DEF Range
    <3> QED BY <3>2, <3>4
  <2>3. /\ F \in Triggered /\ \A d \in DOMAIN q :
             /\ d \in Over(q) <=> d \in inactive /\ Rest(q)[d] = <<>>
             /\ d \notin Over(q) => evque'[d] = Rest(q)[d]
             /\ \A x \in Range(q[d]) : x = F \/ (F < x /\ x \in Range(Rest(q)[d]))
             /\ d \in From(q) <=> F \in Range(q[d])
    BY <1>9, ReceiveCases DEF q
  <2>4. PICK d \in DOMAIN q : F \in Range(q[d])
    <3>1. DOMAIN q # {} /\ QueuesOK(q) BY <1>1, <1>4, <1>6, Extends DEF q
    <3>2. \E d \in DOMAIN q : d \in From(q) BY <1>9, <3>1, Merging
    <3> QED BY <2>3, <3>2
  <2> HIDE DEF F
  <2>5. LastTrigger < F BY <1>6, <2>4
  <2>6. got'[c] = 1 .. t /\ t \in Nat
    <3>1. t \in Nat BY DEF Triggers
    <3> QED BY <1>1, <1>3, <3>1, CountsReceive
  <2>7. t = F \/ F < t BY <1>4, <1>6, <2>2, <2>3
  <2>8. F \in got'[c]
    <3>1. F \in Nat /\ 1 <= F BY <2>3 DEF Triggered
    <3> QED BY <2>6, <2>7, <3>1
  <2>9. F = t BY <1>4, <1>6, <2>2, <2>5, <2>8
  <2>10. c \in From(q) /\ Rest(q)[c] = <<>>
    <3>1. c \in DOMAIN q /\ c \in From(q) BY <1>4, <1>6, <2>2, <2>3, <2>9
    <3> QED BY <2>2, <3>1 DEF Rest
  <2>11. evque'[c] = <<>> BY <1>4, <1>6, <2>3, <2>10
  <2> QED BY <1>6, <2>11
<1> QED BY <1>8, <1>9

\* Every step leaves an empty queue while all connections are there.
LEMMA PromptKeeps ==
  ASSUME TriggerInv, MapsInv, DividesInv, CountsInv, Prompt, Next PROVE Prompt'
<1>0. /\ link \in [Conns -> {"new", "on", "ghost", "off"}] /\ Peers \subseteq Conns
  BY PeersAre DEF TriggerInv, StreamTypes
<1>1. ASSUME NEW c \in Conns, Connect(c) PROVE Prompt'
  <2>1. c \in Peers /\ Peers' = Peers /\ evque' = Put(evque, c, <<>>)
    BY <1>1 DEF Connect, Joins, Peers
  <2>2. evque'[c] = <<>> BY <2>1 DEF Put
  <2> QED BY <2>1, <2>2 DEF Prompt
<1>2. ASSUME NEW c \in Conns, Disconnect(c) PROVE Prompt'
  <2>1. c \in Peers /\ Peers' = Peers /\ link'[c] # "on" BY <1>0, <1>2 DEF Disconnect, Leaves, Peers
  <2> QED BY <2>1 DEF Prompt
<1>3. ASSUME NEW c \in Conns, ReceiveUntriggered(c) PROVE Prompt'
  BY <1>3 DEF ReceiveUntriggered, Prompt
<1>4. ASSUME NEW c \in Conns, NEW t \in Triggers(c), Receive(c, t) PROVE Prompt'
  BY <1>4, PromptReceive
<1>5. Reset => Prompt' BY DEF Reset, Resets, streamVars, Prompt
<1>6. StartRun => Prompt'
  <2>1. StartRun => \A c \in Peers' : link'[c] # "on" BY RunStarts
  <2> QED BY <2>1 DEF Prompt
<1> QED BY <1>1, <1>2, <1>3, <1>4, <1>5, <1>6 DEF Next
-----------------------------------------------------------------------------
(***************************************************************************)
(* The collector that merges by trigger number.                            *)
(***************************************************************************)
MergingInv == TriggerInv /\ MapsInv /\ DividesInv /\ CountsInv /\ Prompt

\* At first nothing is queued or written.
LEMMA MergingStarts == ASSUME CollectorsInit, kind = "trigger" PROVE MergingInv
<1>1. TriggerInv BY TriggerStarts
<1>2. Init
  BY DEF CollectorsInit, Position!Init, Position!StreamsInit, Time!Init, Time!StreamsInit,
         Pairs!Init, Pairs!StreamsInit, Overlaps!Init, Overlaps!StreamsInit, Merge!Init, Merge!Programs
<1>3. /\ link = [c \in Conns |-> "new"] /\ got = [c \in Conns |-> {}] /\ ~thrown
      /\ evque = <<>> /\ inactive = {} /\ out = <<>> /\ Peers \subseteq Conns
  BY <1>1, <1>2, PeersAre DEF Init, StreamsInit, TriggerInv
<1>4. (\A c \in Peers : link[c] = "new" /\ got[c] = {}) /\ DOMAIN evque = {} /\ DOMAIN out = {}
  BY <1>3
<1>5. MapsInv BY <1>3, <1>4 DEF MapsInv
<1>6. DividesInv BY <1>3, <1>4 DEF DividesInv, FullStart, LastDivides, NoneForgotten
<1>7. CountsInv
  <2>1. {} = 1 .. 0 OBVIOUS
  <2> QED BY <1>4, <2>1 DEF CountsInv
<1>8. Prompt BY <1>4 DEF Prompt
<1> QED BY <1>1, <1>5, <1>6, <1>7, <1>8 DEF MergingInv

\* Every step keeps all of it.
LEMMA MergingKeeps == ASSUME MergingInv, Next \/ UNCHANGED vars PROVE MergingInv'
<1>1. CASE Next BY <1>1, TriggerKeeps, MapsKeeps, DividesKeeps, CountsKeeps, PromptKeeps DEF MergingInv
<1>2. CASE UNCHANGED vars
  <2>1. /\ UNCHANGED <<kind, env, run, link, got, thrown, evque, inactive, out>> /\ Peers' = Peers
    BY <1>2 DEF vars, streamVars, tgVars, Peers
  <2>2. LastTrigger' = LastTrigger /\ \A c : Written(c)' = Written(c) BY <2>1, SameOut
  <2>3. TriggerInv'
    BY <2>1 DEF MergingInv, TriggerInv, StreamTypes, OutTypes, QueuesOK, KeyInv, HeldInv,
                WrittenInv, SourceOrder, TriggerRuns
  <2>4. MapsInv' BY <2>1 DEF MergingInv, MapsInv
  <2>5. DividesInv'
    BY <2>1, <2>2 DEF MergingInv, DividesInv, FullStart, LastDivides, NoneForgotten
  <2>6. CountsInv' /\ Prompt' BY <2>1 DEF MergingInv, CountsInv, Prompt
  <2> QED BY <2>3, <2>4, <2>5, <2>6 DEF MergingInv
<1> QED BY <1>1, <1>2

\* What it says of what is written and of the maps.
LEMMA MergingSays == ASSUME MergingInv PROVE TriggersMerged
<1>1. TriggerInv /\ MapsInv /\ DividesInv /\ Prompt BY DEF MergingInv
<1>2. TypeOK
  BY <1>1 DEF TriggerInv, TypeOK, QueuesOK, OutTypes, Triggered
<1>3. PrefixWritten
  <2>1. SUFFICES ASSUME env \subseteq {"gaps"}, NEW c \in Peers
                 PROVE  Written(c) = {t \in got[c] : t <= LastTrigger}
    BY DEF PrefixWritten
  <2>2. \A i \in DOMAIN out : c \in out[i].from => out[i].tg \in got[c] /\ out[i].tg <= LastTrigger
    BY <1>1, <2>1 DEF TriggerInv, WrittenInv, DividesInv, LastDivides
  <2>3. \A t \in got[c] : t <= LastTrigger => t \in Written(c)
    BY <1>1, <2>1 DEF DividesInv, LastDivides
  <2>4. \A t \in Written(c) : t \in got[c] /\ t <= LastTrigger BY <2>2 DEF Written
  <2> QED BY <2>3, <2>4
<1>4. SourceOrder BY <1>1 DEF TriggerInv
<1>5. RunsSeparate
  <2>1. SUFFICES ASSUME env \subseteq {"gaps", "late"}, \A c \in Peers : link[c] = "off"
                 PROVE  evque = <<>> /\ inactive = {}
    BY DEF RunsSeparate
  <2>2. DOMAIN evque = inactive BY <1>1, <2>1 DEF MapsInv
  <2>3. evque = <<>> BY <1>1, <2>1, <2>2 DEF MapsInv
  <2>4. DOMAIN evque = {} BY <2>3
  <2> QED BY <2>2, <2>3, <2>4
<1> QED BY <1>1, <1>2, <1>3, <1>4, <1>5 DEF TriggersMerged

\* For every set of connections, every sequence of runs with connections of
\* their own and every mishap, Ex0TgDataCollector and
\* TriggerIDSyncDataCollector keep the order of each connection; with orderly
\* connections nothing of a run is left for the next; when all connections
\* are made before the first event, of each stream exactly the events up to
\* the last trigger are written, whatever triggers are missed; and when none
\* is missed nothing waits without need.
THEOREM TriggersAreMerged == CollectorsSpec => []TriggersMerged
<1> DEFINE Inv == kind = "trigger" => MergingInv
<1>1. CollectorsInit => Inv BY MergingStarts
<1>2. ASSUME Inv, [CollectorsNext]_<<vars, sliceVars, roundVars, fileVars>> PROVE Inv'
  <2>1. kind' = kind /\ (kind = "trigger" => Next \/ UNCHANGED vars) BY <1>2, KindStays
  <2> QED BY <1>2, <2>1, MergingKeeps
<1>3. Inv => TriggersMerged
  <2>1. kind # "trigger" => TriggersMerged BY DEF TriggersMerged
  <2> QED BY <2>1, MergingSays
<1> QED BY <1>1, <1>2, <1>3, PTL DEF CollectorsSpec
-----------------------------------------------------------------------------
(***************************************************************************)
(* EventIDSync: what is merged is at the same position.                    *)
(***************************************************************************)
NameTypes ==
  /\ kind = "eventid" /\ "eventid" \in Kinds
  /\ run \in DOMAIN Runs["eventid"]
  /\ link \in [Conns -> {"new", "on", "ghost", "off"}]
  /\ got \in [Conns -> SUBSET Triggered]

\* What is queued came in this run, in order.
NameQueues ==
  /\ QueuesOK(evque)
  /\ \A c \in DOMAIN evque : Range(evque[c]) \subseteq got[c]

\* The map has the names of the connections that are there.
NamesInv ==
  env \cap {"ghost", "lost"} = {} =>
    /\ ~thrown
    /\ \A c \in Peers : link[c] # "ghost"
    /\ DOMAIN evque = {c \in Peers : link[c] = "on"}

\* How many of the events g came up to event n.
At(g, n) == Cardinality({m \in g : m <= n})

Merged == UNION {[D -> Triggered] : D \in SUBSET Conns}

\* The i-th event written has the i-th events of its producers, and the
\* queues go on from there.
PositionsInv ==
  env \subseteq {"gaps", "reset"} =>
    /\ out \in Seq(Merged)
    /\ \A i \in DOMAIN out :
         /\ DOMAIN out[i] # {} /\ DOMAIN out[i] \subseteq Peers
         /\ \A c \in DOMAIN out[i] : out[i][c] \in got[c] /\ At(got[c], out[i][c]) = i
    /\ \A c \in DOMAIN evque :
         /\ Len(out) + Len(evque[c]) = Cardinality(got[c])
         /\ \A i \in 1 .. Len(evque[c]) : At(got[c], evque[c][i]) = Len(out) + i

NamedInv == NameTypes /\ NameQueues /\ NamesInv /\ PositionsInv

\* The names of a run are connections.
LEMMA NamesAre == ASSUME NameTypes PROVE Peers \subseteq Conns
<1>1. Runs["eventid"] \in Seq(SUBSET Conns) BY StreamsAssumption DEF NameTypes
<1> QED BY <1>1 DEF NameTypes, Peers

\* What comes later changes no position, and is at the next one.
LEMMA Counting ==
  ASSUME NEW g \in SUBSET Triggered, NEW t \in Triggered, \A u \in g : u < t
  PROVE  /\ \A n \in g : At(g \cup {t}, n) = At(g, n)
         /\ At(g \cup {t}, t) = Cardinality(g) + 1
         /\ Cardinality(g \cup {t}) = Cardinality(g) + 1 /\ Cardinality(g) \in Nat
<1>1. g \subseteq Nat /\ t \in Nat BY DEF Triggered
<1>2. IsFiniteSet(g)
  <2>1. IsFiniteSet(Triggered) BY FS_Interval, TriggerAssumption DEF Triggered
  <2> QED BY <2>1, FS_Subset
<1>3. t \notin g BY <1>1
<1>4. Cardinality(g \cup {t}) = Cardinality(g) + 1 /\ Cardinality(g) \in Nat
  BY <1>2, <1>3, FS_AddElement, FS_CardinalityType
<1>5. ASSUME NEW n \in g PROVE At(g \cup {t}, n) = At(g, n)
  <2>1. {m \in g \cup {t} : m <= n} = {m \in g : m <= n} BY <1>1
  <2> QED BY <2>1 DEF At
<1>6. {m \in g \cup {t} : m <= t} = g \cup {t}
  <2>1. \A m \in g \cup {t} : m <= t BY <1>1
  <2> QED BY <2>1
<1> QED BY <1>4, <1>5, <1>6 DEF At

\* At first nothing is queued or written.
LEMMA NamedStarts == ASSUME CollectorsInit, kind = "eventid" PROVE NamedInv
<1>1. Position!Init /\ "eventid" \in Kinds
  BY DEF CollectorsInit, Init, StreamsInit, Time!Init, Time!StreamsInit,
         Pairs!Init, Pairs!StreamsInit, Overlaps!Init, Overlaps!StreamsInit, Merge!Init, Merge!Programs
<1>2. /\ run = 1 /\ link = [c \in Conns |-> "new"] /\ got = [c \in Conns |-> {}] /\ thrown = FALSE
      /\ evque = <<>> /\ out = <<>>
  BY <1>1 DEF Position!Init, Position!StreamsInit
<1>3. NameTypes
  <2>1. Runs["eventid"] \in Seq(SUBSET Conns) \ {<<>>} BY <1>1, StreamsAssumption
  <2>2. 1 \in DOMAIN Runs["eventid"] BY <2>1
  <2> QED BY <1>1, <1>2, <2>2 DEF NameTypes
<1>4. DOMAIN evque = {} /\ DOMAIN out = {} BY <1>2
<1>5. \A c \in Peers : link[c] = "new" BY <1>2, <1>3, NamesAre
<1>6. NameQueues BY <1>4 DEF NameQueues, QueuesOK
<1>7. NamesInv BY <1>2, <1>4, <1>5 DEF NamesInv
<1>8. PositionsInv BY <1>2, <1>4 DEF PositionsInv
<1> QED BY <1>3, <1>6, <1>7, <1>8 DEF NamedInv

\* A new name has an empty queue, and nothing was written.
LEMMA NamedConnect ==
  ASSUME NamedInv, NEW c \in Conns, Position!Connect(c)
  PROVE  NamedInv'
<1>1. /\ c \in Peers /\ link[c] = "new" /\ link' = [link EXCEPT ![c] = "on"]
      /\ UNCHANGED <<kind, env, run, got, out>> /\ Peers' = Peers
      /\ "late" \in env \/ \A d \in Peers : got[d] = {}
      /\ \/ c \in DOMAIN evque /\ thrown' = TRUE /\ evque' = evque
         \/ c \notin DOMAIN evque /\ evque' = Position!Put(evque, c, <<>>) /\ thrown' = thrown
  BY DEF Position!Connect, Position!Joins, Position!Peers, Peers
<1>2. NameTypes /\ NameQueues /\ NamesInv /\ PositionsInv /\ Peers \subseteq Conns
  BY NamesAre DEF NamedInv
<1>3. NameTypes' BY <1>1, <1>2 DEF NameTypes
<1>4. link'[c] = "on" /\ \A d \in Peers \ {c} : link'[d] = link[d] BY <1>1, <1>2 DEF NameTypes
<1>5. \A d \in DOMAIN evque' : (d \in DOMAIN evque /\ evque'[d] = evque[d]) \/ (d = c /\ evque'[d] = <<>>)
  BY <1>1 DEF Position!Put
<1>6. NameQueues'
  <2>1. \A d \in DOMAIN evque' : d \in Conns /\ evque'[d] \in Seq(Triggered) /\ Rises(evque'[d])
                                 /\ Range(evque'[d]) \subseteq got[d]
    BY <1>2, <1>5, Nothing DEF NameQueues, QueuesOK
  <2> QED BY <1>1, <2>1 DEF NameQueues, QueuesOK
<1>7. NamesInv'
  <2>1. SUFFICES ASSUME env \cap {"ghost", "lost"} = {} PROVE NamesInv' BY <1>1 DEF NamesInv
  <2>2. DOMAIN evque = {d \in Peers : link[d] = "on"} BY <1>2, <2>1 DEF NamesInv
  <2>3. evque' = Position!Put(evque, c, <<>>) /\ thrown' = thrown BY <1>1, <2>2
  <2>4. DOMAIN evque' = DOMAIN evque \cup {c} BY <2>3 DEF Position!Put
  <2>5. DOMAIN evque' = {d \in Peers : link'[d] = "on"} BY <1>1, <1>4, <2>2, <2>4
  <2>6. \A d \in Peers : link'[d] # "ghost" BY <1>2, <1>4, <2>1 DEF NamesInv
  <2> QED BY <1>1, <1>2, <2>1, <2>3, <2>5, <2>6 DEF NamesInv
<1>8. PositionsInv'
  <2>1. SUFFICES ASSUME env \subseteq {"gaps", "reset"} PROVE PositionsInv' BY <1>1 DEF PositionsInv
  <2>2. \A d \in Peers : got[d] = {} BY <1>1, <2>1
  <2>3. DOMAIN out = {} BY <1>2, <2>1, <2>2 DEF PositionsInv
  <2>4. out \in Seq(Merged) /\ Len(out) = 0 BY <1>2, <2>1, <2>3 DEF PositionsInv
  <2>5. ASSUME NEW d \in DOMAIN evque'
        PROVE  /\ Len(out) + Len(evque'[d]) = Cardinality(got[d])
               /\ \A i \in 1 .. Len(evque'[d]) : At(got[d], evque'[d][i]) = Len(out) + i
    <3>1. CASE d \in DOMAIN evque /\ evque'[d] = evque[d] BY <1>2, <2>1, <3>1 DEF PositionsInv
    <3>2. CASE d = c /\ evque'[d] = <<>>
      <4>1. Cardinality(got[d]) = 0 BY <1>1, <2>2, <3>2, FS_EmptySet
      <4> QED BY <2>4, <3>2, <4>1
    <3> QED BY <1>5, <3>1, <3>2
  <2> QED BY <1>1, <2>3, <2>4, <2>5 DEF PositionsInv
<1> QED BY <1>3, <1>6, <1>7, <1>8 DEF NamedInv

\* A name that leaves takes its queue with it.
LEMMA NamedDisconnect ==
  ASSUME NamedInv, NEW c \in Conns, Position!Disconnect(c)
  PROVE  NamedInv'
<1>1. /\ c \in Peers
      /\ \/ link[c] \in {"on", "ghost"} /\ link' = [link EXCEPT ![c] = "off"]
         \/ link[c] = "new" /\ "ghost" \in env /\ link' = [link EXCEPT ![c] = "ghost"]
      /\ UNCHANGED <<kind, env, run, got, out>> /\ Peers' = Peers
      /\ \/ c \notin DOMAIN evque /\ thrown' = TRUE /\ evque' = evque
         \/ c \in DOMAIN evque /\ evque' = Position!Restrict(evque, DOMAIN evque \ {c}) /\ thrown' = thrown
  BY DEF Position!Disconnect, Position!Leaves, Position!Peers, Peers
<1>2. NameTypes /\ NameQueues /\ NamesInv /\ PositionsInv /\ Peers \subseteq Conns
  BY NamesAre DEF NamedInv
<1>3. NameTypes' BY <1>1, <1>2 DEF NameTypes
<1>4. \A d \in DOMAIN evque' : d \in DOMAIN evque /\ evque'[d] = evque[d]
  BY <1>1 DEF Position!Restrict
<1>5. NameQueues' BY <1>1, <1>2, <1>4 DEF NameQueues, QueuesOK
<1>6. NamesInv'
  <2>1. SUFFICES ASSUME env \cap {"ghost", "lost"} = {} PROVE NamesInv' BY <1>1 DEF NamesInv
  <2>2. /\ DOMAIN evque = {d \in Peers : link[d] = "on"} /\ ~thrown
        /\ \A d \in Peers : link[d] # "ghost"
    BY <1>2, <2>1 DEF NamesInv
  <2>3. link[c] = "on" /\ link' = [link EXCEPT ![c] = "off"] BY <1>1, <2>1, <2>2
  <2>4. evque' = Position!Restrict(evque, DOMAIN evque \ {c}) /\ thrown' = thrown
    BY <1>1, <2>2, <2>3
  <2>5. DOMAIN evque' = DOMAIN evque \ {c} BY <2>4 DEF Position!Restrict
  <2>6. link'[c] = "off" /\ \A d \in Peers \ {c} : link'[d] = link[d]
    BY <1>1, <1>2, <2>3 DEF NameTypes
  <2>7. DOMAIN evque' = {d \in Peers : link'[d] = "on"} BY <2>2, <2>5, <2>6
  <2>8. \A d \in Peers : link'[d] # "ghost" BY <2>2, <2>6
  <2> QED BY <1>1, <2>2, <2>4, <2>7, <2>8 DEF NamesInv
<1>7. PositionsInv' BY <1>1, <1>2, <1>4 DEF PositionsInv
<1> QED BY <1>3, <1>5, <1>6, <1>7 DEF NamedInv

\* DoStartRun empties the queues.
LEMMA NamedStartRun == ASSUME NamedInv, Position!StartRun PROVE NamedInv'
<1>1. /\ run < Len(Runs[kind]) /\ run' = run + 1 /\ link' = [c \in Conns |-> "new"]
      /\ got' = [c \in Conns |-> {}] /\ thrown' = FALSE /\ UNCHANGED <<kind, env>>
      /\ "lost" \in env \/ thrown \/ \A c \in Peers : link[c] \notin {"on", "ghost"}
      /\ evque' = [c \in DOMAIN evque |-> <<>>] /\ out' = <<>>
  BY DEF Position!StartRun, Position!Restarts, Position!Peers, Peers
<1>2. NameTypes /\ NameQueues /\ NamesInv /\ Peers \subseteq Conns
  BY NamesAre DEF NamedInv
<1>3. NameTypes'
  <2>1. Runs["eventid"] \in Seq(SUBSET Conns) BY <1>2, StreamsAssumption DEF NameTypes
  <2>2. run' \in DOMAIN Runs["eventid"] BY <1>1, <1>2, <2>1 DEF NameTypes
  <2> QED BY <1>1, <1>2, <2>2 DEF NameTypes
<1>4. DOMAIN evque' = DOMAIN evque /\ (\A c \in DOMAIN evque' : evque'[c] = <<>>) /\ DOMAIN out' = {}
  BY <1>1
<1>5. NameQueues'
  <2>1. \A d \in DOMAIN evque' : d \in Conns /\ evque'[d] \in Seq(Triggered) /\ Rises(evque'[d])
                                 /\ Range(evque'[d]) \subseteq got'[d]
    BY <1>2, <1>4, Nothing DEF NameQueues, QueuesOK
  <2> QED BY <2>1 DEF NameQueues, QueuesOK
<1>6. Peers' \subseteq Conns
  <2>1. (NameTypes => Peers \subseteq Conns)' BY NamesAre, PTL
  <2> QED BY <1>3, <2>1
<1>7. NamesInv'
  <2>1. SUFFICES ASSUME env \cap {"ghost", "lost"} = {} PROVE NamesInv' BY <1>1 DEF NamesInv
  <2>2. \A c \in Peers : link[c] # "on" BY <1>1, <1>2, <2>1 DEF NamesInv
  <2>3. DOMAIN evque' = {} BY <1>2, <1>4, <2>1, <2>2 DEF NamesInv
  <2>4. \A c \in Peers' : link'[c] = "new" BY <1>1, <1>6
  <2> QED BY <1>1, <2>3, <2>4 DEF NamesInv
<1>8. PositionsInv'
  <2>1. SUFFICES ASSUME env \subseteq {"gaps", "reset"} PROVE PositionsInv' BY <1>1 DEF PositionsInv
  <2>2. env \cap {"ghost", "lost"} = {} BY <2>1
  <2>3. \A c \in Peers : link[c] # "on" BY <1>1, <1>2, <2>2 DEF NamesInv
  <2>4. DOMAIN evque' = {} BY <1>2, <1>4, <2>2, <2>3 DEF NamesInv
  <2>5. out' \in Seq(Merged) BY <1>1
  <2> QED BY <1>4, <2>4, <2>5 DEF PositionsInv
<1> QED BY <1>3, <1>5, <1>7, <1>8 DEF NamedInv

\* The queues with event n of producer c at the end.
Longer(c, n) == Position!Put(evque, c, Append(Position!Queue(c), n))

\* What is written and what waits in q is what came, at its position.
InPlace(q) ==
  /\ \A i \in DOMAIN out : \A d \in DOMAIN out[i] :
       out[i][d] \in got'[d] /\ At(got'[d], out[i][d]) = i
  /\ \A d \in DOMAIN q :
       /\ Len(out) + Len(q[d]) = Cardinality(got'[d])
       /\ \A i \in 1 .. Len(q[d]) : At(got'[d], q[d][i]) = Len(out) + i

\* The new event waits at the end of its queue.
LEMMA NamedQueued ==
  ASSUME NamedInv, NEW c \in Conns, NEW n \in Triggered, \A u \in got[c] : u < n, c \in Peers,
         got' = [got EXCEPT ![c] = @ \cup {n}]
  PROVE  /\ DOMAIN Longer(c, n) = DOMAIN evque \cup {c} /\ QueuesOK(Longer(c, n))
         /\ \A d \in DOMAIN Longer(c, n) : Range(Longer(c, n)[d]) \subseteq got'[d]
         /\ c \in DOMAIN evque /\ env \subseteq {"gaps", "reset"} => InPlace(Longer(c, n))
<1> DEFINE q == Longer(c, n)
<1> DEFINE s == Position!Queue(c)
<1>1. NameTypes /\ NameQueues /\ PositionsInv /\ Peers \subseteq Conns BY NamesAre DEF NamedInv
<1>2. /\ got \in [Conns -> SUBSET Triggered] /\ got'[c] = got[c] \cup {n}
      /\ \A d \in Conns \ {c} : got'[d] = got[d]
  BY <1>1 DEF NameTypes
<1>3. /\ DOMAIN q = DOMAIN evque \cup {c} /\ q[c] = Append(s, n)
      /\ \A d \in DOMAIN q \ {c} : d \in DOMAIN evque /\ q[d] = evque[d]
  BY DEF Longer, Position!Put
<1>4. s \in Seq(Triggered) /\ Rises(s) /\ Range(s) \subseteq got[c]
  BY <1>1, Nothing DEF Position!Queue, NameQueues, QueuesOK
<1>5. c \in DOMAIN evque => s = evque[c] BY DEF Position!Queue
<1> HIDE DEF s, q
<1>6. q[c] \in Seq(Triggered) /\ Rises(q[c]) /\ Range(q[c]) = Range(s) \cup {n}
  <2>1. Triggered \in SUBSET Nat BY DEF Triggered
  <2> QED BY <1>3, <1>4, <2>1, Added
<1>7. \A d \in DOMAIN evque : d \in Conns /\ evque[d] \in Seq(Triggered) /\ Rises(evque[d])
                              /\ Range(evque[d]) \subseteq got[d]
  BY <1>1 DEF NameQueues, QueuesOK
<1>8. QueuesOK(q)
  <2>1. DOMAIN q \subseteq Conns BY <1>3, <1>7
  <2>2. \A d \in DOMAIN q : q[d] \in Seq(Triggered) /\ Rises(q[d]) BY <1>3, <1>6, <1>7
  <2> QED BY <2>1, <2>2 DEF QueuesOK
<1>9. ASSUME NEW d \in DOMAIN q PROVE Range(q[d]) \subseteq got'[d]
  <2>1. CASE d = c BY <1>2, <1>4, <1>6, <2>1
  <2>2. CASE d # c BY <1>2, <1>3, <1>7, <2>2
  <2> QED BY <2>1, <2>2
<1>10. ASSUME c \in DOMAIN evque, env \subseteq {"gaps", "reset"}
       PROVE  InPlace(q)
  <2>1. /\ out \in Seq(Merged)
        /\ \A i \in DOMAIN out :
             /\ DOMAIN out[i] \subseteq Peers
             /\ \A d \in DOMAIN out[i] : out[i][d] \in got[d] /\ At(got[d], out[i][d]) = i
        /\ \A d \in DOMAIN evque :
             /\ Len(out) + Len(evque[d]) = Cardinality(got[d])
             /\ \A i \in 1 .. Len(evque[d]) : At(got[d], evque[d][i]) = Len(out) + i
    BY <1>1, <1>10 DEF PositionsInv
  <2>2. /\ \A m \in got[c] : At(got'[c], m) = At(got[c], m)
        /\ At(got'[c], n) = Cardinality(got[c]) + 1
        /\ Cardinality(got'[c]) = Cardinality(got[c]) + 1 /\ Cardinality(got[c]) \in Nat
    <3>1. got[c] \in SUBSET Triggered BY <1>2
    <3> QED BY <1>2, <3>1, Counting
  <2>3. ASSUME NEW i \in DOMAIN out, NEW d \in DOMAIN out[i]
        PROVE  out[i][d] \in got'[d] /\ At(got'[d], out[i][d]) = i
    <3>1. d \in Conns /\ out[i][d] \in got[d] /\ At(got[d], out[i][d]) = i BY <1>1, <2>1
    <3>2. CASE d = c BY <1>2, <2>2, <3>1, <3>2
    <3>3. CASE d # c BY <1>2, <3>1, <3>3
    <3> QED BY <3>2, <3>3
  <2>4. ASSUME NEW d \in DOMAIN q
        PROVE  /\ Len(out) + Len(q[d]) = Cardinality(got'[d])
               /\ \A i \in 1 .. Len(q[d]) : At(got'[d], q[d][i]) = Len(out) + i
    <3>1. CASE d # c
      <4>1. d \in DOMAIN evque /\ q[d] = evque[d] /\ got'[d] = got[d] BY <1>2, <1>3, <1>7, <3>1
      <4> QED BY <2>1, <4>1
    <3>2. CASE d = c
      <4>1. s = evque[c] BY <1>5, <1>10
      <4>2. Len(out) + Len(s) = Cardinality(got[c]) /\ Len(out) \in Nat /\ Len(s) \in Nat
        <5>1. Len(s) \in Nat BY <1>4
        <5>2. Len(out) \in Nat BY <2>1
        <5> QED BY <1>10, <2>1, <4>1, <5>1, <5>2
      <4>3. Len(q[c]) = Len(s) + 1 /\ q[c][Len(s) + 1] = n /\ \A i \in 1 .. Len(s) : q[c][i] = s[i]
        BY <1>3, <1>4
      <4>4. Len(out) + Len(q[c]) = Cardinality(got'[c]) BY <2>2, <4>2, <4>3
      <4>5. ASSUME NEW i \in 1 .. Len(q[c]) PROVE At(got'[c], q[c][i]) = Len(out) + i
        <5>1. CASE i \in 1 .. Len(s)
          <6>1. q[c][i] = s[i] BY <4>3, <5>1
          <6>2. s[i] \in got[c]
            <7>1. i \in DOMAIN s BY <1>4, <5>1
            <7> QED BY <1>4, <7>1 DEF Range
          <6>3. At(got[c], s[i]) = Len(out) + i BY <1>10, <2>1, <4>1, <5>1
          <6> QED BY <2>2, <6>1, <6>2, <6>3
        <5>2. CASE i = Len(s) + 1
          <6>1. q[c][i] = n /\ At(got'[c], n) = Cardinality(got[c]) + 1 BY <2>2, <4>3, <5>2
          <6>2. Cardinality(got[c]) + 1 = Len(out) + i BY <4>2, <5>2
          <6> QED BY <6>1, <6>2
        <5> QED BY <4>2, <4>3, <5>1, <5>2
      <4> QED BY <3>2, <4>4, <4>5
    <3> QED BY <3>1, <3>2
  <2> QED BY <2>3, <2>4 DEF InPlace
<1> QED BY <1>3, <1>8, <1>9, <1>10 DEF q

\* If no queue is empty, the fronts are written, which are all at one
\* position, and the queues go on from the next.
LEMMA NamedReceive ==
  ASSUME NamedInv, NEW c \in Conns, NEW n \in Position!Numbers(c), Position!Receive(c, n)
  PROVE  NamedInv'
<1> DEFINE q == Longer(c, n)
<1>1. /\ ~thrown /\ c \in Peers /\ link[c] \in {"on", "ghost"}
      /\ got' = [got EXCEPT ![c] = @ \cup {n}]
      /\ UNCHANGED <<kind, env, run, link, thrown>> /\ Peers' = Peers
  BY DEF Position!Receive, Position!Sends, Position!Peers, Peers
<1>2. n \in Triggered /\ \A u \in got[c] : u < n BY DEF Position!Numbers, Triggered
<1>3. \/ evque' = q /\ out' = out
      \/ /\ \A d \in DOMAIN q : q[d] # <<>>
         /\ evque' = [d \in DOMAIN q |-> Tail(q[d])]
         /\ out' = Append(out, [d \in DOMAIN q |-> Head(q[d])])
  BY DEF Position!Receive, Longer
<1>4. NameTypes /\ NameQueues /\ NamesInv /\ PositionsInv /\ Peers \subseteq Conns
  BY NamesAre DEF NamedInv
<1>5. /\ DOMAIN q = DOMAIN evque \cup {c} /\ QueuesOK(q)
      /\ \A d \in DOMAIN q : Range(q[d]) \subseteq got'[d]
      /\ c \in DOMAIN evque /\ env \subseteq {"gaps", "reset"} => InPlace(q)
  BY <1>1, <1>2, NamedQueued
<1> HIDE DEF q
<1>6. NameTypes' BY <1>1, <1>2, <1>4 DEF NameTypes
<1>7. env \cap {"ghost", "lost"} = {} => c \in DOMAIN evque /\ DOMAIN evque \subseteq Peers
  BY <1>1, <1>4 DEF NamesInv
<1>8. DOMAIN evque' = DOMAIN q BY <1>3
<1>9. NamesInv' BY <1>1, <1>4, <1>5, <1>7, <1>8 DEF NamesInv
<1>10. CASE evque' = q /\ out' = out
  <2>1. NameQueues' BY <1>5, <1>10 DEF NameQueues
  <2>2. PositionsInv'
    <3>1. SUFFICES ASSUME env \subseteq {"gaps", "reset"} PROVE PositionsInv' BY <1>1 DEF PositionsInv
    <3>2. env \cap {"ghost", "lost"} = {} BY <3>1
    <3>3. /\ \A i \in DOMAIN out : \A d \in DOMAIN out[i] :
               out[i][d] \in got'[d] /\ At(got'[d], out[i][d]) = i
          /\ \A d \in DOMAIN q :
               /\ Len(out) + Len(q[d]) = Cardinality(got'[d])
               /\ \A i \in 1 .. Len(q[d]) : At(got'[d], q[d][i]) = Len(out) + i
      BY <1>5, <1>7, <3>1, <3>2 DEF InPlace
    <3>4. /\ out \in Seq(Merged)
          /\ \A i \in DOMAIN out : DOMAIN out[i] # {} /\ DOMAIN out[i] \subseteq Peers'
      BY <1>1, <1>4, <3>1 DEF PositionsInv
    <3> QED BY <1>10, <3>3, <3>4, Zenon DEF PositionsInv
  <2> QED BY <1>6, <1>9, <2>1, <2>2 DEF NamedInv
<1>11. CASE /\ \A d \in DOMAIN q : q[d] # <<>>
            /\ evque' = [d \in DOMAIN q |-> Tail(q[d])]
            /\ out' = Append(out, [d \in DOMAIN q |-> Head(q[d])])
  <2> DEFINE e == [d \in DOMAIN q |-> Head(q[d])]
  <2>1. ASSUME NEW d \in DOMAIN q
        PROVE  /\ d \in Conns /\ Head(q[d]) \in Triggered /\ Head(q[d]) = q[d][1]
               /\ Tail(q[d]) \in Seq(Triggered) /\ Rises(Tail(q[d]))
               /\ Range(Tail(q[d])) \subseteq got'[d] /\ Head(q[d]) \in got'[d]
               /\ Len(q[d]) \in Nat \ {0} /\ Len(Tail(q[d])) = Len(q[d]) - 1
               /\ \A i \in 1 .. Len(q[d]) - 1 : Tail(q[d])[i] = q[d][i + 1]
    <3>1. d \in Conns /\ q[d] \in Seq(Triggered) /\ Rises(q[d]) /\ q[d] # <<>>
      BY <1>5, <1>11 DEF QueuesOK
    <3>2. Triggered \in SUBSET Nat BY DEF Triggered
    <3>3. /\ Tail(q[d]) \in Seq(Triggered) /\ Rises(Tail(q[d])) /\ Head(q[d]) \in Triggered
          /\ Range(q[d]) = {Head(q[d])} \cup Range(Tail(q[d]))
      BY <3>1, <3>2, Taken
    <3>4. /\ Head(q[d]) = q[d][1] /\ Len(q[d]) \in Nat \ {0} /\ Len(Tail(q[d])) = Len(q[d]) - 1
          /\ \A i \in 1 .. Len(q[d]) - 1 : Tail(q[d])[i] = q[d][i + 1]
      BY <3>1
    <3> QED BY <1>5, <3>1, <3>3, <3>4
  <2>2. \A d \in DOMAIN q : evque'[d] = Tail(q[d]) BY <1>11
  <2>3. NameQueues'
    <3>1. DOMAIN q \subseteq Conns BY <1>5 DEF QueuesOK
    <3>2. ASSUME NEW d \in DOMAIN evque'
          PROVE  evque'[d] \in Seq(Triggered) /\ Rises(evque'[d]) /\ Range(evque'[d]) \subseteq got'[d]
      <4>1. d \in DOMAIN q /\ evque'[d] = Tail(q[d]) BY <1>8, <2>2, <3>2
      <4> QED BY <2>1, <4>1
    <3> QED BY <1>8, <3>1, <3>2 DEF NameQueues, QueuesOK
  <2>4. e \in Merged /\ DOMAIN e = DOMAIN q /\ \A d \in DOMAIN q : e[d] = Head(q[d])
    <3>1. DOMAIN q \in SUBSET Conns /\ e \in [DOMAIN q -> Triggered] BY <2>1
    <3> QED BY <3>1 DEF Merged
  <2>5. out' = Append(out, e) BY <1>11
  <2> HIDE DEF e
  <2>6. PositionsInv'
    <3>1. SUFFICES ASSUME env \subseteq {"gaps", "reset"} PROVE PositionsInv' BY <1>1 DEF PositionsInv
    <3>2. /\ c \in DOMAIN evque /\ DOMAIN q \subseteq Peers
          /\ \A i \in DOMAIN out : \A d \in DOMAIN out[i] :
               out[i][d] \in got'[d] /\ At(got'[d], out[i][d]) = i
          /\ \A d \in DOMAIN q :
               /\ Len(out) + Len(q[d]) = Cardinality(got'[d])
               /\ \A i \in 1 .. Len(q[d]) : At(got'[d], q[d][i]) = Len(out) + i
      <4>1. env \cap {"ghost", "lost"} = {} BY <3>1
      <4>2. InPlace(q) BY <1>5, <1>7, <3>1, <4>1
      <4> QED BY <1>1, <1>5, <1>7, <4>1, <4>2 DEF InPlace
    <3>3. /\ out \in Seq(Merged)
          /\ \A i \in DOMAIN out : DOMAIN out[i] # {} /\ DOMAIN out[i] \subseteq Peers
      BY <1>4, <3>1 DEF PositionsInv
    <3>4. /\ out' \in Seq(Merged) /\ Len(out) \in Nat /\ Len(out') = Len(out) + 1
          /\ DOMAIN out' = 1 .. Len(out) + 1 /\ DOMAIN out = 1 .. Len(out)
          /\ out'[Len(out) + 1] = e /\ \A i \in 1 .. Len(out) : out'[i] = out[i]
      BY <2>4, <2>5, <3>3
    <3>5. ASSUME NEW i \in DOMAIN out'
          PROVE  /\ DOMAIN out'[i] # {} /\ DOMAIN out'[i] \subseteq Peers
                 /\ \A d \in DOMAIN out'[i] : out'[i][d] \in got'[d] /\ At(got'[d], out'[i][d]) = i
      <4>1. CASE i \in DOMAIN out
        <5>1. out'[i] = out[i] BY <3>4, <4>1
        <5> QED BY <3>2, <3>3, <4>1, <5>1
      <4>2. CASE i = Len(out) + 1
        <5>1. out'[i] = e BY <3>4, <4>2
        <5>2. DOMAIN e # {} /\ DOMAIN e \subseteq Peers BY <1>5, <2>4, <3>2
        <5>3. ASSUME NEW d \in DOMAIN q
              PROVE  Head(q[d]) \in got'[d] /\ At(got'[d], Head(q[d])) = i
          <6>1. 1 \in 1 .. Len(q[d]) BY <2>1
          <6>2. At(got'[d], q[d][1]) = Len(out) + 1 BY <3>2, <6>1
          <6> QED BY <2>1, <4>2, <6>2
        <5> QED BY <2>4, <5>1, <5>2, <5>3
      <4> QED BY <3>4, <4>1, <4>2
    <3>6. ASSUME NEW d \in DOMAIN q
          PROVE  /\ Len(out') + Len(Tail(q[d])) = Cardinality(got'[d])
                 /\ \A i \in 1 .. Len(Tail(q[d])) : At(got'[d], Tail(q[d])[i]) = Len(out') + i
      <4>1. Len(out') + Len(Tail(q[d])) = Cardinality(got'[d])
        <5>1. Len(out) + Len(q[d]) = Cardinality(got'[d]) BY <3>2
        <5>2. Len(q[d]) \in Nat \ {0} /\ Len(Tail(q[d])) = Len(q[d]) - 1 BY <2>1
        <5>3. Len(out) \in Nat /\ Len(out') = Len(out) + 1 BY <3>4
        <5> HIDE DEF e
        <5> QED BY <5>1, <5>2, <5>3
      <4>2. ASSUME NEW i \in 1 .. Len(Tail(q[d])) PROVE At(got'[d], Tail(q[d])[i]) = Len(out') + i
        <5>1. i + 1 \in 1 .. Len(q[d]) /\ Tail(q[d])[i] = q[d][i + 1] BY <2>1
        <5>2. At(got'[d], q[d][i + 1]) = Len(out) + (i + 1) BY <3>2, <5>1
        <5> QED BY <3>4, <5>1, <5>2
      <4> QED BY <4>1, <4>2
    <3>7. \A d \in DOMAIN evque' :
            /\ Len(out') + Len(evque'[d]) = Cardinality(got'[d])
            /\ \A i \in 1 .. Len(evque'[d]) : At(got'[d], evque'[d][i]) = Len(out') + i
      BY <1>8, <2>2, <3>6
    <3>8. out' \in Seq(Merged) BY <3>4
    <3>9. \A i \in DOMAIN out' : DOMAIN out'[i] \subseteq Peers' BY <1>1, <3>5
    <3> QED BY <3>5, <3>7, <3>8, <3>9, Zenon DEF PositionsInv
  <2> QED BY <1>6, <1>9, <2>3, <2>6 DEF NamedInv
<1> QED BY <1>3, <1>10, <1>11

\* Every step keeps the positions.
LEMMA NamedKeeps ==
  ASSUME NamedInv, (Position!Next /\ inactive' = inactive) \/ UNCHANGED vars PROVE NamedInv'
<1>1. ASSUME NEW c \in Conns, Position!Connect(c) \/ Position!Disconnect(c) PROVE NamedInv'
  BY <1>1, NamedConnect, NamedDisconnect
<1>2. ASSUME NEW c \in Conns, NEW n \in Position!Numbers(c), Position!Receive(c, n) PROVE NamedInv'
  BY <1>2, NamedReceive
<1>3. Position!StartRun => NamedInv' BY NamedStartRun
<1>4. CASE UNCHANGED vars
  <2>1. UNCHANGED <<kind, env, run, link, got, thrown, evque, out>> /\ Peers' = Peers
    BY <1>4 DEF vars, streamVars, tgVars, Peers
  <2>2. NameTypes' /\ NameQueues' BY <2>1 DEF NamedInv, NameTypes, NameQueues, QueuesOK
  <2>3. NamesInv' BY <2>1 DEF NamedInv, NamesInv
  <2>4. PositionsInv' BY <2>1 DEF NamedInv, PositionsInv
  <2> QED BY <2>2, <2>3, <2>4 DEF NamedInv
<1> QED BY <1>1, <1>2, <1>3, <1>4 DEF Position!Next

\* What it says of what is written and of the names.
LEMMA NamedSays == ASSUME NamedInv PROVE PositionsMerged
<1>1. NameTypes /\ NameQueues /\ NamesInv /\ PositionsInv BY DEF NamedInv
<1>2. Position!TypeOK BY <1>1 DEF Position!TypeOK, NameQueues, QueuesOK, Triggered
<1>3. \A c, n : Position!Position(c, n) = At(got[c], n)
  <2>1. \A S : Position!Cardinality(S) = Cardinality(S) BY DEF Position!Cardinality, Cardinality
  <2> QED BY <2>1 DEF Position!Position, At
<1>4. Position!SamePosition
  <2>1. env \subseteq {"gaps", "reset"} =>
          \A i \in DOMAIN out : \A c \in DOMAIN out[i] : At(got[c], out[i][c]) = i
    BY <1>1 DEF PositionsInv
  <2> QED BY <1>3, <2>1 DEF Position!SamePosition
<1>5. Position!NamesFollow
  <2>1. Position!Peers = Peers BY DEF Position!Peers, Peers
  <2> QED BY <1>1, <2>1 DEF Position!NamesFollow, NamesInv
<1> QED BY <1>2, <1>4, <1>5 DEF PositionsMerged

\* For every set of producers, every sequence of runs and every mishap,
\* EventIDSyncDataCollector: when all connections are made before the first
\* event, what is merged is at the same position in every stream, whatever
\* numbers are missing and whoever leaves; and as long as the beginning and
\* the end of each connection are told, no producer is refused for its name.
THEOREM PositionsAreMerged == CollectorsSpec => []PositionsMerged
<1> DEFINE Inv == kind = "eventid" => NamedInv
<1>1. CollectorsInit => Inv BY NamedStarts
<1>2. ASSUME Inv, [CollectorsNext]_<<vars, sliceVars, roundVars, fileVars>> PROVE Inv'
  <2>1. /\ kind' = kind
        /\ kind = "eventid" => (Position!Next /\ inactive' = inactive) \/ UNCHANGED vars
    BY <1>2, KindStays
  <2> QED BY <1>2, <2>1, NamedKeeps
<1>3. Inv => PositionsMerged
  <2>1. kind # "eventid" => PositionsMerged BY DEF PositionsMerged
  <2> QED BY <2>1, NamedSays
<1> QED BY <1>1, <1>2, <1>3, PTL DEF CollectorsSpec
-----------------------------------------------------------------------------
(***************************************************************************)
(* Files as sequences of triggers.                                         *)
(***************************************************************************)
Inputs == {"tlu", "ni", "dut"}

\* In a rising sequence the first is the smallest and is there once.
LEMMA FirstIsLeast ==
  ASSUME NEW q \in Seq(Nat), Rises(q), q # <<>>
  PROVE  /\ Head(q) \in Nat /\ Head(q) \in Range(q) /\ \A x \in Range(q) : Head(q) <= x
         /\ Tail(q) \in Seq(Nat) /\ Rises(Tail(q)) /\ Range(Tail(q)) = Range(q) \ {Head(q)}
         /\ Len(Tail(q)) = Len(q) - 1
<1>1. Len(q) \in Nat \ {0} /\ DOMAIN q = 1 .. Len(q) OBVIOUS
<1>2. Head(q) = q[1] OBVIOUS
<1>3. \A i \in 1 .. Len(q) : q[1] <= q[i]
  <2> SUFFICES ASSUME NEW i \in 1 .. Len(q) PROVE q[1] <= q[i] OBVIOUS
  <2>1. q[1] \in Nat /\ q[i] \in Nat BY <1>1
  <2> QED BY <1>1, <2>1 DEF Rises
<1>4. Tail(q) \in Seq(Nat) /\ Len(Tail(q)) = Len(q) - 1 BY <1>1
<1>5. \A i \in 1 .. Len(q) - 1 : Tail(q)[i] = q[i + 1] BY <1>1
<1>6. Rises(Tail(q)) BY <1>1, <1>4, <1>5 DEF Rises
<1>7. DOMAIN Tail(q) = 1 .. Len(q) - 1 BY <1>4
<1>8. ASSUME NEW x \in Range(q), x # Head(q) PROVE x \in Range(Tail(q))
  <2>1. PICK i \in 1 .. Len(q) : x = q[i] BY <1>1 DEF Range
  <2>2. i # 1 BY <1>2, <1>8, <2>1
  <2>3. i - 1 \in 1 .. Len(q) - 1 /\ Tail(q)[i - 1] = x BY <1>1, <1>5, <2>1, <2>2
  <2> QED BY <1>7, <2>3 DEF Range
<1>9. ASSUME NEW x \in Range(Tail(q)) PROVE x \in Range(q) /\ x # Head(q)
  <2>1. PICK i \in 1 .. Len(q) - 1 : x = Tail(q)[i] BY <1>7, <1>9 DEF Range
  <2>2. i + 1 \in 1 .. Len(q) /\ x = q[i + 1] /\ 1 < i + 1 BY <1>1, <1>5, <2>1
  <2>3. q[1] \in Nat /\ q[i + 1] \in Nat BY <1>1, <2>2
  <2>4. q[1] < q[i + 1] BY <1>1, <2>2 DEF Rises
  <2> QED BY <1>1, <1>2, <2>2, <2>3, <2>4 DEF Range
<1>10. Head(q) \in Range(q) /\ \A x \in Range(q) : Head(q) <= x
  BY <1>1, <1>2, <1>3 DEF Range
<1> QED BY <1>1, <1>2, <1>4, <1>6, <1>8, <1>9, <1>10

\* One trigger before a rising sequence of later ones.
LEMMA Before ==
  ASSUME NEW q \in Seq(Nat), Rises(q), NEW m \in Nat, \A x \in Range(q) : m < x
  PROVE  LET s == <<m>> \o q
         IN s \in Seq(Nat) /\ Rises(s) /\ Range(s) = {m} \cup Range(q) /\ Len(s) = Len(q) + 1
<1> DEFINE s == <<m>> \o q
<1>1. s \in Seq(Nat) /\ Len(s) = Len(q) + 1 /\ Len(q) \in Nat OBVIOUS
<1>2. s[1] = m /\ \A i \in 2 .. Len(s) : s[i] = q[i - 1] OBVIOUS
<1>3. DOMAIN s = 1 .. Len(s) /\ DOMAIN q = 1 .. Len(q) BY <1>1
<1> HIDE DEF s
<1>4. \A i \in 2 .. Len(s) : i - 1 \in 1 .. Len(q) /\ s[i] \in Range(q)
  <2> SUFFICES ASSUME NEW i \in 2 .. Len(s) PROVE i - 1 \in 1 .. Len(q) /\ s[i] \in Range(q) OBVIOUS
  <2>1. i - 1 \in 1 .. Len(q) BY <1>1
  <2> QED BY <1>2, <1>3, <2>1 DEF Range
<1>5. Rises(s)
  <2> SUFFICES ASSUME NEW i \in 1 .. Len(s), NEW j \in 1 .. Len(s), i < j PROVE s[i] < s[j]
    BY DEF Rises
  <2>1. j \in 2 .. Len(s) BY <1>1
  <2>2. CASE i = 1 BY <1>2, <1>4, <2>1, <2>2
  <2>3. CASE i # 1
    <3>1. i \in 2 .. Len(s) BY <1>1, <2>3
    <3>2. i - 1 \in 1 .. Len(q) /\ j - 1 \in 1 .. Len(q) /\ i - 1 < j - 1 BY <1>4, <2>1, <3>1
    <3>3. q[i - 1] < q[j - 1] BY <3>2 DEF Rises
    <3> QED BY <1>2, <2>1, <3>1, <3>3
  <2> QED BY <2>2, <2>3
<1>6. Range(s) \subseteq {m} \cup Range(q)
  <2> SUFFICES ASSUME NEW i \in 1 .. Len(s) PROVE s[i] = m \/ s[i] \in Range(q)
    BY <1>3 DEF Range
  <2>1. i = 1 \/ i \in 2 .. Len(s) BY <1>1
  <2> QED BY <1>2, <1>4, <2>1
<1>7. m \in Range(s)
  <2>1. 1 \in 1 .. Len(s) BY <1>1
  <2> QED BY <1>2, <1>3, <2>1 DEF Range
<1>8. ASSUME NEW x \in Range(q) PROVE x \in Range(s)
  <2>1. PICK i \in 1 .. Len(q) : x = q[i] BY <1>3, <1>8 DEF Range
  <2>2. i + 1 \in 1 .. Len(s) /\ i + 1 \in 2 .. Len(s) /\ (i + 1) - 1 = i BY <1>1, <2>1
  <2>3. s[i + 1] = x BY <1>2, <2>1, <2>2
  <2> QED BY <1>3, <2>2, <2>3 DEF Range
<1>9. s \in Seq(Nat) /\ Rises(s) /\ Range(s) = {m} \cup Range(q) /\ Len(s) = Len(q) + 1
  BY <1>1, <1>5, <1>6, <1>7, <1>8
<1> QED BY <1>9 DEF s

\* Every file can be put in order: else take the smallest that cannot.
LEMMA OrderExists ==
  ASSUME NEW S \in SUBSET Nat, IsFiniteSet(S)
  PROVE  \E q \in Seq(Nat) : Rises(q) /\ Range(q) = S /\ Len(q) = Cardinality(S)
<1> DEFINE Good(T) == \E q \in Seq(Nat) : Rises(q) /\ Range(q) = T /\ Len(q) = Cardinality(T)
           Sizes == {n \in Nat : \E T \in SUBSET Nat : IsFiniteSet(T) /\ Cardinality(T) = n /\ ~Good(T)}
<1> SUFFICES ASSUME ~Good(S) PROVE FALSE OBVIOUS
<1>1. Cardinality(S) \in Sizes BY FS_CardinalityType
<1>2. PICK n \in Sizes : \A m \in Sizes : n <= m BY <1>1, Least
<1>3. PICK T \in SUBSET Nat : IsFiniteSet(T) /\ Cardinality(T) = n /\ ~Good(T) BY <1>2
<1>4. T # {}
  <2>1. <<>> \in Seq(Nat) /\ Rises(<<>>) /\ Range(<<>>) = {} /\ Len(<<>>) = 0 BY Nothing
  <2>2. Cardinality({}) = 0 BY FS_EmptySet
  <2>3. Good({}) BY <2>1, <2>2
  <2> QED BY <1>3, <2>3
<1>5. PICK m \in T : \A x \in T : m <= x BY <1>4, Least
<1>6. m \in Nat BY <1>5
<1>7. IsFiniteSet(T \ {m}) /\ Cardinality(T \ {m}) = n - 1 /\ n \in Nat
  <2>1. n \in Nat BY <1>2
  <2> QED BY <1>3, <2>1, FS_RemoveElement
<1>8. n - 1 \in Nat
  <2>1. Cardinality(T \ {m}) \in Nat BY <1>7, FS_CardinalityType
  <2> QED BY <1>7, <2>1
<1>9. Good(T \ {m})
  <2>1. n - 1 \notin Sizes BY <1>2, <1>7, <1>8
  <2>2. T \ {m} \in SUBSET Nat BY <1>3
  <2> QED BY <1>7, <1>8, <2>1, <2>2
<1>10. PICK q \in Seq(Nat) : Rises(q) /\ Range(q) = T \ {m} /\ Len(q) = n - 1 BY <1>7, <1>9
<1>11. \A x \in Range(q) : m < x
  <2> SUFFICES ASSUME NEW x \in T \ {m} PROVE m < x BY <1>10
  <2>1. x \in Nat /\ m <= x BY <1>3, <1>5
  <2> QED BY <1>6, <2>1
<1> DEFINE s == <<m>> \o q
<1>12. s \in Seq(Nat) /\ Rises(s) /\ Range(s) = {m} \cup Range(q) /\ Len(s) = Len(q) + 1
  BY <1>6, <1>10, <1>11, Before
<1> HIDE DEF s
<1>13. Range(s) = T /\ Len(s) = Cardinality(T) BY <1>3, <1>5, <1>7, <1>10, <1>12
<1> QED BY <1>3, <1>12, <1>13

\* InOrder puts a file in order.
LEMMA PutInOrder ==
  ASSUME NEW S \in SUBSET Nat, IsFiniteSet(S)
  PROVE  Merge!InOrder(S) \in Seq(Nat) /\ Rises(Merge!InOrder(S)) /\ Range(Merge!InOrder(S)) = S
<1> DEFINE n == Cardinality(S)
           Fits(q) == \A i, j \in DOMAIN q : i < j => q[i] < q[j]
           o == Merge!InOrder(S)
<1>1. n \in Nat BY FS_CardinalityType
<1>2. PICK q \in Seq(Nat) : Rises(q) /\ Range(q) = S /\ Len(q) = n BY OrderExists
<1>3. q \in [1 .. n -> S] /\ Fits(q)
  <2>1. DOMAIN q = 1 .. n BY <1>2
  <2>2. \A i \in 1 .. n : q[i] \in S BY <1>2, <2>1 DEF Range
  <2>3. q = [i \in 1 .. n |-> q[i]] BY <1>2, <2>1
  <2> QED BY <1>2, <2>1, <2>2, <2>3 DEF Rises
<1>4. o \in [1 .. n -> S] /\ Fits(o)
  <2>1. Merge!Cardinality(S) = n BY DEF Merge!Cardinality, Cardinality
  <2> QED BY <1>3, <2>1 DEF Merge!InOrder
<1> HIDE DEF o
<1>6. o \in Seq(Nat) /\ Len(o) = n /\ DOMAIN o = 1 .. n
  <2>1. o \in [1 .. n -> Nat] BY <1>4
  <2> QED BY <1>1, <2>1
<1>7. Rises(o) BY <1>4, <1>6 DEF Rises
<1>8. Range(o) = S
  <2>1. ASSUME NEW i \in 1 .. n, NEW j \in 1 .. n, o[i] = o[j] PROVE i = j
    <3>1. o[i] \in Nat /\ o[j] \in Nat BY <1>4
    <3>2. (i < j => o[i] < o[j]) /\ (j < i => o[j] < o[i]) BY <1>4, <1>6
    <3> QED BY <1>1, <2>1, <3>1, <3>2
  <2>2. o \in Injection(1 .. n, S) BY <1>4, <2>1 DEF Injection, IsInjective
  <2>3. IsFiniteSet(1 .. n) /\ Cardinality(1 .. n) = n
    <3>1. 1 \in Int /\ n \in Int BY <1>1
    <3> QED BY <1>1, <3>1, FS_Interval
  <2>4. o \in Surjection(1 .. n, S) BY <2>2, <2>3, FS_Injection
  <2>5. \A t \in S : \E i \in 1 .. n : o[i] = t BY <2>4 DEF Surjection
  <2>6. \A i \in 1 .. n : o[i] \in S BY <1>4
  <2> QED BY <1>6, <2>5, <2>6 DEF Range
<1> QED BY <1>6, <1>7, <1>8 DEF o

\* The file from position m on.
LEMMA Cut ==
  ASSUME NEW q \in Seq(Nat), Rises(q), NEW m \in 1 .. Len(q) + 1
  PROVE  LET r == SubSeq(q, m, Len(q))
         IN /\ r \in Seq(Nat) /\ Rises(r)
            /\ Range(r) = {q[i] : i \in m .. Len(q)}
<1> DEFINE r == SubSeq(q, m, Len(q))
<1>1. Len(q) \in Nat /\ m \in Nat /\ m >= 1 /\ m <= Len(q) + 1 OBVIOUS
<1>2. /\ r \in Seq(Nat) /\ Len(r) = Len(q) + 1 - m
      /\ \A i \in 1 .. Len(q) + 1 - m : r[i] = q[m + i - 1]
  BY <1>1, SubSeqProperties
<1> HIDE DEF r
<1>3. Rises(r)
  <2> SUFFICES ASSUME NEW i \in 1 .. Len(r), NEW j \in 1 .. Len(r), i < j PROVE r[i] < r[j]
    BY DEF Rises
  <2>1. m + i - 1 \in 1 .. Len(q) /\ m + j - 1 \in 1 .. Len(q) /\ m + i - 1 < m + j - 1
    BY <1>1, <1>2
  <2>2. q[m + i - 1] < q[m + j - 1] BY <2>1 DEF Rises
  <2> QED BY <1>2, <2>2
<1>4. DOMAIN r = 1 .. Len(r) BY <1>2
<1>5. ASSUME NEW x \in Range(r) PROVE \E i \in m .. Len(q) : x = q[i]
  <2>1. PICK i \in 1 .. Len(r) : x = r[i] BY <1>4, <1>5 DEF Range
  <2>2. m + i - 1 \in m .. Len(q) /\ x = q[m + i - 1] BY <1>1, <1>2, <2>1
  <2> QED BY <2>2
<1>6. ASSUME NEW i \in m .. Len(q) PROVE q[i] \in Range(r)
  <2>1. i - m + 1 \in 1 .. Len(r) /\ m + (i - m + 1) - 1 = i BY <1>1, <1>2
  <2>2. r[i - m + 1] = q[i] BY <1>2, <2>1
  <2> QED BY <1>4, <2>1, <2>2 DEF Range
<1>7. r \in Seq(Nat) /\ Rises(r) /\ Range(r) = {q[i] : i \in m .. Len(q)}
  BY <1>2, <1>3, <1>5, <1>6
<1> QED BY <1>7 DEF r

\* Skipping a file up to trigger t leaves what is not earlier.
LEMMA FromSays ==
  ASSUME NEW q \in Seq(Nat), Rises(q), NEW t \in Nat
  PROVE  /\ Merge!From(q, t) \in Seq(Nat) /\ Rises(Merge!From(q, t))
         /\ Range(Merge!From(q, t)) = {x \in Range(q) : t <= x}
<1> DEFINE I == {i \in 1 .. Len(q) : q[i] >= t}
           r == Merge!From(q, t)
<1>1. Len(q) \in Nat /\ DOMAIN q = 1 .. Len(q) /\ \A i \in 1 .. Len(q) : q[i] \in Nat OBVIOUS
<1>2. \/ I = {} /\ r = <<>>
      \/ \E m \in I : (\A i \in I : m <= i) /\ r = SubSeq(q, m, Len(q))
  <2>1. CASE I = {} BY <2>1 DEF Merge!From, Merge!SelectInSeq
  <2>2. CASE I # {}
    <3>1. I \in SUBSET Nat OBVIOUS
    <3>2. \E m \in I : \A i \in I : m <= i BY <2>2, <3>1, Least
    <3> DEFINE m == CHOOSE x \in I : \A y \in I : x <= y
    <3>3. m \in I /\ \A i \in I : m <= i BY <3>2
    <3>6. m # 0
      <4> HIDE DEF m
      <4> QED BY <3>3
    <3>4. Merge!Min(I) = m BY DEF Merge!Min
    <3>5. Merge!From(q, t) = SubSeq(q, Merge!Min(I), Len(q))
      <4>1. Merge!Min(I) # 0 BY <3>4, <3>6
      <4> QED BY <2>2, <4>1 DEF Merge!From, Merge!SelectInSeq
    <3> HIDE DEF m, I
    <3> QED BY <3>3, <3>4, <3>5
  <2> QED BY <2>1, <2>2
<1> HIDE DEF r
<1>3. CASE I = {} /\ r = <<>>
  <2>1. \A x \in Range(q) : ~(t <= x) BY <1>1, <1>3 DEF Range
  <2> QED BY <1>3, <2>1, Nothing DEF r
<1>4. CASE \E m \in I : (\A i \in I : m <= i) /\ r = SubSeq(q, m, Len(q))
  <2>1. PICK m \in I : (\A i \in I : m <= i) /\ r = SubSeq(q, m, Len(q)) BY <1>4
  <2>2. m \in 1 .. Len(q) + 1 /\ m \in 1 .. Len(q) /\ q[m] >= t BY <1>1
  <2>3. r \in Seq(Nat) /\ Rises(r) /\ Range(r) = {q[i] : i \in m .. Len(q)} BY <2>1, <2>2, Cut
  <2>4. ASSUME NEW i \in m .. Len(q) PROVE q[i] \in Range(q) /\ t <= q[i]
    <3>1. i \in 1 .. Len(q) /\ m <= i BY <1>1, <2>2
    <3>2. q[m] <= q[i] BY <1>1, <2>2, <3>1 DEF Rises
    <3>3. q[i] \in Range(q) BY <1>1, <3>1 DEF Range
    <3>4. q[i] \in Nat /\ q[m] \in Nat BY <1>1, <2>2, <3>1
    <3> QED BY <2>2, <3>2, <3>3, <3>4
  <2>5. ASSUME NEW x \in Range(q), t <= x PROVE \E i \in m .. Len(q) : x = q[i]
    <3>1. PICK i \in 1 .. Len(q) : x = q[i] BY <1>1, <2>5 DEF Range
    <3>2. i \in I BY <1>1, <2>5, <3>1
    <3>3. i \in m .. Len(q) BY <1>1, <2>1, <3>2
    <3> QED BY <3>1, <3>3
  <2> QED BY <2>3, <2>4, <2>5 DEF r
<1> QED BY <1>2, <1>3, <1>4
-----------------------------------------------------------------------------
(***************************************************************************)
(* What holds while files are merged.                                      *)
(***************************************************************************)
\* Each file is in order, and what is at hand of it was in it.
FilesInOrder ==
  /\ files \in [Inputs -> SUBSET Nat] /\ todo \in [Inputs -> Seq(Nat)]
  /\ \A s \in Inputs : Rises(todo[s]) /\ Range(todo[s]) \subseteq files[s]

\* What is written.
Group == [tg : Nat, tlu : SUBSET Nat, ni : Nat, dut : SUBSET Nat]

\* What was skipped is earlier than all triggers still to come; what was taken
\* is written if it has its partners.
StandardInv ==
  /\ FilesInOrder /\ out \in Seq(Group)
  /\ \A s \in {"ni", "dut"} : \A u \in files[s] :
       u \in Range(todo[s]) \/ \A x \in Range(todo["tlu"]) : u < x
  /\ \A u \in files["tlu"] : \/ u \in Range(todo["tlu"])
                             \/ u \in Merge!Common => \E i \in DOMAIN out : out[i].tg = u
  /\ \A i \in DOMAIN out : /\ out[i].tg \in Merge!Common
                           /\ \A x \in Range(todo["tlu"]) : out[i].tg < x
  /\ \A i, j \in DOMAIN out : i < j => out[i].tg < out[j].tg
  /\ pc \in {"sync", "done", "crashed"}
  /\ pc = "done" => \E s \in Inputs : todo[s] = <<>>
  /\ pc = "crashed" \/ (pc = "sync" /\ todo["tlu"] = <<>>) => files["tlu"] = {}

\* Of each file what is not at hand any more is earlier.
Suffixes ==
  /\ FilesInOrder /\ todo["dut"] = todo["tlu"]
  /\ \A s \in {"tlu", "ni"} : \A u \in files[s] :
       u \in Range(todo[s]) \/ \A x \in Range(todo[s]) : u < x

\* n is the last frame that is not later than t.
FrameOf(n, t) == n \in Merge!Frames(t) /\ \A f \in Merge!Frames(t) : f <= n

\* Until the files are aligned nothing is taken from the frames; then the frame
\* at hand is the one of the trigger at hand.
AlignedInv ==
  /\ pc = "align_ni" => Range(todo["tlu"]) = files["tlu"]
  /\ pc \in {"align_ni", "align_tlu"} => Range(todo["ni"]) = files["ni"] /\ out = <<>>
  /\ pc \in {"align_tlu", "sync"} => todo["tlu"] # <<>> /\ todo["ni"] # <<>>
  /\ pc = "sync" => /\ FrameOf(Head(todo["ni"]), Head(todo["tlu"]))
                    /\ kind = "combined" => Head(todo["ni"]) = Head(todo["tlu"])

\* What is written has its partner and its frame, is earlier than what is at
\* hand, and goes in order; all from the first frame on is written or at hand.
GroupsInv ==
  /\ out \in Seq(Group)
  /\ \A i \in DOMAIN out :
       /\ out[i].dut = out[i].tlu
       /\ \A t \in out[i].tlu : FrameOf(out[i].ni, t) /\ \A x \in Range(todo["tlu"]) : t < x
  /\ \A i, j \in DOMAIN out : i < j => \A t \in out[i].tlu, u \in out[j].tlu : t < u
  /\ \A u \in files["tlu"] : \/ u \in Range(todo["tlu"]) \/ Merge!Frames(u) = {}
                             \/ \E i \in DOMAIN out : u \in out[i].tlu

GroupInv == Merge!InSync => Suffixes /\ AlignedInv /\ GroupsInv

\* The mergers begin with whole files.
LEMMA MergersStart ==
  ASSUME CollectorsInit, kind \in {"standard", "combined", "duplicate"}
  PROVE  /\ FilesInOrder /\ out = <<>>
         /\ \A s \in Inputs : Range(todo[s]) = files[s]
         /\ files["tlu"] = files["dut"] => todo["tlu"] = todo["dut"]
         /\ pc = IF kind = "standard" THEN "sync" ELSE "align_ni"
<1>1. Merge!Init
  <2>1. ~(Init \/ Position!Init \/ Time!Init \/ Pairs!Init \/ Overlaps!Init)
    BY DEF Init, Position!Init, Time!Init, Pairs!Init, Overlaps!Init, StreamsInit, Position!StreamsInit,
           Time!StreamsInit, Pairs!StreamsInit, Overlaps!StreamsInit
  <2> QED BY <2>1 DEF CollectorsInit
<1>2. /\ files \in [Inputs -> SUBSET (1 .. MaxRecord)] /\ out = <<>>
      /\ todo = [s \in Inputs |-> Merge!InOrder(files[s])]
      /\ pc = IF kind = "standard" THEN "sync" ELSE "align_ni"
  BY <1>1 DEF Merge!Init, Merge!Sources, Inputs
<1>3. IsFiniteSet(1 .. MaxRecord)
  <2>1. 1 \in Int /\ MaxRecord \in Int BY RecordAssumption
  <2> QED BY <2>1, FS_Interval
<1>4. ASSUME NEW s \in Inputs
      PROVE  todo[s] \in Seq(Nat) /\ Rises(todo[s]) /\ Range(todo[s]) = files[s] /\ files[s] \in SUBSET Nat
  <2>1. files[s] \in SUBSET (1 .. MaxRecord) BY <1>2
  <2>2. files[s] \in SUBSET Nat /\ IsFiniteSet(files[s]) BY <1>3, <2>1, FS_Subset, RecordAssumption
  <2>3. todo[s] = Merge!InOrder(files[s]) BY <1>2
  <2> QED BY <2>2, <2>3, PutInOrder
<1>5. files["tlu"] = files["dut"] => todo["tlu"] = todo["dut"] BY <1>2 DEF Inputs
<1> QED BY <1>2, <1>4, <1>5 DEF FilesInOrder

\* The files themselves stay as they are.
LEMMA FilesStay ==
  ASSUME Merge!Next
  PROVE  /\ kind' = kind /\ files' = files
         /\ Merge!Common' = Merge!Common /\ (Merge!InSync' <=> Merge!InSync)
         /\ \A t : Merge!Frames(t)' = Merge!Frames(t)
<1>1. kind' = kind /\ files' = files
  BY DEF Merge!Next, Merge!Standard, Merge!AlignNi, Merge!AlignTlu, Merge!Combined, Merge!Duplicate
<1> QED BY <1>1 DEF Merge!Common, Merge!InSync, Merge!Frames
-----------------------------------------------------------------------------
(***************************************************************************)
(* One event for each trigger.                                             *)
(***************************************************************************)
LEMMA StandardStarts == ASSUME CollectorsInit, kind = "standard" PROVE StandardInv
<1>1. /\ FilesInOrder /\ out = <<>> /\ pc = "sync"
      /\ \A s \in Inputs : Range(todo[s]) = files[s]
  BY MergersStart
<1>2. todo["tlu"] = <<>> => files["tlu"] = {} BY <1>1, Nothing DEF Inputs
<1> QED BY <1>1, <1>2 DEF StandardInv, Inputs

\* Skipping files "ni" and "dut" up to the first of "tlu".
LEMMA StandardSkips ==
  ASSUME StandardInv, todo["tlu"] # <<>>, NEW s \in {"ni", "dut"}
  PROVE  LET t == Head(todo["tlu"])
             q == Merge!From(todo[s], t)
         IN /\ q \in Seq(Nat) /\ Rises(q) /\ Range(q) \subseteq files[s]
            /\ \A u \in files[s] : u \in Range(q) \/ \A x \in Range(todo["tlu"]) : u < x
            /\ q # <<>> => t <= Head(q) /\ Head(q) \in Range(q) /\ (t \in files[s] => Head(q) = t)
<1> DEFINE t == Head(todo["tlu"])
           q == Merge!From(todo[s], t)
<1>1. /\ todo["tlu"] \in Seq(Nat) /\ Rises(todo["tlu"]) /\ files[s] \in SUBSET Nat
      /\ todo[s] \in Seq(Nat) /\ Rises(todo[s]) /\ Range(todo[s]) \subseteq files[s]
      /\ \A u \in files[s] : u \in Range(todo[s]) \/ \A x \in Range(todo["tlu"]) : u < x
  BY DEF StandardInv, FilesInOrder, Inputs
<1>2. t \in Nat /\ t \in Range(todo["tlu"]) /\ \A x \in Range(todo["tlu"]) : t <= x
  BY <1>1, FirstIsLeast
<1> HIDE DEF t
<1>3. q \in Seq(Nat) /\ Rises(q) /\ Range(q) = {x \in Range(todo[s]) : t <= x}
  BY <1>1, <1>2, FromSays
<1> HIDE DEF q
<1>4. \A x \in Range(todo["tlu"]) : x \in Nat BY <1>1, InRange
<1>5. ASSUME NEW u \in files[s], u \notin Range(q), NEW x \in Range(todo["tlu"]) PROVE u < x
  <2>1. CASE u \in Range(todo[s])
    <3>1. u \in Nat /\ x \in Nat /\ t <= x BY <1>1, <1>2, <1>4, <1>5
    <3>2. ~(t <= u) BY <1>3, <1>5, <2>1
    <3> QED BY <1>2, <3>1, <3>2
  <2>2. CASE u \notin Range(todo[s]) BY <1>1, <2>2
  <2> QED BY <2>1, <2>2
<1>6. ASSUME q # <<>>
      PROVE  t <= Head(q) /\ Head(q) \in Range(q) /\ (t \in files[s] => Head(q) = t)
  <2>1. Head(q) \in Nat /\ Head(q) \in Range(q) /\ \A x \in Range(q) : Head(q) <= x
    BY <1>3, <1>6, FirstIsLeast
  <2>2. t <= Head(q) BY <1>3, <2>1
  <2>3. ASSUME t \in files[s] PROVE Head(q) = t
    <3>1. t \in Range(q) BY <1>2, <1>5, <2>3
    <3> QED BY <1>2, <2>1, <2>2, <3>1
  <2> QED BY <2>1, <2>2, <2>3
<1> QED BY <1>1, <1>3, <1>5, <1>6 DEF q, t

\* Each round of standardMergeFiles drops what is behind the TLU's head and keeps the rest in front of what was written.
LEMMA StandardKeeps == ASSUME StandardInv, kind = "standard", Merge!Next PROVE StandardInv'
<1> DEFINE tlu == todo["tlu"]
           t == Head(tlu)
           ni == Merge!From(todo["ni"], t)
           dut == IF ni = <<>> THEN todo["dut"] ELSE Merge!From(todo["dut"], t)
           group == [tg |-> t, tlu |-> {t}, ni |-> t, dut |-> {t}]
<1>0. Merge!Standard /\ kind' = kind /\ files' = files /\ Merge!Common' = Merge!Common
  BY FilesStay DEF StandardInv, Merge!Next, Merge!AlignNi, Merge!AlignTlu, Merge!Combined, Merge!Duplicate
<1>1. /\ files \in [Inputs -> SUBSET Nat] /\ todo \in [Inputs -> Seq(Nat)]
      /\ \A s \in Inputs : todo[s] \in Seq(Nat) /\ Rises(todo[s]) /\ Range(todo[s]) \subseteq files[s]
      /\ out \in Seq(Group)
      /\ \A s \in {"ni", "dut"} : \A u \in files[s] :
           u \in Range(todo[s]) \/ \A x \in Range(tlu) : u < x
      /\ \A u \in files["tlu"] : \/ u \in Range(tlu)
                                 \/ u \in Merge!Common => \E i \in DOMAIN out : out[i].tg = u
      /\ \A i \in DOMAIN out : /\ out[i].tg \in Merge!Common
                               /\ \A x \in Range(tlu) : out[i].tg < x
      /\ \A i, j \in DOMAIN out : i < j => out[i].tg < out[j].tg
      /\ pc = "crashed" \/ (pc = "sync" /\ tlu = <<>>) => files["tlu"] = {}
  BY DEF StandardInv, FilesInOrder
<1>2. pc = "sync" BY <1>0 DEF Merge!Standard
<1>3. CASE tlu = <<>>
  <2>1. pc' = "crashed" /\ todo' = todo /\ out' = out BY <1>0, <1>3 DEF Merge!Standard, Merge!Null
  <2>2. files["tlu"] = {} BY <1>1, <1>2, <1>3
  <2> QED BY <1>0, <1>1, <2>1, <2>2 DEF StandardInv, FilesInOrder
<1>4. CASE tlu # <<>>
  <2>1. /\ t \in Nat /\ t \in Range(tlu) /\ \A x \in Range(tlu) : t <= x
        /\ Tail(tlu) \in Seq(Nat) /\ Rises(Tail(tlu)) /\ Range(Tail(tlu)) = Range(tlu) \ {t}
    BY <1>1, <1>4, FirstIsLeast DEF Inputs
  <2>2. \A s \in {"ni", "dut"} :
          LET q == Merge!From(todo[s], t)
          IN /\ q \in Seq(Nat) /\ Rises(q) /\ Range(q) \subseteq files[s]
             /\ \A u \in files[s] : u \in Range(q) \/ \A x \in Range(tlu) : u < x
             /\ q # <<>> => t <= Head(q) /\ Head(q) \in Range(q) /\ (t \in files[s] => Head(q) = t)
    BY <1>4, StandardSkips
  <2> HIDE DEF t, tlu
  <2>3. /\ ni \in Seq(Nat) /\ Rises(ni) /\ Range(ni) \subseteq files["ni"]
        /\ \A u \in files["ni"] : u \in Range(ni) \/ \A x \in Range(tlu) : u < x
        /\ ni # <<>> => t <= Head(ni) /\ Head(ni) \in Range(ni) /\ (t \in files["ni"] => Head(ni) = t)
    BY <2>2
  <2>4. /\ dut \in Seq(Nat) /\ Rises(dut) /\ Range(dut) \subseteq files["dut"]
        /\ \A u \in files["dut"] : u \in Range(dut) \/ \A x \in Range(tlu) : u < x
        /\ ni # <<>> /\ dut # <<>> =>
             t <= Head(dut) /\ Head(dut) \in Range(dut) /\ (t \in files["dut"] => Head(dut) = t)
    <3>1. CASE ni = <<>> BY <1>1, <3>1 DEF Inputs
    <3>2. CASE ni # <<>> BY <2>2, <3>2
    <3> QED BY <3>1, <3>2
  <2>5. \/ /\ ni = <<>> \/ dut = <<>>
           /\ todo' = [todo EXCEPT !["ni"] = ni, !["dut"] = dut] /\ pc' = "done" /\ out' = out
        \/ /\ ni # <<>> /\ dut # <<>>
           /\ todo' = [tlu |-> Tail(tlu), ni |-> ni, dut |-> dut]
           /\ out' = IF Head(ni) = t /\ Head(dut) = t THEN Append(out, group) ELSE out
           /\ pc' = IF Tail(tlu) = <<>> THEN "done" ELSE "sync"
    BY <1>0, <1>4 DEF Merge!Standard, Merge!Null, tlu, t
  <2>6. \A x \in Range(tlu) : x \in Nat BY <1>1, InRange DEF tlu, Inputs
  <2> HIDE DEF ni, dut
  <2>7. CASE /\ ni = <<>> \/ dut = <<>>
             /\ todo' = [todo EXCEPT !["ni"] = ni, !["dut"] = dut] /\ pc' = "done" /\ out' = out
    <3>1. /\ todo' \in [Inputs -> Seq(Nat)] /\ todo'["tlu"] = tlu /\ todo'["ni"] = ni /\ todo'["dut"] = dut
      BY <1>1, <2>3, <2>4, <2>7 DEF Inputs, tlu
    <3>2. FilesInOrder'
      BY <1>0, <1>1, <2>3, <2>4, <3>1 DEF FilesInOrder, Inputs, tlu
    <3>3. \E s \in Inputs : todo'[s] = <<>> BY <2>7, <3>1 DEF Inputs
    <3> QED BY <1>0, <1>1, <2>3, <2>4, <2>7, <3>1, <3>2, <3>3 DEF StandardInv
  <2>8. CASE /\ ni # <<>> /\ dut # <<>>
             /\ todo' = [tlu |-> Tail(tlu), ni |-> ni, dut |-> dut]
             /\ out' = IF Head(ni) = t /\ Head(dut) = t THEN Append(out, group) ELSE out
             /\ pc' = IF Tail(tlu) = <<>> THEN "done" ELSE "sync"
    <3>1. /\ todo' \in [Inputs -> Seq(Nat)]
          /\ todo'["tlu"] = Tail(tlu) /\ todo'["ni"] = ni /\ todo'["dut"] = dut
      <4>1. todo' = [tlu |-> Tail(tlu), ni |-> ni, dut |-> dut] BY <2>8
      <4>2. todo'["tlu"] = Tail(tlu) /\ todo'["ni"] = ni /\ todo'["dut"] = dut BY <4>1
      <4>3. todo' = [s \in Inputs |-> todo'[s]] BY <4>1 DEF Inputs
      <4>4. \A s \in Inputs : todo'[s] \in Seq(Nat) BY <2>1, <2>3, <2>4, <4>2 DEF Inputs
      <4> QED BY <4>2, <4>3, <4>4
    <3>2. Range(tlu) \subseteq files["tlu"] BY <1>1 DEF Inputs, tlu
    <3>3. FilesInOrder'
      BY <1>0, <1>1, <2>1, <2>3, <2>4, <3>1, <3>2 DEF FilesInOrder, Inputs
    <3>4. \A s \in {"ni", "dut"} : \A u \in files[s] :
            u \in Range(todo'[s]) \/ \A x \in Range(Tail(tlu)) : u < x
      BY <2>1, <2>3, <2>4, <3>1
    <3>5. \A x \in Range(Tail(tlu)) : t < x
      <4> SUFFICES ASSUME NEW x \in Range(tlu), x # t PROVE t < x BY <2>1
      <4>1. t <= x /\ x \in Nat BY <2>1, <2>6
      <4> QED BY <2>1, <4>1
    <3>6. t \in Merge!Common <=> Head(ni) = t /\ Head(dut) = t
      <4>1. t \in files["tlu"] BY <2>1, <3>2
      <4>2. t \in files["ni"] <=> Head(ni) = t BY <2>3, <2>8
      <4>3. t \in files["dut"] <=> Head(dut) = t BY <2>4, <2>8
      <4> QED BY <4>1, <4>2, <4>3 DEF Merge!Common
    <3>7. pc' \in {"sync", "done", "crashed"} /\ (pc' = "crashed" \/ (pc' = "sync" /\ Tail(tlu) = <<>>) => files["tlu"] = {})
          /\ (pc' = "done" => \E s \in Inputs : todo'[s] = <<>>)
      BY <2>8, <3>1 DEF Inputs
    <3>8. CASE t \in Merge!Common
      <4>1. out' = Append(out, group) BY <2>8, <3>6, <3>8
      <4>2. group \in Group /\ group.tg = t BY <2>1 DEF Group
      <4> HIDE DEF group
      <4>3. Len(out) \in Nat /\ DOMAIN out = 1 .. Len(out) BY <1>1
      <4>4. /\ out' \in Seq(Group) /\ DOMAIN out' = 1 .. Len(out) + 1
            /\ out'[Len(out) + 1] = group /\ \A i \in DOMAIN out : out'[i] = out[i]
        <5> QED BY <1>1, <4>1, <4>2, <4>3
      <4>5. \A i \in DOMAIN out' : i = Len(out) + 1 \/ i \in DOMAIN out BY <4>3, <4>4
      <4>6. \A i \in DOMAIN out' : out'[i].tg \in Merge!Common /\ \A x \in Range(Tail(tlu)) : out'[i].tg < x
        BY <1>1, <2>1, <3>5, <3>8, <4>2, <4>4, <4>5
      <4>7. ASSUME NEW i \in DOMAIN out', NEW j \in DOMAIN out', i < j PROVE out'[i].tg < out'[j].tg
        <5>1. i \in DOMAIN out BY <4>3, <4>4, <4>7
        <5>2. CASE j \in DOMAIN out BY <1>1, <4>4, <4>7, <5>1, <5>2
        <5>3. CASE j = Len(out) + 1 BY <1>1, <2>1, <4>2, <4>4, <5>1, <5>3
        <5> QED BY <4>5, <5>2, <5>3
      <4>8. ASSUME NEW u \in files["tlu"], u \notin Range(Tail(tlu)), u \in Merge!Common
            PROVE  \E i \in DOMAIN out' : out'[i].tg = u
        <5>1. CASE u = t
          <6>1. Len(out) + 1 \in DOMAIN out' BY <4>3, <4>4
          <6> QED BY <4>2, <4>4, <5>1, <6>1
        <5>2. CASE u # t
          <6>1. u \notin Range(tlu) BY <2>1, <4>8, <5>2
          <6>2. PICK i \in DOMAIN out : out[i].tg = u BY <1>1, <4>8, <6>1
          <6>3. i \in DOMAIN out' BY <4>3, <4>4
          <6> QED BY <4>4, <6>2, <6>3
        <5> QED BY <5>1, <5>2
      <4> QED BY <1>0, <3>1, <3>3, <3>4, <3>7, <4>4, <4>6, <4>7, <4>8 DEF StandardInv
    <3>9. CASE t \notin Merge!Common
      <4>1. out' = out BY <2>8, <3>6, <3>9
      <4>2. \A u \in files["tlu"] : \/ u \in Range(Tail(tlu))
                                    \/ u \in Merge!Common => \E i \in DOMAIN out : out[i].tg = u
        BY <1>1, <2>1, <3>9
      <4>3. \A i \in DOMAIN out : out[i].tg \in Merge!Common /\ \A x \in Range(Tail(tlu)) : out[i].tg < x
        BY <1>1, <2>1
      <4> QED BY <1>0, <1>1, <3>1, <3>3, <3>4, <3>7, <4>1, <4>2, <4>3 DEF StandardInv
    <3> QED BY <3>8, <3>9
  <2> QED BY <2>5, <2>7, <2>8
<1> QED BY <1>3, <1>4

\* When the standard merge ends, every trigger all three files hold has been written, once and in order.
LEMMA StandardSays == ASSUME StandardInv PROVE Merge!EachCommonTrigger
<1>1. /\ \A s \in {"ni", "dut"} : \A u \in files[s] :
           u \in Range(todo[s]) \/ \A x \in Range(todo["tlu"]) : u < x
      /\ \A u \in files["tlu"] : \/ u \in Range(todo["tlu"])
                                 \/ u \in Merge!Common => \E i \in DOMAIN out : out[i].tg = u
      /\ \A i \in DOMAIN out : out[i].tg \in Merge!Common
      /\ \A i, j \in DOMAIN out : i < j => out[i].tg < out[j].tg
      /\ pc = "crashed" => files["tlu"] = {}
      /\ FilesInOrder
  BY DEF StandardInv
<1>2. ASSUME pc = "done", NEW u \in Merge!Common PROVE \E i \in DOMAIN out : out[i].tg = u
  <2>1. u \in files["tlu"] /\ u \in files["ni"] /\ u \in files["dut"] BY DEF Merge!Common
  <2>2. PICK s \in Inputs : todo[s] = <<>> BY <1>2 DEF StandardInv
  <2>3. Range(todo[s]) = {} BY <2>2, Nothing
  <2>4. u \in Nat BY <1>1, <2>1 DEF FilesInOrder, Inputs
  <2>5. u \notin Range(todo["tlu"])
    <3>1. CASE s = "tlu" BY <2>3, <3>1
    <3>2. CASE s \in {"ni", "dut"}
      <4>1. \A x \in Range(todo["tlu"]) : u < x BY <1>1, <2>1, <2>3, <3>2
      <4>2. ~(u < u) BY <2>4
      <4> QED BY <4>1, <4>2
    <3> QED BY <3>1, <3>2 DEF Inputs
  <2> QED BY <1>1, <2>1, <2>5
<1> QED BY <1>1, <1>2 DEF Merge!EachCommonTrigger
-----------------------------------------------------------------------------
(***************************************************************************)
(* One event for each frame, or each with its frame.                       *)
(***************************************************************************)
\* Detectors in sync: the same files, no gap, and frames only with triggers.
LEMMA SyncedFiles ==
  ASSUME FilesInOrder, Merge!InSync
  PROVE  /\ files["tlu"] \in SUBSET Nat /\ files["ni"] \subseteq files["tlu"]
         /\ \A t, u \in files["tlu"] : \A x \in Nat : t <= x /\ x <= u => x \in files["tlu"]
BY DEF FilesInOrder, Merge!InSync, Inputs

\* Before the first loop the cursors are at the start of the files and nothing is written.
LEMMA GroupStarts == ASSUME CollectorsInit, kind \in {"combined", "duplicate"} PROVE GroupInv
<1>1. /\ FilesInOrder /\ out = <<>> /\ pc = "align_ni"
      /\ \A s \in Inputs : Range(todo[s]) = files[s]
      /\ files["tlu"] = files["dut"] => todo["tlu"] = todo["dut"]
  BY MergersStart
<1>2. SUFFICES ASSUME Merge!InSync PROVE Suffixes /\ AlignedInv /\ GroupsInv BY DEF GroupInv
<1>3. Suffixes BY <1>1, <1>2 DEF Suffixes, Merge!InSync, Inputs
<1>4. AlignedInv BY <1>1 DEF AlignedInv, Inputs
<1>5. GroupsInv BY <1>1 DEF GroupsInv, Inputs
<1> QED BY <1>3, <1>4, <1>5

\* What the files hold: the facts of Suffixes one by one.
LEMMA Holds ==
  ASSUME Suffixes, NEW s \in {"tlu", "ni"}
  PROVE  /\ todo[s] \in Seq(Nat) /\ Rises(todo[s]) /\ Range(todo[s]) \subseteq files[s]
         /\ files[s] \in SUBSET Nat /\ files["dut"] \in SUBSET Nat /\ Range(todo["dut"]) \subseteq files["dut"]
         /\ \A u \in files[s] : u \in Range(todo[s]) \/ \A x \in Range(todo[s]) : u < x
BY DEF Suffixes, FilesInOrder, Inputs

\* The files after a step.
LEMMA Remain ==
  ASSUME Suffixes, files' = files,
         NEW tlu \in Seq(Nat), NEW ni \in Seq(Nat), todo' = [s \in Inputs |-> IF s = "ni" THEN ni ELSE tlu],
         Rises(tlu), Rises(ni), Range(tlu) \subseteq files["tlu"], Range(ni) \subseteq files["ni"],
         files["dut"] = files["tlu"],
         \A u \in files["tlu"] : u \in Range(tlu) \/ \A x \in Range(tlu) : u < x,
         \A u \in files["ni"] : u \in Range(ni) \/ \A x \in Range(ni) : u < x
  PROVE  Suffixes' /\ todo'["tlu"] = tlu /\ todo'["ni"] = ni
<1>1. todo'["tlu"] = tlu /\ todo'["ni"] = ni /\ todo'["dut"] = tlu /\ todo' \in [Inputs -> Seq(Nat)]
  BY DEF Inputs
<1>2. FilesInOrder' BY <1>1 DEF Suffixes, FilesInOrder, Inputs
<1> QED BY <1>1, <1>2 DEF Suffixes

\* Reading on in a file leaves what is later.
LEMMA Behind ==
  ASSUME NEW q \in Seq(Nat), Rises(q), q # <<>>, NEW F \in SUBSET Nat, Range(q) \subseteq F,
         \A u \in F : u \in Range(q) \/ \A x \in Range(q) : u < x
  PROVE  /\ \A x \in Range(Tail(q)) : Head(q) < x
         /\ \A u \in F : u \in Range(Tail(q)) \/ \A x \in Range(Tail(q)) : u < x
<1>1. /\ Head(q) \in Nat /\ Head(q) \in Range(q) /\ \A x \in Range(q) : Head(q) <= x
      /\ Range(Tail(q)) = Range(q) \ {Head(q)}
  BY FirstIsLeast
<1>2. \A x \in Range(Tail(q)) : Head(q) < x
  <2> SUFFICES ASSUME NEW x \in Range(q), x # Head(q) PROVE Head(q) < x BY <1>1
  <2>1. Head(q) <= x /\ x \in Nat BY <1>1
  <2> QED BY <1>1, <2>1
<1> QED BY <1>1, <1>2

\* The frames are not read before they are aligned.
LEMMA GroupAlignNi == ASSUME GroupInv, Merge!InSync, Merge!AlignNi PROVE GroupInv'
<1> DEFINE tlu == todo["tlu"]
           ni == IF tlu = <<>> THEN todo["ni"] ELSE Merge!From(todo["ni"], Head(tlu))
<1>1. Suffixes /\ AlignedInv /\ GroupsInv BY DEF GroupInv
<1>2. /\ pc = "align_ni" /\ files' = files /\ out' = out /\ kind' = kind
      /\ todo' = [todo EXCEPT !["ni"] = ni]
      /\ pc' = "crashed" \/ (pc' = "align_tlu" /\ tlu # <<>> /\ ni # <<>>)
  BY DEF Merge!AlignNi, Merge!Null
<1>3. Range(tlu) = files["tlu"] /\ Range(todo["ni"]) = files["ni"] BY <1>1, <1>2 DEF AlignedInv
<1>4. ni \in Seq(Nat) /\ Rises(ni) /\ Range(ni) = files["ni"]
  <2>1. todo["ni"] \in Seq(Nat) /\ Rises(todo["ni"]) /\ tlu \in Seq(Nat) /\ Rises(tlu) BY <1>1, Holds
  <2>2. CASE tlu = <<>> BY <1>3, <2>1, <2>2
  <2>3. CASE tlu # <<>>
    <3>1. Head(tlu) \in Nat /\ \A x \in Range(tlu) : Head(tlu) <= x BY <2>1, <2>3, FirstIsLeast
    <3>2. Range(Merge!From(todo["ni"], Head(tlu))) = {x \in Range(todo["ni"]) : Head(tlu) <= x}
          /\ ni \in Seq(Nat) /\ Rises(ni)
      BY <2>1, <2>3, <3>1, FromSays
    <3>3. files["ni"] \subseteq files["tlu"] BY DEF Merge!InSync
    <3> QED BY <1>3, <2>3, <3>1, <3>2, <3>3
  <2> QED BY <2>2, <2>3
<1> HIDE DEF ni
<1>5. todo' = [s \in Inputs |-> IF s = "ni" THEN ni ELSE tlu]
  BY <1>1, <1>2 DEF Suffixes, FilesInOrder, Inputs
<1>6. /\ tlu \in Seq(Nat) /\ Rises(tlu) /\ Range(tlu) \subseteq files["tlu"]
      /\ \A u \in files["tlu"] : u \in Range(tlu) \/ \A x \in Range(tlu) : u < x
  BY <1>1, Holds
<1>7. files["dut"] = files["tlu"] BY DEF Merge!InSync
<1> HIDE DEF tlu
<1>8. Suffixes' /\ todo'["tlu"] = tlu /\ todo'["ni"] = ni BY <1>1, <1>2, <1>4, <1>5, <1>6, <1>7, Remain
<1>9. AlignedInv' BY <1>1, <1>2, <1>4, <1>8 DEF AlignedInv
<1>10. GroupsInv' BY <1>1, <1>2, <1>8 DEF GroupsInv, FrameOf, Merge!Frames, tlu
<1> QED BY <1>8, <1>9, <1>10 DEF GroupInv

\* The triggers before the first frame are passed over.
LEMMA GroupAlignTlu == ASSUME GroupInv, Merge!InSync, Merge!AlignTlu PROVE GroupInv'
<1> DEFINE tlu == todo["tlu"]
           ni == todo["ni"]
<1>1. Suffixes /\ AlignedInv /\ GroupsInv BY DEF GroupInv
<1>2. pc = "align_tlu" /\ files' = files /\ out' = out /\ kind' = kind BY DEF Merge!AlignTlu
<1>3. tlu # <<>> /\ ni # <<>> /\ Range(ni) = files["ni"] BY <1>1, <1>2 DEF AlignedInv
<1>4. /\ tlu \in Seq(Nat) /\ Rises(tlu) /\ Range(tlu) \subseteq files["tlu"] /\ files["tlu"] \in SUBSET Nat
      /\ \A u \in files["tlu"] : u \in Range(tlu) \/ \A x \in Range(tlu) : u < x
      /\ ni \in Seq(Nat) /\ Rises(ni) /\ files["ni"] \in SUBSET Nat
      /\ \A u \in files["ni"] : u \in Range(ni) \/ \A x \in Range(ni) : u < x
      /\ todo["dut"] = tlu
  <2>1. todo["dut"] = tlu BY <1>1 DEF Suffixes
  <2> QED BY <1>1, <2>1, Holds
<1>5. files["dut"] = files["tlu"] /\ files["ni"] \subseteq files["tlu"] BY DEF Merge!InSync
<1>6. /\ Head(tlu) \in Nat /\ Head(tlu) \in Range(tlu) /\ \A x \in Range(tlu) : Head(tlu) <= x
      /\ Tail(tlu) \in Seq(Nat) /\ Rises(Tail(tlu)) /\ Range(Tail(tlu)) = Range(tlu) \ {Head(tlu)}
  BY <1>3, <1>4, FirstIsLeast
<1>7. Head(ni) \in Nat /\ Head(ni) \in Range(ni) /\ \A x \in Range(ni) : Head(ni) <= x
  BY <1>3, <1>4, FirstIsLeast
<1>8. \A u \in files["tlu"] : \/ u \in Range(tlu) \/ Merge!Frames(u) = {}
                              \/ \E i \in DOMAIN out : u \in out[i].tlu
  BY <1>1 DEF GroupsInv
<1>9. CASE Head(tlu) < Head(ni)
  <2>1. /\ todo' = [todo EXCEPT !["tlu"] = Tail(tlu), !["dut"] = Tail(tlu)]
        /\ pc' = "crashed" \/ (pc' = "align_tlu" /\ Tail(tlu) # <<>>)
    BY <1>3, <1>4, <1>9 DEF Merge!AlignTlu, Merge!Null, Merge!Next1
  <2>2. todo' = [s \in Inputs |-> IF s = "ni" THEN ni ELSE Tail(tlu)]
    BY <1>1, <2>1 DEF Suffixes, FilesInOrder, Inputs
  <2>3. \A u \in files["tlu"] : u \in Range(Tail(tlu)) \/ \A x \in Range(Tail(tlu)) : u < x
    BY <1>3, <1>4, Behind
  <2> HIDE DEF tlu, ni
  <2>4. Suffixes' /\ todo'["tlu"] = Tail(tlu) /\ todo'["ni"] = ni
    <3> DEFINE r == Tail(tlu)
    <3>1. r \in Seq(Nat) /\ Rises(r) /\ Range(r) \subseteq files["tlu"] BY <1>4, <1>6
    <3>2. todo' = [s \in Inputs |-> IF s = "ni" THEN ni ELSE r] BY <2>2
    <3>3. \A u \in files["tlu"] : u \in Range(r) \/ \A x \in Range(r) : u < x BY <2>3
    <3>4. Range(ni) \subseteq files["ni"] BY <1>3
    <3> HIDE DEF r
    <3>5. Suffixes' /\ todo'["tlu"] = r /\ todo'["ni"] = ni
      BY <1>1, <1>2, <1>4, <1>5, <3>1, <3>2, <3>3, <3>4, Remain
    <3> QED BY <3>5 DEF r
  <2>5. AlignedInv' BY <1>1, <1>2, <1>3, <2>1, <2>4 DEF AlignedInv
  <2>6. Merge!Frames(Head(tlu)) = {}
    <3> SUFFICES ASSUME NEW n \in files["ni"], n <= Head(tlu) PROVE FALSE BY DEF Merge!Frames
    <3>1. n \in Nat /\ Head(ni) <= n BY <1>3, <1>4, <1>7
    <3> QED BY <1>6, <1>7, <1>9, <3>1
  <2>7. \A u \in files["tlu"] : \/ u \in Range(Tail(tlu)) \/ Merge!Frames(u) = {}
                                \/ \E i \in DOMAIN out : u \in out[i].tlu
    BY <1>6, <1>8, <2>6
  <2>8. GroupsInv'
    <3>1. \A u : Merge!Frames(u)' = Merge!Frames(u) BY <1>2 DEF Merge!Frames
    <3>2. Range(Tail(tlu)) \subseteq Range(todo["tlu"]) BY <1>6 DEF tlu
    <3> QED BY <1>1, <1>2, <2>4, <2>7, <3>1, <3>2 DEF GroupsInv, FrameOf
  <2> QED BY <2>4, <2>5, <2>8 DEF GroupInv
<1>10. CASE ~(Head(tlu) < Head(ni))
  <2>1. pc' = "sync" /\ todo' = todo BY <1>10 DEF Merge!AlignTlu
  <2>2. Head(ni) = Head(tlu)
    <3>1. Head(ni) \in files["tlu"] /\ Head(ni) \in files["ni"] BY <1>3, <1>5, <1>7
    <3>2. Head(ni) \in Range(tlu)
      <4>1. Head(ni) \in Merge!Frames(Head(ni)) BY <1>7, <3>1 DEF Merge!Frames
      <4>2. out = <<>> BY <1>1, <1>2 DEF AlignedInv
      <4> QED BY <1>8, <3>1, <4>1, <4>2
    <3>3. Head(tlu) <= Head(ni) BY <1>6, <3>2
    <3> QED BY <1>6, <1>7, <1>10, <3>3
  <2>3. FrameOf(Head(ni), Head(tlu))
    <3>1. Head(ni) \in files["ni"] BY <1>3, <1>7
    <3> QED BY <1>7, <2>2, <3>1 DEF FrameOf, Merge!Frames
  <2>4. Suffixes' BY <1>1, <1>2, <2>1 DEF Suffixes, FilesInOrder
  <2>5. AlignedInv' BY <1>2, <1>3, <2>1, <2>2, <2>3 DEF AlignedInv, FrameOf, Merge!Frames
  <2>6. GroupsInv' BY <1>1, <1>2, <2>1 DEF GroupsInv, FrameOf, Merge!Frames
  <2> QED BY <2>4, <2>5, <2>6 DEF GroupInv
<1> QED BY <1>9, <1>10

\* A group is written and taken from the files.
LEMMA GroupWritten ==
  ASSUME GroupsInv, files' = files, NEW g \in Group, out' = Append(out, g),
         g.dut = g.tlu, g.tlu \subseteq Range(todo["tlu"]), \A t \in g.tlu : FrameOf(g.ni, t),
         Range(todo'["tlu"]) = Range(todo["tlu"]) \ g.tlu,
         \A t \in g.tlu : \A x \in Range(todo'["tlu"]) : t < x
  PROVE  GroupsInv'
<1>1. /\ out \in Seq(Group)
      /\ \A i \in DOMAIN out :
           /\ out[i].dut = out[i].tlu
           /\ \A t \in out[i].tlu : FrameOf(out[i].ni, t) /\ \A x \in Range(todo["tlu"]) : t < x
      /\ \A i, j \in DOMAIN out : i < j => \A t \in out[i].tlu, u \in out[j].tlu : t < u
      /\ \A u \in files["tlu"] : \/ u \in Range(todo["tlu"]) \/ Merge!Frames(u) = {}
                                 \/ \E i \in DOMAIN out : u \in out[i].tlu
  BY DEF GroupsInv
<1>2. Len(out) \in Nat /\ DOMAIN out = 1 .. Len(out) BY <1>1
<1>3. /\ out' \in Seq(Group) /\ DOMAIN out' = 1 .. Len(out) + 1
      /\ out'[Len(out) + 1] = g /\ \A i \in DOMAIN out : out'[i] = out[i]
  BY <1>1, <1>2
<1>4. \A i \in DOMAIN out' : i = Len(out) + 1 \/ i \in DOMAIN out BY <1>2, <1>3
<1>5. \A t : Merge!Frames(t)' = Merge!Frames(t) BY DEF Merge!Frames
<1>6. ASSUME NEW i \in DOMAIN out'
      PROVE  /\ out'[i].dut = out'[i].tlu
             /\ \A t \in out'[i].tlu : FrameOf(out'[i].ni, t) /\ \A x \in Range(todo'["tlu"]) : t < x
  BY <1>1, <1>3, <1>4, <1>6
<1>7. ASSUME NEW i \in DOMAIN out', NEW j \in DOMAIN out', i < j,
             NEW t \in out'[i].tlu, NEW u \in out'[j].tlu
      PROVE  t < u
  <2>1. i \in DOMAIN out /\ out'[i] = out[i] BY <1>2, <1>3, <1>7
  <2>2. CASE j \in DOMAIN out BY <1>1, <1>3, <1>7, <2>1, <2>2
  <2>3. CASE j = Len(out) + 1 BY <1>1, <1>3, <1>7, <2>1, <2>3
  <2> QED BY <1>4, <2>2, <2>3
<1>8. ASSUME NEW u \in files["tlu"], u \notin Range(todo'["tlu"]), Merge!Frames(u) # {}
      PROVE  \E i \in DOMAIN out' : u \in out'[i].tlu
  <2>1. CASE u \in g.tlu
    <3>1. Len(out) + 1 \in DOMAIN out' BY <1>2, <1>3
    <3> QED BY <1>3, <2>1, <3>1
  <2>2. CASE u \notin g.tlu
    <3>1. PICK i \in DOMAIN out : u \in out[i].tlu BY <1>1, <1>8, <2>2
    <3>2. i \in DOMAIN out' BY <1>2, <1>3
    <3> QED BY <1>3, <3>1, <3>2
  <2> QED BY <2>1, <2>2
<1>9. \A n, t : FrameOf(n, t)' = FrameOf(n, t) BY <1>5 DEF FrameOf
<1> QED BY <1>3, <1>5, <1>6, <1>7, <1>8, <1>9 DEF GroupsInv

\* The next frame and the frame at hand.
LEMMA NextFrame ==
  ASSUME Suffixes, AlignedInv, Merge!InSync, pc = "sync", Tail(todo["ni"]) # <<>>
  PROVE  LET f == Head(todo["ni"])
             n == Head(Tail(todo["ni"]))
         IN /\ f \in Nat /\ n \in files["ni"] /\ n \in Nat /\ f < n
            /\ Head(todo["tlu"]) < n /\ n \in Range(todo["tlu"])
            /\ \A m \in files["ni"] : m <= f \/ n <= m
<1> DEFINE tlu == todo["tlu"]
           ni == todo["ni"]
           f == Head(ni)
           n == Head(Tail(ni))
<1>1. tlu # <<>> /\ ni # <<>> /\ FrameOf(f, Head(tlu)) BY DEF AlignedInv
<1>2. /\ tlu \in Seq(Nat) /\ Rises(tlu) /\ files["tlu"] \in SUBSET Nat
      /\ \A u \in files["tlu"] : u \in Range(tlu) \/ \A x \in Range(tlu) : u < x
      /\ ni \in Seq(Nat) /\ Rises(ni) /\ files["ni"] \in SUBSET Nat /\ Range(ni) \subseteq files["ni"]
      /\ \A u \in files["ni"] : u \in Range(ni) \/ \A x \in Range(ni) : u < x
  BY Holds
<1>3. files["ni"] \subseteq files["tlu"] BY DEF Merge!InSync
<1>4. Head(tlu) \in Nat /\ Head(tlu) \in Range(tlu) /\ \A x \in Range(tlu) : Head(tlu) <= x
  BY <1>1, <1>2, FirstIsLeast
<1>5. /\ f \in Nat /\ f \in Range(ni) /\ \A x \in Range(ni) : f <= x
      /\ Tail(ni) \in Seq(Nat) /\ Rises(Tail(ni)) /\ Range(Tail(ni)) = Range(ni) \ {f}
  BY <1>1, <1>2, FirstIsLeast
<1>6. n \in Nat /\ n \in Range(Tail(ni)) /\ \A x \in Range(Tail(ni)) : n <= x
  <2> DEFINE r == Tail(ni)
  <2>1. r \in Seq(Nat) /\ Rises(r) /\ r # <<>> BY <1>5
  <2> HIDE DEF r
  <2>2. Head(r) \in Nat /\ Head(r) \in Range(r) /\ \A x \in Range(r) : Head(r) <= x
    BY <2>1, FirstIsLeast
  <2> QED BY <2>2 DEF r
<1>7. n \in files["ni"] /\ f <= n /\ n # f BY <1>2, <1>5, <1>6
<1>8. Head(tlu) < n
  <2>1. n <= Head(tlu) => n \in Merge!Frames(Head(tlu)) BY <1>7 DEF Merge!Frames
  <2>2. n <= Head(tlu) => n <= f BY <1>1, <2>1 DEF FrameOf
  <2> HIDE DEF n, f, tlu
  <2> QED BY <1>4, <1>5, <1>6, <1>7, <2>2
<1>9. n \in Range(tlu)
  <2>1. ~(n < Head(tlu)) BY <1>4, <1>6, <1>8
  <2> QED BY <1>2, <1>3, <1>4, <1>7, <2>1
<1>10. ASSUME NEW m \in files["ni"] PROVE m <= f \/ n <= m
  <2>1. m \in Nat BY <1>2
  <2>2. CASE m \in Range(ni) BY <1>5, <1>6, <2>1, <2>2
  <2>3. CASE m \notin Range(ni)
    <3>1. m < f BY <1>2, <1>5, <2>3
    <3> QED BY <1>5, <2>1, <3>1
  <2> QED BY <2>2, <2>3
<1> HIDE DEF n, f, tlu
<1>11. f < n BY <1>5, <1>6, <1>7
<1> QED BY <1>5, <1>6, <1>7, <1>8, <1>9, <1>10, <1>11 DEF n, f, tlu

\* A frame with the triggers before the next frame.
LEMMA GroupCombined == ASSUME GroupInv, Merge!InSync, Merge!Combined PROVE GroupInv'
<1> DEFINE tlu == todo["tlu"]
           ni == todo["ni"]
           f == Head(ni)
           n == Head(Tail(ni))
           K == {i \in 1 .. Len(tlu) : n <= tlu[i] + 1}
           k == Merge!Last1(tlu, n)
           rest == Merge!Rest(tlu, k)
           g == [tg |-> Head(tlu), tlu |-> {tlu[i] : i \in 1 .. k}, ni |-> f, dut |-> {tlu[i] : i \in 1 .. k}]
<1>1. Suffixes /\ AlignedInv /\ GroupsInv BY DEF GroupInv
<1>2. pc = "sync" /\ kind = "combined" /\ files' = files /\ kind' = kind BY DEF Merge!Combined
<1>3. tlu # <<>> /\ ni # <<>> /\ FrameOf(f, Head(tlu)) /\ f = Head(tlu) BY <1>1, <1>2 DEF AlignedInv
<1>4. /\ tlu \in Seq(Nat) /\ Rises(tlu) /\ Range(tlu) \subseteq files["tlu"] /\ files["tlu"] \in SUBSET Nat
      /\ \A u \in files["tlu"] : u \in Range(tlu) \/ \A x \in Range(tlu) : u < x
      /\ ni \in Seq(Nat) /\ Rises(ni) /\ files["ni"] \in SUBSET Nat /\ Range(ni) \subseteq files["ni"]
      /\ \A u \in files["ni"] : u \in Range(ni) \/ \A x \in Range(ni) : u < x
      /\ todo["dut"] = tlu /\ todo \in [Inputs -> Seq(Nat)]
  <2>1. todo["dut"] = tlu /\ todo \in [Inputs -> Seq(Nat)] BY <1>1 DEF Suffixes, FilesInOrder
  <2> QED BY <1>1, <2>1, Holds
<1>5. /\ files["dut"] = files["tlu"] /\ files["ni"] \subseteq files["tlu"]
      /\ \A t, u \in files["tlu"] : \A x \in Nat : t <= x /\ x <= u => x \in files["tlu"]
  <2>1. files["dut"] = files["tlu"] BY DEF Merge!InSync
  <2> QED BY <1>1, <2>1, SyncedFiles DEF Suffixes
<1>6. Head(tlu) \in Nat /\ Head(tlu) \in Range(tlu) /\ \A x \in Range(tlu) : Head(tlu) <= x
  BY <1>3, <1>4, FirstIsLeast
<1>7. /\ f \in Nat /\ Tail(ni) \in Seq(Nat) /\ Rises(Tail(ni)) /\ Range(Tail(ni)) = Range(ni) \ {f}
  BY <1>3, <1>4, FirstIsLeast
<1>8. \A u \in files["ni"] : u \in Range(Tail(ni)) \/ \A x \in Range(Tail(ni)) : u < x
  BY <1>3, <1>4, Behind
<1>9. CASE Tail(ni) = <<>>
  <2>1. pc' = "done" /\ todo' = [todo EXCEPT !["ni"] = Tail(ni)] /\ out' = out
    BY <1>9 DEF Merge!Combined, Merge!Null
  <2>2. todo' = [s \in Inputs |-> IF s = "ni" THEN Tail(ni) ELSE tlu] BY <1>4, <2>1 DEF Inputs
  <2>3. Suffixes' /\ todo'["tlu"] = tlu
    <3> DEFINE r == Tail(ni)
    <3>1. /\ r \in Seq(Nat) /\ Rises(r) /\ Range(r) \subseteq files["ni"]
          /\ todo' = [s \in Inputs |-> IF s = "ni" THEN r ELSE tlu]
          /\ \A u \in files["ni"] : u \in Range(r) \/ \A x \in Range(r) : u < x
      BY <1>4, <1>7, <1>8, <2>2
    <3>2. tlu \in Seq(Nat) /\ Rises(tlu) /\ Range(tlu) \subseteq files["tlu"]
          /\ \A u \in files["tlu"] : u \in Range(tlu) \/ \A x \in Range(tlu) : u < x
      BY <1>4
    <3> HIDE DEF r, tlu
    <3> QED BY <1>1, <1>2, <1>5, <3>1, <3>2, Remain
  <2>4. AlignedInv' BY <2>1 DEF AlignedInv
  <2>5. GroupsInv' BY <1>1, <1>2, <2>1, <2>3 DEF GroupsInv, FrameOf, Merge!Frames
  <2> QED BY <2>3, <2>4, <2>5 DEF GroupInv
<1>10. CASE Tail(ni) # <<>>
  <2>1. /\ n \in files["ni"] /\ n \in Nat /\ f < n /\ Head(tlu) < n /\ n \in Range(tlu)
        /\ \A m \in files["ni"] : m <= f \/ n <= m
    BY <1>1, <1>2, <1>10, NextFrame
  <2> HIDE DEF n, f
  <2>2. n - 1 \in Range(tlu)
    <3>1. n - 1 \in Nat /\ f <= n - 1 /\ n - 1 <= n BY <1>7, <2>1
    <3>2. f \in files["tlu"] /\ n \in files["tlu"] BY <1>3, <1>4, <1>5, <1>6, <2>1
    <3>3. n - 1 \in files["tlu"] BY <1>5, <3>1, <3>2
    <3>4. ~(n - 1 < Head(tlu)) BY <1>3, <1>7, <3>1
    <3> QED BY <1>4, <1>6, <3>3, <3>4
  <2>3. Len(tlu) \in Nat /\ DOMAIN tlu = 1 .. Len(tlu) /\ \A i \in 1 .. Len(tlu) : tlu[i] \in Nat
    BY <1>4
  <2>4. PICK j \in 1 .. Len(tlu) : tlu[j] = n - 1 BY <2>2, <2>3 DEF Range
  <2>5. j \in K BY <2>1, <2>4
  <2>6. k \in K /\ \A i \in K : k <= i
    <3>1. K \in SUBSET Nat /\ K # {} BY <2>5
    <3>2. \E m \in K : \A i \in K : m <= i
      <4> HIDE DEF K
      <4> QED BY <3>1, Least
    <3>3. Merge!Min(K) \in K /\ \A i \in K : Merge!Min(K) <= i
      <4> HIDE DEF K
      <4> QED BY <3>2 DEF Merge!Min
    <3>4. k = Merge!Min(K)
      <4> HIDE DEF tlu
      <4> QED BY <3>1 DEF Merge!Last1, Merge!SelectInSeq
    <3> QED BY <3>3, <3>4
  <2>7. k \in 1 .. Len(tlu) /\ tlu[k] = n - 1
    <3>1. k \in 1 .. Len(tlu) /\ n <= tlu[k] + 1 /\ k <= j BY <2>5, <2>6
    <3>2. k = j \/ tlu[k] < tlu[j]
      <4> HIDE DEF k, tlu
      <4> QED BY <1>4, <2>3, <3>1 DEF Rises
    <3> QED BY <2>1, <2>3, <2>4, <3>1, <3>2
  <2>8. todo' = [tlu |-> rest, ni |-> Tail(ni), dut |-> rest] /\ out' = Append(out, g)
        /\ pc' = IF Len(tlu) <= k THEN "done" ELSE "sync"
    <3>1. k # 0 /\ k > 0 /\ 1 .. k \cap DOMAIN tlu = 1 .. k
      <4> HIDE DEF k, tlu
      <4> QED BY <2>3, <2>7
    <3> HIDE DEF k
    <3> QED BY <1>4, <1>10, <3>1 DEF Merge!Combined, Merge!Null, k, n, f
  <2> HIDE DEF k, K
  <2>9. rest \in Seq(Nat) /\ Rises(rest) /\ Range(rest) = {tlu[i] : i \in k + 1 .. Len(tlu)}
    <3>1. k + 1 \in 1 .. Len(tlu) + 1 /\ rest = SubSeq(tlu, k + 1, Len(tlu))
      BY <2>3, <2>7 DEF Merge!Rest
    <3> HIDE DEF rest, tlu
    <3> QED BY <1>4, <3>1, Cut
  <2> HIDE DEF rest
  <2>10. g \in Group /\ g.dut = g.tlu /\ g.ni = f /\ g.tlu = {tlu[i] : i \in 1 .. k}
    <3>1. {tlu[i] : i \in 1 .. k} \in SUBSET Nat BY <2>3, <2>7
    <3> QED BY <1>6, <1>7, <3>1 DEF Group
  <2> HIDE DEF g, tlu
  <2>11. \A t \in g.tlu : t \in Range(tlu) /\ t \in Nat /\ f <= t /\ t <= n - 1
    <3> SUFFICES ASSUME NEW i \in 1 .. k PROVE tlu[i] \in Range(tlu) /\ tlu[i] \in Nat /\ f <= tlu[i] /\ tlu[i] <= n - 1
      BY <2>10
    <3>1. i \in 1 .. Len(tlu) /\ (i = k \/ i < k) BY <2>3, <2>7
    <3>2. tlu[i] \in Range(tlu) /\ tlu[i] \in Nat BY <2>3, <3>1 DEF Range
    <3>3. i = k \/ tlu[i] < tlu[k] BY <1>4, <2>7, <3>1 DEF Rises
    <3> QED BY <1>3, <1>6, <2>1, <2>3, <2>7, <3>1, <3>2, <3>3
  <2>12. \A x \in Range(rest) : x \in Range(tlu) /\ x \in Nat /\ n - 1 < x
    <3> SUFFICES ASSUME NEW i \in k + 1 .. Len(tlu) PROVE tlu[i] \in Range(tlu) /\ tlu[i] \in Nat /\ n - 1 < tlu[i]
      BY <2>9
    <3>1. i \in 1 .. Len(tlu) /\ k < i BY <2>3, <2>7
    <3>2. tlu[k] < tlu[i] BY <1>4, <2>7, <3>1 DEF Rises
    <3> QED BY <2>3, <2>7, <3>1, <3>2 DEF Range
  <2>13. Range(rest) = Range(tlu) \ g.tlu
    <3>1. ASSUME NEW x \in Range(tlu) PROVE x \in Range(rest) \/ x \in g.tlu
      <4>1. PICK i \in 1 .. Len(tlu) : x = tlu[i] BY <2>3, <3>1 DEF Range
      <4>2. i \in 1 .. k \/ i \in k + 1 .. Len(tlu) BY <2>3, <2>7
      <4> QED BY <2>9, <2>10, <4>1, <4>2
    <3>2. ASSUME NEW x \in Range(rest), x \in g.tlu PROVE FALSE
      BY <2>1, <2>11, <2>12, <3>2
    <3> QED BY <2>12, <3>1, <3>2
  <2>14. \A t \in g.tlu : FrameOf(g.ni, t)
    <3> SUFFICES ASSUME NEW t \in g.tlu PROVE FrameOf(f, t) BY <2>10
    <3>1. f \in files["ni"] BY <1>3 DEF FrameOf, Merge!Frames
    <3>2. ASSUME NEW m \in files["ni"], m <= t PROVE m <= f
      BY <1>4, <2>1, <2>11, <3>2
    <3> QED BY <2>11, <3>1, <3>2 DEF FrameOf, Merge!Frames
  <2>15. todo' = [s \in Inputs |-> IF s = "ni" THEN Tail(ni) ELSE rest]
    <3>1. todo' = [tlu |-> rest, ni |-> Tail(ni), dut |-> rest] BY <2>8
    <3>2. todo'["tlu"] = rest /\ todo'["ni"] = Tail(ni) /\ todo'["dut"] = rest BY <3>1
    <3>3. todo' = [s \in Inputs |-> todo'[s]] BY <3>1 DEF Inputs
    <3>4. \A s \in Inputs : todo'[s] = IF s = "ni" THEN Tail(ni) ELSE rest BY <3>2 DEF Inputs
    <3> QED BY <3>3, <3>4
  <2>16. \A u \in files["tlu"] : u \in Range(rest) \/ \A x \in Range(rest) : u < x
    <3> SUFFICES ASSUME NEW u \in files["tlu"], u \notin Range(rest), NEW x \in Range(rest) PROVE u < x
      OBVIOUS
    <3>1. CASE u \in g.tlu BY <2>1, <2>11, <2>12, <3>1
    <3>2. CASE u \notin g.tlu BY <1>4, <2>12, <2>13, <3>2
    <3> QED BY <3>1, <3>2
  <2>17. Suffixes' /\ todo'["tlu"] = rest /\ todo'["ni"] = Tail(ni)
    <3> DEFINE r == Tail(ni)
    <3>1. /\ r \in Seq(Nat) /\ Rises(r) /\ Range(r) \subseteq files["ni"]
          /\ todo' = [s \in Inputs |-> IF s = "ni" THEN r ELSE rest]
          /\ \A u \in files["ni"] : u \in Range(r) \/ \A x \in Range(r) : u < x
      BY <1>4, <1>7, <1>8, <2>15
    <3>2. Range(rest) \subseteq files["tlu"] BY <1>4, <2>13
    <3> HIDE DEF r
    <3>3. Suffixes' /\ todo'["tlu"] = rest /\ todo'["ni"] = r
      BY <1>1, <1>2, <1>5, <2>9, <2>16, <3>1, <3>2, Remain
    <3> QED BY <3>3 DEF r
  <2>18. AlignedInv'
    <3>1. n \in Range(rest) BY <2>1, <2>11, <2>13
    <3>2. rest # <<>> BY <3>1, Nothing
    <3>3. Head(rest) \in Nat /\ Head(rest) \in Range(rest) /\ \A x \in Range(rest) : Head(rest) <= x
      BY <2>9, <3>2, FirstIsLeast
    <3>4. Head(rest) = n
      <4>1. Head(rest) <= n /\ n - 1 < Head(rest) BY <2>12, <3>1, <3>3
      <4> QED BY <2>1, <3>3, <4>1
    <3>5. n \in Merge!Frames(n) /\ \A m \in Merge!Frames(n) : m <= n BY <2>1 DEF Merge!Frames
    <3>6. todo'["tlu"] # <<>> /\ todo'["ni"] # <<>> /\ Head(todo'["ni"]) = n /\ Head(todo'["tlu"]) = n
      BY <1>10, <2>17, <3>2, <3>4 DEF n
    <3>7. pc' \in {"done", "sync"} BY <2>8
    <3> QED BY <1>2, <3>5, <3>6, <3>7 DEF AlignedInv, FrameOf, Merge!Frames
  <2>19. GroupsInv'
    <3>1. ASSUME NEW t \in g.tlu, NEW x \in Range(rest) PROVE t < x
      <4>1. t \in Nat /\ t <= n - 1 /\ x \in Nat /\ n - 1 < x BY <2>11, <2>12
      <4> QED BY <2>1, <4>1
    <3>2. g.tlu \subseteq Range(tlu) BY <2>11
    <3> QED BY <1>1, <1>2, <2>8, <2>10, <2>13, <2>14, <2>17, <3>1, <3>2, GroupWritten DEF tlu
  <2> QED BY <2>17, <2>18, <2>19 DEF GroupInv
<1> QED BY <1>9, <1>10

\* A trigger with its frame.
LEMMA GroupDuplicate == ASSUME GroupInv, Merge!InSync, Merge!Duplicate PROVE GroupInv'
<1> DEFINE tlu == todo["tlu"]
           ni == todo["ni"]
           t == Head(tlu)
           f == Head(ni)
           rest == Tail(tlu)
           next == Tail(ni)
           same == rest # <<>> /\ next # <<>> /\ Head(next) = Head(rest)
           frame == IF same THEN next ELSE ni
           g == [tg |-> t, tlu |-> {t}, ni |-> f, dut |-> {t}]
<1>1. Suffixes /\ AlignedInv /\ GroupsInv BY DEF GroupInv
<1>2. pc = "sync" /\ kind = "duplicate" /\ files' = files /\ kind' = kind BY DEF Merge!Duplicate
<1>3. tlu # <<>> /\ ni # <<>> /\ FrameOf(f, t) BY <1>1, <1>2 DEF AlignedInv
<1>4. /\ tlu \in Seq(Nat) /\ Rises(tlu) /\ Range(tlu) \subseteq files["tlu"] /\ files["tlu"] \in SUBSET Nat
      /\ \A u \in files["tlu"] : u \in Range(tlu) \/ \A x \in Range(tlu) : u < x
      /\ ni \in Seq(Nat) /\ Rises(ni) /\ files["ni"] \in SUBSET Nat /\ Range(ni) \subseteq files["ni"]
      /\ \A u \in files["ni"] : u \in Range(ni) \/ \A x \in Range(ni) : u < x
      /\ todo["dut"] = tlu
  <2>1. todo["dut"] = tlu BY <1>1 DEF Suffixes
  <2> QED BY <1>1, <2>1, Holds
<1>5. /\ files["dut"] = files["tlu"] /\ files["ni"] \subseteq files["tlu"]
      /\ \A u, v \in files["tlu"] : \A x \in Nat : u <= x /\ x <= v => x \in files["tlu"]
  <2>1. files["dut"] = files["tlu"] BY DEF Merge!InSync
  <2> QED BY <1>1, <2>1, SyncedFiles DEF Suffixes
<1>6. /\ t \in Nat /\ t \in Range(tlu) /\ \A x \in Range(tlu) : t <= x
      /\ rest \in Seq(Nat) /\ Rises(rest) /\ Range(rest) = Range(tlu) \ {t}
  BY <1>3, <1>4, FirstIsLeast
<1>7. /\ f \in Nat /\ next \in Seq(Nat) /\ Rises(next) /\ Range(next) = Range(ni) \ {f}
  BY <1>3, <1>4, FirstIsLeast
<1>8. \A u \in files["ni"] : u \in Range(next) \/ \A x \in Range(next) : u < x
  BY <1>3, <1>4, Behind
<1>9. /\ \A x \in Range(rest) : t < x
      /\ \A u \in files["tlu"] : u \in Range(rest) \/ \A x \in Range(rest) : u < x
  BY <1>3, <1>4, Behind
<1>10. /\ todo' = [tlu |-> rest, dut |-> rest, ni |-> frame] /\ out' = Append(out, g)
       /\ pc' = "sync" => rest # <<>> /\ next # <<>>
  BY <1>3, <1>4 DEF Merge!Duplicate, Merge!Null, Merge!Next1
<1>11. todo' = [s \in Inputs |-> IF s = "ni" THEN frame ELSE rest]
  <2> HIDE DEF frame, rest
  <2>1. todo' = [tlu |-> rest, dut |-> rest, ni |-> frame] BY <1>10
  <2>2. todo'["tlu"] = rest /\ todo'["ni"] = frame /\ todo'["dut"] = rest BY <2>1
  <2>3. todo' = [s \in Inputs |-> todo'[s]] BY <2>1 DEF Inputs
  <2>4. \A s \in Inputs : todo'[s] = IF s = "ni" THEN frame ELSE rest BY <2>2 DEF Inputs
  <2> QED BY <2>3, <2>4
<1>12. /\ frame \in Seq(Nat) /\ Rises(frame) /\ Range(frame) \subseteq files["ni"] /\ frame # <<>>
       /\ \A u \in files["ni"] : u \in Range(frame) \/ \A x \in Range(frame) : u < x
  <2>1. CASE same
    <3> HIDE DEF next
    <3> QED BY <1>4, <1>7, <1>8, <2>1
  <2>2. CASE ~same
    <3> HIDE DEF same
    <3> QED BY <1>3, <1>4, <2>2
  <2> QED BY <2>1, <2>2
<1>13. next # <<>> => /\ Head(next) \in Nat /\ Head(next) \in files["ni"] /\ f < Head(next) /\ t < Head(next)
                      /\ \A m \in files["ni"] : m <= f \/ Head(next) <= m
  BY <1>1, <1>2, NextFrame
<1>14. rest # <<>> => /\ Head(rest) \in Nat /\ Head(rest) = t + 1
  <2> SUFFICES ASSUME rest # <<>> PROVE Head(rest) \in Nat /\ Head(rest) = t + 1 OBVIOUS
  <2>1. Head(rest) \in Nat /\ Head(rest) \in Range(rest) /\ \A x \in Range(rest) : Head(rest) <= x
    <3> HIDE DEF rest
    <3> QED BY <1>6, FirstIsLeast
  <2> HIDE DEF rest, t, tlu
  <2>2. t < Head(rest) /\ t \in files["tlu"] /\ Head(rest) \in files["tlu"] BY <1>4, <1>6, <1>9, <2>1
  <2>3. t + 1 \in Nat /\ t <= t + 1 /\ t + 1 <= Head(rest) /\ ~(t + 1 <= t) BY <1>6, <2>1, <2>2
  <2>4. t + 1 \in files["tlu"] BY <1>5, <2>2, <2>3
  <2>5. t + 1 \in Range(tlu) BY <1>4, <1>6, <2>3, <2>4
  <2>6. t + 1 \in Range(rest) BY <1>6, <2>3, <2>5
  <2> QED BY <2>1, <2>3, <2>6
<1> HIDE DEF tlu, ni, rest, next, frame, f, t
<1>15. Suffixes' /\ todo'["tlu"] = rest /\ todo'["ni"] = frame
  <2>1. Range(rest) \subseteq files["tlu"] BY <1>4, <1>6
  <2> QED BY <1>1, <1>2, <1>5, <1>6, <1>9, <1>11, <1>12, <2>1, Remain
<1>16. AlignedInv'
  <2>1. CASE pc' = "sync"
    <3>1. rest # <<>> /\ next # <<>> BY <1>10, <2>1
    <3>2. Head(rest) \in Nat /\ Head(rest) = t + 1 BY <1>14, <3>1
    <3>3. /\ Head(next) \in Nat /\ Head(next) \in files["ni"] /\ f < Head(next) /\ t < Head(next)
          /\ \A m \in files["ni"] : m <= f \/ Head(next) <= m
      BY <1>13, <3>1
    <3>4. f \in files["ni"] /\ f <= t BY <1>3 DEF FrameOf, Merge!Frames
    <3>5. Head(frame) \in files["ni"] /\ Head(frame) <= Head(rest)
          /\ \A m \in files["ni"] : m <= Head(rest) => m <= Head(frame)
      <4>1. CASE Head(next) = Head(rest)
        <5>1. Head(frame) = Head(next) BY <3>1, <4>1 DEF frame
        <5> QED BY <3>2, <3>3, <4>1, <5>1
      <4>2. CASE Head(next) # Head(rest)
        <5>1. Head(frame) = f BY <4>2 DEF frame, f
        <5>2. t + 1 < Head(next) BY <1>6, <3>2, <3>3, <4>2
        <5>3. \A m \in files["ni"] : m \in Nat BY <1>4
        <5> QED BY <1>6, <1>7, <3>2, <3>3, <3>4, <5>1, <5>2, <5>3
      <4> QED BY <4>1, <4>2
    <3> QED BY <1>2, <1>12, <1>15, <2>1, <3>1, <3>5 DEF AlignedInv, FrameOf, Merge!Frames
  <2>2. CASE pc' # "sync"
    <3>1. pc' \in {"crashed", "done"} BY <1>3, <1>4, <2>2 DEF Merge!Duplicate, Merge!Null, tlu
    <3> QED BY <3>1 DEF AlignedInv
  <2> QED BY <2>1, <2>2
<1>17. GroupsInv'
  <2>1. g \in Group /\ g.dut = g.tlu /\ g.tlu = {t} /\ g.ni = f BY <1>6, <1>7 DEF Group
  <2> HIDE DEF g
  <2>2. \A u \in g.tlu : FrameOf(g.ni, u) BY <1>3, <2>1
  <2>3. g.tlu \subseteq Range(todo["tlu"]) /\ Range(todo'["tlu"]) = Range(todo["tlu"]) \ g.tlu
    BY <1>6, <1>15, <2>1 DEF tlu
  <2>4. \A u \in g.tlu : \A x \in Range(todo'["tlu"]) : u < x BY <1>9, <1>15, <2>1
  <2> QED BY <1>1, <1>2, <1>10, <2>1, <2>2, <2>3, <2>4, GroupWritten
<1> QED BY <1>15, <1>16, <1>17 DEF GroupInv

\* The alignment loops and both ways of writing a frame keep the invariant of the grouping merges.
LEMMA GroupKeeps ==
  ASSUME GroupInv, kind \in {"combined", "duplicate"}, Merge!Next
  PROVE  GroupInv'
<1>1. SUFFICES ASSUME Merge!InSync PROVE GroupInv' BY FilesStay DEF GroupInv
<1>2. ~Merge!Standard BY DEF Merge!Standard
<1> QED BY <1>1, <1>2, GroupAlignNi, GroupAlignTlu, GroupCombined, GroupDuplicate DEF Merge!Next

\* Between the first frame and the last trigger written nothing is missing.
LEMMA GroupSays == ASSUME GroupInv PROVE Merge!FrameOfTrigger /\ Merge!NoneLeftOut
<1>1. SUFFICES ASSUME Merge!InSync PROVE Merge!FrameOfTrigger /\ Merge!NoneLeftOut
  BY DEF Merge!FrameOfTrigger, Merge!NoneLeftOut
<1>2. /\ out \in Seq(Group) /\ FilesInOrder
      /\ \A i \in DOMAIN out :
           /\ out[i].dut = out[i].tlu
           /\ \A t \in out[i].tlu : FrameOf(out[i].ni, t) /\ \A x \in Range(todo["tlu"]) : t < x
      /\ \A i, j \in DOMAIN out : i < j => \A t \in out[i].tlu, u \in out[j].tlu : t < u
      /\ \A u \in files["tlu"] : \/ u \in Range(todo["tlu"]) \/ Merge!Frames(u) = {}
                                 \/ \E i \in DOMAIN out : u \in out[i].tlu
  BY <1>1 DEF GroupInv, GroupsInv, Suffixes
<1>3. Len(out) \in Nat /\ DOMAIN out = 1 .. Len(out) BY <1>2
<1>4. \A i \in DOMAIN out : \A t \in out[i].tlu : t \in Nat
  <2>1. \A i \in DOMAIN out : out[i] \in Group BY <1>2, <1>3
  <2>2. \A w \in Group : w.tlu \in SUBSET Nat BY DEF Group
  <2> QED BY <2>1, <2>2
<1>5. Merge!FrameOfTrigger BY <1>2 DEF Merge!FrameOfTrigger, FrameOf
<1>6. ASSUME NEW i \in DOMAIN out, NEW t \in out[i].tlu, NEW u \in files["tlu"], u <= t, Merge!Frames(u) # {}
      PROVE  \E j \in 1 .. i : u \in out[j].tlu
  <2>1. u \in Nat /\ t \in Nat BY <1>2, <1>4 DEF FilesInOrder, Inputs
  <2>2. u \notin Range(todo["tlu"])
    <3>1. u \in Range(todo["tlu"]) => t < u BY <1>2
    <3> QED BY <1>6, <2>1, <3>1
  <2>3. PICK j \in DOMAIN out : u \in out[j].tlu BY <1>2, <1>6, <2>2
  <2>4. ~(i < j)
    <3>1. i < j => t < u BY <1>2, <2>3
    <3> QED BY <1>6, <2>1, <3>1
  <2>5. j \in 1 .. i BY <1>3, <2>4
  <2> QED BY <2>3, <2>5
<1>7. ASSUME NEW i \in DOMAIN out, NEW j \in DOMAIN out, i # j, NEW t \in out[i].tlu, t \in out[j].tlu
      PROVE  FALSE
  <2>1. t \in Nat /\ (i < j \/ j < i) BY <1>3, <1>4, <1>7
  <2>2. t < t BY <1>2, <1>7, <2>1
  <2> QED BY <2>1, <2>2
<1>8. Merge!NoneLeftOut
  <2>1. \A i, j \in DOMAIN out : i # j => out[i].tlu \cap out[j].tlu = {} BY <1>7
  <2> QED BY <1>6, <2>1 DEF Merge!NoneLeftOut
<1> QED BY <1>5, <1>8

\* FilesMerged: from whatever files, with a trigger for each event, the
\* standard merger writes exactly the triggers that are in all three; from
\* detectors in sync the two others write each event of the TLU from the first
\* frame on once, with its partner and with its frame.
THEOREM FilesAreMerged == CollectorsSpec => []FilesMerged
<1> DEFINE Inv == /\ kind = "standard" => StandardInv
                  /\ kind \in {"combined", "duplicate"} => GroupInv
<1>1. CollectorsInit => Inv BY StandardStarts, GroupStarts
<1>2. ASSUME Inv, [CollectorsNext]_<<vars, sliceVars, roundVars, fileVars>> PROVE Inv'
  <2>1. kind' = kind BY <1>2, KindStays
  <2>2. ASSUME kind \in {"standard", "combined", "duplicate"}
        PROVE  Merge!Next \/ UNCHANGED <<kind, out, todo, files, pc>>
    <3>1. CASE CollectorsNext BY <2>2, <3>1 DEF CollectorsNext
    <3>2. CASE UNCHANGED <<vars, sliceVars, roundVars, fileVars>> BY <3>2 DEF vars, tgVars, streamVars, fileVars
    <3> QED BY <1>2, <3>1, <3>2
  <2>3. CASE UNCHANGED <<kind, out, todo, files, pc>>
    <3>1. Merge!InSync' = Merge!InSync /\ Merge!Common' = Merge!Common
      BY <2>3 DEF Merge!InSync, Merge!Common
    <3>2. StandardInv => StandardInv'
      BY <2>3 DEF StandardInv, FilesInOrder, Merge!Common
    <3>3. Suffixes /\ AlignedInv /\ GroupsInv => Suffixes' /\ AlignedInv' /\ GroupsInv'
      BY <2>3 DEF Suffixes, FilesInOrder, AlignedInv, GroupsInv, FrameOf, Merge!Frames
    <3>4. GroupInv => GroupInv' BY <3>1, <3>3 DEF GroupInv
    <3> QED BY <1>2, <2>1, <3>2, <3>4
  <2> QED BY <1>2, <2>1, <2>2, <2>3, StandardKeeps, GroupKeeps
<1>3. Inv => FilesMerged
  <2>1. kind # "standard" => Merge!EachCommonTrigger BY DEF Merge!EachCommonTrigger
  <2>2. kind \notin {"combined", "duplicate"} => Merge!FrameOfTrigger /\ Merge!NoneLeftOut
    BY DEF Merge!FrameOfTrigger, Merge!NoneLeftOut
  <2> QED BY <2>1, <2>2, StandardSays, GroupSays DEF FilesMerged
<1> QED BY <1>1, <1>2, <1>3, PTL DEF CollectorsSpec
=============================================================================
