------------------------- MODULE DataReceiver_proofs -------------------------
(***************************************************************************)
(* The sessions of a data server are separate, a connection that is open   *)
(* to the end is told so, and no event is lost, doubled or overtaken but   *)
(* the oldest of a full queue, for every set of connections, every limit   *)
(* of the queue and every choice of faults.                                *)
(***************************************************************************)
EXTENDS DataReceiver, TLAPS, FiniteSetTheorems

USE ConnsAssumption, BoundAssumption DEF calls, flags, threads, net, vars, Nobody

\* What Append returns: the old elements and the new one.
LEMMA Appended ==
  ASSUME NEW S, NEW s \in Seq(S), NEW e \in S
  PROVE  /\ Append(s, e) \in Seq(S) /\ Append(s, e) # <<>>
         /\ \A i \in 1 .. Len(Append(s, e)) :
              Append(s, e)[i] = e \/ (i \in 1 .. Len(s) /\ Append(s, e)[i] = s[i])
<1>1. Append(s, e) \in Seq(S) OBVIOUS
<1>2. Len(Append(s, e)) = Len(s) + 1 /\ Append(s, e) # <<>> OBVIOUS
<1>3. \A i \in 1 .. Len(s) : Append(s, e)[i] = s[i] OBVIOUS
<1>4. Append(s, e)[Len(s) + 1] = e OBVIOUS
<1>5. \A i \in 1 .. Len(s) + 1 : i = Len(s) + 1 \/ i \in 1 .. Len(s) OBVIOUS
<1> QED BY <1>1, <1>2, <1>3, <1>4, <1>5

\* What Tail returns: the elements from the second on.
LEMMA Shortened ==
  ASSUME NEW S, NEW s \in Seq(S), s # <<>>
  PROVE  /\ Tail(s) \in Seq(S) /\ Head(s) \in S
         /\ Head(s) = s[1] /\ 1 \in 1 .. Len(s)
         /\ \A i \in 1 .. Len(Tail(s)) : i + 1 \in 1 .. Len(s) /\ Tail(s)[i] = s[i + 1]
<1>1. Tail(s) \in Seq(S) /\ Head(s) \in S /\ Head(s) = s[1] /\ 1 \in 1 .. Len(s) OBVIOUS
<1>2. Len(Tail(s)) = Len(s) - 1 OBVIOUS
<1>3. \A i \in 1 .. Len(s) - 1 : Tail(s)[i] = s[i + 1] OBVIOUS
<1> QED BY <1>1, <1>2, <1>3

\* A server that was not opened has nothing and does nothing.
LEMMA InitInv == Init => IInv
<1> SUFFICES ASSUME Init PROVE IInv OBVIOUS
<1> USE DEF Init
<1>0. 0 \in 0 .. MaxSessions OBVIOUS
<1>1. ControlTypes BY <1>0, Zenon DEF ControlTypes
<1>7. QueueTypes BY DEF QueueTypes
<1>8. NetTypes BY DEF NetTypes
<1>2. ClosedInv BY DEF ClosedInv
<1>3. ThreadsInv BY DEF ThreadsInv
<1>4. OriginInv BY DEF OriginInv, QueueOrigin, ArrivedOrigin, WireOrigin
<1>5. KnownInv BY DEF KnownInv
<1>6. OpenOnesDisconnected BY DEF OpenOnesDisconnected
<1> QED BY <1>1, <1>2, <1>3, <1>4, <1>5, <1>6, <1>7, <1>8 DEF IInv, Types

\* What a peer writes to its socket arrives there and nowhere else.
LEMMA OnWire ==
  ASSUME Types, NEW c \in Conns, NEW k \in Marks \cup {"event"}, NEW n \in 0 .. MaxEvents,
         ToWire(c, k, n)
  PROVE  /\ wire' \in [Conns -> Seq(Packets)]
         /\ wire'[c] # <<>>
         /\ \A d \in Conns \ {c} : wire'[d] = wire[d]
<1>1. [k |-> k, n |-> n] \in Packets BY DEF Packets
<1>2. wire \in [Conns -> Seq(Packets)] BY DEF Types, NetTypes
<1>3. /\ Append(wire[c], [k |-> k, n |-> n]) \in Seq(Packets)
      /\ Append(wire[c], [k |-> k, n |-> n]) # <<>>
  BY <1>1, <1>2, Appended
<1> QED BY <1>2, <1>3 DEF ToWire

\* Every entry names a connection.
LEMMA Named ==
  ASSUME Types
  PROVE  /\ \A i \in 1 .. Len(queue) : queue[i] \in Entries /\ queue[i].con \in Conns
         /\ \A i \in 1 .. Len(events) : events[i] \in Arrived /\ events[i].con \in Conns
         /\ item # Nobody => item \in Entries /\ item.con \in Conns
<1>1. queue \in Seq(Entries) /\ events \in Seq(Arrived) BY DEF Types, QueueTypes
<1>2. \A e \in Entries : e.con \in Conns BY DEF Entries
<1>3. \A e \in Arrived : e.con \in Conns BY DEF Arrived
<1>4. \A i \in 1 .. Len(queue) : queue[i] \in Entries BY <1>1
<1>5. \A i \in 1 .. Len(events) : events[i] \in Arrived BY <1>1
<1>6. item # Nobody => item \in Entries BY DEF Types, QueueTypes
<1> QED BY <1>2, <1>3, <1>4, <1>5, <1>6

\* What m_qu_ev holds after a push.
LEMMA Pushed ==
  ASSUME Types, NEW c \in Conns, NEW n \in 0 .. MaxEvents, Push(c, n)
  PROVE  /\ queue' \in Seq(Entries) /\ queue' # <<>>
         /\ \A i \in 1 .. Len(queue') :
              queue'[i].con = c \/ (i \in 1 .. Len(queue) /\ queue'[i] = queue[i])
<1> DEFINE e == [con |-> c, n |-> n]
<1>1. e \in Entries /\ e.con = c BY DEF Entries
<1>2. queue \in Seq(Entries) BY DEF Types, QueueTypes
<1>3. queue' = Append(queue, e) BY DEF Push
<1> HIDE DEF e
<1> QED BY <1>1, <1>2, <1>3, Appended

\* PeerConnects keeps the invariant.
LEMMA PeerConnectsInv ==
  ASSUME IInv, NEW c \in Conns, PeerConnects(c) PROVE IInv'
<1> USE DEF IInv, PeerConnects, local, Becomes
<1>0. /\ wire' \in [Conns -> Seq(Packets)]
      /\ \A d \in Conns \ {c} : wire'[d] = wire[d]
  BY OnWire DEF Marks
<1>1. ControlTypes' BY DEF Types, ControlTypes
<1>2. QueueTypes' BY DEF Types, QueueTypes
<1>3. NetTypes' BY <1>0 DEF Types, ControlTypes, NetTypes
<1>4. ClosedInv' BY DEF Types, ClosedInv
<1>5. ThreadsInv' BY DEF ThreadsInv
<1>6. OriginInv'
  <2>1. QueueOrigin' BY DEF OriginInv, QueueOrigin
  <2>2. ArrivedOrigin' BY DEF OriginInv, ArrivedOrigin
  <2>3. WireOrigin' BY <1>0 DEF OriginInv, WireOrigin, Types, ControlTypes, NetTypes
  <2> QED BY <2>1, <2>2, <2>3 DEF OriginInv
<1>7. KnownInv'
  BY SMTT(20) DEF Types, KnownInv, OriginInv, ArrivedOrigin, WireOrigin, ClosedInv, ThreadsInv,
     InSession, ControlTypes, NetTypes, QueueTypes
<1>8. OpenOnesDisconnected' BY DEF OpenOnesDisconnected, KnownInv, InSession
<1> QED BY <1>1, <1>2, <1>3, <1>4, <1>5, <1>6, <1>7, <1>8 DEF Types

\* PeerIdentifies keeps the invariant.
LEMMA PeerIdentifiesInv ==
  ASSUME IInv, NEW c \in Conns, PeerIdentifies(c) PROVE IInv'
<1> USE DEF IInv, PeerIdentifies, local, Becomes
<1>0. /\ wire' \in [Conns -> Seq(Packets)]
      /\ \A d \in Conns \ {c} : wire'[d] = wire[d]
  BY OnWire DEF Marks
<1>1. ControlTypes' BY DEF Types, ControlTypes
<1>2. QueueTypes' BY DEF Types, QueueTypes
<1>3. NetTypes' BY <1>0 DEF Types, NetTypes
<1>4. ClosedInv' BY <1>0 DEF Types, ClosedInv
<1>5. ThreadsInv' BY DEF ThreadsInv
<1>6. OriginInv'
  <2>1. QueueOrigin' BY DEF OriginInv, QueueOrigin
  <2>2. ArrivedOrigin' BY DEF OriginInv, ArrivedOrigin
  <2>3. WireOrigin' BY <1>0 DEF OriginInv, WireOrigin
  <2> QED BY <2>1, <2>2, <2>3 DEF OriginInv
<1>7. KnownInv' BY DEF KnownInv, InSession
<1>8. OpenOnesDisconnected' BY DEF OpenOnesDisconnected, InSession
<1> QED BY <1>1, <1>2, <1>3, <1>4, <1>5, <1>6, <1>7, <1>8 DEF Types

\* PeerSends keeps the invariant.
LEMMA PeerSendsInv ==
  ASSUME IInv, NEW c \in Conns, PeerSends(c) PROVE IInv'
<1> USE DEF IInv, PeerSends, local
<1>9. sent'[c] \in 0 .. MaxEvents /\ sent' \in [Conns -> 0 .. MaxEvents] BY DEF Types, NetTypes
<1>0. /\ wire' \in [Conns -> Seq(Packets)]
      /\ \A d \in Conns \ {c} : wire'[d] = wire[d]
  BY <1>9, OnWire DEF Marks
<1>1. ControlTypes' BY DEF Types, ControlTypes
<1>2. QueueTypes' BY DEF Types, QueueTypes
<1>3. NetTypes' BY <1>0, <1>9 DEF Types, NetTypes
<1>4. ClosedInv' BY <1>0 DEF Types, ClosedInv
<1>5. ThreadsInv' BY DEF ThreadsInv
<1>6. OriginInv'
  <2>1. QueueOrigin' BY DEF OriginInv, QueueOrigin
  <2>2. ArrivedOrigin' BY DEF OriginInv, ArrivedOrigin
  <2>3. WireOrigin' BY <1>0 DEF OriginInv, WireOrigin
  <2> QED BY <2>1, <2>2, <2>3 DEF OriginInv
<1>7. KnownInv' BY DEF KnownInv, InSession
<1>8. OpenOnesDisconnected' BY DEF OpenOnesDisconnected, InSession
<1> QED BY <1>1, <1>2, <1>3, <1>4, <1>5, <1>6, <1>7, <1>8 DEF Types

\* PeerCloses keeps the invariant.
LEMMA PeerClosesInv ==
  ASSUME IInv, NEW c \in Conns, PeerCloses(c) PROVE IInv'
<1> USE DEF IInv, PeerCloses, local, Becomes
<1>0. /\ wire' \in [Conns -> Seq(Packets)]
      /\ \A d \in Conns \ {c} : wire'[d] = wire[d]
  BY OnWire DEF Marks
<1>1. ControlTypes' BY DEF Types, ControlTypes
<1>2. QueueTypes' BY DEF Types, QueueTypes
<1>3. NetTypes' BY <1>0 DEF Types, NetTypes
<1>4. ClosedInv' BY <1>0 DEF Types, ClosedInv
<1>5. ThreadsInv' BY DEF ThreadsInv
<1>6. OriginInv'
  <2>1. QueueOrigin' BY DEF OriginInv, QueueOrigin
  <2>2. ArrivedOrigin' BY DEF OriginInv, ArrivedOrigin
  <2>3. WireOrigin' BY <1>0 DEF OriginInv, WireOrigin
  <2> QED BY <2>1, <2>2, <2>3 DEF OriginInv
<1>7. KnownInv' BY DEF KnownInv, InSession
<1>8. OpenOnesDisconnected' BY DEF OpenOnesDisconnected, InSession
<1> QED BY <1>1, <1>2, <1>3, <1>4, <1>5, <1>6, <1>7, <1>8 DEF Types

\* ReceivingChecks keeps the invariant.
LEMMA ReceivingChecksInv ==
  ASSUME IInv, ReceivingChecks PROVE IInv'
<1> USE DEF IInv, ReceivingChecks
<1>1. ControlTypes' BY DEF Types, ControlTypes
<1>2. QueueTypes' BY DEF Types, QueueTypes
<1>3. NetTypes' BY DEF Types, NetTypes
<1>4. ClosedInv' BY DEF Types, ClosedInv
<1>5. ThreadsInv' BY DEF ThreadsInv
<1>6. OriginInv'
  <2>1. QueueOrigin' BY DEF OriginInv, QueueOrigin
  <2>2. ArrivedOrigin' BY DEF OriginInv, ArrivedOrigin
  <2>3. WireOrigin' BY DEF OriginInv, WireOrigin
  <2> QED BY <2>1, <2>2, <2>3 DEF OriginInv
<1>7. KnownInv' BY DEF KnownInv, InSession
<1>8. OpenOnesDisconnected' BY DEF OpenOnesDisconnected, InSession
<1> QED BY <1>1, <1>2, <1>3, <1>4, <1>5, <1>6, <1>7, <1>8 DEF Types

\* Process keeps the invariant.
LEMMA ProcessInv ==
  ASSUME IInv, NEW c \in Conns, Process(c) PROVE IInv'
<1> USE DEF IInv, Process
<1>0. /\ wire' \in [Conns -> Seq(Packets)]
      /\ \A d \in Conns : wire'[d] # <<>> => wire[d] # <<>>
  BY Shortened DEF Types, NetTypes
<1>9. /\ events' \in Seq(Arrived) /\ events' # <<>>
      /\ \A i \in 1 .. Len(events') :
           events'[i].con = c \/ (i \in 1 .. Len(events) /\ events'[i] = events[i])
  <2> DEFINE e == [con |-> c, k |-> Head(wire[c]).k, n |-> Head(wire[c]).n]
  <2>1. Head(wire[c]) \in Packets BY Shortened DEF Types, NetTypes
  <2>2. e \in Arrived BY <2>1 DEF Packets, Arrived
  <2>3. e.con = c OBVIOUS
  <2>4. events' = Append(events, e) /\ events \in Seq(Arrived) BY DEF Types, QueueTypes
  <2> HIDE DEF e
  <2> QED BY <2>2, <2>3, <2>4, Appended
<1>1. ControlTypes' BY DEF Types, ControlTypes
<1>2. QueueTypes' BY <1>9 DEF Types, QueueTypes
<1>3. NetTypes' BY DEF Types, NetTypes
<1>4. ClosedInv' BY <1>0 DEF Types, ClosedInv
<1>5. ThreadsInv' BY DEF ThreadsInv
<1>6. OriginInv'
  <2>1. QueueOrigin' BY DEF OriginInv, QueueOrigin
  <2>2. ArrivedOrigin'
    <3>1. c \in Conns /\ born[c] = session /\ peer[c] # "away" BY DEF OriginInv, WireOrigin
    <3> QED BY <3>1 DEF OriginInv, ArrivedOrigin
  <2>3. WireOrigin' BY DEF OriginInv, WireOrigin
  <2> QED BY <2>1, <2>2, <2>3 DEF OriginInv
<1>7. KnownInv' BY DEF KnownInv, InSession
<1>8. OpenOnesDisconnected' BY DEF OpenOnesDisconnected, InSession
<1> QED BY <1>1, <1>2, <1>3, <1>4, <1>5, <1>6, <1>7, <1>8 DEF Types

\* ProcessReturns keeps the invariant.
LEMMA ProcessReturnsInv ==
  ASSUME IInv, ProcessReturns PROVE IInv'
<1> USE DEF IInv, ProcessReturns
<1>1. ControlTypes' BY DEF Types, ControlTypes
<1>2. QueueTypes' BY DEF Types, QueueTypes
<1>3. NetTypes' BY DEF Types, NetTypes
<1>4. ClosedInv' BY DEF Types, ClosedInv
<1>5. ThreadsInv' BY DEF ThreadsInv
<1>6. OriginInv'
  <2>1. QueueOrigin' BY DEF OriginInv, QueueOrigin
  <2>2. ArrivedOrigin' BY DEF OriginInv, ArrivedOrigin
  <2>3. WireOrigin' BY DEF OriginInv, WireOrigin
  <2> QED BY <2>1, <2>2, <2>3 DEF OriginInv
<1>7. KnownInv' BY DEF KnownInv, InSession
<1>8. OpenOnesDisconnected' BY DEF OpenOnesDisconnected, InSession
<1> QED BY <1>1, <1>2, <1>3, <1>4, <1>5, <1>6, <1>7, <1>8 DEF Types

\* HandleConnect keeps the invariant.
LEMMA HandleConnectInv ==
  ASSUME IInv, NEW c \in Conns, HandleConnect(c) PROVE IInv'
<1> USE DEF IInv, HandleConnect, Handling, NextEvent
<1>0. events # <<>> /\ events \in Seq(Arrived) BY DEF ThreadsInv, Types, QueueTypes
<1>9. /\ events' \in Seq(Arrived) /\ Head(events) = events[1] /\ 1 \in 1 .. Len(events)
      /\ \A i \in 1 .. Len(events') : i + 1 \in 1 .. Len(events) /\ events'[i] = events[i + 1]
  BY <1>0, Shortened
<1>1. ControlTypes' BY DEF Types, ControlTypes
<1>2. QueueTypes' BY <1>9 DEF Types, QueueTypes
<1>3. NetTypes' BY DEF Types, NetTypes
<1>4. ClosedInv' BY <1>0 DEF Types, ClosedInv
<1>5. ThreadsInv' BY DEF ThreadsInv
<1>6. OriginInv'
  <2>1. QueueOrigin' BY DEF OriginInv, QueueOrigin
  <2>2. ArrivedOrigin' BY DEF OriginInv, ArrivedOrigin
  <2>3. WireOrigin' BY DEF OriginInv, WireOrigin
  <2> QED BY <2>1, <2>2, <2>3 DEF OriginInv
<1>7. KnownInv' BY DEF KnownInv, InSession
<1>8. OpenOnesDisconnected' BY DEF OpenOnesDisconnected, InSession
<1> QED BY <1>1, <1>2, <1>3, <1>4, <1>5, <1>6, <1>7, <1>8 DEF Types

\* HandleIdentification keeps the invariant.
LEMMA HandleIdentificationInv ==
  ASSUME IInv, NEW c \in Conns, HandleIdentification(c) PROVE IInv'
<1> USE DEF IInv, HandleIdentification, Handling, NextEvent, Push
<1>0. events # <<>> /\ events \in Seq(Arrived) BY DEF ThreadsInv, Types, QueueTypes
<1>9. /\ events' \in Seq(Arrived) /\ Head(events) = events[1] /\ 1 \in 1 .. Len(events)
      /\ \A i \in 1 .. Len(events') : i + 1 \in 1 .. Len(events) /\ events'[i] = events[i + 1]
  BY <1>0, Shortened
<1>10. /\ queue' \in Seq(Entries) /\ queue' # <<>>
       /\ \A i \in 1 .. Len(queue') :
            queue'[i].con = c \/ (i \in 1 .. Len(queue) /\ queue'[i] = queue[i])
  BY Pushed
<1>11. c \in Conns /\ born[c] = session BY <1>9 DEF OriginInv, ArrivedOrigin
<1>1. ControlTypes' BY DEF Types, ControlTypes
<1>2. QueueTypes' BY <1>9, <1>10 DEF Types, QueueTypes
<1>3. NetTypes' BY DEF Types, NetTypes
<1>4. ClosedInv' BY <1>0 DEF Types, ClosedInv
<1>5. ThreadsInv' BY <1>10 DEF ThreadsInv
<1>6. OriginInv'
  <2>1. QueueOrigin' BY <1>11 DEF OriginInv, QueueOrigin
  <2>2. ArrivedOrigin'
    <3>1. \A d \in Conns : peer'[d] = "away" <=> peer[d] = "away" BY DEF Types, NetTypes
    <3> QED BY DEF OriginInv, ArrivedOrigin
  <2>3. WireOrigin' BY DEF OriginInv, WireOrigin
  <2> QED BY <2>1, <2>2, <2>3 DEF OriginInv
<1>7. KnownInv'
  BY <1>9, ZenonT(30) DEF Types, KnownInv, OriginInv, ArrivedOrigin, WireOrigin, ClosedInv, ThreadsInv,
     InSession, ControlTypes, NetTypes, QueueTypes
<1>8. OpenOnesDisconnected' BY DEF OpenOnesDisconnected, ThreadsInv
<1> QED BY <1>1, <1>2, <1>3, <1>4, <1>5, <1>6, <1>7, <1>8 DEF Types

\* HandleEvent keeps the invariant.
LEMMA HandleEventInv ==
  ASSUME IInv, NEW c \in Conns, HandleEvent(c) PROVE IInv'
<1> USE DEF IInv, HandleEvent, Handling, NextEvent
<1>0. events # <<>> /\ events \in Seq(Arrived) BY DEF ThreadsInv, Types, QueueTypes
<1>9. /\ events' \in Seq(Arrived) /\ Head(events) = events[1] /\ 1 \in 1 .. Len(events)
      /\ \A i \in 1 .. Len(events') : i + 1 \in 1 .. Len(events) /\ events'[i] = events[i + 1]
  BY <1>0, Shortened
<1>10. /\ queue' \in Seq(Entries) /\ queue' # <<>>
       /\ \A i \in 1 .. Len(queue') :
            \/ queue'[i].con = c
            \/ \E j \in 1 .. Len(queue) : queue'[i] = queue[j]
  <2> DEFINE e == [con |-> c, n |-> Head(events).n]
             q == Append(queue, e)
  <2>1. e \in Entries /\ e.con = c BY <1>0, Shortened, ZenonT(30) DEF Arrived, Entries
  <2>2. queue' = IF Len(q) > MaxQueue THEN Tail(q) ELSE q OBVIOUS
  <2>3. queue \in Seq(Entries) BY DEF Types, QueueTypes
  <2> HIDE DEF e
  <2>4. /\ q \in Seq(Entries) /\ q # <<>>
        /\ \A i \in 1 .. Len(q) : q[i] = e \/ (i \in 1 .. Len(queue) /\ q[i] = queue[i])
    BY <2>1, <2>3, Appended
  <2> HIDE DEF q
  <2>5. CASE ~(Len(q) > MaxQueue) BY <2>1, <2>2, <2>4, <2>5
  <2>6. CASE Len(q) > MaxQueue
    <3>1. Tail(q) # <<>> BY <2>4, <2>6
    <3>2. /\ Tail(q) \in Seq(Entries)
          /\ \A i \in 1 .. Len(Tail(q)) : i + 1 \in 1 .. Len(q) /\ Tail(q)[i] = q[i + 1]
      BY <2>4, Shortened
    <3> QED BY <2>1, <2>2, <2>4, <2>6, <3>1, <3>2
  <2> QED BY <2>5, <2>6
<1>11. c \in Conns /\ born[c] = session BY <1>9 DEF OriginInv, ArrivedOrigin
<1>1. ControlTypes' BY DEF Types, ControlTypes
<1>2. QueueTypes' BY <1>9, <1>10 DEF Types, QueueTypes
<1>3. NetTypes' BY DEF Types, NetTypes
<1>4. ClosedInv' BY <1>0 DEF Types, ClosedInv
<1>5. ThreadsInv' BY <1>10 DEF ThreadsInv
<1>6. OriginInv'
  <2>1. QueueOrigin' BY <1>11, Named DEF OriginInv, QueueOrigin
  <2>2. ArrivedOrigin' BY DEF OriginInv, ArrivedOrigin
  <2>3. WireOrigin' BY DEF OriginInv, WireOrigin
  <2> QED BY <2>1, <2>2, <2>3 DEF OriginInv
<1>7. KnownInv' BY DEF KnownInv, InSession
<1>8. OpenOnesDisconnected' BY DEF OpenOnesDisconnected, InSession
<1> QED BY <1>1, <1>2, <1>3, <1>4, <1>5, <1>6, <1>7, <1>8 DEF Types

\* HandleDisconnect keeps the invariant.
LEMMA HandleDisconnectInv ==
  ASSUME IInv, NEW c \in Conns, HandleDisconnect(c) PROVE IInv'
<1> USE DEF IInv, HandleDisconnect, Handling, NextEvent
<1>0. events # <<>> /\ events \in Seq(Arrived) BY DEF ThreadsInv, Types, QueueTypes
<1>9. /\ events' \in Seq(Arrived) /\ Head(events) = events[1] /\ 1 \in 1 .. Len(events)
      /\ \A i \in 1 .. Len(events') : i + 1 \in 1 .. Len(events) /\ events'[i] = events[i + 1]
  BY <1>0, Shortened
<1>10. \/ /\ queue' \in Seq(Entries) /\ queue' # <<>> /\ woken' = (fwd = "wait")
          /\ \A i \in 1 .. Len(queue') :
               queue'[i].con = c \/ (i \in 1 .. Len(queue) /\ queue'[i] = queue[i])
       \/ UNCHANGED <<queue, woken>>
  <2>1. CASE Push(c, 0) BY Pushed DEF Push
  <2> QED BY <2>1
<1>11. c \in Conns /\ born[c] = session BY <1>9 DEF OriginInv, ArrivedOrigin
<1>1. ControlTypes'
  <2>1. woken' \in BOOLEAN BY <1>10, Zenon DEF Types, ControlTypes
  <2>2. rcv' \in {"check", "handle", "threw"} OBVIOUS
  <2> QED BY <2>1 DEF Types, ControlTypes
<1>2. QueueTypes' BY <1>9, <1>10 DEF Types, QueueTypes
<1>3. NetTypes' BY DEF Types, NetTypes
<1>4. ClosedInv' BY <1>0 DEF Types, ClosedInv
<1>5. ThreadsInv'
  <2>1. woken' => fwd' = "wait" /\ queue' # <<>> BY <1>10 DEF ThreadsInv
  <2>2. rcv' = "handle" => events' # <<>> OBVIOUS
  <2> QED BY <2>1 DEF ThreadsInv
<1>6. OriginInv'
  <2>1. QueueOrigin' BY <1>10, <1>11 DEF OriginInv, QueueOrigin
  <2>2. ArrivedOrigin' BY DEF OriginInv, ArrivedOrigin
  <2>3. WireOrigin' BY DEF OriginInv, WireOrigin
  <2> QED BY <2>1, <2>2, <2>3 DEF OriginInv
<1>7. KnownInv'
  <2>1. state \in [Conns -> {0, 1}] BY DEF Types, QueueTypes
  <2>2. state'[c] = 0 /\ \A d \in Conns \ {c} : state'[d] = state[d] BY <2>1
  <2>3. UNCHANGED <<peer, fwd, born, server, session>> OBVIOUS
  <2>4. \A d \in Conns : d \in known' <=> d \in known /\ d # c OBVIOUS
  <2> QED BY <2>2, <2>3, <2>4 DEF KnownInv, InSession
<1>8. OpenOnesDisconnected' BY DEF OpenOnesDisconnected, InSession
<1> QED BY <1>1, <1>2, <1>3, <1>4, <1>5, <1>6, <1>7, <1>8 DEF Types

\* ForwardingHead keeps the invariant.
LEMMA ForwardingHeadInv ==
  ASSUME IInv, ForwardingHead PROVE IInv'
<1> USE DEF IInv, ForwardingHead, Take, outsideFwd
<1>0. queue # <<>> => /\ Tail(queue) \in Seq(Entries) /\ Head(queue) \in Entries
                      /\ Head(queue) = queue[1] /\ 1 \in 1 .. Len(queue)
                      /\ \A i \in 1 .. Len(Tail(queue)) :
                           i + 1 \in 1 .. Len(queue) /\ Tail(queue)[i] = queue[i + 1]
  BY Shortened DEF Types, QueueTypes
<1>9. \A e \in Entries : e # Nobody BY DEF Entries
<1>1. ControlTypes'
  <2>1. woken' \in BOOLEAN OBVIOUS
  <2>2. fwd' \in {"wait", "call", "clean"} OBVIOUS
  <2> QED BY <2>1 DEF Types, ControlTypes
<1>2. QueueTypes' BY <1>0 DEF Types, QueueTypes
<1>3. NetTypes' BY DEF Types, NetTypes
<1>4. ClosedInv' BY DEF Types, ClosedInv
<1>5. ThreadsInv' BY <1>0, <1>9 DEF ThreadsInv
<1>6. OriginInv'
  <2>1. QueueOrigin' BY <1>0, Named DEF OriginInv, QueueOrigin
  <2>2. ArrivedOrigin' BY DEF OriginInv, ArrivedOrigin
  <2>3. WireOrigin' BY DEF OriginInv, WireOrigin
  <2> QED BY <2>1, <2>2, <2>3 DEF OriginInv
<1>7. KnownInv' BY DEF KnownInv, InSession
<1>8. OpenOnesDisconnected' BY DEF OpenOnesDisconnected
<1> QED BY <1>1, <1>2, <1>3, <1>4, <1>5, <1>6, <1>7, <1>8 DEF Types

\* ForwardingNotified keeps the invariant.
LEMMA ForwardingNotifiedInv ==
  ASSUME IInv, ForwardingNotified PROVE IInv'
<1> USE DEF IInv, ForwardingNotified, Take, outsideFwd
<1>0. queue # <<>> => /\ Tail(queue) \in Seq(Entries) /\ Head(queue) \in Entries
                      /\ Head(queue) = queue[1] /\ 1 \in 1 .. Len(queue)
                      /\ \A i \in 1 .. Len(Tail(queue)) :
                           i + 1 \in 1 .. Len(queue) /\ Tail(queue)[i] = queue[i + 1]
  BY Shortened DEF Types, QueueTypes
<1>9. \A e \in Entries : e # Nobody BY DEF Entries
<1>1. ControlTypes'
  <2>1. woken' \in BOOLEAN OBVIOUS
  <2>2. fwd' \in {"wait", "call", "clean"} OBVIOUS
  <2> QED BY <2>1 DEF Types, ControlTypes
<1>2. QueueTypes' BY <1>0 DEF Types, QueueTypes, ThreadsInv
<1>3. NetTypes' BY DEF Types, NetTypes
<1>4. ClosedInv' BY DEF Types, ClosedInv
<1>5. ThreadsInv' BY <1>0, <1>9 DEF ThreadsInv
<1>6. OriginInv'
  <2>1. QueueOrigin' BY DEF OriginInv, QueueOrigin, ThreadsInv
  <2>2. ArrivedOrigin' BY DEF OriginInv, ArrivedOrigin
  <2>3. WireOrigin' BY DEF OriginInv, WireOrigin
  <2> QED BY <2>1, <2>2, <2>3 DEF OriginInv
<1>7. KnownInv' BY DEF KnownInv, InSession
<1>8. OpenOnesDisconnected' BY DEF OpenOnesDisconnected
<1> QED BY <1>1, <1>2, <1>3, <1>4, <1>5, <1>6, <1>7, <1>8 DEF Types

\* ForwardingTimesOut keeps the invariant.
LEMMA ForwardingTimesOutInv ==
  ASSUME IInv, ForwardingTimesOut PROVE IInv'
<1> USE DEF IInv, ForwardingTimesOut, outsideFwd
<1>1. ControlTypes'
  <2>1. woken' \in BOOLEAN OBVIOUS
  <2>2. fwd' \in {"wait", "call", "clean"} OBVIOUS
  <2> QED BY <2>1 DEF Types, ControlTypes
<1>2. QueueTypes' BY DEF Types, QueueTypes
<1>3. NetTypes' BY DEF Types, NetTypes
<1>4. ClosedInv' BY DEF Types, ClosedInv
<1>5. ThreadsInv' BY DEF ThreadsInv
<1>6. OriginInv'
  <2>1. QueueOrigin' BY DEF OriginInv, QueueOrigin
  <2>2. ArrivedOrigin' BY DEF OriginInv, ArrivedOrigin
  <2>3. WireOrigin' BY DEF OriginInv, WireOrigin
  <2> QED BY <2>1, <2>2, <2>3 DEF OriginInv
<1>7. KnownInv' BY DEF KnownInv, InSession
<1>8. OpenOnesDisconnected' BY DEF OpenOnesDisconnected
<1> QED BY <1>1, <1>2, <1>3, <1>4, <1>5, <1>6, <1>7, <1>8 DEF Types

\* ForwardingCalls keeps the invariant.
LEMMA ForwardingCallsInv ==
  ASSUME IInv, ForwardingCalls PROVE IInv'
<1> USE DEF IInv, ForwardingCalls, outsideFwd
<1>0. item \in Entries BY DEF Types, QueueTypes, ThreadsInv
<1>9. log' \in [Conns -> Seq([k : Calls, n : 0 .. MaxEvents])]
  <2>1. item.con \in Conns /\ item.n \in 0 .. MaxEvents BY <1>0 DEF Entries
  <2>2. Callback(item) \in [k : Calls, n : 0 .. MaxEvents] BY <2>1 DEF Callback, Calls
  <2> QED BY <2>2, Appended DEF Types, QueueTypes
<1>1. ControlTypes' BY DEF Types, ControlTypes
<1>2. QueueTypes' BY <1>9 DEF Types, QueueTypes
<1>3. NetTypes' BY DEF Types, NetTypes
<1>4. ClosedInv' BY DEF Types, ClosedInv
<1>5. ThreadsInv' BY DEF ThreadsInv
<1>6. OriginInv'
  <2>1. QueueOrigin' BY DEF OriginInv, QueueOrigin
  <2>2. ArrivedOrigin' BY DEF OriginInv, ArrivedOrigin
  <2>3. WireOrigin' BY DEF OriginInv, WireOrigin
  <2> QED BY <2>1, <2>2, <2>3 DEF OriginInv
<1>7. KnownInv' BY DEF KnownInv, InSession
<1>8. OpenOnesDisconnected' BY DEF OpenOnesDisconnected
<1> QED BY <1>1, <1>2, <1>3, <1>4, <1>5, <1>6, <1>7, <1>8 DEF Types

\* ForwardingCleans keeps the invariant.
LEMMA ForwardingCleansInv ==
  ASSUME IInv, ForwardingCleans PROVE IInv'
<1> USE DEF IInv, ForwardingCleans, outsideFwd
<1> DEFINE End == [k |-> "disconnect", n |-> 0]
<1>0. End \in [k : Calls, n : 0 .. MaxEvents] BY DEF Calls
<1>9. \A s \in Seq([k : Calls, n : 0 .. MaxEvents]) :
       /\ Append(s, End) \in Seq([k : Calls, n : 0 .. MaxEvents])
       /\ Append(s, End) # <<>> /\ Last(Append(s, End)).k = "disconnect"
  <2> TAKE s \in Seq([k : Calls, n : 0 .. MaxEvents])
  <2> DEFINE S == [k : Calls, n : 0 .. MaxEvents]
  <2>1. End.k = "disconnect" OBVIOUS
  <2>0. s \in Seq(S) /\ End \in S BY <1>0
  <2> HIDE DEF End, S
  <2>4. Append(s, End) \in Seq(S) /\ Append(s, End) # <<>> BY <2>0, Appended
  <2>2. Append(s, End) \in Seq([k : Calls, n : 0 .. MaxEvents]) /\ Append(s, End) # <<>>
    BY <2>4 DEF S
  <2>3. Last(Append(s, End)) = End BY <1>0 DEF Last
  <2> QED BY <2>1, <2>2, <2>3
<1>10. PICK S \in SUBSET known : LogDisconnect(S) /\ (fwd' = "returned" => S = known)
  OBVIOUS
<1>11. \A c \in Conns : log[c] \in Seq([k : Calls, n : 0 .. MaxEvents])
  BY DEF Types, QueueTypes
<1>12. log' = [c \in Conns |-> IF c \in S THEN Append(log[c], End) ELSE log[c]]
  BY <1>10 DEF LogDisconnect
<1>13. log' \in [Conns -> Seq([k : Calls, n : 0 .. MaxEvents])]
  <2> HIDE DEF End
  <2> QED BY <1>9, <1>11, <1>12
<1>14. \A c \in S : log'[c] # <<>> /\ Last(log'[c]).k = "disconnect"
  <2>1. S \subseteq Conns BY DEF Types, QueueTypes
  <2> HIDE DEF End
  <2> QED BY <1>9, <1>11, <1>12, <2>1
<1>1. ControlTypes' BY DEF Types, ControlTypes
<1>2. QueueTypes' BY <1>13 DEF Types, QueueTypes
<1>3. NetTypes' BY DEF Types, NetTypes
<1>4. ClosedInv' BY DEF Types, ClosedInv
<1>5. ThreadsInv' BY DEF ThreadsInv
<1>6. OriginInv'
  <2>1. QueueOrigin' BY DEF OriginInv, QueueOrigin
  <2>2. ArrivedOrigin' BY DEF OriginInv, ArrivedOrigin
  <2>3. WireOrigin' BY DEF OriginInv, WireOrigin
  <2> QED BY <2>1, <2>2, <2>3 DEF OriginInv
<1>7. KnownInv' BY DEF KnownInv
<1>8. OpenOnesDisconnected'
  BY <1>10, <1>14 DEF OpenOnesDisconnected, KnownInv, InSession
<1> QED BY <1>1, <1>2, <1>3, <1>4, <1>5, <1>6, <1>7, <1>8 DEF Types

\* DeamonWakes keeps the invariant.
LEMMA DeamonWakesInv ==
  ASSUME IInv, DeamonWakes PROVE IInv'
<1> USE DEF IInv, DeamonWakes, outsideDeamon, nothingClosed, Released
<1>1. ControlTypes' BY DEF Types, ControlTypes
<1>2. QueueTypes' BY DEF Types, QueueTypes
<1>3. NetTypes' BY DEF Types, NetTypes
<1>4. ClosedInv' BY DEF Types, ClosedInv
<1>5. ThreadsInv' BY DEF ThreadsInv
<1>6. OriginInv'
  <2>1. QueueOrigin' BY DEF OriginInv, QueueOrigin
  <2>2. ArrivedOrigin' BY DEF OriginInv, ArrivedOrigin
  <2>3. WireOrigin' BY DEF OriginInv, WireOrigin
  <2> QED BY <2>1, <2>2, <2>3 DEF OriginInv
<1>7. KnownInv' BY DEF KnownInv, InSession
<1>8. OpenOnesDisconnected' BY DEF OpenOnesDisconnected, InSession
<1> QED BY <1>1, <1>2, <1>3, <1>4, <1>5, <1>6, <1>7, <1>8 DEF Types

\* DeamonServes keeps the invariant.
LEMMA DeamonServesInv ==
  ASSUME IInv, DeamonServes PROVE IInv'
<1> USE DEF IInv, DeamonServes, outsideDeamon, nothingClosed, Released
<1>1. ControlTypes' BY DEF Types, ControlTypes
<1>2. QueueTypes' BY DEF Types, QueueTypes
<1>3. NetTypes' BY DEF Types, NetTypes
<1>4. ClosedInv' BY DEF Types, ClosedInv
<1>5. ThreadsInv' BY DEF ThreadsInv
<1>6. OriginInv'
  <2>1. QueueOrigin' BY DEF OriginInv, QueueOrigin
  <2>2. ArrivedOrigin' BY DEF OriginInv, ArrivedOrigin
  <2>3. WireOrigin' BY DEF OriginInv, WireOrigin
  <2> QED BY <2>1, <2>2, <2>3 DEF OriginInv
<1>7. KnownInv' BY DEF KnownInv, InSession
<1>8. OpenOnesDisconnected' BY DEF OpenOnesDisconnected, InSession
<1> QED BY <1>1, <1>2, <1>3, <1>4, <1>5, <1>6, <1>7, <1>8 DEF Types

\* DeamonJoins keeps the invariant.
LEMMA DeamonJoinsInv ==
  ASSUME IInv, DeamonJoins PROVE IInv'
<1> USE DEF IInv, DeamonJoins, outsideDeamon, nothingClosed, Released
<1>1. ControlTypes' BY DEF Types, ControlTypes
<1>2. QueueTypes' BY DEF Types, QueueTypes
<1>3. NetTypes' BY DEF Types, NetTypes
<1>4. ClosedInv' BY DEF Types, ClosedInv
<1>5. ThreadsInv' BY DEF ThreadsInv
<1>6. OriginInv'
  <2>1. QueueOrigin' BY DEF OriginInv, QueueOrigin
  <2>2. ArrivedOrigin' BY DEF OriginInv, ArrivedOrigin
  <2>3. WireOrigin' BY DEF OriginInv, WireOrigin
  <2> QED BY <2>1, <2>2, <2>3 DEF OriginInv
<1>7. KnownInv' BY DEF KnownInv, InSession
<1>8. OpenOnesDisconnected' BY DEF OpenOnesDisconnected, InSession
<1> QED BY <1>1, <1>2, <1>3, <1>4, <1>5, <1>6, <1>7, <1>8 DEF Types

\* DeamonCloses keeps the invariant.
LEMMA DeamonClosesInv ==
  ASSUME IInv, DeamonCloses PROVE IInv'
<1> USE DEF IInv, DeamonCloses, outsideDeamon, Released
<1>1. ControlTypes'
  <2>1. server' \in BOOLEAN OBVIOUS
  <2>2. deamon' \in {"done", "sleep"} OBVIOUS
  <2> QED BY <2>1 DEF Types, ControlTypes
<1>2. QueueTypes'
  <2>1. queue' \in Seq(Entries) /\ events' \in Seq(Arrived) OBVIOUS
  <2> QED BY <2>1 DEF Types, QueueTypes
<1>3. NetTypes' BY DEF Types, NetTypes
<1>4. ClosedInv' BY DEF ThreadsInv, ClosedInv
<1>5. ThreadsInv' BY DEF ThreadsInv
<1>6. OriginInv'
  <2>1. QueueOrigin' BY DEF OriginInv, QueueOrigin
  <2>2. ArrivedOrigin' BY DEF ArrivedOrigin
  <2>3. WireOrigin' BY DEF OriginInv, WireOrigin
  <2> QED BY <2>1, <2>2, <2>3 DEF OriginInv
<1>7. KnownInv' BY DEF KnownInv, InSession
<1>8. OpenOnesDisconnected' BY DEF OpenOnesDisconnected, InSession
<1> QED BY <1>1, <1>2, <1>3, <1>4, <1>5, <1>6, <1>7, <1>8 DEF Types

\* CallListen keeps the invariant.
LEMMA CallListenInv ==
  ASSUME IInv, CallListen PROVE IInv'
<1> USE DEF IInv, CallListen, outsideUser
<1>1. ControlTypes' BY DEF Types, ControlTypes
<1>2. QueueTypes' BY DEF Types, QueueTypes
<1>3. NetTypes' BY DEF Types, NetTypes
<1>4. ClosedInv' BY DEF Types, ClosedInv
<1>5. ThreadsInv' BY DEF ThreadsInv
<1>6. OriginInv'
  <2>1. QueueOrigin' BY DEF OriginInv, QueueOrigin
  <2>2. ArrivedOrigin' BY DEF OriginInv, ArrivedOrigin
  <2>3. WireOrigin' BY DEF OriginInv, WireOrigin
  <2> QED BY <2>1, <2>2, <2>3 DEF OriginInv
<1>7. KnownInv' BY DEF KnownInv, InSession
<1>8. OpenOnesDisconnected' BY DEF OpenOnesDisconnected, InSession
<1> QED BY <1>1, <1>2, <1>3, <1>4, <1>5, <1>6, <1>7, <1>8 DEF Types

\* Listen keeps the invariant.
LEMMA ListenInv ==
  ASSUME IInv, Listen PROVE IInv'
<1> USE DEF IInv, Listen, outsideUser
<1>1. ControlTypes'
  <2>1. session' \in 0 .. MaxSessions BY DEF Types, ControlTypes, ThreadsInv
  <2>2. server' \in BOOLEAN /\ listening' \in BOOLEAN /\ rcvReturned' \in BOOLEAN
    BY DEF Types, ControlTypes
  <2>3. rcv' \in {"none", "check", "process", "handle", "returned", "threw"} /\ fwd' \in
       {"none", "head", "wait", "call", "clean", "returned", "threw"}
         BY DEF Types, ControlTypes
  <2> QED BY <2>1, <2>3 DEF Types, ControlTypes
<1>2. QueueTypes' BY DEF Types, QueueTypes
<1>3. NetTypes' BY DEF Types, NetTypes
<1>4. ClosedInv' BY DEF Types, ClosedInv
<1>5. ThreadsInv' BY DEF ThreadsInv, ClosedInv
<1>6. OriginInv'
  <2>1. QueueOrigin' BY DEF OriginInv, QueueOrigin, ClosedInv, ThreadsInv
  <2>2. ArrivedOrigin' BY DEF OriginInv, ArrivedOrigin, ClosedInv
  <2>3. WireOrigin' BY DEF OriginInv, WireOrigin, ClosedInv, Types, ControlTypes, NetTypes
  <2> QED BY <2>1, <2>2, <2>3 DEF OriginInv
<1>7. KnownInv' BY DEF Types, KnownInv, OriginInv, WireOrigin, InSession, ControlTypes
<1>8. OpenOnesDisconnected' BY DEF OpenOnesDisconnected, InSession
<1> QED BY <1>1, <1>2, <1>3, <1>4, <1>5, <1>6, <1>7, <1>8 DEF Types

\* CallStopListen keeps the invariant.
LEMMA CallStopListenInv ==
  ASSUME IInv, CallStopListen PROVE IInv'
<1> USE DEF IInv, CallStopListen, outsideUser
<1>1. ControlTypes'
  <2>1. /\ listening' \in BOOLEAN
        /\ user' \in {"idle", "listen", "stopping", "destroying", "gone"}
    OBVIOUS
  <2> QED BY <2>1 DEF Types, ControlTypes
<1>2. QueueTypes' BY DEF Types, QueueTypes
<1>3. NetTypes' BY DEF Types, NetTypes
<1>4. ClosedInv' BY DEF Types, ClosedInv
<1>5. ThreadsInv' BY DEF ThreadsInv
<1>6. OriginInv'
  <2>1. QueueOrigin' BY DEF OriginInv, QueueOrigin
  <2>2. ArrivedOrigin' BY DEF OriginInv, ArrivedOrigin
  <2>3. WireOrigin' BY DEF OriginInv, WireOrigin
  <2> QED BY <2>1, <2>2, <2>3 DEF OriginInv
<1>7. KnownInv' BY DEF KnownInv, InSession
<1>8. OpenOnesDisconnected' BY DEF OpenOnesDisconnected, InSession
<1> QED BY <1>1, <1>2, <1>3, <1>4, <1>5, <1>6, <1>7, <1>8 DEF Types

\* StopListenReturns keeps the invariant.
LEMMA StopListenReturnsInv ==
  ASSUME IInv, StopListenReturns PROVE IInv'
<1> USE DEF IInv, StopListenReturns, outsideUser
<1>1. ControlTypes' BY DEF Types, ControlTypes
<1>2. QueueTypes' BY DEF Types, QueueTypes
<1>3. NetTypes' BY DEF Types, NetTypes
<1>4. ClosedInv' BY DEF Types, ClosedInv
<1>5. ThreadsInv' BY DEF ThreadsInv
<1>6. OriginInv'
  <2>1. QueueOrigin' BY DEF OriginInv, QueueOrigin
  <2>2. ArrivedOrigin' BY DEF OriginInv, ArrivedOrigin
  <2>3. WireOrigin' BY DEF OriginInv, WireOrigin
  <2> QED BY <2>1, <2>2, <2>3 DEF OriginInv
<1>7. KnownInv' BY DEF KnownInv
<1>8. OpenOnesDisconnected' BY DEF OpenOnesDisconnected
<1> QED BY <1>1, <1>2, <1>3, <1>4, <1>5, <1>6, <1>7, <1>8 DEF Types

\* StopListenThrows keeps the invariant.
LEMMA StopListenThrowsInv ==
  ASSUME IInv, StopListenThrows PROVE IInv'
<1> USE DEF IInv, StopListenThrows, outsideUser
<1>1. ControlTypes' BY DEF Types, ControlTypes
<1>2. QueueTypes' BY DEF Types, QueueTypes
<1>3. NetTypes' BY DEF Types, NetTypes
<1>4. ClosedInv' BY DEF Types, ClosedInv
<1>5. ThreadsInv' BY DEF ThreadsInv
<1>6. OriginInv'
  <2>1. QueueOrigin' BY DEF OriginInv, QueueOrigin
  <2>2. ArrivedOrigin' BY DEF OriginInv, ArrivedOrigin
  <2>3. WireOrigin' BY DEF OriginInv, WireOrigin
  <2> QED BY <2>1, <2>2, <2>3 DEF OriginInv
<1>7. KnownInv' BY DEF KnownInv, InSession
<1>8. OpenOnesDisconnected' BY DEF OpenOnesDisconnected, InSession
<1> QED BY <1>1, <1>2, <1>3, <1>4, <1>5, <1>6, <1>7, <1>8 DEF Types

\* Destruct keeps the invariant.
LEMMA DestructInv ==
  ASSUME IInv, Destruct PROVE IInv'
<1> USE DEF IInv, Destruct, outsideUser
<1>1. ControlTypes' BY DEF Types, ControlTypes
<1>2. QueueTypes' BY DEF Types, QueueTypes
<1>3. NetTypes' BY DEF Types, NetTypes
<1>4. ClosedInv' BY DEF Types, ClosedInv
<1>5. ThreadsInv' BY DEF ThreadsInv
<1>6. OriginInv'
  <2>1. QueueOrigin' BY DEF OriginInv, QueueOrigin
  <2>2. ArrivedOrigin' BY DEF OriginInv, ArrivedOrigin
  <2>3. WireOrigin' BY DEF OriginInv, WireOrigin
  <2> QED BY <2>1, <2>2, <2>3 DEF OriginInv
<1>7. KnownInv' BY DEF KnownInv, InSession
<1>8. OpenOnesDisconnected' BY DEF OpenOnesDisconnected, InSession
<1> QED BY <1>1, <1>2, <1>3, <1>4, <1>5, <1>6, <1>7, <1>8 DEF Types

\* DestructReturns keeps the invariant.
LEMMA DestructReturnsInv ==
  ASSUME IInv, DestructReturns PROVE IInv'
<1> USE DEF IInv, DestructReturns, outsideUser
<1>1. ControlTypes' BY DEF Types, ControlTypes
<1>2. QueueTypes' BY DEF Types, QueueTypes
<1>3. NetTypes' BY DEF Types, NetTypes
<1>4. ClosedInv' BY DEF Types, ClosedInv
<1>5. ThreadsInv' BY DEF ThreadsInv
<1>6. OriginInv'
  <2>1. QueueOrigin' BY DEF OriginInv, QueueOrigin
  <2>2. ArrivedOrigin' BY DEF OriginInv, ArrivedOrigin
  <2>3. WireOrigin' BY DEF OriginInv, WireOrigin
  <2> QED BY <2>1, <2>2, <2>3 DEF OriginInv
<1>7. KnownInv' BY DEF KnownInv, InSession
<1>8. OpenOnesDisconnected' BY DEF OpenOnesDisconnected, InSession
<1> QED BY <1>1, <1>2, <1>3, <1>4, <1>5, <1>6, <1>7, <1>8 DEF Types

\* Only Listen begins a session.
LEMMA SessionStep == Next /\ session' # session => Listen /\ ~server
<1> USE DEF local, outsideFwd, outsideDeamon, outsideUser
<1>1. Peers => session' = session
  BY DEF Peers, PeerConnects, PeerIdentifies, PeerSends, PeerCloses
<1>2. Receiving => session' = session
  BY DEF Receiving, ReceivingChecks, ProcessReturns, Process, HandleConnect,
         HandleIdentification, HandleEvent, HandleDisconnect
<1>3. Forwarding => session' = session
  BY DEF Forwarding, ForwardingHead, ForwardingNotified, ForwardingTimesOut,
         ForwardingCalls, ForwardingCleans
<1>4. Deamon => session' = session
  BY DEF Deamon, DeamonWakes, DeamonServes, DeamonJoins, DeamonCloses
<1> QED
  BY <1>1, <1>2, <1>3, <1>4
  DEF Next, CallListen, Listen, CallStopListen, StopListenReturns, StopListenThrows,
      Destruct, DestructReturns

\* Only the forwarding thread makes callbacks.
LEMMA LogStep == Next /\ log' # log => ForwardingCalls \/ ForwardingCleans
<1> USE DEF local, outsideFwd, outsideDeamon, outsideUser
<1>1. Peers => log' = log
  BY DEF Peers, PeerConnects, PeerIdentifies, PeerSends, PeerCloses
<1>2. Receiving => log' = log
  BY DEF Receiving, ReceivingChecks, ProcessReturns, Process, HandleConnect,
         HandleIdentification, HandleEvent, HandleDisconnect
<1>3. Forwarding /\ log' # log => ForwardingCalls \/ ForwardingCleans
  BY DEF Forwarding, ForwardingHead, ForwardingNotified, ForwardingTimesOut
<1>4. Deamon => log' = log
  BY DEF Deamon, DeamonWakes, DeamonServes, DeamonJoins, DeamonCloses
<1> QED
  BY <1>1, <1>2, <1>3, <1>4
  DEF Next, CallListen, Listen, CallStopListen, StopListenReturns, StopListenThrows,
      Destruct, DestructReturns

\* A callback that ends a connection is not one that hands over an event.
LEMMA EndsAreNoEvents ==
  ASSUME Types, ForwardingCleans, NEW c \in Conns, log'[c] # log[c]
  PROVE  Last(log'[c]).k = "disconnect"
<1> DEFINE End == [k |-> "disconnect", n |-> 0]
           Log == Seq([k : Calls, n : 0 .. MaxEvents])
<1>1. PICK S \in SUBSET known : LogDisconnect(S) BY DEF ForwardingCleans
<1>2. log[c] \in Log /\ End \in [k : Calls, n : 0 .. MaxEvents]
  <2>1. log[c] \in Log BY DEF Types, QueueTypes
  <2>2. End \in [k : Calls, n : 0 .. MaxEvents] BY DEF Calls
  <2> QED BY <2>1, <2>2
<1>3. log'[c] = Append(log[c], End) BY <1>1 DEF LogDisconnect
<1>4. End.k = "disconnect" OBVIOUS
<1> HIDE DEF End
<1>5. Last(Append(log[c], End)) = End BY <1>2 DEF Last
<1> QED BY <1>3, <1>4, <1>5

\* Every step keeps the invariant.
LEMMA NextInv == IInv /\ [Next]_vars => IInv'
<1> SUFFICES ASSUME IInv, [Next]_vars PROVE IInv' OBVIOUS
<1>1. CASE Peers
  BY <1>1, PeerConnectsInv, PeerIdentifiesInv, PeerSendsInv, PeerClosesInv DEF Peers
<1>2. CASE Receiving
  BY <1>2, ReceivingChecksInv, ProcessReturnsInv, ProcessInv, HandleConnectInv,
     HandleIdentificationInv, HandleEventInv, HandleDisconnectInv DEF Receiving
<1>3. CASE Forwarding
  BY <1>3, ForwardingHeadInv, ForwardingNotifiedInv, ForwardingTimesOutInv,
     ForwardingCallsInv, ForwardingCleansInv DEF Forwarding
<1>4. CASE Deamon
  BY <1>4, DeamonWakesInv, DeamonServesInv, DeamonJoinsInv, DeamonClosesInv DEF Deamon
<1>5. CASE UNCHANGED vars
  <2>0. Types BY DEF IInv
  <2>1. Types'
    <3>1. ControlTypes' BY <1>5, <2>0 DEF Types, ControlTypes
    <3>2. QueueTypes' BY <1>5, <2>0 DEF Types, QueueTypes
    <3>3. NetTypes' BY <1>5, <2>0 DEF Types, NetTypes
    <3> QED BY <3>1, <3>2, <3>3 DEF Types
  <2>2. ClosedInv' /\ ThreadsInv' BY <1>5 DEF IInv, ClosedInv, ThreadsInv
  <2>3. OriginInv' BY <1>5 DEF IInv, OriginInv, QueueOrigin, ArrivedOrigin, WireOrigin
  <2>4. KnownInv' BY <1>5 DEF IInv, KnownInv, InSession
  <2>5. OpenOnesDisconnected' BY <1>5 DEF IInv, OpenOnesDisconnected, InSession
  <2> QED BY <2>1, <2>2, <2>3, <2>4, <2>5 DEF IInv
<1> QED
  BY <1>1, <1>2, <1>3, <1>4, <1>5, CallListenInv, ListenInv, CallStopListenInv,
     StopListenReturnsInv, StopListenThrowsInv, DestructInv, DestructReturnsInv DEF Next

\* The inductive invariant holds in every reachable state.
THEOREM Inductive == Spec => []IInv
BY InitInv, NextInv, PTL DEF Spec

\* The variables have their types, whatever the threads and the senders do.
THEOREM TypesCorrect == Spec => []Types
<1>1. IInv => Types BY DEF IInv
<1> QED BY <1>1, Inductive, PTL

\* When the forwarding thread ends by itself, every connection that was
\* identified and is still open has been told of its end (DataReceiver.cc:150).
THEOREM OpenOnesAreTold == Spec => []OpenOnesDisconnected
<1>1. IInv => OpenOnesDisconnected BY DEF IInv
<1> QED BY <1>1, Inductive, PTL

\* Listen serves from a clean state, and an event is forwarded only in the
\* session it was sent in.
THEOREM SessionsAreSeparate == Spec => SessionsSeparate
<1> DEFINE Clean == rcv = "none" /\ fwd = "none" /\ queue = <<>> /\ item = Nobody
           Fresh == session' # session => Clean
           Forwards(c) == log'[c] # log[c] /\ Last(log'[c]).k = "receive"
           InIt == \A c \in Conns : Forwards(c) => InSession(c)
<1>1. IInv /\ [Next]_vars => [Fresh]_vars
  <2> SUFFICES ASSUME IInv, Next, session' # session PROVE Clean OBVIOUS
  <2>1. ~server BY SessionStep
  <2>2. rcv = "none" /\ fwd = "none" /\ queue = <<>> BY <2>1 DEF IInv, ClosedInv
  <2>3. item = Nobody BY <2>2 DEF IInv, ThreadsInv
  <2> QED BY <2>2, <2>3
<1>2. IInv /\ [Next]_vars => [InIt]_vars
  <2> SUFFICES ASSUME IInv, Next, NEW c \in Conns, Forwards(c) PROVE InSession(c)
    OBVIOUS
  <2>1. ForwardingCalls BY LogStep, EndsAreNoEvents DEF IInv
  <2>2. c = item.con /\ item # Nobody
    <3>1. item \in Entries BY <2>1 DEF IInv, Types, QueueTypes, ForwardingCalls
    <3>2. item.con \in Conns BY <3>1 DEF Entries
    <3> QED BY <2>1 DEF ForwardingCalls
  <2>3. server BY <2>1 DEF ForwardingCalls, IInv, ClosedInv
  <2> QED BY <2>2, <2>3 DEF IInv, OriginInv, QueueOrigin, InSession
<1> QED BY <1>1, <1>2, Inductive, PTL DEF Spec, SessionsSeparate, ServesClean, EventsInSession
-----------------------------------------------------------------------------
(***************************************************************************)
(* Buffers that carry the events of a connection in order.                 *)
(***************************************************************************)
\* Positions after an element is appended.
LEMMA AppendIs ==
  ASSUME NEW T, NEW s \in Seq(T), NEW e \in T
  PROVE  \E r \in Seq(T) :
           /\ r = Append(s, e) /\ Len(s) \in Nat /\ DOMAIN r = 1 .. Len(s) + 1 /\ DOMAIN s = 1 .. Len(s)
           /\ r[Len(s) + 1] = e /\ \A i \in 1 .. Len(s) : r[i] = s[i]
<1>1. Append(s, e) \in Seq(T) /\ Len(s) \in Nat /\ DOMAIN s = 1 .. Len(s) OBVIOUS
<1>2. Len(Append(s, e)) = Len(s) + 1 OBVIOUS
<1>3. DOMAIN Append(s, e) = 1 .. Len(s) + 1 BY <1>1, <1>2
<1>4. Append(s, e)[Len(s) + 1] = e OBVIOUS
<1>5. \A i \in 1 .. Len(s) : Append(s, e)[i] = s[i] OBVIOUS
<1> QED BY <1>1, <1>3, <1>4, <1>5, Zenon

\* The same for taking the first.
LEMMA TailIs ==
  ASSUME NEW T, NEW s \in Seq(T), s # <<>>
  PROVE  /\ Tail(s) \in Seq(T) /\ Head(s) \in T /\ Head(s) = s[1]
         /\ Len(s) \in Nat \ {0} /\ DOMAIN Tail(s) = 1 .. Len(s) - 1 /\ DOMAIN s = 1 .. Len(s)
         /\ \A i \in 1 .. Len(s) - 1 : Tail(s)[i] = s[i + 1]
<1>1. Tail(s) \in Seq(T) /\ Head(s) \in T /\ Head(s) = s[1] OBVIOUS
<1>2. Len(s) \in Nat \ {0} /\ DOMAIN s = 1 .. Len(s) OBVIOUS
<1>3. Len(Tail(s)) = Len(s) - 1 OBVIOUS
<1>4. DOMAIN Tail(s) = 1 .. Len(s) - 1 BY <1>1, <1>3
<1>5. \A i \in 1 .. Len(s) - 1 : Tail(s)[i] = s[i + 1] OBVIOUS
<1> QED BY <1>1, <1>2, <1>4, <1>5

\* A length is a number.
LEMMA LenIsNat ==
  ASSUME NEW T, NEW s \in Seq(T)
  PROVE  Len(s) \in Nat
OBVIOUS

\* The empty sequence is a sequence of anything.
LEMMA EmptyIs == \A T : <<>> \in Seq(T)
OBVIOUS

\* A later event is appended.
LEMMA RisingNew ==
  ASSUME NEW T, NEW s \in Seq(T), NEW S, \A x \in S : x.n \in Nat, NEW hi \in Int,
         NEW e \in T, e \in S, e.n > hi, Rising(s, S, hi)
  PROVE  Rising(Append(s, e), S, e.n)
<1>1. PICK r \in Seq(T) :
        /\ r = Append(s, e) /\ Len(s) \in Nat /\ DOMAIN r = 1 .. Len(s) + 1 /\ DOMAIN s = 1 .. Len(s)
        /\ r[Len(s) + 1] = e /\ \A i \in 1 .. Len(s) : r[i] = s[i]
  BY AppendIs, Zenon
<1>2. ASSUME NEW i \in DOMAIN r, r[i] \in S
      PROVE  r[i].n <= e.n /\ \A j \in 1 .. i - 1 : r[j] \in S => r[j].n < r[i].n
  <2>1. CASE i = Len(s) + 1
    <3>1. ASSUME NEW j \in 1 .. i - 1, r[j] \in S PROVE r[j].n < r[i].n
      <4>1. j \in DOMAIN s /\ r[j] = s[j] BY <1>1, <2>1
      <4>2. s[j].n <= hi /\ s[j].n \in Nat BY <3>1, <4>1 DEF Rising
      <4> QED BY <1>1, <2>1, <4>1, <4>2
    <3> QED BY <1>1, <2>1, <3>1
  <2>2. CASE i # Len(s) + 1
    <3>1. i \in DOMAIN s /\ r[i] = s[i] /\ \A j \in 1 .. i - 1 : r[j] = s[j]
      BY <1>1, <2>2
    <3>2. s[i].n <= hi /\ s[i].n \in Nat BY <1>2, <3>1 DEF Rising
    <3>3. \A j \in 1 .. i - 1 : s[j] \in S => s[j].n < s[i].n BY <1>2, <3>1 DEF Rising
    <3> QED BY <3>1, <3>2, <3>3
  <2> QED BY <2>1, <2>2
<1> QED BY <1>1, <1>2 DEF Rising

\* Something else is appended.
LEMMA RisingSame ==
  ASSUME NEW T, NEW s \in Seq(T), NEW S, NEW hi, NEW e \in T, e \notin S, Rising(s, S, hi)
  PROVE  Rising(Append(s, e), S, hi)
<1>1. PICK r \in Seq(T) :
        /\ r = Append(s, e) /\ Len(s) \in Nat /\ DOMAIN r = 1 .. Len(s) + 1 /\ DOMAIN s = 1 .. Len(s)
        /\ r[Len(s) + 1] = e /\ \A i \in 1 .. Len(s) : r[i] = s[i]
  BY AppendIs, Zenon
<1>2. \A i \in DOMAIN r : r[i] \in S => i \in DOMAIN s /\ r[i] = s[i] BY <1>1
<1> QED BY <1>1, <1>2 DEF Rising

\* What is in order up to a number is so up to a later one.
LEMMA RisingUpTo ==
  ASSUME NEW s, NEW S, \A x \in S : x.n \in Nat, NEW lo \in Int, NEW hi \in Int, lo <= hi, Rising(s, S, lo)
  PROVE  Rising(s, S, hi)
BY DEF Rising

\* The next event is appended.
LEMMA CarriesNew ==
  ASSUME NEW T, NEW s \in Seq(T), NEW S, \A x \in S : x.n \in Nat, NEW lo \in Int, NEW hi \in Int,
         NEW e \in T, e \in S, e.n = hi + 1, Carries(s, S, lo, hi)
  PROVE  Carries(Append(s, e), S, lo, hi + 1)
<1>1. PICK r \in Seq(T) :
        /\ r = Append(s, e) /\ Len(s) \in Nat /\ DOMAIN r = 1 .. Len(s) + 1 /\ DOMAIN s = 1 .. Len(s)
        /\ r[Len(s) + 1] = e /\ \A i \in 1 .. Len(s) : r[i] = s[i]
  BY AppendIs, Zenon
<1>2. /\ Rising(s, S, hi) /\ lo <= hi
      /\ \A i \in DOMAIN s : s[i] \in S => lo < s[i].n
      /\ \A n \in lo + 1 .. hi : \E i \in DOMAIN s : s[i] \in S /\ s[i].n = n
  BY DEF Carries
<1>3. Rising(r, S, hi + 1)
  <2>1. e.n > hi OBVIOUS
  <2>2. Rising(r, S, e.n) BY <1>1, <1>2, <2>1, RisingNew
  <2> QED BY <2>2
<1>4. \A i \in DOMAIN r : r[i] \in S => lo < r[i].n
  <2>1. \A i \in DOMAIN r : i = Len(s) + 1 \/ (i \in DOMAIN s /\ r[i] = s[i]) BY <1>1
  <2> QED BY <1>1, <1>2, <2>1
<1>5. ASSUME NEW n \in lo + 1 .. hi + 1 PROVE \E i \in DOMAIN r : r[i] \in S /\ r[i].n = n
  <2>1. CASE n = hi + 1
    <3>1. Len(s) + 1 \in DOMAIN r BY <1>1
    <3> QED BY <1>1, <2>1, <3>1
  <2>2. CASE n # hi + 1
    <3>1. n \in lo + 1 .. hi BY <2>2
    <3>2. PICK i \in DOMAIN s : s[i] \in S /\ s[i].n = n BY <1>2, <3>1
    <3>3. i \in DOMAIN r /\ r[i] = s[i] BY <1>1
    <3> QED BY <3>2, <3>3
  <2> QED BY <2>1, <2>2
<1>6. lo <= hi + 1 BY <1>2
<1> QED BY <1>1, <1>3, <1>4, <1>5, <1>6 DEF Carries

\* A mark, or an event of another connection, is appended.
LEMMA CarriesSame ==
  ASSUME NEW T, NEW s \in Seq(T), NEW S, NEW lo, NEW hi, NEW e \in T, e \notin S, Carries(s, S, lo, hi)
  PROVE  Carries(Append(s, e), S, lo, hi)
<1>1. PICK r \in Seq(T) :
        /\ r = Append(s, e) /\ Len(s) \in Nat /\ DOMAIN r = 1 .. Len(s) + 1 /\ DOMAIN s = 1 .. Len(s)
        /\ r[Len(s) + 1] = e /\ \A i \in 1 .. Len(s) : r[i] = s[i]
  BY AppendIs, Zenon
<1>2. \A i \in DOMAIN r : r[i] \in S => i \in DOMAIN s /\ r[i] = s[i] BY <1>1
<1>3. \A i \in DOMAIN s : i \in DOMAIN r /\ r[i] = s[i] BY <1>1
<1>4. Rising(r, S, hi) BY <1>1, RisingSame DEF Carries
<1> QED BY <1>1, <1>2, <1>3, <1>4 DEF Carries

\* Taking the first leaves the order of the others.
LEMMA RisingTail ==
  ASSUME NEW T, NEW s \in Seq(T), s # <<>>, NEW S, NEW hi, Rising(s, S, hi)
  PROVE  Rising(Tail(s), S, hi)
<1>1. PICK r \in Seq(T) :
        /\ r = Tail(s) /\ Len(s) \in Nat \ {0} /\ DOMAIN r = 1 .. Len(s) - 1 /\ DOMAIN s = 1 .. Len(s)
        /\ \A i \in 1 .. Len(s) - 1 : r[i] = s[i + 1]
  BY TailIs
<1>2. \A i \in DOMAIN r : i \in Nat /\ i + 1 \in DOMAIN s /\ r[i] = s[i + 1] BY <1>1
<1>3. ASSUME NEW i \in DOMAIN r, r[i] \in S
      PROVE  r[i].n <= hi /\ \A j \in 1 .. i - 1 : r[j] \in S => r[j].n < r[i].n
  <2>1. s[i + 1] \in S /\ i + 1 \in DOMAIN s /\ r[i] = s[i + 1] BY <1>2, <1>3
  <2>2. s[i + 1].n <= hi BY <2>1 DEF Rising
  <2>3. ASSUME NEW j \in 1 .. i - 1, r[j] \in S PROVE r[j].n < r[i].n
    <3>0. j \in DOMAIN r BY <1>1
    <3>1. j + 1 \in 1 .. (i + 1) - 1 /\ r[j] = s[j + 1] BY <1>2, <3>0
    <3> QED BY <2>1, <2>3, <3>1 DEF Rising
  <2> QED BY <2>1, <2>2, <2>3
<1> QED BY <1>1, <1>3 DEF Rising

\* The first event is the next one.
LEMMA CarriesFirst ==
  ASSUME NEW T, NEW s \in Seq(T), s # <<>>, NEW S, \A x \in S : x.n \in Nat,
         NEW lo \in Int, NEW hi \in Int, Head(s) \in S, Carries(s, S, lo, hi)
  PROVE  Head(s).n = lo + 1 /\ lo < hi /\ Carries(Tail(s), S, lo + 1, hi)
<1>1. PICK r \in Seq(T) :
        /\ r = Tail(s) /\ Len(s) \in Nat \ {0} /\ DOMAIN r = 1 .. Len(s) - 1 /\ DOMAIN s = 1 .. Len(s)
        /\ \A i \in 1 .. Len(s) - 1 : r[i] = s[i + 1]
  BY TailIs
<1>2. /\ Rising(s, S, hi) /\ lo <= hi
      /\ \A i \in DOMAIN s : s[i] \in S => lo < s[i].n
      /\ \A n \in lo + 1 .. hi : \E i \in DOMAIN s : s[i] \in S /\ s[i].n = n
  BY DEF Carries
<1>3. Head(s) = s[1] /\ 1 \in DOMAIN s /\ s[1] \in S BY <1>1, TailIs
<1>4. lo < s[1].n /\ s[1].n <= hi /\ s[1].n \in Nat BY <1>2, <1>3 DEF Rising
<1>5. s[1].n = lo + 1
  <2>1. lo + 1 \in lo + 1 .. hi BY <1>4
  <2>2. PICK i \in DOMAIN s : s[i] \in S /\ s[i].n = lo + 1 BY <1>2, <2>1
  <2>3. i = 1 \/ 1 < i BY <1>1
  <2>4. 1 < i => s[1].n < s[i].n BY <1>2, <1>3, <2>2 DEF Rising
  <2> QED BY <1>4, <2>2, <2>3, <2>4
<1>6. \A i \in DOMAIN r : i \in Nat /\ 1 < i + 1 /\ i + 1 \in DOMAIN s /\ r[i] = s[i + 1] BY <1>1
<1>7. ASSUME NEW i \in DOMAIN r, r[i] \in S PROVE lo + 1 < r[i].n
  <2>1. i + 1 \in DOMAIN s /\ s[i + 1] \in S /\ 1 \in 1 .. (i + 1) - 1 BY <1>6, <1>7
  <2>2. s[1].n < s[i + 1].n BY <1>2, <1>3, <2>1 DEF Rising
  <2> QED BY <1>5, <1>6, <2>2
<1>8. ASSUME NEW n \in lo + 1 + 1 .. hi PROVE \E i \in DOMAIN r : r[i] \in S /\ r[i].n = n
  <2>1. n \in lo + 1 .. hi /\ n # lo + 1 OBVIOUS
  <2>2. PICK i \in DOMAIN s : s[i] \in S /\ s[i].n = n BY <1>2, <2>1
  <2>3. i # 1 BY <1>5, <2>1, <2>2
  <2>4. i - 1 \in DOMAIN r /\ r[i - 1] = s[i] BY <1>1, <2>3
  <2> QED BY <2>2, <2>4
<1>9. Rising(r, S, hi) BY <1>1, <1>2, RisingTail
<1>10. lo + 1 <= hi /\ lo < hi BY <1>4
<1> QED BY <1>1, <1>3, <1>5, <1>7, <1>8, <1>9, <1>10 DEF Carries

\* The first is a mark, or an event of another connection.
LEMMA CarriesNext ==
  ASSUME NEW T, NEW s \in Seq(T), s # <<>>, NEW S, NEW lo, NEW hi, Head(s) \notin S, Carries(s, S, lo, hi)
  PROVE  Carries(Tail(s), S, lo, hi)
<1>1. PICK r \in Seq(T) :
        /\ r = Tail(s) /\ Len(s) \in Nat \ {0} /\ DOMAIN r = 1 .. Len(s) - 1 /\ DOMAIN s = 1 .. Len(s)
        /\ \A i \in 1 .. Len(s) - 1 : r[i] = s[i + 1]
  BY TailIs
<1>2. s[1] \notin S BY TailIs
<1>3. \A i \in DOMAIN r : i + 1 \in DOMAIN s /\ r[i] = s[i + 1] BY <1>1
<1>4. \A i \in DOMAIN s : s[i] \in S => i - 1 \in DOMAIN r /\ r[i - 1] = s[i] BY <1>1, <1>2
<1>5. Rising(r, S, hi) BY <1>1, RisingTail DEF Carries
<1> QED BY <1>1, <1>3, <1>4, <1>5 DEF Carries

\* An empty buffer carries nothing.
LEMMA CarriesNothing ==
  ASSUME NEW S, NEW lo \in Int
  PROVE  Carries(<<>>, S, lo, lo)
BY DEF Carries, Rising
-----------------------------------------------------------------------------
(***************************************************************************)
(* What a step does to the events of a connection that stays in its        *)
(* session: those on their way move on, and the first of them may be taken *)
(* or, when the queue is full, dropped.                                    *)
(***************************************************************************)
\* The events of c on their way, up to q in the queue and up to a in the list.
Lies(c, t, q, a) ==
  Carries(queue, Queued[c], t, q) /\ Carries(events, Batched[c], q, a)
    /\ Carries(wire[c], Sent, a, sent[c])

Later(c, u, v, w) ==
  Carries(queue', Queued[c], u, v) /\ Carries(events', Batched[c], v, w)
    /\ Carries(wire'[c], Sent, w, sent'[c])

Ends == [k : Calls \ {"receive"}, n : {0}]

\* The forwarding thread and the callbacks have nothing to do with an event of c.
Quiet(c) ==
  /\ item' = item \/ (item \notin Queued[c] /\ item' \notin Queued[c])
  /\ log'[c] = log[c] \/ \E e \in Ends : log'[c] = Append(log[c], e)

\* It takes the event u; it hands over the event it holds.
Takes(c, u) ==
  item \notin Queued[c] /\ item' \in Queued[c] /\ item'.n = u /\ log'[c] = log[c]
HandsOver(c) ==
  /\ item \in Queued[c] /\ item' \notin Queued[c]
  /\ log'[c] = Append(log[c], [k |-> "receive", n |-> item.n])

Fate(c, t, u) ==
  \/ u = t /\ (Quiet(c) \/ HandsOver(c))
  \/ u = t + 1 /\ (Takes(c, u) \/ (Quiet(c) /\ Len(queue) >= MaxQueue))

Progress(c, t) == \E u, v, w \in Int : Later(c, u, v, w) /\ Fate(c, t, u)

\* The buffers have their types, and what counts as an event has a number.
LEMMA Buffers ==
  ASSUME Types, NEW c \in Conns
  PROVE  /\ queue \in Seq(Entries) /\ events \in Seq(Arrived) /\ wire[c] \in Seq(Packets)
         /\ log[c] \in Seq([k : Calls, n : 0 .. MaxEvents])
         /\ sent[c] \in 0 .. MaxEvents
         /\ \A x \in Queued[c] : x.n \in Nat
         /\ \A x \in Batched[c] : x.n \in Nat
         /\ \A x \in Sent : x.n \in Nat
         /\ \A x \in Received : x.n \in Nat
<1>1. /\ queue \in Seq(Entries) /\ events \in Seq(Arrived) /\ wire[c] \in Seq(Packets)
      /\ log[c] \in Seq([k : Calls, n : 0 .. MaxEvents])
      /\ sent[c] \in 0 .. MaxEvents
  BY DEF Types, QueueTypes, NetTypes
<1>2. \A x \in Queued[c] : x.n \in Nat BY DEF Queued
<1>3. \A x \in Batched[c] : x.n \in Nat BY DEF Batched
<1>4. \A x \in Sent : x.n \in Nat BY DEF Sent
<1>5. \A x \in Received : x.n \in Nat BY DEF Received
<1> QED BY <1>1, <1>2, <1>3, <1>4, <1>5

\* Nothing is done with an event.
LEMMA StaysPut ==
  ASSUME NEW c \in Conns, NEW t \in Int, NEW q \in Int, NEW a \in Int, Lies(c, t, q, a),
         queue' = queue, events' = events, wire'[c] = wire[c], sent'[c] = sent[c], Quiet(c)
  PROVE  Progress(c, t)
BY DEF Lies, Later, Fate, Progress

\* A mark is sent.
LEMMA MarkSent ==
  ASSUME Types, NEW c \in Conns, NEW t \in Int, NEW q \in Int, NEW a \in Int, Lies(c, t, q, a),
         NEW d \in Conns, NEW k \in Marks, ToWire(d, k, 0),
         UNCHANGED <<queue, events, sent, item, log>>
  PROVE  Progress(c, t)
<1>0. Quiet(c) BY DEF Quiet
<1>1. CASE d # c
  <2>1. wire'[c] = wire[c] BY <1>1 DEF ToWire, Types, NetTypes
  <2> QED BY <1>0, <2>1, StaysPut
<1>2. CASE d = c
  <2>1. PICK e \in Packets : e = [k |-> k, n |-> 0] /\ e \notin Sent
    <3>1. [k |-> k, n |-> 0] \in Packets BY DEF Packets
    <3>2. [k |-> k, n |-> 0] \notin Sent BY DEF Marks, Sent
    <3> QED BY <3>1, <3>2, Zenon
  <2>2. wire'[c] = Append(wire[c], e) BY <1>2, <2>1 DEF ToWire, Types, NetTypes
  <2>3. Carries(wire[c], Sent, a, sent[c]) BY DEF Lies
  <2>4. wire[c] \in Seq(Packets) BY Buffers
  <2>5. Carries(Append(wire[c], e), Sent, a, sent[c]) BY <2>1, <2>3, <2>4, CarriesSame
  <2>6. Later(c, t, q, a) BY <2>2, <2>5 DEF Later, Lies
  <2> QED BY <1>0, <2>6 DEF Progress, Fate
<1> QED BY <1>1, <1>2

\* An event is sent.
LEMMA EventSent ==
  ASSUME Types, NEW c \in Conns, NEW t \in Int, NEW q \in Int, NEW a \in Int, Lies(c, t, q, a),
         NEW d \in Conns, PeerSends(d)
  PROVE  Progress(c, t)
<1>0. Quiet(c) /\ queue' = queue /\ events' = events BY DEF PeerSends, local, Quiet
<1>1. CASE d # c
  <2>1. wire'[c] = wire[c] /\ sent'[c] = sent[c]
    BY <1>1 DEF PeerSends, ToWire, Types, NetTypes
  <2> QED BY <1>0, <2>1, StaysPut
<1>2. CASE d = c
  <2>1. sent[c] \in Nat /\ sent'[c] = sent[c] + 1 /\ sent'[c] \in 1 .. MaxEvents
    BY <1>2 DEF PeerSends, Types, NetTypes
  <2>2. PICK e \in Packets : e = [k |-> "event", n |-> sent'[c]] /\ e \in Sent /\ e.n = sent[c] + 1
    <3>1. [k |-> "event", n |-> sent'[c]] \in Packets BY <2>1 DEF Packets
    <3>2. [k |-> "event", n |-> sent'[c]] \in Sent BY <2>1 DEF Sent
    <3> QED BY <2>1, <3>1, <3>2
  <2>3. wire'[c] = Append(wire[c], e) BY <1>2, <2>2 DEF PeerSends, ToWire, Types, NetTypes
  <2>4. wire[c] \in Seq(Packets) /\ Carries(wire[c], Sent, a, sent[c]) /\ \A x \in Sent : x.n \in Nat
    BY Buffers DEF Lies
  <2>5. Carries(Append(wire[c], e), Sent, a, sent[c] + 1) BY <2>1, <2>2, <2>4, CarriesNew
  <2>6. Later(c, t, q, a) BY <1>0, <2>1, <2>3, <2>5 DEF Later, Lies
  <2> QED BY <1>0, <2>6 DEF Progress, Fate
<1> QED BY <1>1, <1>2

\* A packet is read from a socket.
LEMMA PacketRead ==
  ASSUME Types, NEW c \in Conns, NEW t \in Int, NEW q \in Int, NEW a \in Int, Lies(c, t, q, a),
         NEW d \in Conns, Process(d)
  PROVE  Progress(c, t)
<1>0. Quiet(c) /\ queue' = queue /\ sent'[c] = sent[c] BY DEF Process, Quiet
<1>1. PICK h : h = Head(wire[d]) OBVIOUS
<1>2. h \in Packets /\ wire[d] \in Seq(Packets) /\ wire[d] # <<>>
  BY <1>1, Buffers, TailIs DEF Process
<1>3. PICK e \in Arrived : e = [con |-> d, k |-> h.k, n |-> h.n] BY <1>2 DEF Packets, Arrived
<1>4. events' = Append(events, e) /\ events \in Seq(Arrived) BY <1>1, <1>3, Buffers DEF Process
<1>5. /\ Carries(events, Batched[c], q, a) /\ Carries(wire[c], Sent, a, sent[c])
      /\ Carries(queue, Queued[c], t, q)
      /\ sent[c] \in Int /\ \A x \in Sent \cup Batched[c] : x.n \in Nat
  BY Buffers DEF Lies
<1>6. CASE d # c
  <2>1. e \notin Batched[c] BY <1>3, <1>6 DEF Batched
  <2>2. Carries(events', Batched[c], q, a) BY <1>4, <1>5, <2>1, CarriesSame
  <2>3. wire'[c] = wire[c] BY <1>6 DEF Process, Types, NetTypes
  <2>4. Later(c, t, q, a) BY <1>0, <1>5, <2>2, <2>3 DEF Later
  <2> QED BY <1>0, <2>4 DEF Progress, Fate
<1>7. CASE d = c /\ h \in Sent
  <2>1. wire'[c] = Tail(wire[c]) BY <1>7 DEF Process, Types, NetTypes
  <2>2. h.n = a + 1 /\ Carries(Tail(wire[c]), Sent, a + 1, sent[c])
    BY <1>1, <1>2, <1>5, <1>7, CarriesFirst
  <2>3. e \in Batched[c] /\ e.n = a + 1 BY <1>3, <1>7, <2>2 DEF Batched, Sent
  <2>4. Carries(events', Batched[c], q, a + 1) BY <1>4, <1>5, <2>3, CarriesNew
  <2>5. Later(c, t, q, a + 1) BY <1>0, <1>5, <2>1, <2>2, <2>4 DEF Later
  <2> QED BY <1>0, <2>5 DEF Progress, Fate
<1>8. CASE d = c /\ h \notin Sent
  <2>1. wire'[c] = Tail(wire[c]) BY <1>8 DEF Process, Types, NetTypes
  <2>2. Carries(Tail(wire[c]), Sent, a, sent[c]) BY <1>1, <1>2, <1>5, <1>8, CarriesNext
  <2>3. e \notin Batched[c]
    <3>1. h.k \in Marks \cup {"event"} /\ h.n \in 0 .. MaxEvents /\ h = [k |-> h.k, n |-> h.n]
      BY <1>2 DEF Packets
    <3>2. ~(h.k = "event" /\ h.n \in 1 .. MaxEvents) BY <1>8, <3>1 DEF Sent
    <3> QED BY <1>3, <3>2 DEF Batched
  <2>4. Carries(events', Batched[c], q, a) BY <1>4, <1>5, <2>3, CarriesSame
  <2>5. Later(c, t, q, a) BY <1>0, <1>5, <2>1, <2>2, <2>4 DEF Later
  <2> QED BY <1>0, <2>5 DEF Progress, Fate
<1> QED BY <1>6, <1>7, <1>8

\* A mark is handled, and may be put into the queue.
LEMMA MarkHandled ==
  ASSUME Types, NEW c \in Conns, NEW t \in Int, NEW q \in Int, NEW a \in Int, Lies(c, t, q, a),
         events # <<>>, events' = Tail(events), Head(events).k # "event",
         NEW d \in Conns, UNCHANGED queue \/ Push(d, 0),
         wire'[c] = wire[c], sent'[c] = sent[c], UNCHANGED <<item, log>>
  PROVE  Progress(c, t)
<1>0. Quiet(c) BY DEF Quiet
<1>1. /\ Carries(events, Batched[c], q, a) /\ Carries(wire[c], Sent, a, sent[c])
      /\ Carries(queue, Queued[c], t, q)
      /\ events \in Seq(Arrived) /\ queue \in Seq(Entries)
  BY Buffers DEF Lies
<1>2. Head(events) \notin Batched[c] BY DEF Batched
<1>3. Carries(events', Batched[c], q, a) BY <1>1, <1>2, CarriesNext
<1>4. Carries(queue', Queued[c], t, q)
  <2>1. CASE UNCHANGED queue BY <1>1, <2>1
  <2>2. CASE Push(d, 0)
    <3>1. PICK e \in Entries : e = [con |-> d, n |-> 0] /\ e \notin Queued[c]
      <4>1. [con |-> d, n |-> 0] \in Entries BY DEF Entries
      <4>2. [con |-> d, n |-> 0] \notin Queued[c] BY DEF Queued
      <4> QED BY <4>1, <4>2, Zenon
    <3>2. queue' = Append(queue, e) BY <2>2, <3>1 DEF Push
    <3> QED BY <1>1, <3>1, <3>2, CarriesSame
  <2> QED BY <2>1, <2>2
<1>5. Later(c, t, q, a) BY <1>1, <1>3, <1>4 DEF Later
<1> QED BY <1>0, <1>5 DEF Progress, Fate

\* An event is put into the queue; the first entry of a full queue is dropped.
LEMMA EventHandled ==
  ASSUME Types, NEW c \in Conns, NEW t \in Int, NEW q \in Int, NEW a \in Int, Lies(c, t, q, a),
         NEW d \in Conns, HandleEvent(d), events # <<>>
  PROVE  Progress(c, t)
<1>0. Quiet(c) /\ wire'[c] = wire[c] /\ sent'[c] = sent[c] BY DEF HandleEvent, Quiet
<1>1. /\ Carries(events, Batched[c], q, a) /\ Carries(wire[c], Sent, a, sent[c])
      /\ Carries(queue, Queued[c], t, q)
      /\ events \in Seq(Arrived) /\ queue \in Seq(Entries)
      /\ (\A x \in Batched[c] : x.n \in Nat) /\ (\A x \in Queued[c] : x.n \in Nat)
  BY Buffers DEF Lies
<1>2. PICK h \in Arrived : h = Head(events) /\ h.con = d /\ h.k = "event"
  BY <1>1, TailIs DEF HandleEvent, Handling
<1>3. PICK e \in Entries : e = [con |-> d, n |-> h.n]
  <2>1. h.n \in 0 .. MaxEvents BY <1>2 DEF Arrived
  <2>2. [con |-> d, n |-> h.n] \in Entries BY <2>1 DEF Entries
  <2> QED BY <2>2
<1>4. e \in Queued[c] <=> h \in Batched[c]
  <2>1. h = [con |-> d, k |-> "event", n |-> h.n] BY <1>2 DEF Arrived
  <2>2. h \in Batched[c] <=> d = c /\ h.n \in 1 .. MaxEvents BY <2>1 DEF Batched
  <2>3. e \in Queued[c] <=> d = c /\ h.n \in 1 .. MaxEvents BY <1>3 DEF Queued
  <2> QED BY <2>2, <2>3
<1>5. PICK r \in Seq(Entries) : r = Append(queue, e) /\ r # <<>> /\ Len(r) = Len(queue) + 1
  <2>1. PICK r \in Seq(Entries) : r = Append(queue, e) BY <1>1, AppendIs
  <2>2. r # <<>> /\ Len(r) = Len(queue) + 1 BY <1>1, <2>1
  <2> QED BY <2>1, <2>2
<1>6. PICK v \in Int : Carries(r, Queued[c], t, v) /\ Carries(events', Batched[c], v, a)
  <2>1. events' = Tail(events) BY DEF HandleEvent, Handling
  <2>2. CASE h \in Batched[c]
    <3>1. h.n = q + 1 /\ Carries(events', Batched[c], q + 1, a)
      BY <1>1, <1>2, <2>1, <2>2, CarriesFirst
    <3>2. e \in Queued[c] /\ e.n = q + 1 BY <1>3, <1>4, <2>2, <3>1
    <3>3. Carries(r, Queued[c], t, q + 1) BY <1>1, <1>5, <3>2, CarriesNew
    <3> QED BY <3>1, <3>3
  <2>3. CASE h \notin Batched[c]
    <3>1. Carries(events', Batched[c], q, a) BY <1>1, <1>2, <2>1, <2>3, CarriesNext
    <3>2. Carries(r, Queued[c], t, q) BY <1>1, <1>4, <1>5, <2>3, CarriesSame
    <3> QED BY <3>1, <3>2
  <2> QED BY <2>2, <2>3
<1>7. queue' = IF Len(r) > MaxQueue THEN Tail(r) ELSE r BY <1>2, <1>3, <1>5 DEF HandleEvent
<1>8. CASE ~(Len(r) > MaxQueue)
  <2>1. Later(c, t, v, a) BY <1>0, <1>1, <1>6, <1>7, <1>8 DEF Later
  <2> QED BY <1>0, <2>1 DEF Progress, Fate
<1>9. CASE Len(r) > MaxQueue /\ Head(r) \in Queued[c]
  <2>1. Carries(queue', Queued[c], t + 1, v) BY <1>1, <1>5, <1>6, <1>7, <1>9, CarriesFirst
  <2>2. Later(c, t + 1, v, a) BY <1>0, <1>1, <1>6, <2>1 DEF Later
  <2>3. Len(queue) >= MaxQueue
    <3>1. Len(queue) \in Nat BY <1>1, LenIsNat
    <3> QED BY <1>5, <1>9, <3>1
  <2>4. Fate(c, t, t + 1) BY <1>0, <2>3 DEF Fate
  <2>5. t + 1 \in Int OBVIOUS
  <2> QED BY <2>2, <2>4, <2>5, Zenon DEF Progress
<1>10. CASE Len(r) > MaxQueue /\ Head(r) \notin Queued[c]
  <2>1. Carries(queue', Queued[c], t, v) BY <1>5, <1>6, <1>7, <1>10, CarriesNext
  <2>2. Later(c, t, v, a) BY <1>0, <1>1, <1>6, <2>1 DEF Later
  <2> QED BY <1>0, <2>2 DEF Progress, Fate
<1> QED BY <1>8, <1>9, <1>10

\* The forwarding thread takes the first entry of the queue.
LEMMA EntryTaken ==
  ASSUME Types, NEW c \in Conns, NEW t \in Int, NEW q \in Int, NEW a \in Int, Lies(c, t, q, a),
         queue # <<>>, item = Nobody, Take,
         events' = events, wire' = wire, sent' = sent, log' = log
  PROVE  Progress(c, t)
<1>1. /\ Carries(queue, Queued[c], t, q) /\ queue \in Seq(Entries)
      /\ \A x \in Queued[c] : x.n \in Nat
  BY Buffers DEF Lies
<1>2. item \notin Queued[c] BY DEF Queued
<1>3. item' = Head(queue) /\ queue' = Tail(queue) BY DEF Take
<1>4. CASE Head(queue) \in Queued[c]
  <2>1. Head(queue).n = t + 1 /\ Carries(queue', Queued[c], t + 1, q) BY <1>1, <1>3, <1>4, CarriesFirst
  <2>2. Later(c, t + 1, q, a) BY <2>1 DEF Later, Lies
  <2>3. Takes(c, t + 1) BY <1>2, <1>3, <1>4, <2>1 DEF Takes
  <2> QED BY <2>2, <2>3 DEF Progress, Fate
<1>5. CASE Head(queue) \notin Queued[c]
  <2>1. Carries(queue', Queued[c], t, q) BY <1>1, <1>3, <1>5, CarriesNext
  <2>2. Later(c, t, q, a) BY <2>1 DEF Later, Lies
  <2>3. Quiet(c) BY <1>2, <1>3, <1>5 DEF Quiet
  <2> QED BY <2>2, <2>3 DEF Progress, Fate
<1> QED BY <1>4, <1>5

\* It makes the callback for the entry it holds.
LEMMA CallbackMade ==
  ASSUME Types, NEW c \in Conns, NEW t \in Int, NEW q \in Int, NEW a \in Int, Lies(c, t, q, a),
         item # Nobody, ForwardingCalls
  PROVE  Progress(c, t)
<1>1. item \in Entries /\ item.con \in Conns /\ item.n \in 0 .. MaxEvents
      /\ item = [con |-> item.con, n |-> item.n]
  BY DEF Types, QueueTypes, Entries
<1>2. item' = Nobody /\ item' \notin Queued[c] BY DEF ForwardingCalls, Queued
<1>3. UNCHANGED <<queue, events, wire, sent>> BY DEF ForwardingCalls, outsideFwd
<1>4. log' = [log EXCEPT ![item.con] = Append(@, Callback(item))] BY DEF ForwardingCalls
<1>5. Later(c, t, q, a) BY <1>3 DEF Later, Lies
<1>6. CASE item.con # c
  <2>1. log'[c] = log[c] BY <1>1, <1>4, <1>6 DEF Types, QueueTypes
  <2>2. item \notin Queued[c] BY <1>6 DEF Queued
  <2> QED BY <1>2, <1>5, <2>1, <2>2 DEF Progress, Fate, Quiet
<1>7. CASE item.con = c /\ item.n = 0
  <2>1. log'[c] = Append(log[c], Callback(item)) BY <1>1, <1>4, <1>7 DEF Types, QueueTypes
  <2>2. Callback(item) \in Ends BY <1>7 DEF Callback, Ends, Calls
  <2>3. item \notin Queued[c] BY <1>7 DEF Queued
  <2> QED BY <1>2, <1>5, <2>1, <2>2, <2>3 DEF Progress, Fate, Quiet
<1>8. CASE item.con = c /\ item.n > 0
  <2>1. log'[c] = Append(log[c], Callback(item)) BY <1>1, <1>4, <1>8 DEF Types, QueueTypes
  <2>2. Callback(item) = [k |-> "receive", n |-> item.n] BY <1>8 DEF Callback
  <2>3. item \in Queued[c] BY <1>1, <1>8 DEF Queued
  <2> QED BY <1>2, <1>5, <2>1, <2>2, <2>3 DEF Progress, Fate, HandsOver
<1> QED BY <1>1, <1>6, <1>7, <1>8

\* It tells the connections that are left of their end.
LEMMA EndsTold ==
  ASSUME Types, NEW c \in Conns, NEW t \in Int, NEW q \in Int, NEW a \in Int, Lies(c, t, q, a),
         ForwardingCleans
  PROVE  Progress(c, t)
<1>1. UNCHANGED <<queue, item, events, wire, sent>> BY DEF ForwardingCleans, outsideFwd
<1>2. PICK S \in SUBSET known : LogDisconnect(S) BY DEF ForwardingCleans
<1>3. PICK e \in Ends : e = [k |-> "disconnect", n |-> 0] BY DEF Ends, Calls
<1>4. log'[c] = log[c] \/ log'[c] = Append(log[c], e) BY <1>2, <1>3 DEF LogDisconnect
<1>5. Quiet(c) BY <1>1, <1>4 DEF Quiet
<1>6. wire'[c] = wire[c] /\ sent'[c] = sent[c] BY <1>1
<1> QED BY <1>1, <1>5, <1>6, StaysPut
-----------------------------------------------------------------------------
(***************************************************************************)
(* A connection that has not been made.                                    *)
(***************************************************************************)
\* Nothing of a connection that has not been made is in the buffers.
LEMMA Absent ==
  ASSUME IInv, AwayInv, NEW c \in Conns, peer[c] = "away"
  PROVE  /\ sent[c] = 0 /\ wire[c] = <<>> /\ log[c] = <<>> /\ c \notin known /\ item.con # c
         /\ \A i \in DOMAIN queue : queue[i].con # c
         /\ \A i \in DOMAIN events : events[i].con # c
<1>1. DOMAIN queue = 1 .. Len(queue) /\ DOMAIN events = 1 .. Len(events)
  BY DEF IInv, Types, QueueTypes
<1>2. \A i \in 1 .. Len(events) : events[i].con # c BY DEF IInv, OriginInv, ArrivedOrigin
<1> QED BY <1>1, <1>2 DEF AwayInv

\* A connection that is not made by a step was not made before.
LEMMA StaysAway ==
  ASSUME IInv, [Next]_vars, NEW c \in Conns, peer'[c] = "away"
  PROVE  peer[c] = "away"
<1> USE DEF local, outsideFwd, outsideDeamon, outsideUser, nothingClosed
<1>0. peer \in [Conns -> {"away", "connecting", "greeted", "waiting", "open", "closed"}]
  BY DEF IInv, Types, NetTypes
<1>1. CASE Peers
  BY <1>0, <1>1 DEF Peers, PeerConnects, PeerIdentifies, PeerSends, PeerCloses, Becomes
<1>2. CASE Receiving
  BY <1>0, <1>2 DEF Receiving, ReceivingChecks, ProcessReturns, Process, HandleConnect,
     HandleIdentification, HandleEvent, HandleDisconnect
<1>3. CASE Forwarding
  BY <1>3 DEF Forwarding, ForwardingHead, ForwardingNotified, ForwardingTimesOut,
     ForwardingCalls, ForwardingCleans
<1>4. CASE Deamon
  BY <1>0, <1>4 DEF Deamon, DeamonWakes, DeamonServes, DeamonJoins, DeamonCloses
<1>5. CASE UNCHANGED vars BY <1>5
<1> QED
  BY <1>1, <1>2, <1>3, <1>4, <1>5
  DEF Next, CallListen, Listen, CallStopListen, StopListenReturns, StopListenThrows,
      Destruct, DestructReturns

\* The first entry of the event list belongs to a connection that was made.
LEMMA FirstIsMade ==
  ASSUME IInv, NEW d \in Conns, NEW k, rcv = "handle", Handling(d, k)
  PROVE  peer[d] # "away" /\ events # <<>> /\ events' = Tail(events) /\ Head(events).k = k
<1>1. events # <<>> /\ events \in Seq(Arrived) BY DEF IInv, ThreadsInv, Types, QueueTypes
<1>2. 1 \in 1 .. Len(events) /\ Head(events) = events[1] BY <1>1, Shortened
<1> QED BY <1>1, <1>2 DEF Handling, IInv, OriginInv, ArrivedOrigin

\* What is said of a queue in which c has no entry.
NoEntry(s, c) == \A i \in 1 .. Len(s) : s[i].con # c

\* It has none after an entry of another connection.
LEMMA NoEntryAppend ==
  ASSUME NEW T, NEW s \in Seq(T), NEW c, NEW e \in T, e.con # c, NoEntry(s, c)
  PROVE  NoEntry(Append(s, e), c)
BY Appended DEF NoEntry

\* Nor after the first is taken.
LEMMA NoEntryTail ==
  ASSUME NEW T, NEW s \in Seq(T), s # <<>>, NEW c, NoEntry(s, c)
  PROVE  NoEntry(Tail(s), c) /\ Head(s).con # c
BY Shortened DEF NoEntry

\* Nobody gives a connection something before it is made.
LEMMA AwayStep ==
  ASSUME IInv, AwayInv, [Next]_vars
  PROVE  AwayInv'
<1> SUFFICES ASSUME NEW c \in Conns, peer'[c] = "away"
             PROVE  /\ sent'[c] = 0 /\ wire'[c] = <<>> /\ log'[c] = <<>> /\ c \notin known'
                    /\ NoEntry(queue', c) /\ item'.con # c
  BY DEF AwayInv, NoEntry
<1> USE DEF local, outsideFwd, outsideDeamon, outsideUser, nothingClosed
<1>0. /\ peer[c] = "away" /\ sent[c] = 0 /\ wire[c] = <<>> /\ log[c] = <<>> /\ c \notin known
      /\ item.con # c /\ NoEntry(queue, c)
  BY StaysAway, Absent DEF AwayInv, NoEntry
<1>t. /\ queue \in Seq(Entries) /\ wire \in [Conns -> Seq(Packets)] /\ sent \in [Conns -> 0 .. MaxEvents]
      /\ log \in [Conns -> Seq([k : Calls, n : 0 .. MaxEvents])]
      /\ peer \in [Conns -> {"away", "connecting", "greeted", "waiting", "open", "closed"}]
  BY DEF IInv, Types, QueueTypes, NetTypes
<1>1. CASE Peers
  BY <1>0, <1>1, <1>t DEF Peers, PeerConnects, PeerIdentifies, PeerSends, PeerCloses, ToWire, Becomes
<1>2. CASE Receiving
  <2>1. CASE ReceivingChecks \/ ProcessReturns BY <1>0, <2>1 DEF ReceivingChecks, ProcessReturns
  <2>2. CASE \E d \in Conns : Process(d) BY <1>0, <1>t, <2>2 DEF Process
  <2>3. ASSUME NEW d \in Conns,
               HandleConnect(d) \/ HandleIdentification(d) \/ HandleEvent(d) \/ HandleDisconnect(d)
        PROVE  /\ d # c /\ c \notin known' /\ UNCHANGED <<sent, wire, log, item>>
               /\ \/ queue' = queue
                  \/ \E n \in 0 .. MaxEvents : LET q == Append(queue, [con |-> d, n |-> n])
                                               IN queue' = q \/ (q # <<>> /\ queue' = Tail(q))
    <3>1. rcv = "handle" /\ \E k : Handling(d, k)
      BY <2>3 DEF HandleConnect, HandleIdentification, HandleEvent, HandleDisconnect, Handling
    <3>2. d # c BY <1>0, <3>1, FirstIsMade
    <3>3. c \notin known' /\ UNCHANGED <<sent, wire, log, item>>
      BY <1>0, <2>3, <3>2 DEF HandleConnect, HandleIdentification, HandleEvent, HandleDisconnect
    <3>4. Head(events).n \in 0 .. MaxEvents
      <4>1. events \in Seq(Arrived) /\ events # <<>> BY <3>1, FirstIsMade DEF IInv, Types, QueueTypes
      <4>2. Head(events) \in Arrived BY <4>1, Shortened
      <4> QED BY <4>2 DEF Arrived
    <3>5. CASE HandleConnect(d) BY <3>2, <3>3, <3>5 DEF HandleConnect
    <3>6. CASE HandleIdentification(d) BY <3>2, <3>3, <3>6 DEF HandleIdentification, Push
    <3>7. CASE HandleEvent(d)
      <4>1. PICK n \in 0 .. MaxEvents : n = Head(events).n BY <3>4
      <4>2. PICK q : q = Append(queue, [con |-> d, n |-> n]) OBVIOUS
      <4>3. queue' = q \/ queue' = Tail(q) BY <3>7, <4>1, <4>2 DEF HandleEvent
      <4>4. q # <<>>
        <5>1. [con |-> d, n |-> n] \in Entries BY DEF Entries
        <5> QED BY <1>t, <4>2, <5>1, Appended
      <4> QED BY <3>2, <3>3, <4>2, <4>3, <4>4
    <3>8. CASE HandleDisconnect(d) BY <3>2, <3>3, <3>8 DEF HandleDisconnect, Push
    <3> QED BY <2>3, <3>5, <3>6, <3>7, <3>8
  <2>4. ASSUME NEW d \in Conns,
               HandleConnect(d) \/ HandleIdentification(d) \/ HandleEvent(d) \/ HandleDisconnect(d)
        PROVE  NoEntry(queue', c)
    <3>1. CASE queue' = queue BY <1>0, <3>1
    <3>2. ASSUME NEW n \in 0 .. MaxEvents, NEW q, q = Append(queue, [con |-> d, n |-> n]),
                 queue' = q \/ (q # <<>> /\ queue' = Tail(q))
          PROVE  NoEntry(queue', c)
      <4>1. PICK e \in Entries : e = [con |-> d, n |-> n]
        <5>1. [con |-> d, n |-> n] \in Entries BY DEF Entries
        <5> QED BY <5>1
      <4>2. e.con # c BY <2>3, <2>4, <4>1
      <4>3. q \in Seq(Entries) /\ NoEntry(q, c) BY <1>0, <1>t, <3>2, <4>1, <4>2, NoEntryAppend, Appended
      <4>4. q # <<>> => NoEntry(Tail(q), c) BY <4>3, NoEntryTail
      <4> QED BY <3>2, <4>3, <4>4, Zenon
    <3> QED BY <2>3, <2>4, <3>1, <3>2
  <2> QED BY <1>0, <1>2, <2>1, <2>2, <2>3, <2>4 DEF Receiving
<1>3. CASE Forwarding
  <2>1. CASE ForwardingHead \/ ForwardingNotified
    <3>1. UNCHANGED <<sent, wire, log, known>> BY <2>1 DEF ForwardingHead, ForwardingNotified
    <3>2. UNCHANGED <<queue, item>> \/ (queue # <<>> /\ Take)
      BY <2>1 DEF ForwardingHead, ForwardingNotified, IInv, ThreadsInv
    <3>3. queue # <<>> /\ Take => NoEntry(queue', c) /\ item'.con # c BY <1>0, <1>t, NoEntryTail DEF Take
    <3> QED BY <1>0, <3>1, <3>2, <3>3
  <2>2. CASE ForwardingTimesOut BY <1>0, <2>2 DEF ForwardingTimesOut
  <2>3. CASE ForwardingCalls
    <3>1. log'[c] = log[c] /\ item' = Nobody BY <1>0, <1>t, <2>3 DEF ForwardingCalls
    <3>2. UNCHANGED <<sent, wire, known, queue>> BY <2>3 DEF ForwardingCalls
    <3> QED BY <1>0, <3>1, <3>2
  <2>4. CASE ForwardingCleans
    <3>1. UNCHANGED <<sent, wire, queue, item>> /\ known' \subseteq known BY <2>4 DEF ForwardingCleans
    <3>2. PICK S \in SUBSET known : LogDisconnect(S) BY <2>4 DEF ForwardingCleans
    <3>3. log'[c] = log[c] BY <1>0, <3>2 DEF LogDisconnect
    <3> QED BY <1>0, <3>1, <3>3
  <2> QED BY <1>3, <2>1, <2>2, <2>3, <2>4 DEF Forwarding
<1>4. CASE Deamon
  <2>1. CASE DeamonCloses
    <3>1. NoEntry(<<>>, c) BY DEF NoEntry
    <3> QED BY <1>0, <2>1, <3>1 DEF DeamonCloses
  <2> QED BY <1>0, <1>4, <2>1 DEF Deamon, DeamonWakes, DeamonServes, DeamonJoins
<1>5. CASE UNCHANGED vars BY <1>0, <1>5
<1> QED
  BY <1>0, <1>1, <1>2, <1>3, <1>4, <1>5
  DEF Next, CallListen, Listen, CallStopListen, StopListenReturns, StopListenThrows,
      Destruct, DestructReturns
-----------------------------------------------------------------------------
(***************************************************************************)
(* Events are lost at a full queue only, and then the oldest.              *)
(***************************************************************************)
\* Only its own connect brings a connection into the session that is open.
LEMMA Enters ==
  ASSUME IInv, [Next]_vars, NEW c \in Conns, ~InSession(c), InSession(c)'
  PROVE  PeerConnects(c)
<1> USE DEF local, outsideFwd, outsideDeamon, outsideUser, nothingClosed, InSession
<1>0. born \in [Conns -> 0 .. MaxSessions] /\ born[c] <= session /\ session \in Nat
  BY DEF IInv, Types, NetTypes, ControlTypes, OriginInv, WireOrigin
<1>1. CASE Peers
  <2>1. PICK d \in Conns : PeerConnects(d) \/ PeerIdentifies(d) \/ PeerSends(d) \/ PeerCloses(d)
    BY <1>1 DEF Peers
  <2>2. CASE PeerConnects(d) BY <1>0, <2>2 DEF PeerConnects
  <2> QED BY <2>1, <2>2 DEF PeerIdentifies, PeerSends, PeerCloses
<1>2. CASE Receiving
  BY <1>2 DEF Receiving, ReceivingChecks, ProcessReturns, Process, HandleConnect,
     HandleIdentification, HandleEvent, HandleDisconnect
<1>3. CASE Forwarding
  BY <1>3 DEF Forwarding, ForwardingHead, ForwardingNotified, ForwardingTimesOut,
     ForwardingCalls, ForwardingCleans
<1>4. CASE Deamon BY <1>4 DEF Deamon, DeamonWakes, DeamonServes, DeamonJoins, DeamonCloses
<1>5. CASE UNCHANGED vars BY <1>5
<1>6. CASE Listen
  <2>1. born' = born /\ (UNCHANGED <<session, server>> \/ (~server /\ session' = session + 1))
    BY <1>6 DEF Listen
  <2>2. CASE UNCHANGED <<session, server>> BY <2>1, <2>2
  <2>3. CASE session' = session + 1
    <3>1. born'[c] = session + 1 BY <2>3
    <3> QED BY <1>0, <2>1, <3>1
  <2> QED BY <2>1, <2>2, <2>3
<1> QED
  BY <1>1, <1>2, <1>3, <1>4, <1>5, <1>6
  DEF Next, CallListen, CallStopListen, StopListenReturns, StopListenThrows, Destruct, DestructReturns

\* Then nothing of it is on its way, and nothing was taken.
LEMMA Begins ==
  ASSUME IInv, AwayInv, NEW c \in Conns, PeerConnects(c)
  PROVE  Later(c, 0, 0, 0) /\ item' \notin Queued[c] /\ log'[c] = <<>> /\ sent'[c] = 0
<1> USE DEF PeerConnects, local
<1>1. /\ sent[c] = 0 /\ wire[c] = <<>> /\ log[c] = <<>> /\ item.con # c
      /\ \A i \in DOMAIN queue : queue[i].con # c
      /\ \A i \in DOMAIN events : events[i].con # c
  BY Absent
<1>2. item' \notin Queued[c] /\ \A i \in DOMAIN queue : queue[i] \notin Queued[c] BY <1>1 DEF Queued
<1>3. \A i \in DOMAIN events : events[i] \notin Batched[c] BY <1>1 DEF Batched
<1>4. Carries(queue', Queued[c], 0, 0) /\ Carries(events', Batched[c], 0, 0)
  BY <1>2, <1>3 DEF Carries, Rising
<1>5. Carries(wire'[c], Sent, 0, 0)
  <2>1. PICK e \in Packets : e = [k |-> "syn", n |-> 0] /\ e \notin Sent
    <3>1. [k |-> "syn", n |-> 0] \in Packets BY DEF Packets, Marks
    <3>2. [k |-> "syn", n |-> 0] \notin Sent BY DEF Sent
    <3> QED BY <3>1, <3>2, Zenon
  <2>2. wire'[c] = Append(<<>>, e) BY <1>1, <2>1 DEF ToWire, IInv, Types, NetTypes
  <2>3. Carries(<<>>, Sent, 0, 0) BY CarriesNothing
  <2> QED BY <2>1, <2>2, <2>3, EmptyIs, CarriesSame
<1> QED BY <1>1, <1>2, <1>4, <1>5 DEF Later

\* A connection in its session moves on.
LEMMA MovesOn ==
  ASSUME IInv, [Next]_vars, NEW c \in Conns, InSession(c), InSession(c)',
         NEW t \in Int, NEW q \in Int, NEW a \in Int, Lies(c, t, q, a)
  PROVE  Progress(c, t)
<1>0. Types BY DEF IInv
<1>1. CASE Peers
  <2>1. PICK d \in Conns : PeerConnects(d) \/ PeerIdentifies(d) \/ PeerSends(d) \/ PeerCloses(d)
    BY <1>1 DEF Peers
  <2>2. CASE PeerSends(d) BY <1>0, <2>2, EventSent
  <2>3. CASE PeerConnects(d) \/ PeerIdentifies(d) \/ PeerCloses(d)
    <3>1. PICK k \in Marks : ToWire(d, k, 0)
      BY <2>3 DEF PeerConnects, PeerIdentifies, PeerCloses, Marks
    <3>2. UNCHANGED <<queue, events, sent, item, log>>
      BY <2>3 DEF PeerConnects, PeerIdentifies, PeerCloses, local
    <3> QED BY <1>0, <3>1, <3>2, MarkSent
  <2> QED BY <2>1, <2>2, <2>3
<1>2. CASE Receiving
  <2>1. CASE ReceivingChecks \/ ProcessReturns
    <3>1. UNCHANGED <<queue, events, wire, sent, item, log>> BY <2>1 DEF ReceivingChecks, ProcessReturns
    <3> QED BY <3>1, StaysPut DEF Quiet
  <2>2. ASSUME NEW d \in Conns, Process(d) PROVE Progress(c, t) BY <1>0, <2>2, PacketRead
  <2>3. ASSUME NEW d \in Conns, HandleEvent(d) PROVE Progress(c, t)
    <3>1. events # <<>> BY <2>3, FirstIsMade DEF HandleEvent, Handling
    <3> QED BY <1>0, <2>3, <3>1, EventHandled
  <2>4. ASSUME NEW d \in Conns, HandleConnect(d) \/ HandleIdentification(d) \/ HandleDisconnect(d)
        PROVE  Progress(c, t)
    <3>1. PICK k \in Marks : rcv = "handle" /\ Handling(d, k)
      BY <2>4 DEF HandleConnect, HandleIdentification, HandleDisconnect, Handling, Marks
    <3>2. events # <<>> /\ events' = Tail(events) /\ Head(events).k # "event"
      BY <3>1, FirstIsMade DEF Marks
    <3>3. (UNCHANGED queue \/ Push(d, 0)) /\ UNCHANGED <<wire, sent, item, log>>
      BY <2>4 DEF HandleConnect, HandleIdentification, HandleDisconnect
    <3> QED BY <1>0, <3>2, <3>3, MarkHandled
  <2> QED BY <1>2, <2>1, <2>2, <2>3, <2>4 DEF Receiving
<1>3. CASE Forwarding
  <2>1. CASE ForwardingHead \/ ForwardingNotified
    <3>1. UNCHANGED <<events, wire, sent, log>>
      BY <2>1 DEF ForwardingHead, ForwardingNotified, outsideFwd
    <3>2. UNCHANGED <<queue, item>> \/ (queue # <<>> /\ item = Nobody /\ Take)
      BY <2>1 DEF ForwardingHead, ForwardingNotified, IInv, ThreadsInv
    <3>3. CASE UNCHANGED <<queue, item>> BY <3>1, <3>3, StaysPut DEF Quiet
    <3>4. CASE queue # <<>> /\ item = Nobody /\ Take BY <1>0, <3>1, <3>4, EntryTaken
    <3> QED BY <3>2, <3>3, <3>4
  <2>2. CASE ForwardingTimesOut
    <3>1. UNCHANGED <<queue, events, wire, sent, item, log>> BY <2>2 DEF ForwardingTimesOut, outsideFwd
    <3> QED BY <3>1, StaysPut DEF Quiet
  <2>3. CASE ForwardingCalls
    <3>1. item # Nobody BY <2>3 DEF ForwardingCalls, IInv, ThreadsInv
    <3> QED BY <1>0, <2>3, <3>1, CallbackMade
  <2>4. CASE ForwardingCleans BY <1>0, <2>4, EndsTold
  <2> QED BY <1>3, <2>1, <2>2, <2>3, <2>4 DEF Forwarding
<1>4. CASE Deamon \/ UNCHANGED vars
  <2>1. ~DeamonCloses BY DEF DeamonCloses, InSession
  <2>2. UNCHANGED <<queue, events, wire, sent, item, log>>
    BY <1>4, <2>1 DEF Deamon, DeamonWakes, DeamonServes, DeamonJoins, outsideDeamon, nothingClosed
  <2> QED BY <2>2, StaysPut DEF Quiet
<1>5. CASE \/ CallListen \/ Listen \/ CallStopListen \/ StopListenReturns
           \/ StopListenThrows \/ Destruct \/ DestructReturns
  <2>1. UNCHANGED <<queue, events, wire, sent, item, log>>
    BY <1>5 DEF CallListen, Listen, CallStopListen, StopListenReturns, StopListenThrows, Destruct,
       DestructReturns, outsideUser
  <2> QED BY <2>1, StaysPut DEF Quiet
<1> QED BY <1>1, <1>2, <1>3, <1>4, <1>5 DEF Next

\* What was taken stays in order, and is nothing that is still on its way.
LEMMA SomeTakenStep ==
  ASSUME Types, NEW c \in Conns, NEW t \in Int, NEW u \in Int, SomeTaken(c, t), Fate(c, t, u)
  PROVE  SomeTaken(c, u)'
<1>0. /\ log[c] \in Seq([k : Calls, n : 0 .. MaxEvents])
      /\ (\A x \in Received : x.n \in Nat) /\ (\A x \in Queued[c] : x.n \in Nat)
  BY Buffers
<1> DEFINE T == [k : Calls, n : 0 .. MaxEvents]
<1>1. ASSUME NEW e \in Ends PROVE e \in T /\ e \notin Received BY <1>1 DEF Ends, Received, Calls
<1>2. ASSUME NEW n \in 1 .. MaxEvents
      PROVE  [k |-> "receive", n |-> n] \in T /\ [k |-> "receive", n |-> n] \in Received
  BY DEF Received, Calls
<1> HIDE DEF T
<1>3. log[c] \in Seq(T) BY <1>0 DEF T
<1>4. CASE Quiet(c) /\ (u = t \/ u = t + 1)
  <2>1. t <= u BY <1>4
  <2>2. ASSUME NEW hi, Rising(log[c], Received, hi) PROVE Rising(log'[c], Received, hi)
    <3>1. CASE log'[c] = log[c] BY <2>2, <3>1, Zenon
    <3>2. ASSUME NEW e \in Ends, log'[c] = Append(log[c], e) PROVE Rising(log'[c], Received, hi)
      <4>1. e \in T /\ e \notin Received BY <1>1, <3>2
      <4>2. Rising(Append(log[c], e), Received, hi) BY <1>3, <2>2, <4>1, RisingSame, Zenon
      <4> QED BY <3>2, <4>2, Zenon
    <3> QED BY <1>4, <3>1, <3>2 DEF Quiet
  <2>3. CASE item \in Queued[c]
    <3>1. item' = item BY <1>4, <2>3 DEF Quiet
    <3>2. item.n <= u /\ Rising(log'[c], Received, item.n - 1)
      BY <1>0, <2>1, <2>2, <2>3 DEF SomeTaken
    <3> QED BY <2>3, <3>1, <3>2 DEF SomeTaken
  <2>4. CASE item \notin Queued[c]
    <3>1. item' \notin Queued[c] BY <1>4, <2>4 DEF Quiet
    <3>2. Rising(log[c], Received, u) BY <1>0, <2>1, <2>4, RisingUpTo DEF SomeTaken
    <3> QED BY <2>2, <3>1, <3>2 DEF SomeTaken
  <2> QED BY <2>3, <2>4
<1>5. CASE u = t /\ HandsOver(c)
  <2>1. item \in Queued[c] /\ item' \notin Queued[c] /\ item.n \in 1 .. MaxEvents
    BY <1>5 DEF HandsOver, Queued
  <2>2. PICK e \in T : e = [k |-> "receive", n |-> item.n] /\ e \in Received /\ e.n = item.n
    <3>1. [k |-> "receive", n |-> item.n].n = item.n OBVIOUS
    <3> QED BY <1>2, <2>1, <3>1
  <2>3. log'[c] = Append(log[c], e) BY <1>5, <2>2 DEF HandsOver
  <2>4. item.n <= t /\ Rising(log[c], Received, item.n - 1) BY <2>1 DEF SomeTaken
  <2>5. item.n - 1 \in Int /\ e.n > item.n - 1 /\ e.n \in Int BY <2>1, <2>2
  <2>6. Rising(log'[c], Received, e.n) BY <1>0, <1>3, <2>2, <2>3, <2>4, <2>5, RisingNew
  <2>7. Rising(log'[c], Received, u) BY <1>0, <1>5, <2>2, <2>4, <2>5, <2>6, RisingUpTo
  <2> QED BY <2>1, <2>7 DEF SomeTaken
<1>6. CASE u = t + 1 /\ Takes(c, u)
  <2>1. item \notin Queued[c] /\ item' \in Queued[c] /\ item'.n = u /\ log'[c] = log[c]
    BY <1>6 DEF Takes
  <2>2. Rising(log[c], Received, t) /\ item'.n - 1 = t BY <1>6, <2>1 DEF SomeTaken
  <2> QED BY <2>1, <2>2 DEF SomeTaken
<1> QED BY <1>4, <1>5, <1>6 DEF Fate

\* As long as the queue is not full, everything up to what is on its way was taken.
LEMMA AllTakenStep ==
  ASSUME Types, NEW c \in Conns, NEW t \in Int, NEW u \in Int, AllTaken(c, t), Fate(c, t, u),
         Len(queue) < MaxQueue
  PROVE  AllTaken(c, u)'
<1>0. /\ log[c] \in Seq([k : Calls, n : 0 .. MaxEvents]) /\ Len(queue) \in Nat
      /\ (\A x \in Received : x.n \in Nat) /\ (\A x \in Queued[c] : x.n \in Nat)
  BY Buffers, LenIsNat
<1> DEFINE T == [k : Calls, n : 0 .. MaxEvents]
<1>1. ASSUME NEW e \in Ends PROVE e \in T /\ e \notin Received BY <1>1 DEF Ends, Received, Calls
<1>2. ASSUME NEW n \in 1 .. MaxEvents
      PROVE  [k |-> "receive", n |-> n] \in T /\ [k |-> "receive", n |-> n] \in Received
  BY DEF Received, Calls
<1> HIDE DEF T
<1>3. log[c] \in Seq(T) BY <1>0 DEF T
<1>4. CASE u = t /\ Quiet(c)
  <2>1. ASSUME NEW hi, Carries(log[c], Received, 0, hi) PROVE Carries(log'[c], Received, 0, hi)
    <3>1. CASE log'[c] = log[c] BY <2>1, <3>1
    <3>2. ASSUME NEW e \in Ends, log'[c] = Append(log[c], e) PROVE Carries(log'[c], Received, 0, hi)
      <4>1. e \in T /\ e \notin Received BY <1>1
      <4>2. Carries(Append(log[c], e), Received, 0, hi) BY <1>3, <2>1, <4>1, CarriesSame
      <4> QED BY <3>2, <4>2
    <3> QED BY <1>4, <3>1, <3>2 DEF Quiet
  <2>2. item' = item \/ (item \notin Queued[c] /\ item' \notin Queued[c]) BY <1>4 DEF Quiet
  <2> QED BY <1>4, <2>1, <2>2 DEF AllTaken
<1>5. CASE u = t /\ HandsOver(c)
  <2>1. item \in Queued[c] /\ item' \notin Queued[c] /\ item.n \in 1 .. MaxEvents
    BY <1>5 DEF HandsOver, Queued
  <2>2. PICK e \in T : e = [k |-> "receive", n |-> item.n] /\ e \in Received /\ e.n = item.n
    <3>1. [k |-> "receive", n |-> item.n].n = item.n OBVIOUS
    <3> QED BY <1>2, <2>1, <3>1
  <2>3. log'[c] = Append(log[c], e) BY <1>5, <2>2 DEF HandsOver
  <2>4. item.n = t /\ Carries(log[c], Received, 0, t - 1) BY <2>1 DEF AllTaken
  <2>5. PICK h \in Int : h = t - 1 /\ h + 1 = t BY <2>4
  <2>6. Carries(log'[c], Received, 0, h + 1)
    <3>1. e.n = h + 1 /\ Carries(log[c], Received, 0, h) BY <2>2, <2>4, <2>5
    <3> QED BY <1>0, <1>3, <2>2, <2>3, <3>1, CarriesNew
  <2> QED BY <1>5, <2>1, <2>5, <2>6 DEF AllTaken
<1>6. CASE u = t + 1 /\ Takes(c, u)
  <2>1. item \notin Queued[c] /\ item' \in Queued[c] /\ item'.n = u /\ log'[c] = log[c]
    BY <1>6 DEF Takes
  <2>2. Carries(log[c], Received, 0, t) /\ u - 1 = t BY <1>6, <2>1 DEF AllTaken
  <2> QED BY <2>1, <2>2 DEF AllTaken
<1> QED BY <1>0, <1>4, <1>5, <1>6 DEF Fate

\* The marks between the buffers lie between 0 and what was sent.
LEMMA Between ==
  ASSUME Types', NEW c \in Conns, NEW u \in Int, NEW v \in Int, NEW w \in Int, 0 <= u, Later(c, u, v, w)
  PROVE  u \in 0 .. sent'[c] /\ OnTheWay(c, u)'
<1>1. sent'[c] \in Nat BY DEF Types, NetTypes
<1>2. u <= v /\ v <= w /\ w <= sent'[c] BY DEF Later, Carries
<1>3. u \in 0 .. sent'[c] /\ v \in u .. sent'[c] /\ w \in v .. sent'[c] BY <1>1, <1>2
<1> QED BY <1>3 DEF Later, OnTheWay

\* However full the queue is, what a step leaves is without a gap.
LEMMA OldestStep ==
  ASSUME IInv, IInv', AwayInv, OldestDropped, [Next]_vars
  PROVE  OldestDropped'
<1>0. Types /\ Types' BY DEF IInv
<1> SUFFICES ASSUME NEW c \in Conns, InSession(c)'
             PROVE  \E t \in 0 .. sent'[c] : SomeTaken(c, t)' /\ OnTheWay(c, t)'
  BY DEF OldestDropped
<1>1. CASE ~InSession(c)
  <2>1. Later(c, 0, 0, 0) /\ item' \notin Queued[c] /\ log'[c] = <<>> /\ sent'[c] = 0
    BY <1>1, Enters, Begins
  <2>2. SomeTaken(c, 0)' BY <2>1 DEF SomeTaken, Rising
  <2>3. 0 \in 0 .. sent'[c] /\ OnTheWay(c, 0)' BY <1>0, <2>1, Between
  <2> QED BY <2>2, <2>3
<1>2. CASE InSession(c)
  <2>0. PICK t \in 0 .. sent[c] : SomeTaken(c, t) /\ OnTheWay(c, t) BY <1>2 DEF OldestDropped
  <2>1. PICK q, a \in Int : Lies(c, t, q, a) BY <2>0 DEF OnTheWay, Lies
  <2>2. t \in Int /\ q \in Int /\ a \in Int /\ 0 <= t BY <2>0, <2>1
  <2>3. PICK u, v, w \in Int : Later(c, u, v, w) /\ Fate(c, t, u) BY <1>2, <2>1, <2>2, MovesOn DEF Progress
  <2>4. 0 <= u BY <2>2, <2>3 DEF Fate
  <2>5. SomeTaken(c, u)' BY <1>0, <2>0, <2>1, <2>2, <2>3, SomeTakenStep
  <2>6. u \in 0 .. sent'[c] /\ OnTheWay(c, u)'
    BY <1>0, <2>3, <2>4, Between
  <2> QED BY <2>5, <2>6
<1> QED BY <1>1, <1>2

\* A queue that is not full loses nothing.
LEMMA NothingStep ==
  ASSUME IInv, IInv', AwayInv, NothingLost, Len(queue) < MaxQueue, [Next]_vars
  PROVE  NothingLost'
<1>0. Types /\ Types' BY DEF IInv
<1> SUFFICES ASSUME NEW c \in Conns, InSession(c)'
             PROVE  \E t \in 0 .. sent'[c] : AllTaken(c, t)' /\ OnTheWay(c, t)'
  BY DEF NothingLost
<1>1. CASE ~InSession(c)
  <2>1. Later(c, 0, 0, 0) /\ item' \notin Queued[c] /\ log'[c] = <<>> /\ sent'[c] = 0
    BY <1>1, Enters, Begins
  <2>2. AllTaken(c, 0)' BY <2>1, CarriesNothing DEF AllTaken
  <2>3. 0 \in 0 .. sent'[c] /\ OnTheWay(c, 0)' BY <1>0, <2>1, Between
  <2> QED BY <2>2, <2>3
<1>2. CASE InSession(c)
  <2>0. PICK t \in 0 .. sent[c] : AllTaken(c, t) /\ OnTheWay(c, t) BY <1>2 DEF NothingLost
  <2>1. PICK q, a \in Int : Lies(c, t, q, a) BY <2>0 DEF OnTheWay, Lies
  <2>2. t \in Int /\ q \in Int /\ a \in Int /\ 0 <= t BY <2>0, <2>1
  <2>3. PICK u, v, w \in Int : Later(c, u, v, w) /\ Fate(c, t, u) BY <1>2, <2>1, <2>2, MovesOn DEF Progress
  <2>4. 0 <= u BY <2>2, <2>3 DEF Fate
  <2>5. AllTaken(c, u)' BY <1>0, <2>0, <2>1, <2>2, <2>3, AllTakenStep
  <2>6. u \in 0 .. sent'[c] /\ OnTheWay(c, u)'
    BY <1>0, <2>3, <2>4, Between
  <2> QED BY <2>5, <2>6
<1> QED BY <1>1, <1>2

\* At first there is no session, and no connection was made.
LEMMA FirstState == Init => AwayInv /\ OldestDropped /\ NothingLost
BY DEF Init, AwayInv, OldestDropped, NothingLost, InSession

\* A connection that is not made has nothing in the server, in any state.
THEOREM NothingInAdvance == Spec => []AwayInv
<1>1. Init => AwayInv BY FirstState
<1>2. IInv /\ AwayInv /\ [Next]_vars => AwayInv' BY AwayStep
<1> QED BY <1>1, <1>2, Inductive, PTL DEF Spec

\* m_qu_ev may be full at any time: what is on its way from a sender to the
\* callbacks is then still without a gap and ends with the last event sent,
\* and what was handed over is older, in order and not doubled.
THEOREM OnlyOldestDropped == Spec => []OldestDropped
<1>1. Init => OldestDropped BY FirstState
<1>2. IInv /\ IInv' /\ AwayInv /\ OldestDropped /\ [Next]_vars => OldestDropped' BY OldestStep
<1> QED BY <1>1, <1>2, Inductive, NothingInAdvance, PTL DEF Spec

\* As long as m_qu_ev stays below its limit, no event of an open session is
\* lost, doubled or overtaken, whatever the threads, the senders and the
\* callbacks do.
THEOREM NothingLostBelowLimit == Spec /\ [](Len(queue) < MaxQueue) => []NothingLost
<1> DEFINE Below == Len(queue) < MaxQueue
<1>1. Init => NothingLost BY FirstState
<1>2. IInv /\ IInv' /\ AwayInv /\ NothingLost /\ Below /\ [Next]_vars => NothingLost' BY NothingStep
<1> HIDE DEF Below
<1>3. Spec /\ []Below => []NothingLost BY <1>1, <1>2, Inductive, NothingInAdvance, PTL DEF Spec
<1> QED BY <1>3 DEF Below
-----------------------------------------------------------------------------
(***************************************************************************)
(* The marks that come on top of a full queue.                             *)
(***************************************************************************)
\* One more element is in a buffer.
LEMMA HoldsAppend ==
  ASSUME NEW T, NEW s \in Seq(T), NEW e \in T, NEW S
  PROVE  /\ Holds(Append(s, e), S) <=> Holds(s, S) \/ e \in S
         /\ Single(s, S) /\ ~(Holds(s, S) /\ e \in S) => Single(Append(s, e), S)
<1>1. PICK r \in Seq(T) :
        /\ r = Append(s, e) /\ Len(s) \in Nat /\ DOMAIN r = 1 .. Len(s) + 1 /\ DOMAIN s = 1 .. Len(s)
        /\ r[Len(s) + 1] = e /\ \A i \in 1 .. Len(s) : r[i] = s[i]
  BY AppendIs
<1>2. \A i \in DOMAIN r : i \in DOMAIN s \/ i = Len(s) + 1 BY <1>1
<1>3. DOMAIN s \subseteq DOMAIN r /\ Len(s) + 1 \in DOMAIN r BY <1>1
<1>4. Holds(r, S) <=> Holds(s, S) \/ e \in S BY <1>1, <1>2, <1>3 DEF Holds
<1>5. ASSUME Single(s, S), ~(Holds(s, S) /\ e \in S) PROVE Single(r, S)
  <2> SUFFICES ASSUME NEW i \in DOMAIN r, NEW j \in DOMAIN r, r[i] \in S, r[j] \in S PROVE i = j
    BY DEF Single
  <2>1. i \in DOMAIN s /\ j \in DOMAIN s => i = j BY <1>1, <1>5 DEF Single
  <2>2. i \in DOMAIN s /\ j \notin DOMAIN s => FALSE BY <1>1, <1>2, <1>5 DEF Holds
  <2>3. i \notin DOMAIN s /\ j \in DOMAIN s => FALSE BY <1>1, <1>2, <1>5 DEF Holds
  <2> QED BY <1>2, <2>1, <2>2, <2>3
<1> QED BY <1>1, <1>4, <1>5

\* The first element is taken from a buffer.
LEMMA HoldsTail ==
  ASSUME NEW T, NEW s \in Seq(T), s # <<>>, NEW S
  PROVE  /\ Holds(s, S) <=> Holds(Tail(s), S) \/ Head(s) \in S
         /\ Single(s, S) => Single(Tail(s), S) /\ ~(Head(s) \in S /\ Holds(Tail(s), S))
<1> DEFINE r == Tail(s)
<1>1. /\ Head(s) = s[1] /\ Len(s) \in Nat \ {0} /\ DOMAIN r = 1 .. Len(s) - 1 /\ DOMAIN s = 1 .. Len(s)
      /\ \A i \in 1 .. Len(s) - 1 : r[i] = s[i + 1]
  BY TailIs
<1> HIDE DEF r
<1>2. \A i \in DOMAIN s : i = 1 \/ (i - 1 \in DOMAIN r /\ s[i] = r[i - 1])
  <2> TAKE i \in DOMAIN s
  <2>1. i # 1 => i - 1 \in 1 .. Len(s) - 1 /\ (i - 1) + 1 = i BY <1>1
  <2> QED BY <1>1, <2>1
<1>3. \A i \in DOMAIN r : i + 1 \in DOMAIN s /\ i + 1 # 1 /\ r[i] = s[i + 1] BY <1>1
<1>4. 1 \in DOMAIN s BY <1>1
<1>5. Holds(s, S) => Holds(r, S) \/ Head(s) \in S BY <1>1, <1>2 DEF Holds
<1>6. Holds(r, S) \/ Head(s) \in S => Holds(s, S) BY <1>1, <1>3, <1>4 DEF Holds
<1>7. ASSUME Single(s, S) PROVE Single(r, S) /\ ~(Head(s) \in S /\ Holds(r, S))
  <2>1. ASSUME NEW i \in DOMAIN r, NEW j \in DOMAIN r, r[i] \in S, r[j] \in S PROVE i = j
    <3>1. i + 1 = j + 1 BY <1>3, <1>7, <2>1 DEF Single
    <3>2. i \in Nat /\ j \in Nat BY <1>1
    <3> QED BY <3>1, <3>2
  <2>2. ~(Head(s) \in S /\ Holds(r, S)) BY <1>1, <1>3, <1>4, <1>7 DEF Single, Holds
  <2> QED BY <2>1, <2>2 DEF Single
<1> QED BY <1>5, <1>6, <1>7 DEF r

\* Nothing is in an empty buffer.
LEMMA HoldsNothing == \A S : ~Holds(<<>>, S) /\ Single(<<>>, S)
BY DEF Holds, Single

PeerTypes == peer \in [Conns -> {"away", "connecting", "greeted", "waiting", "open", "closed"}]
BufferTypes == /\ wire \in [Conns -> Seq(Packets)] /\ events \in Seq(Arrived)
               /\ queue \in Seq(Entries) /\ Len(queue) \in Nat

\* The connections that are over are finitely many.
LEMMA OverFinite ==
  ASSUME NEW k
  PROVE  IsFiniteSet(Over(k)) /\ Cardinality(Over(k)) \in Nat /\ Cardinality(Over(k)) <= Cardinality(Conns)
<1>1. Over(k) \subseteq Conns BY DEF Over
<1> QED BY <1>1, FS_Subset, FS_CardinalityType

\* More of them are more, and one more is at least one more.
LEMMA OverGrows ==
  ASSUME NEW k, Over(k) \subseteq Over(k)'
  PROVE  /\ Cardinality(Over(k)) <= Cardinality(Over(k)') /\ Cardinality(Over(k)') \in Nat
         /\ \A c \in Over(k)' \ Over(k) : Cardinality(Over(k)) + 1 <= Cardinality(Over(k)')
<1>1. Over(k)' \subseteq Conns BY DEF Over
<1>2. IsFiniteSet(Over(k)') /\ IsFiniteSet(Over(k)) /\ Cardinality(Over(k)) \in Nat
  BY <1>1, FS_Subset, OverFinite
<1>3. Cardinality(Over(k)) <= Cardinality(Over(k)') BY <1>2, FS_Subset
<1>4. Cardinality(Over(k)') \in Nat BY <1>2, FS_CardinalityType
<1>5. ASSUME NEW c \in Over(k)' \ Over(k) PROVE Cardinality(Over(k)) + 1 <= Cardinality(Over(k)')
  <2>1. Over(k) \cup {c} \subseteq Over(k)' OBVIOUS
  <2>2. Cardinality(Over(k) \cup {c}) = Cardinality(Over(k)) + 1 BY <1>2, FS_AddElement
  <2>3. Cardinality(Over(k) \cup {c}) <= Cardinality(Over(k)') BY <1>2, <2>1, FS_Subset
  <2> QED BY <2>2, <2>3
<1> QED BY <1>3, <1>4, <1>5

\* Before c writes m and goes on to p, it has not sent m, and after it has.
Fits(c, m, p) ==
  \A k \in {"hello", "fin"} : /\ p \in Unsent(k) => peer[c] \in Unsent(k) /\ m # k
                              /\ m = k => peer[c] \in Unsent(k)

\* A sender writes a mark, or an event, and goes on.
LEMMA MarkWritten ==
  ASSUME MarksInv, PeerTypes, BufferTypes, NEW c \in Conns, NEW m \in Marks \cup {"event"}, NEW n \in 0 .. MaxEvents,
         ToWire(c, m, n), UNCHANGED events, NEW p, peer' = [peer EXCEPT ![c] = p],
         Fits(c, m, p)
  PROVE  MarksInv' /\ \A k \in {"hello", "fin"} : Over(k) \subseteq Over(k)'
<1> SUFFICES ASSUME NEW k \in {"hello", "fin"}
             PROVE  /\ Over(k) \subseteq Over(k)'
                    /\ \A d \in Conns : /\ Single(wire'[d], OnSocket(k)) /\ Single(events', InList(d, k))
                                        /\ ~(Holds(wire'[d], OnSocket(k)) /\ Holds(events', InList(d, k)))
                                        /\ Pending(d, k)' => peer'[d] \notin Unsent(k)
  BY DEF MarksInv, OnSocket, InList, Unsent
<1> DEFINE e == [k |-> m, n |-> n]
<1>1. e \in Packets /\ (e \in OnSocket(k) <=> m = k) BY DEF Packets, OnSocket
<1>2. wire'[c] = Append(wire[c], e) /\ \A d \in Conns \ {c} : wire'[d] = wire[d]
  BY DEF ToWire, BufferTypes
<1> HIDE DEF e
<1>3. /\ Holds(wire'[c], OnSocket(k)) <=> Holds(wire[c], OnSocket(k)) \/ m = k
      /\ Single(wire[c], OnSocket(k)) /\ ~(Holds(wire[c], OnSocket(k)) /\ m = k) => Single(wire'[c], OnSocket(k))
  <2>1. wire[c] \in Seq(Packets) BY DEF BufferTypes
  <2> QED BY <1>1, <1>2, <2>1, HoldsAppend
<1>4. peer'[c] = p /\ \A d \in Conns \ {c} : peer'[d] = peer[d] BY DEF PeerTypes
<1>5. \A d \in Conns : /\ Single(wire[d], OnSocket(k)) /\ Single(events, InList(d, k))
                       /\ ~(Holds(wire[d], OnSocket(k)) /\ Holds(events, InList(d, k)))
                       /\ Pending(d, k) => peer[d] \notin Unsent(k)
  BY DEF MarksInv
<1>6. \A d \in Conns : Pending(d, k)' <=> Holds(wire'[d], OnSocket(k)) \/ Holds(events, InList(d, k))
  BY DEF Pending, OnSocket, InList
<1>7. \A d \in Conns : Pending(d, k) <=> Holds(wire[d], OnSocket(k)) \/ Holds(events, InList(d, k))
  BY DEF Pending
<1>8. \A d \in Conns : /\ d \in Over(k)' <=> peer'[d] \notin Unsent(k) /\ ~Pending(d, k)'
                       /\ d \in Over(k) <=> peer[d] \notin Unsent(k) /\ ~Pending(d, k)
  BY DEF Over, Unsent
<1>9. /\ p \in Unsent(k) => peer[c] \in Unsent(k) /\ m # k
      /\ m = k => peer[c] \in Unsent(k)
  BY DEF Fits
<1>10. Over(k) \subseteq Conns BY DEF Over
<1>11. ASSUME NEW d \in Conns \ {c}
       PROVE  /\ d \in Over(k) => d \in Over(k)'
              /\ Single(wire'[d], OnSocket(k))
              /\ ~(Holds(wire'[d], OnSocket(k)) /\ Holds(events', InList(d, k)))
              /\ Pending(d, k)' => peer'[d] \notin Unsent(k)
  BY <1>2, <1>4, <1>5, <1>6, <1>7, <1>8
<1>12. /\ c \in Over(k) => c \in Over(k)'
       /\ Single(wire'[c], OnSocket(k))
       /\ ~(Holds(wire'[c], OnSocket(k)) /\ Holds(events', InList(c, k)))
       /\ Pending(c, k)' => peer'[c] \notin Unsent(k)
  BY <1>3, <1>4, <1>5, <1>6, <1>7, <1>8, <1>9
<1> QED BY <1>5, <1>10, <1>11, <1>12

\* The receiving thread reads what is next on a socket.
LEMMA MarkRead ==
  ASSUME MarksInv, BufferTypes, NEW c \in Conns, Process(c)
  PROVE  MarksInv' /\ \A k \in {"hello", "fin"} : Over(k) \subseteq Over(k)'
<1> SUFFICES ASSUME NEW k \in {"hello", "fin"}
             PROVE  /\ Over(k) \subseteq Over(k)'
                    /\ \A d \in Conns : /\ Single(wire'[d], OnSocket(k)) /\ Single(events', InList(d, k))
                                        /\ ~(Holds(wire'[d], OnSocket(k)) /\ Holds(events', InList(d, k)))
                                        /\ Pending(d, k)' => peer'[d] \notin Unsent(k)
  BY DEF MarksInv, OnSocket, InList, Unsent
<1>1. wire[c] \in Seq(Packets) /\ wire[c] # <<>> /\ events \in Seq(Arrived) /\ peer' = peer
  BY DEF BufferTypes, Process
<1> DEFINE h == Head(wire[c])
           e == [con |-> c, k |-> h.k, n |-> h.n]
<1>2. h \in Packets BY <1>1
<1>3. e \in Arrived BY <1>2 DEF Packets, Arrived
<1>4. \A d \in Conns : e \in InList(d, k) <=> d = c /\ h \in OnSocket(k) BY <1>2 DEF Packets, InList, OnSocket
<1>5. events' = Append(events, e) /\ wire'[c] = Tail(wire[c]) /\ \A d \in Conns \ {c} : wire'[d] = wire[d]
  BY DEF Process, BufferTypes
<1>6. /\ Holds(wire[c], OnSocket(k)) <=> Holds(wire'[c], OnSocket(k)) \/ h \in OnSocket(k)
      /\ Single(wire[c], OnSocket(k)) => Single(wire'[c], OnSocket(k)) /\ ~(h \in OnSocket(k) /\ Holds(wire'[c], OnSocket(k)))
  BY <1>1, <1>5, HoldsTail
<1> HIDE DEF e, h
<1>7. \A d \in Conns :
        /\ Holds(events', InList(d, k)) <=> Holds(events, InList(d, k)) \/ e \in InList(d, k)
        /\ Single(events, InList(d, k)) /\ ~(Holds(events, InList(d, k)) /\ e \in InList(d, k)) => Single(events', InList(d, k))
  BY <1>1, <1>3, <1>5, HoldsAppend
<1>8. \A d \in Conns : /\ Single(wire[d], OnSocket(k)) /\ Single(events, InList(d, k))
                       /\ ~(Holds(wire[d], OnSocket(k)) /\ Holds(events, InList(d, k)))
                       /\ Pending(d, k) => peer[d] \notin Unsent(k)
  BY DEF MarksInv
<1>9. \A d \in Conns : /\ Pending(d, k)' <=> Holds(wire'[d], OnSocket(k)) \/ Holds(events', InList(d, k))
                       /\ Pending(d, k) <=> Holds(wire[d], OnSocket(k)) \/ Holds(events, InList(d, k))
  BY DEF Pending, OnSocket, InList
<1>10. \A d \in Conns : Pending(d, k)' <=> Pending(d, k) BY <1>4, <1>5, <1>6, <1>7, <1>8, <1>9
<1>11. Over(k)' = Over(k) BY <1>1, <1>10 DEF Over, Unsent
<1> QED BY <1>1, <1>4, <1>5, <1>6, <1>7, <1>8, <1>10, <1>11

\* DataHandler is done with an event: a mark of a connection comes once.
LEMMA MarkTaken ==
  ASSUME MarksInv, PeerTypes, BufferTypes, events # <<>>, NEW c \in Conns, NEW m, Handling(c, m), UNCHANGED wire,
         \A d \in Conns : \A k \in {"hello", "fin"} : peer'[d] \in Unsent(k) <=> peer[d] \in Unsent(k)
  PROVE  /\ MarksInv' /\ \A k \in {"hello", "fin"} : Over(k) \subseteq Over(k)'
         /\ m \in {"hello", "fin"} => c \in Over(m)' \ Over(m)
<1> SUFFICES ASSUME NEW k \in {"hello", "fin"}
             PROVE  /\ Over(k) \subseteq Over(k)'
                    /\ m = k => c \in Over(k)' \ Over(k)
                    /\ \A d \in Conns : /\ Single(wire'[d], OnSocket(k)) /\ Single(events', InList(d, k))
                                        /\ ~(Holds(wire'[d], OnSocket(k)) /\ Holds(events', InList(d, k)))
                                        /\ Pending(d, k)' => peer'[d] \notin Unsent(k)
  BY DEF MarksInv, OnSocket, InList, Unsent
<1> DEFINE h == Head(events)
<1>1. events \in Seq(Arrived) /\ events' = Tail(events) /\ h.con = c /\ h.k = m BY DEF BufferTypes, Handling
<1>2. h \in Arrived BY <1>1
<1>3. \A d \in Conns : h \in InList(d, k) <=> d = c /\ m = k BY <1>1, <1>2 DEF Arrived, InList
<1>4. \A d \in Conns :
        /\ Holds(events, InList(d, k)) <=> Holds(events', InList(d, k)) \/ h \in InList(d, k)
        /\ Single(events, InList(d, k)) => Single(events', InList(d, k)) /\ ~(h \in InList(d, k) /\ Holds(events', InList(d, k)))
  BY <1>1, HoldsTail
<1> HIDE DEF h
<1>5. \A d \in Conns : /\ Single(wire[d], OnSocket(k)) /\ Single(events, InList(d, k))
                       /\ ~(Holds(wire[d], OnSocket(k)) /\ Holds(events, InList(d, k)))
                       /\ Pending(d, k) => peer[d] \notin Unsent(k)
  BY DEF MarksInv
<1>6. \A d \in Conns : /\ Pending(d, k)' <=> Holds(wire[d], OnSocket(k)) \/ Holds(events', InList(d, k))
                       /\ Pending(d, k) <=> Holds(wire[d], OnSocket(k)) \/ Holds(events, InList(d, k))
  BY DEF Pending, OnSocket, InList
<1>7. \A d \in Conns : /\ d \in Over(k)' <=> peer'[d] \notin Unsent(k) /\ ~Pending(d, k)'
                       /\ d \in Over(k) <=> peer[d] \notin Unsent(k) /\ ~Pending(d, k)
  BY DEF Over, Unsent
<1>8. Over(k) \subseteq Conns BY DEF Over
<1>9. \A d \in Conns : peer'[d] \in Unsent(k) <=> peer[d] \in Unsent(k) OBVIOUS
<1> QED BY <1>3, <1>4, <1>5, <1>6, <1>7, <1>8, <1>9

\* Where nothing is read or written.
LEMMA MarksStay ==
  ASSUME MarksInv, UNCHANGED <<peer, wire, events>>
  PROVE  MarksInv' /\ \A k : Over(k)' = Over(k)
BY DEF MarksInv, Over, Pending, OnSocket, InList, Unsent

\* After the server was closed.
LEMMA MarksClosed ==
  ASSUME MarksInv, PeerTypes, DeamonCloses
  PROVE  MarksInv' /\ queue' = <<>>
<1>1. /\ events' = <<>> /\ queue' = <<>> /\ \A c \in Conns : wire'[c] = <<>>
  BY DEF DeamonCloses
<1> QED BY <1>1, HoldsNothing DEF MarksInv, Pending

\* A step makes the queue longer by a mark that does not come again, or up to its limit.
LEMMA LimitStep ==
  ASSUME IInv, MarksInv, LimitInv, [Next]_vars
  PROVE  MarksInv' /\ LimitInv'
<1> USE DEF local, outsideFwd, outsideDeamon, outsideUser, nothingClosed
<1>0. /\ PeerTypes /\ BufferTypes /\ Len(queue') \in Nat
      /\ \A k : Cardinality(Over(k)) \in Nat /\ Cardinality(Over(k)') \in Nat
  <2>1. IInv' BY NextInv
  <2>2. queue \in Seq(Entries) /\ queue' \in Seq(Entries) BY <2>1 DEF IInv, Types, QueueTypes
  <2>3. Len(queue) \in Nat /\ Len(queue') \in Nat BY <2>2, LenIsNat
  <2>4. PeerTypes /\ BufferTypes BY <2>3 DEF IInv, Types, QueueTypes, NetTypes, PeerTypes, BufferTypes
  <2>5. ASSUME NEW k PROVE Cardinality(Over(k)) \in Nat /\ Cardinality(Over(k)') \in Nat
    <3>1. Over(k)' \subseteq Conns BY DEF Over
    <3>2. IsFiniteSet(Over(k)') BY <3>1, FS_Subset
    <3> QED BY <3>2, OverFinite, FS_CardinalityType
  <2> QED BY <2>3, <2>4, <2>5
<1> DEFINE Grows == \A k \in {"hello", "fin"} : Over(k) \subseteq Over(k)'
<1>1. ASSUME Grows, Len(queue') <= Len(queue) \/ Len(queue') <= MaxQueue PROVE LimitInv'
  <2>1. /\ Cardinality(Over("hello")) <= Cardinality(Over("hello")')
        /\ Cardinality(Over("fin")) <= Cardinality(Over("fin")')
    BY <1>1, OverGrows
  <2> QED BY <1>0, <1>1, <2>1 DEF LimitInv, BufferTypes
<1>2. ASSUME Grows, NEW k \in {"hello", "fin"}, NEW c \in Over(k)' \ Over(k), Len(queue') <= Len(queue) + 1
      PROVE  LimitInv'
  <2>1. /\ Cardinality(Over("hello")) <= Cardinality(Over("hello")')
        /\ Cardinality(Over("fin")) <= Cardinality(Over("fin")')
        /\ Cardinality(Over(k)) + 1 <= Cardinality(Over(k)')
    BY <1>2, OverGrows
  <2>2. CASE k = "hello" BY <1>0, <1>2, <2>1, <2>2 DEF LimitInv, BufferTypes
  <2>3. CASE k = "fin" BY <1>0, <1>2, <2>1, <2>3 DEF LimitInv, BufferTypes
  <2> QED BY <2>2, <2>3
<1>3. CASE UNCHANGED <<peer, wire, events>> /\ (queue' = queue \/ (queue # <<>> /\ queue' = Tail(queue)))
  <2>1. MarksInv' /\ Grows BY <1>3, MarksStay
  <2>2. Len(queue') <= Len(queue)
    <3>1. queue # <<>> => Len(Tail(queue)) = Len(queue) - 1 BY <1>0 DEF BufferTypes
    <3> QED BY <1>0, <1>3, <3>1 DEF BufferTypes
  <2> QED BY <1>1, <2>1, <2>2
<1>4. CASE Peers
  <2>1. PICK c \in Conns : PeerConnects(c) \/ PeerIdentifies(c) \/ PeerSends(c) \/ PeerCloses(c) BY <1>4 DEF Peers
  <2>2. UNCHANGED <<events, queue>> BY <2>1 DEF PeerConnects, PeerIdentifies, PeerSends, PeerCloses
  <2>3. PICK m \in Marks \cup {"event"}, n \in 0 .. MaxEvents, p \in {"connecting", "waiting", "open", "closed"} :
          ToWire(c, m, n) /\ peer' = [peer EXCEPT ![c] = p] /\ Fits(c, m, p)
    <3>0. 0 \in 0 .. MaxEvents /\ {"syn", "hello", "fin"} = Marks BY DEF Marks
    <3>1. CASE PeerConnects(c)
      <4>1. ToWire(c, "syn", 0) /\ peer' = [peer EXCEPT ![c] = "connecting"] /\ peer[c] = "away"
        BY <3>1 DEF PeerConnects, Becomes
      <4>2. Fits(c, "syn", "connecting") BY <4>1 DEF Fits, Unsent
      <4> QED BY <3>0, <4>1, <4>2
    <3>2. CASE PeerIdentifies(c)
      <4>1. ToWire(c, "hello", 0) /\ peer' = [peer EXCEPT ![c] = "waiting"] /\ peer[c] = "greeted"
        BY <3>2 DEF PeerIdentifies, Becomes
      <4>2. Fits(c, "hello", "waiting") BY <4>1 DEF Fits, Unsent
      <4> QED BY <3>0, <4>1, <4>2
    <3>3. CASE PeerSends(c)
      <4>1. ToWire(c, "event", sent'[c]) /\ peer' = [peer EXCEPT ![c] = "open"] /\ peer[c] = "open"
        BY <1>0, <3>3 DEF PeerSends, PeerTypes
      <4>2. sent'[c] \in 0 .. MaxEvents BY <3>3 DEF PeerSends, IInv, Types, NetTypes
      <4>3. Fits(c, "event", "open") BY <4>1 DEF Fits, Unsent
      <4> QED BY <4>1, <4>2, <4>3
    <3>4. CASE PeerCloses(c)
      <4>1. ToWire(c, "fin", 0) /\ peer' = [peer EXCEPT ![c] = "closed"]
            /\ peer[c] \in {"connecting", "greeted", "waiting", "open"}
        BY <3>4 DEF PeerCloses, Becomes
      <4>2. Fits(c, "fin", "closed") BY <4>1 DEF Fits, Unsent
      <4> QED BY <3>0, <4>1, <4>2
    <3> QED BY <2>1, <3>1, <3>2, <3>3, <3>4
  <2>4. MarksInv' /\ Grows BY <1>0, <2>2, <2>3, MarkWritten
  <2> QED BY <1>0, <1>1, <2>2, <2>4 DEF BufferTypes
<1>5. CASE Receiving
  <2>1. CASE ReceivingChecks \/ ProcessReturns BY <1>3, <2>1 DEF ReceivingChecks, ProcessReturns
  <2>2. ASSUME NEW c \in Conns, Process(c) PROVE MarksInv' /\ LimitInv'
    <3>1. MarksInv' /\ Grows BY <1>0, <2>2, MarkRead
    <3>2. queue' = queue BY <2>2 DEF Process
    <3> QED BY <1>0, <1>1, <3>1, <3>2 DEF BufferTypes
  <2>3. ASSUME NEW c \in Conns, NEW m, Handling(c, m), UNCHANGED wire,
               \A d \in Conns : \A k \in {"hello", "fin"} : peer'[d] \in Unsent(k) <=> peer[d] \in Unsent(k)
        PROVE  MarksInv' /\ Grows /\ (m \in {"hello", "fin"} => c \in Over(m)' \ Over(m))
    <3>1. events # <<>> BY <2>3 DEF Handling, IInv, ThreadsInv
    <3> QED BY <1>0, <2>3, <3>1, MarkTaken
  <2>4. ASSUME NEW c \in Conns, NEW n \in 0 .. MaxEvents, Push(c, n) PROVE Len(queue') <= Len(queue) + 1
    <3>1. [con |-> c, n |-> n] \in Entries BY DEF Entries
    <3>2. Len(Append(queue, [con |-> c, n |-> n])) = Len(queue) + 1 BY <1>0, <3>1 DEF BufferTypes
    <3> QED BY <1>0, <2>4, <3>2 DEF Push, BufferTypes
  <2>5. ASSUME NEW c \in Conns, HandleConnect(c) PROVE MarksInv' /\ LimitInv'
    <3>1. Handling(c, "syn") /\ UNCHANGED <<wire, queue>> /\ peer' = [peer EXCEPT ![c] = IF @ = "connecting" THEN "greeted" ELSE @]
      BY <2>5 DEF HandleConnect
    <3>2. \A d \in Conns : \A k \in {"hello", "fin"} : peer'[d] \in Unsent(k) <=> peer[d] \in Unsent(k)
      BY <1>0, <3>1 DEF PeerTypes, Unsent
    <3>3. MarksInv' /\ Grows BY <2>3, <3>1, <3>2
    <3> QED BY <1>0, <1>1, <3>1, <3>3 DEF BufferTypes
  <2>6. ASSUME NEW c \in Conns, HandleIdentification(c) PROVE MarksInv' /\ LimitInv'
    <3>1. /\ Handling(c, "hello") /\ UNCHANGED wire /\ Push(c, 0)
          /\ peer' = [peer EXCEPT ![c] = IF @ = "waiting" THEN "open" ELSE @]
      BY <2>6 DEF HandleIdentification
    <3>2. \A d \in Conns : \A k \in {"hello", "fin"} : peer'[d] \in Unsent(k) <=> peer[d] \in Unsent(k)
      BY <1>0, <3>1 DEF PeerTypes, Unsent
    <3>3. MarksInv' /\ Grows /\ c \in Over("hello")' \ Over("hello") BY <2>3, <3>1, <3>2
    <3>4. Len(queue') <= Len(queue) + 1 BY <2>4, <3>1
    <3> QED BY <1>2, <3>3, <3>4
  <2>7. ASSUME NEW c \in Conns, HandleEvent(c) PROVE MarksInv' /\ LimitInv'
    <3>1. Handling(c, "event") /\ UNCHANGED <<wire, peer>> BY <2>7 DEF HandleEvent
    <3>2. MarksInv' /\ Grows BY <2>3, <3>1
    <3> DEFINE q == Append(queue, [con |-> c, n |-> Head(events).n])
    <3>3. queue' = IF Len(q) > MaxQueue THEN Tail(q) ELSE q BY <2>7 DEF HandleEvent
    <3>4. q \in Seq(Entries) /\ Len(q) = Len(queue) + 1 /\ q # <<>>
      <4>1. events # <<>> /\ events \in Seq(Arrived) BY <1>0, <3>1 DEF Handling, IInv, ThreadsInv, BufferTypes
      <4>2. Head(events) \in Arrived BY <4>1
      <4>3. [con |-> c, n |-> Head(events).n] \in Entries BY <4>2 DEF Arrived, Entries
      <4> DEFINE e == [con |-> c, n |-> Head(events).n]
      <4>4. queue \in Seq(Entries) /\ e \in Entries BY <1>0, <4>3 DEF BufferTypes
      <4> HIDE DEF e
      <4> QED BY <4>4 DEF e
    <3> HIDE DEF q
    <3>5. Len(Tail(q)) = Len(q) - 1 BY <3>4
    <3>6. Len(queue') <= Len(queue) \/ Len(queue') <= MaxQueue BY <1>0, <3>3, <3>4, <3>5 DEF BufferTypes
    <3> QED BY <1>1, <3>2, <3>6
  <2>8. ASSUME NEW c \in Conns, HandleDisconnect(c) PROVE MarksInv' /\ LimitInv'
    <3>1. Handling(c, "fin") /\ UNCHANGED <<wire, peer>> /\ (Push(c, 0) \/ queue' = queue)
      BY <2>8 DEF HandleDisconnect
    <3>2. MarksInv' /\ Grows /\ c \in Over("fin")' \ Over("fin") BY <2>3, <3>1
    <3>3. Len(queue') <= Len(queue) + 1 BY <1>0, <2>4, <3>1 DEF BufferTypes
    <3> QED BY <1>2, <3>2, <3>3
  <2> QED BY <1>5, <2>1, <2>2, <2>5, <2>6, <2>7, <2>8 DEF Receiving
<1>6. CASE Forwarding
  <2>1. UNCHANGED <<peer, wire, events>>
    BY <1>6 DEF Forwarding, ForwardingHead, ForwardingNotified, ForwardingTimesOut, ForwardingCalls, ForwardingCleans
  <2>2. queue' = queue \/ (queue # <<>> /\ queue' = Tail(queue))
    BY <1>6 DEF Forwarding, ForwardingHead, ForwardingNotified, ForwardingTimesOut, ForwardingCalls, ForwardingCleans,
       Take, IInv, ThreadsInv
  <2> QED BY <1>3, <2>1, <2>2
<1>7. CASE Deamon
  <2>1. CASE DeamonCloses
    <3>1. MarksInv' /\ Len(queue') = 0 BY <1>0, <2>1, MarksClosed
    <3> QED BY <1>0, <3>1 DEF LimitInv
  <2>2. CASE DeamonWakes \/ DeamonServes \/ DeamonJoins
    BY <1>3, <2>2 DEF DeamonWakes, DeamonServes, DeamonJoins
  <2> QED BY <1>7, <2>1, <2>2 DEF Deamon
<1>8. CASE UNCHANGED vars BY <1>3, <1>8
<1> QED
  BY <1>3, <1>4, <1>5, <1>6, <1>7, <1>8
  DEF Next, CallListen, Listen, CallStopListen, StopListenReturns, StopListenThrows, Destruct, DestructReturns

\* At first nothing is sent and nothing is queued.
LEMMA LimitStarts == Init => MarksInv /\ LimitInv
<1> SUFFICES ASSUME Init PROVE MarksInv /\ LimitInv OBVIOUS
<1>1. MarksInv BY HoldsNothing DEF Init, MarksInv, Pending
<1>2. queue = <<>> BY DEF Init
<1>3. Cardinality(Over("hello")) \in Nat /\ Cardinality(Over("fin")) \in Nat BY OverFinite
<1> QED BY <1>1, <1>2, <1>3 DEF LimitInv

\* The queue of a data server is at its limit but for two marks of each
\* connection, which nothing drops (DataReceiver.cc:46, 91, 102): the types and the
\* bound, for every number of connections and every limit.
THEOREM TypeCorrect == Spec => []TypeOK
<1>1. IInv /\ MarksInv /\ LimitInv => TypeOK
  <2> SUFFICES ASSUME IInv, MarksInv, LimitInv PROVE TypeOK OBVIOUS
  <2>1. /\ Cardinality(Over("hello")) \in Nat /\ Cardinality(Over("hello")) <= Cardinality(Conns)
        /\ Cardinality(Over("fin")) \in Nat /\ Cardinality(Over("fin")) <= Cardinality(Conns)
    BY OverFinite
  <2>2. Cardinality(Conns) \in Nat BY FS_CardinalityType
  <2>3. Len(queue) \in Nat
    <3>1. queue \in Seq(Entries) BY DEF IInv, Types, QueueTypes
    <3> QED BY <3>1, LenIsNat
  <2> QED BY <2>1, <2>2, <2>3 DEF TypeOK, LimitInv, IInv
<1>2. Spec => [](MarksInv /\ LimitInv) BY LimitStarts, LimitStep, Inductive, PTL DEF Spec
<1> QED BY <1>1, <1>2, Inductive, PTL
=============================================================================
