---------------------------- MODULE EventIDSync ----------------------------
(***************************************************************************)
(* EventIDSyncDataCollector: the i-th events of all producers are put      *)
(* together.  An event is its event number; the map is keyed by the name   *)
(* of the producer, which is the same in every run.                        *)
(***************************************************************************)
EXTENDS Streams, Functions

CONSTANT MaxEventN   \* bound on the event number

VARIABLES
  que,   \* m_que_event: producer -> the queue of its events
  out    \* the events written in this run: producer -> its sub-event

vars == <<streamVars, que, out>>

TypeOK ==
  /\ DOMAIN que \subseteq Conns
  /\ \A c \in DOMAIN que : que[c] \in Seq(1 .. MaxEventN)

Init ==
  /\ StreamsInit("eventid")
  /\ que = <<>> /\ out = <<>>

Put(m, c, v) == [d \in DOMAIN m \cup {c} |-> IF d = c THEN v ELSE m[d]]
Queue(c) == IF c \in DOMAIN que THEN que[c] ELSE <<>>
-----------------------------------------------------------------------------
\* A name that is already there ends the forwarding thread.
Connect(c) ==
  /\ Joins(c)
  /\ \/ c \in DOMAIN que /\ thrown' = TRUE /\ UNCHANGED que
     \/ c \notin DOMAIN que /\ que' = Put(que, c, <<>>) /\ UNCHANGED thrown
  /\ UNCHANGED out

\* Mutant: the entry is emptied and stays.
MutDisconnect(c) ==
  /\ Leaves(c)
  /\ que' = Put(que, c, <<>>)
  /\ UNCHANGED <<out, thrown>>

\* So does a name that is not there.
Disconnect(c) ==
  /\ Leaves(c)
  /\ \/ c \notin DOMAIN que /\ thrown' = TRUE /\ UNCHANGED que
     \/ c \in DOMAIN que /\ que' = Restrict(que, DOMAIN que \ {c}) /\ UNCHANGED thrown
  /\ UNCHANGED out

\* Mutant: only the queues with the smallest number lose their front.
MutReceive(c, n) ==
  /\ Sends(c, n)
  /\ LET q == Put(que, c, Append(Queue(c), n))
     IN \/ /\ \E d \in DOMAIN q : q[d] = <<>>
           /\ que' = q
           /\ UNCHANGED out
        \/ /\ \A d \in DOMAIN q : q[d] # <<>>
           /\ que' = [d \in DOMAIN q |->
                        IF \A e \in DOMAIN q : Head(q[d]) <= Head(q[e])
                        THEN Tail(q[d]) ELSE q[d]]
           /\ out' = Append(out, [d \in DOMAIN q |-> Head(q[d])])
  /\ UNCHANGED thrown

\* Different numbers are only warned about.
Receive(c, n) ==
  /\ Sends(c, n)
  /\ LET q == Put(que, c, Append(Queue(c), n))
     IN \/ /\ \E d \in DOMAIN q : q[d] = <<>>
           /\ que' = q
           /\ UNCHANGED out
        \/ /\ \A d \in DOMAIN q : q[d] # <<>>
           /\ que' = [d \in DOMAIN q |-> Tail(q[d])]
           /\ out' = Append(out, [d \in DOMAIN q |-> Head(q[d])])
  /\ UNCHANGED thrown

\* DoStartRun empties the queues and keeps the names.
StartRun ==
  /\ Restarts
  /\ que' = [c \in DOMAIN que |-> <<>>]
  /\ out' = <<>>

Numbers(c) ==
  {n \in 1 .. MaxEventN : /\ \A m \in got[c] : m < n
                          /\ "gaps" \in env \/ n = Cardinality(got[c]) + 1}

Next ==
  \/ \E c \in Conns : Connect(c) \/ Disconnect(c)
  \/ \E c \in Conns : \E n \in Numbers(c) : Receive(c, n)
  \/ StartRun

Spec == Init /\ [][Next]_vars
-----------------------------------------------------------------------------
\* The position of event n in the stream of producer c.
Position(c, n) == Cardinality({m \in got[c] : m <= n})

\* What is merged is at the same position in every stream, also after a
\* producer has left and whatever the event numbers are.
SamePosition ==
  (kind = "eventid" /\ env \subseteq {"gaps", "reset"}) =>
    \A i \in DOMAIN out : \A c, d \in DOMAIN out[i] :
      Position(c, out[i][c]) = Position(d, out[i][d])

\* As long as each connection is announced and its end is told, no producer
\* is refused for its name: the map names the connections of this run.
NamesFollow ==
  (kind = "eventid" /\ env \cap {"ghost", "lost"} = {}) =>
    /\ ~thrown
    /\ DOMAIN que = {c \in Peers : link[c] = "on"}
=============================================================================
