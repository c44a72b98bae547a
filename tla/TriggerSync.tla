---------------------------- MODULE TriggerSync ----------------------------
(***************************************************************************)
(* The DataCollectors that merge events by trigger number:                 *)
(* Ex0TgDataCollector and TriggerIDSyncDataCollector, which are the same   *)
(* code.  An event is its trigger number; a key of the maps is a           *)
(* connection object, so no key is used in two runs.                       *)
(***************************************************************************)
EXTENDS Streams, Functions, FiniteSetsExt

CONSTANT MaxTrigger   \* bound on the trigger number

\* A connection object is of one run.
ASSUME KeysAssumption ==
  "trigger" \in Kinds =>
    \A i, j \in DOMAIN Runs["trigger"] :
      i # j => Runs["trigger"][i] \cap Runs["trigger"][j] = {}
ASSUME TriggerAssumption == MaxTrigger \in Nat

VARIABLES
  evque,     \* m_conn_evque: connection -> the queue of its events
  inactive,  \* m_conn_inactive
  out        \* the events written in this run: trigger and sources

tgVars == <<evque, inactive, out>>
vars   == <<streamVars, tgVars>>

TypeOK ==
  /\ inactive \subseteq Conns
  /\ DOMAIN evque \subseteq Conns
  /\ \A c \in DOMAIN evque : evque[c] \in Seq(1 .. MaxTrigger)
  /\ out \in Seq([tg : 1 .. MaxTrigger, from : SUBSET Conns])

Init ==
  /\ StreamsInit("trigger")
  /\ evque = <<>> /\ inactive = {} /\ out = <<>>

\* m[c] = v, which makes the entry if there is none.
Put(m, c, v) == [d \in DOMAIN m \cup {c} |-> IF d = c THEN v ELSE m[d]]
Queue(c) == IF c \in DOMAIN evque THEN evque[c] ELSE <<>>
-----------------------------------------------------------------------------
Connect(c) ==
  /\ Joins(c)
  /\ evque' = Put(evque, c, <<>>)
  /\ inactive' = inactive \ {c}
  /\ UNCHANGED <<out, thrown>>

\* Mutant: the sizes are compared before the connection is counted.
MutDisconnect(c) ==
  /\ Leaves(c)
  /\ IF Cardinality(inactive) + 1 = Cardinality(DOMAIN evque) - 1
     THEN inactive' = {} /\ evque' = <<>>
     ELSE inactive' = inactive \cup {c} /\ UNCHANGED evque
  /\ UNCHANGED <<out, thrown>>

\* What is left is dropped when the last connection is gone, as far as the
\* sizes of the two maps tell.
Disconnect(c) ==
  /\ Leaves(c)
  /\ IF Cardinality(inactive \cup {c}) = Cardinality(DOMAIN evque)
     THEN inactive' = {} /\ evque' = <<>>
     ELSE inactive' = inactive \cup {c} /\ UNCHANGED evque
  /\ UNCHANGED <<out, thrown>>

Reset ==
  /\ Resets
  /\ evque' = <<>> /\ inactive' = {}
  /\ UNCHANGED out

\* The smallest trigger at the front, and whose front it is.
Fronts(q) == {Head(q[c]) : c \in DOMAIN q}
First(q)  == Min(Fronts(q))

\* Mutant: a queue must have more than one event.
MutComplete(q) == \A c \in DOMAIN q : Len(q[c]) > 1

Complete(q) == \A c \in DOMAIN q : q[c] # <<>>

\* Mutant: every front goes into the event.
MutFrom(q) == DOMAIN q

From(q) == {c \in DOMAIN q : Head(q[c]) = First(q)}

\* An event is built if no queue is empty, once.  Then a disconnected source
\* whose queue has become empty is forgotten.
Receive(c, t) ==
  /\ Sends(c, t)
  /\ LET q    == Put(evque, c, Append(Queue(c), t))
         rest == [d \in DOMAIN q |-> IF d \in From(q) THEN Tail(q[d]) ELSE q[d]]
         over == {d \in inactive \cap DOMAIN q : rest[d] = <<>>}
     IN \/ /\ ~Complete(q)
           /\ evque' = q
           /\ UNCHANGED <<inactive, out>>
        \/ /\ Complete(q)
           /\ evque' = Restrict(rest, DOMAIN q \ over)
           /\ inactive' = inactive \ over
           /\ out' = Append(out, [tg |-> First(q), from |-> From(q)])
  /\ UNCHANGED thrown

\* An event without a trigger number; the exception ends the thread.
ReceiveUntriggered(c) ==
  /\ ~thrown /\ c \in Peers /\ link[c] = "on" /\ "bad" \in env
  /\ thrown' = TRUE
  /\ UNCHANGED <<kind, env, run, link, got, tgVars>>

StartRun ==
  /\ Restarts
  /\ out' = <<>>
  /\ UNCHANGED <<evque, inactive>>

\* The triggers that c may send next: they grow.
Triggers(c) ==
  {t \in 1 .. MaxTrigger : /\ \A u \in got[c] : u < t
                           /\ "gaps" \in env \/ t = Cardinality(got[c]) + 1}

Next ==
  \/ \E c \in Conns : Connect(c) \/ Disconnect(c) \/ ReceiveUntriggered(c)
  \/ \E c \in Conns : \E t \in Triggers(c) : Receive(c, t)
  \/ Reset
  \/ StartRun

Spec == Init /\ [][Next]_vars
-----------------------------------------------------------------------------
(***************************************************************************)
(* Properties.                                                             *)
(***************************************************************************)
LastTrigger == IF out = <<>> THEN 0 ELSE out[Len(out)].tg
Written(c)  == {out[i].tg : i \in {j \in DOMAIN out : c \in out[j].from}}

\* Of every stream exactly the events up to the last written trigger are
\* written, whatever triggers the detectors miss and in whatever order the
\* producers end: no event is lost in the middle of a run, or written late.
PrefixWritten ==
  (kind = "trigger" /\ env \subseteq {"gaps"}) =>
    \A c \in Peers : Written(c) = {t \in got[c] : t <= LastTrigger}

\* Of one connection no event is written twice or before an earlier one,
\* whatever happens to the connections and to the maps.
SourceOrder ==
  kind = "trigger" =>
    \A i, j \in DOMAIN out :
      (i < j /\ out[i].from \cap out[j].from # {}) => out[i].tg < out[j].tg

\* When the connections of a run are gone, nothing of it is left for the
\* next run to wait for or to write.
RunsSeparate ==
  (kind = "trigger" /\ env \subseteq {"gaps", "late"} /\ \A c \in Peers : link[c] = "off")
    => evque = <<>> /\ inactive = {}

\* Without a missed trigger nothing waits: while all producers are there, one
\* queue is empty, so what can be merged is merged.
Prompt ==
  (kind = "trigger" /\ env = {} /\ Peers # {} /\ \A c \in Peers : link[c] = "on")
    => \E c \in Peers : evque[c] = <<>>
=============================================================================
