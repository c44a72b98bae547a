------------------------------ MODULE PairSync ------------------------------
(***************************************************************************)
(* CaliceDataCollector: events of two producers, known by their names, are *)
(* paired by trigger number.  An event is its trigger number.              *)
(***************************************************************************)
EXTENDS Streams

CONSTANTS
  Bif, Cal,      \* the producers of the BIF and of the AHCAL
  MaxTrigger     \* bound on the trigger number

VARIABLES
  que,    \* m_que_bif and m_que_cal
  out     \* the triggers written in this run

vars == <<streamVars, que, out>>

Init ==
  /\ StreamsInit("pair")
  /\ que = [c \in {Bif, Cal} |-> <<>>] /\ out = <<>>

\* The loop of DoReceive has ended.
AtRest == \E c \in {Bif, Cal} : que[c] = <<>>

Connect(c)    == AtRest /\ Joins(c) /\ UNCHANGED <<que, out, thrown>>
Disconnect(c) == AtRest /\ Leaves(c) /\ UNCHANGED <<que, out, thrown>>

\* The plain names: "Calice1" and "caliceahcalbifProducer".
Known(c) == c \in {Bif, Cal} /\ GetName(c) = <<c>>

\* Events of a producer with another name are ignored.
Receive(c, t) ==
  /\ AtRest /\ Sends(c, t)
  /\ que' = IF Known(c) THEN [que EXCEPT ![c] = Append(@, t)] ELSE que
  /\ UNCHANGED <<out, thrown>>

\* Mutant: the side with the larger trigger loses its front.
MutSkip(b, c) == IF b > c THEN {Bif} ELSE {Cal}

\* Of two different triggers the smaller has no partner.
Skip(b, c) == IF b > c THEN {Cal} ELSE {Bif}

\* One round of the loop.
Pair ==
  /\ ~AtRest
  /\ LET b == Head(que[Bif])
         c == Head(que[Cal])
         S == IF b = c THEN {Bif, Cal} ELSE Skip(b, c)
     IN /\ que' = [d \in {Bif, Cal} |-> IF d \in S THEN Tail(que[d]) ELSE que[d]]
        /\ out' = IF b = c THEN Append(out, b) ELSE out
  /\ UNCHANGED streamVars

StartRun ==
  /\ AtRest /\ Restarts
  /\ que' = [c \in {Bif, Cal} |-> <<>>]
  /\ out' = <<>>

Triggers(c) ==
  {t \in 1 .. MaxTrigger : /\ \A u \in got[c] : u < t
                           /\ "gaps" \in env \/ t = Cardinality(got[c]) + 1}

Next ==
  \/ \E c \in Conns : Connect(c) \/ Disconnect(c)
  \/ \E c \in Conns : \E t \in Triggers(c) : Receive(c, t)
  \/ Pair
  \/ StartRun

Spec == Init /\ [][Next]_vars
-----------------------------------------------------------------------------
\* Exactly the triggers that both producers delivered are written, in order:
\* none is skipped for one that only one of them has, whoever is ahead.  Of
\* producers with other names nothing is written.
PairsComplete ==
  (kind = "pair" /\ AtRest) =>
    /\ {out[i] : i \in DOMAIN out} = {t \in got[Bif] \cap got[Cal] : Known(Bif) /\ Known(Cal)}
    /\ \A i, j \in DOMAIN out : i < j => out[i] < out[j]
=============================================================================
