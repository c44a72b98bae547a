------------------------------ MODULE Streams ------------------------------
(***************************************************************************)
(* What a synchronising DataCollector is fed with: the callbacks OnConnect, *)
(* OnReceive and OnDisconnect that the forwarding thread of its data        *)
(* receiver makes (DataReceiver.tla), run after run.  Callbacks come one    *)
(* at a time; those of one connection are in order, those of different      *)
(* connections interleave as the network and the producers please.          *)
(***************************************************************************)
EXTENDS Naturals, Sequences, FiniteSets

CONSTANTS
  Kinds,  \* the collectors
  Conns,  \* the connections, or the names by which a collector knows them
  Runs,   \* collector -> the connections of each run
  Envs    \* collector -> the sets of mishaps that are explored, one at a time

AllMishaps ==
  { "gaps",    \* a detector misses triggers
    "late",    \* a connection is made when others have already sent
    "ghost",   \* the mark of a new connection is read when the connection is
               \* closed, and taken for its end: DataReceiver.cc:146
    "lost",    \* the marks of a run are dropped when StopListen is called
    "reset",   \* DoReset: OnReset calls it before StopListen
    "full",    \* a queue reaches its limit
    "bad",     \* events that the collector does not expect
    "prefixed" }  \* the producers were started under names with their type

ASSUME StreamsAssumption ==
  /\ IsFiniteSet(Conns)
  /\ Runs \in [Kinds -> Seq(SUBSET Conns) \ {<<>>}]
  /\ Envs \in [Kinds -> SUBSET SUBSET AllMishaps]

VARIABLES
  kind,    \* the collector that is fed
  env,     \* the mishaps of this behaviour
  run,     \* the number of the run
  link,    \* connection -> "new", "on", "ghost", "off"
  got,     \* connection -> the events it delivered in this run
  thrown   \* a callback threw: the forwarding thread is dead for this run

streamVars == <<kind, env, run, link, got, thrown>>

StreamsInit(k) ==
  /\ kind = k
  /\ env \in Envs[k]
  /\ run = 1
  /\ link = [c \in Conns |-> "new"]
  /\ got = [c \in Conns |-> {}]
  /\ thrown = FALSE

Peers == Runs[kind][run]

\* A producer sends its type and the name that it was started under, and only
\* the name is kept for GetName.
GetName(c) == IF "prefixed" \in env THEN <<"Producer", c>> ELSE <<c>>

\* Producers open their connections in DoStartRun, before they send; the
\* run control does not wait for one before it starts the next.
Joins(c) ==
  /\ ~thrown /\ c \in Peers /\ link[c] = "new"
  /\ "late" \in env \/ \A d \in Peers : link[d] \in {"new", "on"} /\ got[d] = {}
  /\ link' = [link EXCEPT ![c] = "on"]
  /\ UNCHANGED <<kind, env, run, got>>

Sends(c, e) ==
  /\ ~thrown /\ c \in Peers /\ link[c] \in {"on", "ghost"}
  /\ "late" \in env \/ \A d \in Peers : link[d] # "new"
  /\ got' = [got EXCEPT ![c] = @ \cup {e}]
  /\ UNCHANGED <<kind, env, run, link>>

\* The events of a ghost are delivered after OnDisconnect, and then it is
\* called again.
Leaves(c) ==
  /\ ~thrown /\ c \in Peers
  /\ \/ link[c] \in {"on", "ghost"} /\ link' = [link EXCEPT ![c] = "off"]
     \/ link[c] = "new" /\ "ghost" \in env /\ link' = [link EXCEPT ![c] = "ghost"]
  /\ UNCHANGED <<kind, env, run, got>>

\* OnReset, while the connections are still there.
Resets ==
  /\ ~thrown /\ "reset" \in env
  /\ UNCHANGED streamVars

\* The next run has connections of its own, by the same producers.
Restarts ==
  /\ run < Len(Runs[kind])
  /\ "lost" \in env \/ thrown \/ \A c \in Peers : link[c] \notin {"on", "ghost"}
  /\ run' = run + 1
  /\ link' = [c \in Conns |-> "new"]
  /\ got' = [c \in Conns |-> {}]
  /\ thrown' = FALSE
  /\ UNCHANGED <<kind, env>>
=============================================================================
