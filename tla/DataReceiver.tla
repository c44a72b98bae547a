----------------------------- MODULE DataReceiver -----------------------------
(***************************************************************************)
(* The data server inside a DataCollector or a Monitor.                    *)
(*                                                                         *)
(*   user thread        Listen, StopListen and the destructor, called by   *)
(*                      the On* handlers (see CommandReceiver.tla)         *)
(*   receiving thread   AsyncReceiving: Process, then DataHandler for each *)
(*                      transport event                                    *)
(*   forwarding thread  AsyncForwarding: m_qu_ev -> OnConnect, OnReceive,  *)
(*                      OnDisconnect                                       *)
(*   deamon thread      joins the two threads and closes the server        *)
(*                                                                         *)
(* The DataSenders at the other end of the sockets are external: they      *)
(* connect, wait for the greeting, identify themselves, wait for the OK,   *)
(* send events and close.  An event is its number on its connection.       *)
(***************************************************************************)
EXTENDS Integers, Sequences, SequencesExt, FiniteSets

CONSTANTS
  Conns,        \* the connections, each made at most once
  MaxEvents,    \* bound on the events sent on a connection
  MaxQueue,     \* the limit of m_qu_ev, 50000 in the code
  MaxBatch,     \* bound on the events of one ProcessEvents
  MaxSessions,  \* bound on the successful calls of Listen
  Faults        \* what may happen: a subset of AllFaults

AllFaults == {"close",  \* a sender closes before the server is stopped
              "early",  \* a sender closes before it was identified
              "user"}   \* OnConnect, OnReceive or OnDisconnect throws

ASSUME ConnsAssumption == IsFiniteSet(Conns) /\ "none" \notin Conns
ASSUME BoundAssumption == /\ MaxEvents \in Nat /\ MaxQueue \in Nat \ {0}
                          /\ MaxBatch \in Nat \ {0} /\ MaxSessions \in Nat
ASSUME FaultsAssumption == Faults \subseteq AllFaults

VARIABLES
  user,         \* the user thread: in which call it is
  answer,       \* how its last call ended
  session,      \* the number of servers made so far
  server,       \* m_dataserver is not null
  listening,    \* m_is_listening
  rcvReturned,  \* m_is_async_rcv_return
  destructing,  \* m_is_destructing
  rcv, fwd,     \* the two threads; "none": its future is not valid
  deamon,       \* it holds m_mx_deamon unless "none", "sleep" or "done"
  events,       \* m_events of the server
  queue,        \* m_qu_ev; n = 0 is the null event of a connection mark
  item,         \* what the forwarding thread popped
  woken,        \* the forwarding thread was notified while it waited
  known,        \* m_vt_con
  state,        \* connection -> its m_state
  peer, wire,   \* connection -> its sender, what is in the socket
  sent, born,   \* connection -> events sent, session it belongs to
  log           \* connection -> the callbacks made for it

threads == <<rcv, fwd, deamon>>
flags   == <<listening, rcvReturned, destructing>>
calls   == <<user, answer, session>>
net     == <<peer, wire, sent, born>>
vars    == <<calls, server, flags, threads, events, queue, item, woken, known,
             state, net, log>>

Nobody == [con |-> "none", n |-> 0]
Marks  == {"syn", "hello", "fin"}
Calls  == {"connect", "receive", "disconnect"}
Packets == [k : Marks \cup {"event"}, n : 0 .. MaxEvents]
Arrived == [con : Conns, k : Marks \cup {"event"}, n : 0 .. MaxEvents]
Entries == [con : Conns, n : 0 .. MaxEvents]

ControlTypes ==
  /\ user \in {"idle", "listen", "stopping", "destroying", "gone"}
  /\ answer \in {"stopped", "gaveup", "served", "refused"}
  /\ session \in 0 .. MaxSessions
  /\ server \in BOOLEAN /\ listening \in BOOLEAN /\ rcvReturned \in BOOLEAN
  /\ destructing \in BOOLEAN /\ woken \in BOOLEAN
  /\ rcv \in {"none", "check", "process", "handle", "returned", "threw"}
  /\ fwd \in {"none", "head", "wait", "call", "clean", "returned", "threw"}
  /\ deamon \in {"none", "sleep", "serve_rcv", "serve_fwd", "stop_rcv",
                 "stop_fwd", "close", "done"}

QueueTypes ==
  /\ events \in Seq(Arrived)
  /\ queue \in Seq(Entries)
  /\ item = Nobody \/ item \in Entries
  /\ known \subseteq Conns
  /\ state \in [Conns -> {0, 1}]
  /\ log \in [Conns -> Seq([k : Calls, n : 0 .. MaxEvents])]

NetTypes ==
  /\ peer \in [Conns -> {"away", "connecting", "greeted", "waiting", "open", "closed"}]
  /\ wire \in [Conns -> Seq(Packets)]
  /\ sent \in [Conns -> 0 .. MaxEvents]
  /\ born \in [Conns -> 0 .. MaxSessions]

Types == ControlTypes /\ QueueTypes /\ NetTypes

\* Only events are refused by a full queue: marks come on top of it.
TypeOK == Types /\ Len(queue) <= MaxQueue + 2 * Cardinality(Conns)

Init ==
  /\ user = "idle" /\ answer = "stopped" /\ session = 0
  /\ server = FALSE
  /\ listening = FALSE /\ rcvReturned = FALSE /\ destructing = FALSE
  /\ rcv = "none" /\ fwd = "none" /\ deamon = "none"
  /\ events = <<>> /\ queue = <<>> /\ item = Nobody /\ woken = FALSE
  /\ known = {}
  /\ state = [c \in Conns |-> 0]
  /\ peer = [c \in Conns |-> "away"]
  /\ wire = [c \in Conns |-> <<>>]
  /\ sent = [c \in Conns |-> 0]
  /\ born = [c \in Conns |-> 0]
  /\ log = [c \in Conns |-> <<>>]
-----------------------------------------------------------------------------
(***************************************************************************)
(* The senders.                                                            *)
(***************************************************************************)
ToWire(c, k, n) == wire' = [wire EXCEPT ![c] = Append(@, [k |-> k, n |-> n])]
Becomes(c, p)   == peer' = [peer EXCEPT ![c] = p]
local == <<calls, server, flags, threads, events, queue, item, woken, known,
           state, log>>

PeerConnects(c) ==
  /\ peer[c] = "away" /\ server
  /\ Becomes(c, "connecting") /\ ToWire(c, "syn", 0)
  /\ born' = [born EXCEPT ![c] = session]
  /\ UNCHANGED <<sent, local>>

PeerIdentifies(c) ==
  /\ peer[c] = "greeted"
  /\ Becomes(c, "waiting") /\ ToWire(c, "hello", 0)
  /\ UNCHANGED <<sent, born, local>>

PeerSends(c) ==
  /\ peer[c] = "open" /\ sent[c] < MaxEvents
  /\ sent' = [sent EXCEPT ![c] = @ + 1]
  /\ ToWire(c, "event", sent'[c])
  /\ UNCHANGED <<peer, born, local>>

PeerCloses(c) ==
  /\ \/ peer[c] = "open" /\ "close" \in Faults
     \/ peer[c] \in {"connecting", "greeted", "waiting"} /\ "early" \in Faults
  /\ Becomes(c, "closed") /\ ToWire(c, "fin", 0)
  /\ UNCHANGED <<sent, born, local>>
-----------------------------------------------------------------------------
(***************************************************************************)
(* The receiving thread.                                                   *)
(***************************************************************************)
\* Mutant: the end of the thread is not announced.
MutSilentReturn ==
  /\ rcv = "check"
  /\ rcv' = IF listening THEN "process" ELSE "returned"
  /\ UNCHANGED <<calls, server, flags, fwd, deamon, events, queue, item, woken,
                 known, state, net, log>>

ReceivingChecks ==
  /\ rcv = "check"
  /\ rcv' = IF listening THEN "process" ELSE "returned"
  /\ rcvReturned' = ~listening
  /\ UNCHANGED <<calls, server, listening, destructing, fwd, deamon, events,
                 queue, item, woken, known, state, net, log>>

\* ProcessEvents: accept, or recv on a socket that is ready.
Process(c) ==
  /\ rcv = "process" /\ wire[c] # <<>> /\ Len(events) < MaxBatch
  /\ events' = Append(events, [con |-> c, k |-> Head(wire[c]).k,
                                          n |-> Head(wire[c]).n])
  /\ wire' = [wire EXCEPT ![c] = Tail(@)]
  /\ UNCHANGED <<calls, server, flags, threads, queue, item, woken, known,
                 state, peer, sent, born, log>>

\* It times out only when nothing is there to read.
ProcessReturns ==
  /\ rcv = "process"
  /\ \/ events # <<>> /\ rcv' = "handle"
     \/ events = <<>> /\ (\A c \in Conns : wire[c] = <<>>) /\ rcv' = "check"
  /\ UNCHANGED <<calls, server, flags, fwd, deamon, events, queue, item, woken,
                 known, state, net, log>>

\* DataHandler takes the first transport event.
Handling(c, k) ==
  /\ rcv = "handle" /\ Head(events).con = c /\ Head(events).k = k
  /\ events' = Tail(events)

NextEvent == rcv' = IF Tail(events) = <<>> THEN "check" ELSE "handle"

\* Push to m_qu_ev and notify.
Push(c, n) ==
  /\ queue' = Append(queue, [con |-> c, n |-> n])
  /\ woken' = (fwd = "wait")

HandleConnect(c) ==
  /\ Handling(c, "syn") /\ NextEvent
  /\ peer' = [peer EXCEPT ![c] = IF @ = "connecting" THEN "greeted" ELSE @]
  /\ UNCHANGED <<calls, server, flags, fwd, deamon, queue, item, woken, known,
                 state, wire, sent, born, log>>

HandleIdentification(c) ==
  /\ Handling(c, "hello") /\ NextEvent
  /\ peer' = [peer EXCEPT ![c] = IF @ = "waiting" THEN "open" ELSE @]
  /\ state' = [state EXCEPT ![c] = 1]
  /\ known' = known \cup {c}
  /\ Push(c, 0)
  /\ UNCHANGED <<calls, server, flags, fwd, deamon, item, wire, sent, born, log>>

\* Mutant: a full queue drops the event that has just arrived.
MutDropNewest(c) ==
  /\ Handling(c, "event") /\ NextEvent
  /\ queue' = IF Len(queue) >= MaxQueue THEN queue
              ELSE Append(queue, [con |-> c, n |-> Head(events).n])
  /\ woken' = (fwd = "wait")
  /\ UNCHANGED <<calls, server, flags, fwd, deamon, item, known, state, net, log>>

\* Mutant: the event is put at the front of the queue.
MutPushFront(c) ==
  /\ Handling(c, "event") /\ NextEvent
  /\ queue' = <<[con |-> c, n |-> Head(events).n]>> \o queue
  /\ woken' = (fwd = "wait")
  /\ UNCHANGED <<calls, server, flags, fwd, deamon, item, known, state, net, log>>

\* Mutant: the queue has no limit.
MutNoLimit(c) ==
  /\ Handling(c, "event") /\ NextEvent
  /\ Push(c, Head(events).n)
  /\ UNCHANGED <<calls, server, flags, fwd, deamon, item, known, state, net, log>>

\* A full queue drops its oldest entry.
HandleEvent(c) ==
  /\ Handling(c, "event") /\ NextEvent
  /\ LET q == Append(queue, [con |-> c, n |-> Head(events).n])
     IN queue' = IF Len(q) > MaxQueue THEN Tail(q) ELSE q
  /\ woken' = (fwd = "wait")
  /\ UNCHANGED <<calls, server, flags, fwd, deamon, item, known, state, net, log>>

\* "Unrecognised Connection": the exception ends the thread before it could
\* set m_is_async_rcv_return.
HandleDisconnect(c) ==
  /\ Handling(c, "fin")
  /\ state' = [state EXCEPT ![c] = 0]
  /\ known' = known \ {c}
  /\ \/ c \in known /\ Push(c, 0) /\ NextEvent
     \/ c \notin known /\ rcv' = "threw" /\ UNCHANGED <<queue, woken>>
  /\ UNCHANGED <<calls, server, flags, fwd, deamon, item, net, log>>

Receiving ==
  \/ ReceivingChecks \/ ProcessReturns
  \/ \E c \in Conns : \/ Process(c) \/ HandleConnect(c) \/ HandleIdentification(c)
                      \/ HandleEvent(c) \/ HandleDisconnect(c)
-----------------------------------------------------------------------------
(***************************************************************************)
(* The forwarding thread.                                                  *)
(***************************************************************************)
outsideFwd == <<calls, server, flags, rcv, deamon, events, state, net>>

Take ==
  /\ item' = Head(queue) /\ queue' = Tail(queue)
  /\ fwd' = "call"

ForwardingHead ==
  /\ fwd = "head" /\ woken' = FALSE
  /\ \/ rcvReturned /\ fwd' = "clean" /\ UNCHANGED <<queue, item>>
     \/ ~rcvReturned /\ queue = <<>> /\ fwd' = "wait" /\ UNCHANGED <<queue, item>>
     \/ ~rcvReturned /\ queue # <<>> /\ Take
  /\ UNCHANGED <<known, log, outsideFwd>>

ForwardingNotified ==
  /\ fwd = "wait" /\ woken /\ woken' = FALSE
  /\ Take
  /\ UNCHANGED <<known, log, outsideFwd>>

\* wait_for reports a timeout also when a notification came as it expired;
\* the inner loop then waits again without a look at the queue.
ForwardingTimesOut ==
  /\ fwd = "wait" /\ woken' = FALSE
  /\ fwd' = IF rcvReturned THEN "clean" ELSE "wait"
  /\ UNCHANGED <<queue, item, known, log, outsideFwd>>

\* The mark does not say what it stands for: the state of the connection at
\* this moment does.
Callback(i) ==
  [k |-> IF i.n > 0 THEN "receive"
         ELSE IF state[i.con] = 1 THEN "connect" ELSE "disconnect",
   n |-> i.n]

ForwardingCalls ==
  /\ fwd = "call"
  /\ log' = [log EXCEPT ![item.con] = Append(@, Callback(item))]
  /\ item' = Nobody
  /\ fwd' \in {"head"} \cup (IF "user" \in Faults THEN {"threw"} ELSE {})
  /\ UNCHANGED <<queue, woken, known, outsideFwd>>

LogDisconnect(S) ==
  log' = [c \in Conns |-> IF c \in S THEN Append(log[c], [k |-> "disconnect", n |-> 0])
                          ELSE log[c]]

\* Mutant: the connections that are left are dropped without a callback.
MutSilentCleanup ==
  /\ fwd = "clean" /\ known' = {} /\ fwd' = "returned"
  /\ UNCHANGED <<log, queue, item, woken, outsideFwd>>

\* OnDisconnect for the connections that are left, then clear.
ForwardingCleans ==
  /\ fwd = "clean"
  /\ \/ LogDisconnect(known) /\ known' = {} /\ fwd' = "returned"
     \/ /\ "user" \in Faults
        /\ \E S \in SUBSET known \ {{}} : LogDisconnect(S)
        /\ fwd' = "threw" /\ UNCHANGED known
  /\ UNCHANGED <<queue, item, woken, outsideFwd>>

Forwarding == ForwardingHead \/ ForwardingNotified \/ ForwardingTimesOut
                \/ ForwardingCalls \/ ForwardingCleans
-----------------------------------------------------------------------------
(***************************************************************************)
(* The deamon thread.                                                      *)
(***************************************************************************)
outsideDeamon == <<calls, rcvReturned, destructing, item, woken, known, state,
                   sent, born, log>>
nothingClosed == <<server, events, queue, peer, wire>>

Released == IF destructing THEN "done" ELSE "sleep"

\* Mutant: on its way out the deamon leaves m_is_listening alone.
MutExitsListening ==
  /\ deamon = "sleep"
  /\ deamon' = IF listening /\ ~destructing THEN "serve_rcv" ELSE "stop_rcv"
  /\ UNCHANGED <<listening, rcv, fwd, nothingClosed, outsideDeamon>>

DeamonWakes ==
  /\ deamon = "sleep"
  /\ deamon' = IF listening /\ ~destructing THEN "serve_rcv" ELSE "stop_rcv"
  /\ listening' = (listening /\ ~destructing)
  /\ UNCHANGED <<rcv, fwd, nothingClosed, outsideDeamon>>

\* While the server runs, threads that ended are collected.
DeamonServes ==
  /\ \/ /\ deamon = "serve_rcv" /\ UNCHANGED fwd
        /\ \/ /\ rcv \in {"returned", "threw"} /\ rcv' = "none"
              /\ deamon' = IF rcv = "threw" THEN "sleep" ELSE "serve_fwd"
           \/ /\ rcv \notin {"returned", "threw"} /\ UNCHANGED rcv
              /\ deamon' = "serve_fwd"
     \/ /\ deamon = "serve_fwd" /\ deamon' = "sleep" /\ UNCHANGED rcv
        /\ fwd' = IF fwd \in {"returned", "threw"} THEN "none" ELSE fwd
  /\ UNCHANGED <<listening, nothingClosed, outsideDeamon>>

\* Otherwise they are waited for; an exception skips what follows.
DeamonJoins ==
  /\ \/ /\ deamon = "stop_rcv" /\ rcv \in {"none", "returned", "threw"}
        /\ rcv' = "none" /\ UNCHANGED fwd
        /\ deamon' = IF rcv = "threw" THEN Released ELSE "stop_fwd"
     \/ /\ deamon = "stop_fwd" /\ fwd \in {"none", "returned", "threw"}
        /\ fwd' = "none" /\ UNCHANGED rcv
        /\ deamon' = IF fwd = "threw" THEN Released ELSE "close"
  /\ UNCHANGED <<listening, nothingClosed, outsideDeamon>>

\* Mutant: the queue keeps what was not forwarded.
MutKeepsQueue ==
  /\ deamon = "close" /\ deamon' = Released
  /\ server' = FALSE /\ events' = <<>>
  /\ wire' = [c \in Conns |-> <<>>]
  /\ peer' = [c \in Conns |-> IF peer[c] = "away" THEN "away" ELSE "closed"]
  /\ UNCHANGED <<queue, listening, rcv, fwd, outsideDeamon>>

\* Drop what is still queued, close the server and with it every socket.
DeamonCloses ==
  /\ deamon = "close" /\ deamon' = Released
  /\ queue' = <<>>
  /\ server' = FALSE /\ events' = <<>>
  /\ wire' = [c \in Conns |-> <<>>]
  /\ peer' = [c \in Conns |-> IF peer[c] = "away" THEN "away" ELSE "closed"]
  /\ UNCHANGED <<listening, rcv, fwd, outsideDeamon>>

Deamon == DeamonWakes \/ DeamonServes \/ DeamonJoins \/ DeamonCloses
-----------------------------------------------------------------------------
(***************************************************************************)
(* The user thread.                                                        *)
(***************************************************************************)
outsideUser == <<queue, item, woken, events, known, state, net, log>>

CallListen ==
  /\ user = "idle" /\ session < MaxSessions
  /\ user' = "listen"
  /\ UNCHANGED <<answer, session, server, flags, threads, outsideUser>>

\* Listen takes m_mx_deamon, which the deamon leaves only to sleep.
Listen ==
  /\ user = "listen" /\ user' = "idle" /\ deamon \in {"none", "sleep"}
  /\ deamon' = "sleep"
  /\ \/ /\ server /\ answer' = "refused"
        /\ UNCHANGED <<session, server, flags, rcv, fwd>>
     \/ /\ ~server /\ answer' = "served"
        /\ session' = session + 1 /\ server' = TRUE
        /\ listening' = TRUE /\ rcvReturned' = FALSE
        /\ rcv' = "check" /\ fwd' = "head"
        /\ UNCHANGED destructing
  /\ UNCHANGED outsideUser

CallStopListen ==
  /\ user = "idle" /\ user' = "stopping"
  /\ listening' = FALSE
  /\ UNCHANGED <<answer, session, server, rcvReturned, destructing, threads, outsideUser>>

StopListenReturns ==
  /\ user = "stopping" /\ rcv = "none" /\ fwd = "none"
  /\ user' = "idle" /\ answer' = "stopped"
  /\ UNCHANGED <<session, server, flags, threads, outsideUser>>

\* Ten seconds passed.
StopListenThrows ==
  /\ user = "stopping" /\ ~(rcv = "none" /\ fwd = "none")
  /\ user' = "idle" /\ answer' = "gaveup"
  /\ UNCHANGED <<session, server, flags, threads, outsideUser>>

Destruct ==
  /\ user = "idle" /\ user' = "destroying"
  /\ destructing' = TRUE
  /\ UNCHANGED <<answer, session, server, listening, rcvReturned, threads, outsideUser>>

DestructReturns ==
  /\ user = "destroying" /\ deamon \in {"none", "done"}
  /\ user' = "gone"
  /\ UNCHANGED <<answer, session, server, flags, threads, outsideUser>>
-----------------------------------------------------------------------------
Peers == \E c \in Conns : \/ PeerConnects(c) \/ PeerIdentifies(c)
                          \/ PeerSends(c) \/ PeerCloses(c)

Next ==
  \/ Peers \/ Receiving \/ Forwarding \/ Deamon
  \/ CallListen \/ Listen \/ CallStopListen \/ StopListenReturns
  \/ StopListenThrows \/ Destruct \/ DestructReturns

\* Every thread of the process runs and the user's callbacks return.  The
\* deamon sleeps 200 ms without the mutex, so that Listen gets its turn.
Fairness ==
  /\ WF_vars(Receiving) /\ WF_vars(Forwarding) /\ WF_vars(Deamon)
  /\ SF_vars(Listen)
  /\ WF_vars(StopListenReturns) /\ WF_vars(DestructReturns)

Spec == Init /\ [][Next]_vars
FairSpec == Spec /\ Fairness
-----------------------------------------------------------------------------
(***************************************************************************)
(* Properties.                                                             *)
(***************************************************************************)
InSession(c)  == server /\ born[c] = session

\* Where an event of c can be: with the callbacks, in m_qu_ev, in m_events and
\* in the socket.
Received == [k : {"receive"}, n : 1 .. MaxEvents]
Queued   == [c \in Conns |-> [con : {c}, n : 1 .. MaxEvents]]
Batched  == [c \in Conns |-> [con : {c}, k : {"event"}, n : 1 .. MaxEvents]]
Sent     == [k : {"event"}, n : 1 .. MaxEvents]

\* The elements of s that are in S are in order, and none is later than hi.
Rising(s, S, hi) ==
  \A i \in DOMAIN s : s[i] \in S =>
    s[i].n <= hi /\ \A j \in 1 .. i - 1 : s[j] \in S => s[j].n < s[i].n

\* They are lo + 1 .. hi, in order.
Carries(s, S, lo, hi) ==
  /\ lo <= hi
  /\ \A n \in lo + 1 .. hi : \E i \in DOMAIN s : s[i] \in S /\ s[i].n = n
  /\ \A i \in DOMAIN s : s[i] \in S => lo < s[i].n
  /\ Rising(s, S, hi)

\* The events of c after the first t are on their way, in order: up to q in
\* the queue, up to a in the event list, the others in the socket.
OnTheWay(c, t) ==
  \E q \in t .. sent[c] :
    /\ Carries(queue, Queued[c], t, q)
    /\ \E a \in q .. sent[c] :
         Carries(events, Batched[c], q, a) /\ Carries(wire[c], Sent, a, sent[c])

\* The first t were taken by the forwarding thread, which may hold the last.
AllTaken(c, t) ==
  IF item \in Queued[c] THEN item.n = t /\ Carries(log[c], Received, 0, t - 1)
  ELSE Carries(log[c], Received, 0, t)

\* Of the first t some were taken, in order.
SomeTaken(c, t) ==
  IF item \in Queued[c] THEN item.n <= t /\ Rising(log[c], Received, item.n - 1)
  ELSE Rising(log[c], Received, t)

\* While the server is open every event that a sender handed over is either
\* forwarded or on its way, once and in order, through the three buffers and
\* four threads (provided the queue does not overflow).
NothingLost ==
  \A c \in Conns : InSession(c) =>
    \E t \in 0 .. sent[c] : AllTaken(c, t) /\ OnTheWay(c, t)

\* A full queue loses only the oldest events of a connection: what is on its
\* way has no gap and ends with the last event sent, what was taken is older
\* than that and in order.
OldestDropped ==
  \A c \in Conns : InSession(c) =>
    \E t \in 0 .. sent[c] : SomeTaken(c, t) /\ OnTheWay(c, t)

\* An event is forwarded only while the server it came to is open: nothing
\* that one run left behind is received in the next (DataReceiver.cc:227-232),
\* although threads fail and StopListen may give up.
EventsInSession ==
  [][\A c \in Conns : (log'[c] # log[c] /\ Last(log'[c]).k = "receive")
       => InSession(c)]_vars

\* Listen serves only when the last session is over: both threads joined and
\* nothing of it queued (DataReceiver.cc:171 and 222-232).
ServesClean ==
  [][session' # session =>
       rcv = "none" /\ fwd = "none" /\ queue = <<>> /\ item = Nobody]_vars

\* What one session leaves behind does not reach the next.
SessionsSeparate == ServesClean /\ EventsInSession

\* When the forwarding thread returned, a connection that was open to the end
\* has been told that it is over, last of all, and will not be told again.
OpenOnesDisconnected ==
  fwd = "returned" =>
    \A c \in Conns : (InSession(c) /\ state[c] = 1)
      => /\ log[c] # <<>> /\ Last(log[c]).k = "disconnect"
         /\ c \notin known

\* Once StopListen is called the threads end and are joined, even if it gives
\* up waiting; a new Listen may start others (no sender leaves unidentified).
ThreadsJoined ==
  (user = "stopping") ~> (rcv = "none" /\ fwd = "none")

\* The destructor ends, whatever the threads were at.
Destroyed == (user = "destroying") ~> (user = "gone")

\* No thread and no caller waits for ever once the end was asked for.
ThreadsEnd == ThreadsJoined /\ Destroyed
-----------------------------------------------------------------------------
(***************************************************************************)
(* The inductive invariant behind SessionsSeparate and                     *)
(* OpenOnesDisconnected.                                                   *)
(***************************************************************************)
\* Without a server there is nothing of a session.
ClosedInv ==
  ~server =>
    /\ rcv = "none" /\ fwd = "none" /\ queue = <<>> /\ events = <<>>
    /\ \A c \in Conns : wire[c] = <<>> /\ peer[c] \in {"away", "closed"}

\* Which thread can be where: an item is held for the callback only, the
\* deamon closes when both threads are joined, and the forwarding thread
\* cleans up when the receiving thread is over.
ThreadsInv ==
  /\ user = "listen" => session < MaxSessions
  /\ item # Nobody <=> fwd = "call"
  /\ woken => fwd = "wait" /\ queue # <<>>
  /\ deamon \in {"stop_fwd", "close"} => rcv = "none"
  /\ deamon = "close" => fwd = "none"
  /\ rcvReturned => rcv \in {"none", "returned"}
  /\ fwd \in {"clean", "returned"} => rcvReturned
  /\ rcv = "handle" => events # <<>>

\* What is on its way belongs to this session.
QueueOrigin ==
  /\ \A i \in 1 .. Len(queue) : born[queue[i].con] = session
  /\ item # Nobody => born[item.con] = session

ArrivedOrigin ==
  \A i \in 1 .. Len(events) :
    born[events[i].con] = session /\ peer[events[i].con] # "away"

WireOrigin ==
  \A c \in Conns :
    /\ wire[c] # <<>> => born[c] = session /\ peer[c] # "away"
    /\ peer[c] \notin {"away", "closed"} => born[c] = session
    /\ born[c] <= session

OriginInv == QueueOrigin /\ ArrivedOrigin /\ WireOrigin

\* An identified connection is in the list until the forwarding thread has
\* told its end.
KnownInv ==
  /\ \A c \in Conns : peer[c] = "away" => state[c] = 0
  /\ fwd \in {"head", "wait", "call", "clean"} =>
       \A c \in Conns : (InSession(c) /\ state[c] = 1) => c \in known

\* A connection that has not been made has left nothing behind.
AwayInv ==
  \A c \in Conns : peer[c] = "away" =>
    /\ sent[c] = 0 /\ wire[c] = <<>> /\ log[c] = <<>> /\ c \notin known
    /\ \A i \in 1 .. Len(queue) : queue[i].con # c
    /\ item.con # c

\* The two marks that make an entry of the queue each.  A connection sends each
\* of them once, so that the queue holds at most two marks of it.
OnSocket(k)  == [k : {k}, n : 0 .. MaxEvents]
InList(c, k) == [con : {c}, k : {k}, n : 0 .. MaxEvents]
Holds(s, S)  == \E i \in DOMAIN s : s[i] \in S
Single(s, S) == \A i, j \in DOMAIN s : s[i] \in S /\ s[j] \in S => i = j

Unsent(k) == {"away", "connecting", "greeted"} \cup IF k = "fin" THEN {"waiting", "open"} ELSE {}
Pending(c, k) == Holds(wire[c], OnSocket(k)) \/ Holds(events, InList(c, k))

\* The connections that will not make an entry by mark k any more.
Over(k) == {c \in Conns : peer[c] \notin Unsent(k) /\ ~Pending(c, k)}

MarksInv ==
  \A c \in Conns : \A k \in {"hello", "fin"} :
    /\ Single(wire[c], OnSocket(k)) /\ Single(events, InList(c, k))
    /\ ~(Holds(wire[c], OnSocket(k)) /\ Holds(events, InList(c, k)))
    /\ Pending(c, k) => peer[c] \notin Unsent(k)

LimitInv == Len(queue) <= MaxQueue + Cardinality(Over("hello")) + Cardinality(Over("fin"))

IInv == Types /\ ClosedInv /\ ThreadsInv /\ OriginInv /\ KnownInv /\ OpenOnesDisconnected
=============================================================================
