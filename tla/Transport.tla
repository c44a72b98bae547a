----------------------------- MODULE Transport -----------------------------
(***************************************************************************)
(* The command connections of the RunControl: a TCPServer whose events the *)
(* server thread takes and handles, SendCommand on the user and status     *)
(* threads, and the TCPClients that CommandReceiver::Connect opens.        *)
(***************************************************************************)
EXTENDS Framing, FiniteSets, FiniteSetsExt, SequencesExt

CONSTANTS
  Conns,   \* the connections, each used once
  Envs     \* the settings that are explored

AllMishaps ==
  { "cut",      \* any number of the bytes that were sent has arrived
    "calls",    \* SendCommand is called
    "long",     \* with a packet that is sent in two pieces
    "slow",     \* the waits of a client for an answer run out
    "deaf",     \* m_listening is switched off
    "leave" }   \* clients close their connections

None == "none"
All  == "ALL"

\* Which mishaps there are, and the bounds: the connections that are made,
\* the calls of SendCommand and the packets of an identified client.  The
\* packets are made of the bytes 0 .. 3, and a START is short.
ASSUME TransportAssumption ==
  /\ IsFiniteSet(Conns) /\ None \notin Conns
  /\ Base > 3 /\ MinLong > 2
  /\ Envs \subseteq [mishaps : SUBSET AllMishaps, conns : SUBSET Conns, calls : Nat, status : Nat]

\* The packets, the greeting and the confirmation begin with "OK".
Greeting == <<0>>
OK       == <<1>>
Refusal  == <<2>>
Start    == <<3, 0>>
Config   == <<3, 0, 0>>
Ident    == <<0, 1>>
Status   == <<1, 0, 0, 0>>

VARIABLES
  env,        \* the setting of this behaviour
  peer,       \* the client: "out", "greet", "confirm", "in", "failed", "left"
  sock,       \* the connection at the server: "none", "backlog", "open", "shut"
  up, down,   \* the bytes on their way to the server and to the client
  mine, got,  \* the buffer of the client, and the packets it took from it
  sent,       \* the packets it sent
  fd, info, state,   \* m_fd, m_buf with m_len, m_state of the server's object
  slots,      \* m_conn
  events,     \* m_events
  rcvd,       \* the packets that were put into it
  known,      \* m_conn_status
  listening,  \* m_listening
  pc,         \* the server thread: "select", "serve", "handle", "confirm",
              \* "dead" by an exception of a send, "bug" by one that must not be
  ready,      \* tempset
  done,       \* a packet has been received in this call of ProcessEvents
  cur,        \* the connection it is busy with
  call,       \* the SendCommand that is being executed
  calls,      \* all that were called
  since,      \* how many had been when the state of a connection became 1
  wrote       \* the packets that were sent to the client

clientVars == <<peer, mine, got, sent>>
serverVars == <<fd, info, state, slots, events, rcvd, known>>
threadVars == <<pc, ready, done, cur>>
callVars   == <<call, calls>>
histVars   == <<since, wrote>>
vars == <<env, clientVars, sock, up, down, serverVars, listening, threadVars, callVars, histVars>>

\* The slot it is at, and the descriptor that the second piece goes to.
Idle == [pkt |-> <<>>, to |-> None, at |-> 0, half |-> 0]

Init ==
  /\ env \in Envs
  /\ peer = [c \in Conns |-> "out"] /\ sock = [c \in Conns |-> "none"]
  /\ up = [c \in Conns |-> <<>>] /\ down = [c \in Conns |-> <<>>]
  /\ mine = [c \in Conns |-> Fresh]
  /\ got = [c \in Conns |-> <<>>] /\ sent = [c \in Conns |-> <<>>]
  /\ fd = [c \in Conns |-> 0]
  /\ info = [c \in Conns |-> Fresh] /\ state = [c \in Conns |-> 0]
  /\ slots = <<>> /\ events = <<>>
  /\ rcvd = [c \in Conns |-> <<>>]
  /\ known = {} /\ listening = TRUE
  /\ pc = "select" /\ ready = {} /\ done = FALSE /\ cur = None
  /\ call = Idle /\ calls = <<>>
  /\ since = [c \in Conns |-> {}] /\ wrote = [c \in Conns |-> <<>>]
-----------------------------------------------------------------------------
(***************************************************************************)
(* Sockets.  A file descriptor that was closed is used for the next        *)
(* connection.                                                             *)
(***************************************************************************)
Socket(f) == {c \in Conns : sock[c] = "open" /\ fd[c] = f}
FreeFd    == Min((1 .. Cardinality(Conns)) \ {fd[c] : c \in {d \in Conns : sock[d] = "open"}})

\* How much of a stream can be read at once.
Arrived(bytes) == IF "cut" \in env.mishaps THEN 1 .. Len(bytes) ELSE {Len(bytes)} \ {0}
Drop(bytes, n) == SubSeq(bytes, n + 1, Len(bytes))

\* do_send_data: it throws when there is no socket, or when nobody is at the
\* other end any more; what was sent just before that is known is lost.
Carries(f, bytes) ==
  /\ Socket(f) # {}
  /\ down' = [c \in Conns |-> IF c \in Socket(f) /\ peer[c] # "left"
                              THEN down[c] \o bytes ELSE down[c]]
Throws(f) == (\A c \in Socket(f) : peer[c] = "left") /\ UNCHANGED down
Noted(f, p) ==
  wrote' = [c \in Conns |-> IF c \in Socket(f) THEN Append(wrote[c], p) ELSE wrote[c]]
-----------------------------------------------------------------------------
(***************************************************************************)
(* A client: CommandReceiver::Connect.  A Connect that throws leaves its   *)
(* TCPClient, and so the connection, behind.                               *)
(***************************************************************************)
Connect(c) ==
  /\ peer[c] = "out" /\ c \in env.conns
  /\ peer' = [peer EXCEPT ![c] = "greet"]
  /\ sock' = [sock EXCEPT ![c] = "backlog"]
  /\ UNCHANGED <<env, mine, got, sent, up, down, serverVars, listening, threadVars, callVars, histVars>>

\* TCPClient::ProcessEvents.
Read(c) ==
  /\ peer[c] \in {"greet", "confirm", "in"}
  /\ ~HavePacket(mine[c])
  /\ \E n \in Arrived(down[c]) :
       /\ mine' = [mine EXCEPT ![c] = Appended(@, SubSeq(down[c], 1, n))]
       /\ down' = [down EXCEPT ![c] = Drop(@, n)]
  /\ UNCHANGED <<env, peer, got, sent, sock, up, serverVars, listening, threadVars, callVars, histVars>>

\* The end of the stream is an exception, also when packets came before it.
SeeEnd(c) ==
  /\ peer[c] \in {"greet", "confirm", "in"}
  /\ sock[c] = "shut" /\ down[c] = <<>>
  /\ peer' = [peer EXCEPT ![c] = "failed"]
  /\ UNCHANGED <<env, mine, got, sent, sock, up, down, serverVars, listening, threadVars, callVars, histVars>>

Send(c, p) ==
  /\ sent' = [sent EXCEPT ![c] = Append(@, p)]
  /\ up' = [up EXCEPT ![c] = IF sock[c] = "shut" THEN @ ELSE @ \o Frame(p)]

\* ReceivePacket, and what Connect makes of the packet.
Take(c) ==
  /\ HavePacket(mine[c])
  /\ LET p == Packet(mine[c])
     IN /\ got' = [got EXCEPT ![c] = Append(@, p)]
        /\ \/ peer[c] = "greet" /\ p = Greeting /\ Send(c, Ident)
                /\ peer' = [peer EXCEPT ![c] = "confirm"]
           \/ peer[c] = "greet" /\ p # Greeting /\ UNCHANGED <<sent, up>>
                /\ peer' = [peer EXCEPT ![c] = "failed"]
           \/ peer[c] = "confirm" /\ p \in {OK, Greeting} /\ UNCHANGED <<sent, up>>
                /\ peer' = [peer EXCEPT ![c] = "in"]
           \/ peer[c] = "confirm" /\ p \notin {OK, Greeting} /\ UNCHANGED <<sent, up>>
                /\ peer' = [peer EXCEPT ![c] = "failed"]
           \/ peer[c] = "in" /\ UNCHANGED <<peer, sent, up>>
  /\ mine' = [mine EXCEPT ![c] = Remainder(@)]
  /\ UNCHANGED <<env, sock, down, serverVars, listening, threadVars, callVars, histVars>>

\* No greeting after two seconds, no confirmation after three.
GiveUp(c) ==
  /\ "slow" \in env.mishaps /\ peer[c] \in {"greet", "confirm"}
  /\ ~HavePacket(mine[c])
  /\ peer' = [peer EXCEPT ![c] = "failed"]
  /\ UNCHANGED <<env, mine, got, sent, sock, up, down, serverVars, listening, threadVars, callVars, histVars>>

SendStatus(c) ==
  /\ peer[c] = "in" /\ Len(sent[c]) <= env.status
  /\ Send(c, Status)
  /\ UNCHANGED <<env, peer, mine, got, sock, down, serverVars, listening, threadVars, callVars, histVars>>

\* What was sent may be lost if the client has not read everything.
Leave(c) ==
  /\ "leave" \in env.mishaps /\ peer[c] \notin {"out", "left"}
  /\ peer' = [peer EXCEPT ![c] = "left"]
  /\ \/ UNCHANGED up
     \/ down[c] # <<>> /\ up' = [up EXCEPT ![c] = <<>>]
  /\ down' = [down EXCEPT ![c] = <<>>]
  /\ UNCHANGED <<env, mine, got, sent, sock, serverVars, listening, threadVars, callVars, histVars>>
-----------------------------------------------------------------------------
(***************************************************************************)
(* The server thread: TCPServer::ProcessEvents.                            *)
(***************************************************************************)
Readable == {c \in Conns : sock[c] = "open" /\ (up[c] # <<>> \/ peer[c] = "left")}
Push(k, c, p) == events' = Append(events, [k |-> k, c |-> c, p |-> p])

\* Mutant: a new connection replaces whatever is in the first slot.
MutInserted(c) == IF slots = <<>> THEN <<c>> ELSE [slots EXCEPT ![1] = c]

Inserted(c) ==
  LET free == {i \in DOMAIN slots : slots[i] = None}
  IN IF free = {} THEN Append(slots, c) ELSE [slots EXCEPT ![Min(free)] = c]

Accept(c) ==
  /\ fd' = [fd EXCEPT ![c] = FreeFd]
  /\ sock' = [sock EXCEPT ![c] = "open"]
  /\ slots' = Inserted(c)
  /\ Push("CONNECT", c, <<>>)

\* select, and accept if a client waits.
Select ==
  /\ pc = "select"
  /\ pc' = "serve"
  /\ \E S \in IF "cut" \in env.mishaps THEN SUBSET Readable ELSE {Readable} : ready' = S
  /\ \/ /\ \A c \in Conns : sock[c] # "backlog"
        /\ ready' # {}
        /\ UNCHANGED <<sock, fd, slots, events>>
     \/ \E c \in Conns : sock[c] = "backlog" /\ Accept(c)
  /\ UNCHANGED <<env, clientVars, up, down, info, state, rcvd, known, listening, done, cur, callVars, histVars>>

\* Mutant: the time that remains is not looked at.
MutTimeout ==
  /\ pc = "select" /\ events # <<>>
  /\ Readable = {} /\ \A c \in Conns : sock[c] # "backlog"
  /\ UNCHANGED vars

\* Nothing happens for the rest of the second; without an event the thread
\* would only come back here.
Timeout ==
  /\ pc = "select" /\ events # <<>>
  /\ Readable = {} /\ \A c \in Conns : sock[c] # "backlog"
  /\ pc' = "handle"
  /\ UNCHANGED <<env, clientVars, sock, up, down, serverVars, listening, ready, done, cur, callVars, histVars>>

First == CHOOSE c \in ready : \A d \in ready : fd[c] <= fd[d]

\* GetInfo, which throws "BUG: please report it" if it finds nothing.
Owners(f) == {i \in DOMAIN slots : slots[i] # None /\ fd[slots[i]] = f /\ state[slots[i]] >= 0}

Recv ==
  /\ pc = "serve" /\ cur = None /\ ready # {} /\ up[First] # <<>>
  /\ ready' = ready \ {First}
  /\ \E n \in Arrived(up[First]) :
       /\ up' = [up EXCEPT ![First] = Drop(@, n)]
       /\ IF Owners(fd[First]) = {}
          THEN pc' = "bug" /\ UNCHANGED <<cur, info>>
          ELSE /\ cur' = slots[Min(Owners(fd[First]))]
               /\ info' = [info EXCEPT ![cur'] = Appended(@, SubSeq(up[First], 1, n))]
               /\ UNCHANGED pc
  /\ UNCHANGED <<env, clientVars, sock, down, fd, state, slots, events, rcvd, known,
                 listening, done, callVars, histVars>>

\* The loop over the packets that are complete.
GetPacket ==
  /\ pc = "serve" /\ cur # None
  /\ \/ /\ HavePacket(info[cur])
        /\ Push("RECEIVE", cur, Packet(info[cur]))
        /\ rcvd' = [rcvd EXCEPT ![cur] = Append(@, Packet(info[cur]))]
        /\ info' = [info EXCEPT ![cur] = Remainder(@)]
        /\ done' = TRUE
        /\ UNCHANGED cur
     \/ /\ ~HavePacket(info[cur])
        /\ cur' = None
        /\ UNCHANGED <<events, rcvd, info, done>>
  /\ UNCHANGED <<env, clientVars, sock, up, down, fd, state, slots, known, listening,
                 pc, ready, callVars, histVars>>

\* Close: every slot with this descriptor.
Close(c) ==
  /\ slots' = [i \in DOMAIN slots |->
                 IF slots[i] # None /\ fd[slots[i]] = fd[c] THEN None ELSE slots[i]]
  /\ sock' = [d \in Conns |-> IF d \in Socket(fd[c]) THEN "shut" ELSE sock[d]]

RecvEnd ==
  /\ pc = "serve" /\ cur = None /\ ready # {} /\ up[First] = <<>>
  /\ ready' = ready \ {First}
  /\ IF Owners(fd[First]) = {}
     THEN pc' = "bug" /\ UNCHANGED <<events, slots, sock>>
     ELSE LET c == slots[Min(Owners(fd[First]))]
          IN Push("DISCONNECT", c, <<>>) /\ Close(c) /\ UNCHANGED pc
  /\ UNCHANGED <<env, clientVars, up, down, fd, info, state, rcvd, known, listening,
                 done, cur, callVars, histVars>>

\* The round is over: the next one, or the handlers.
RoundEnds ==
  /\ pc = "serve" /\ cur = None /\ ready = {}
  /\ \/ pc' = "handle"
     \/ ~done /\ pc' = "select"
  /\ UNCHANGED <<env, clientVars, sock, up, down, serverVars, listening, ready, done, cur, callVars, histVars>>
-----------------------------------------------------------------------------
(***************************************************************************)
(* The rest of TransportBase::Process: the events are handled by           *)
(* RunControl::CommandHandler.                                             *)
(***************************************************************************)
\* SendPacket to one connection, by this thread: to the slot whose
\* descriptor is that of the connection.
Answers(c, p) ==
  \/ /\ Owners(fd[c]) # {} /\ Carries(fd[c], Frame(p))
     /\ Noted(fd[c], p)
     /\ pc' = "handle"
  \/ Owners(fd[c]) # {} /\ Throws(fd[c]) /\ pc' = "dead" /\ UNCHANGED wrote
  \/ Owners(fd[c]) = {} /\ pc' = "handle" /\ UNCHANGED <<down, wrote>>

\* Mutant: the status of a refused client is kept too.
MutHandleConnect(c) ==
  /\ Head(events).k = "CONNECT"
  /\ \/ listening /\ Answers(c, Greeting) /\ UNCHANGED <<slots, sock>>
     \/ ~listening /\ Answers(c, Refusal) /\ Close(c)
  /\ known' = known \cup {c}
  /\ UNCHANGED <<state, cur, since>>

HandleConnect(c) ==
  /\ Head(events).k = "CONNECT"
  /\ \/ /\ listening
        /\ Answers(c, Greeting)
        /\ known' = known \cup {c}
        /\ UNCHANGED <<slots, sock>>
     \/ /\ ~listening
        /\ Answers(c, Refusal)
        /\ Close(c)
        /\ UNCHANGED known
  /\ UNCHANGED <<state, cur, since>>

HandleDisconnect(c) ==
  /\ Head(events).k = "DISCONNECT"
  /\ known' = known \ {c}
  /\ UNCHANGED <<slots, sock, down, state, cur, pc, since, wrote>>

\* The first packet identifies the client; its state is set before the
\* confirmation is sent.
HandleReceive(c) ==
  /\ Head(events).k = "RECEIVE"
  /\ \/ /\ state[c] = 0
        /\ IF Head(events).p = Ident
           THEN /\ state' = [state EXCEPT ![c] = 1]
                /\ since' = [since EXCEPT ![c] = {Len(calls)} \cup
                                IF call = Idle THEN {} ELSE {Len(calls) - 1}]
           ELSE UNCHANGED <<state, since>>
        /\ pc' = "confirm" /\ cur' = c
     \/ /\ state[c] = 1
        /\ pc' = IF c \in known THEN pc ELSE "bug"     \* m_conn_status.at(con)
        /\ UNCHANGED <<state, since, cur>>
  /\ UNCHANGED <<slots, sock, down, known, wrote>>

Handle ==
  /\ pc = "handle" /\ events # <<>>
  /\ events' = Tail(events)
  /\ \/ HandleConnect(Head(events).c)
     \/ HandleDisconnect(Head(events).c)
     \/ HandleReceive(Head(events).c)
  /\ UNCHANGED <<env, clientVars, up, fd, info, rcvd, listening, ready, done, callVars>>

Confirm ==
  /\ pc = "confirm"
  /\ Answers(cur, OK)
  /\ cur' = None
  /\ UNCHANGED <<env, clientVars, sock, up, serverVars, listening, ready, done, callVars, since>>

ProcessAgain ==
  /\ pc = "handle" /\ events = <<>>
  /\ pc' = "select" /\ done' = FALSE
  /\ UNCHANGED <<env, clientVars, sock, up, down, serverVars, listening, ready, cur, callVars, histVars>>
-----------------------------------------------------------------------------
(***************************************************************************)
(* The user thread and the status thread.  SendCommand holds m_mtx_sendcmd *)
(* and walks over m_conn, which the server thread changes meanwhile.       *)
(***************************************************************************)
Running == pc \notin {"dead", "bug"}

StopListening ==
  /\ Running /\ "deaf" \in env.mishaps
  /\ listening' = ~listening
  /\ UNCHANGED <<env, clientVars, sock, up, down, serverVars, threadVars, callVars, histVars>>

SendCommand(p, to) ==
  /\ Running /\ "calls" \in env.mishaps
  /\ call = Idle /\ Len(calls) < env.calls
  /\ call' = [Idle EXCEPT !.pkt = p, !.to = to, !.at = 1]
  /\ calls' = Append(calls, [p |-> p, to |-> to])
  /\ UNCHANGED <<env, clientVars, sock, up, down, serverVars, listening, threadVars, histVars>>

\* Mutant: the state is not looked at.
MutMeant(d) == d # None /\ (call.to # All => fd[d] = fd[call.to])

Meant(d) == d # None /\ (call.to # All => fd[d] = fd[call.to]) /\ state[d] > 0

Walk ==
  /\ Running /\ call # Idle /\ call.half = 0 /\ call.at <= Len(slots)
  /\ LET d == slots[call.at]
         w == Writes(call.pkt)
     IN \/ ~Meant(d) /\ call' = [call EXCEPT !.at = @ + 1] /\ UNCHANGED <<down, wrote>>
        \/ /\ Meant(d) /\ Carries(fd[d], Head(w)) /\ Noted(fd[d], call.pkt)
           /\ call' = IF Len(w) = 1 THEN [call EXCEPT !.at = @ + 1]
                      ELSE [call EXCEPT !.half = fd[d]]
        \/ Meant(d) /\ Throws(fd[d]) /\ call' = Idle /\ UNCHANGED wrote
  /\ UNCHANGED <<env, clientVars, sock, up, serverVars, listening, threadVars, calls, since>>

\* The data of a long packet, to the descriptor that its length went to.
WalkOn ==
  /\ Running /\ call.half # 0
  /\ \/ Carries(call.half, call.pkt) /\ call' = [call EXCEPT !.half = 0, !.at = @ + 1]
     \/ Throws(call.half) /\ call' = Idle
  /\ UNCHANGED <<env, clientVars, sock, up, serverVars, listening, threadVars, calls, histVars>>

SendCommandReturns ==
  /\ Running /\ call # Idle /\ call.half = 0 /\ call.at > Len(slots)
  /\ call' = Idle
  /\ UNCHANGED <<env, clientVars, sock, up, down, serverVars, listening, threadVars, calls, histVars>>
-----------------------------------------------------------------------------
Commands == {Start} \cup IF "long" \in env.mishaps THEN {Config} ELSE {}

Client(c) == Connect(c) \/ Read(c) \/ SeeEnd(c) \/ Take(c) \/ GiveUp(c)
             \/ SendStatus(c) \/ Leave(c)
Server    == Select \/ Timeout \/ Recv \/ GetPacket \/ RecvEnd \/ RoundEnds \/ Handle \/ Confirm \/ ProcessAgain
Caller    ==
  \/ \E p \in Commands : \E to \in {All} \cup known : SendCommand(p, to)
  \/ Walk \/ WalkOn \/ SendCommandReturns \/ StopListening

Next == Server \/ Caller \/ \E c \in Conns : Client(c)

Spec == Init /\ [][Next]_vars

\* The threads of the run control and the clients go on; nobody has to
\* connect, to send a status or to call anything.
FairSpec ==
  /\ Spec
  /\ WF_vars(Server)
  /\ \A c \in Conns : WF_vars(Read(c) \/ SeeEnd(c) \/ Take(c))
-----------------------------------------------------------------------------
(***************************************************************************)
(* Properties.                                                             *)
(***************************************************************************)
TypeOK ==
  /\ env \in Envs
  /\ peer \in [Conns -> {"out", "greet", "confirm", "in", "failed", "left"}]
  /\ sock \in [Conns -> {"none", "backlog", "open", "shut"}]
  /\ \A c \in Conns : up[c] \in Seq(Byte) /\ down[c] \in Seq(Byte)
  /\ fd \in [Conns -> 0 .. Cardinality(Conns)]
  /\ state \in [Conns -> 0 .. 1]
  /\ slots \in Seq(Conns \cup {None})
  /\ known \subseteq Conns /\ ready \subseteq Conns
  /\ pc \in {"select", "serve", "handle", "confirm", "dead", "bug"}
  /\ cur \in Conns \cup {None}

\* A packet is received as it was sent, in order and once, however the bytes
\* arrive and whenever a client leaves; so is one that is sent to a client,
\* as long as no descriptor is used again and no packet is sent in pieces.
PacketsIntact ==
  /\ \A c \in Conns : IsPrefix(rcvd[c], sent[c])
  /\ env.mishaps \cap {"leave", "long"} = {} => \A c \in Conns : IsPrefix(got[c], wrote[c])

\* The server finds the connection of every socket that is ready, and the
\* status entry of every client that reports: "BUG: please report it" is
\* never thrown, whoever connects and leaves.
NoBug == pc # "bug"

\* The server's lists are what their types say and agree with each other.
ServerConsistent == TypeOK /\ NoBug

\* Without a command in between and in time, a client is told what the run control
\* thinks: greeted and confirmed if it is in the list, else refused.
HandshakeAgrees ==
  env.mishaps \cap {"leave", "calls", "slow"} = {} =>
    \A c \in Conns :
      /\ IsPrefix(got[c], <<Greeting, OK>>) \/ got[c] = <<Refusal>>
      /\ peer[c] = "failed" => state[c] = 0 /\ c \notin known
      /\ peer[c] = "in" => state[c] = 1 /\ c \in known

\* The members of S in a sequence, in their order.
Kept(s, S) ==
  LET kept[i \in 0 .. Len(s)] ==
        IF i = 0 THEN <<>>
        ELSE IF s[i] \in S THEN Append(kept[i - 1], s[i]) ELSE kept[i - 1]
  IN kept[Len(s)]

Commanded(c) == Kept(wrote[c], {Start, Config})
\* What was meant for c of the calls cs, but for the first n.
Due(cs, c, n) ==
  LET rest == Kept(SubSeq(cs, n + 1, Len(cs)), [p : {Start, Config}, to : {All, c}])
  IN [i \in DOMAIN rest |-> rest[i].p]

\* A client that is in the list gets each command that is meant for it once,
\* in the order of the calls, although the list is walked while connections
\* come and are refused.
CommandsReach ==
  ("leave" \notin env.mishaps /\ call = Idle) =>
    \A c \in Conns : state[c] = 1 => Commanded(c) \in {Due(calls, c, n) : n \in since[c]}

\* A client that opens a connection is greeted, confirmed or refused.
Answered ==
  env.mishaps \cap {"leave", "calls"} = {} =>
    \A c \in Conns : peer[c] = "greet" ~> peer[c] \in {"in", "failed"}
-----------------------------------------------------------------------------
(***************************************************************************)
(* The inductive invariant behind ServerConsistent and PacketsIntact.      *)
(***************************************************************************)
Event   == [k : {"CONNECT", "RECEIVE", "DISCONNECT"}, c : Conns, p : Seq(Byte)]

Types ==
  /\ TypeOK
  /\ mine \in [Conns -> Buffers] /\ info \in [Conns -> Buffers]
  /\ up \in [Conns -> Seq(Byte)] /\ down \in [Conns -> Seq(Byte)]
  /\ got \in [Conns -> Seq(Seq(Byte))] /\ sent \in [Conns -> Seq(Seq(Byte))]
  /\ rcvd \in [Conns -> Seq(Seq(Byte))] /\ wrote \in [Conns -> Seq(Seq(Byte))]
  /\ events \in Seq(Event)
  /\ call \in [pkt : {<<>>, Start, Config}, to : Conns \cup {None, All}, at : Nat, half : Nat]
  /\ call # Idle => /\ call.pkt \in {Start} \cup IF "long" \in env.mishaps THEN {Config} ELSE {}
                    /\ call.at > 0

\* m_len is what the header in the buffer says.
Lengths == \A c \in Conns : /\ mine[c].len = Length(mine[c].buf)
                            /\ info[c].len = Length(info[c].buf)

\* The open connections have a slot each, and a descriptor each.
Slots ==
  /\ \A i \in DOMAIN slots : slots[i] # None => sock[slots[i]] = "open"
  /\ \A i, j \in DOMAIN slots : slots[i] = slots[j] /\ slots[i] # None => i = j
  /\ \A c \in Conns : sock[c] = "open" => \E i \in DOMAIN slots : slots[i] = c
  /\ \A c, d \in Conns : sock[c] = "open" /\ sock[d] = "open" /\ fd[c] = fd[d] => c = d

In(c, k) == \E i \in DOMAIN events : events[i].c = c /\ events[i].k = k

\* What the server thread has in hand.
Thread ==
  /\ \A c \in ready : sock[c] = "open"
  /\ pc \in {"select", "handle", "confirm"} => ready = {}
  /\ pc \in {"select", "handle"} => cur = None
  /\ pc = "confirm" => cur # None
  /\ pc = "serve" /\ cur # None => sock[cur] = "open" /\ ~In(cur, "CONNECT")

\* The events of a connection are in the order CONNECT, RECEIVE, DISCONNECT,
\* and a RECEIVE is handled after the CONNECT and before the DISCONNECT.
Listed(c) ==
  /\ peer[c] = "out" => sock[c] = "none"
  /\ sock[c] \in {"none", "backlog"} => /\ state[c] = 0
                                        /\ \A i \in DOMAIN events : events[i].c # c
  /\ In(c, "CONNECT") => state[c] = 0 /\ ~In(c, "RECEIVE")
  /\ In(c, "DISCONNECT") => sock[c] = "shut"
  /\ In(c, "RECEIVE") => c \in known
  /\ sock[c] = "open" /\ ~In(c, "CONNECT") => c \in known
  /\ \A i, j \in DOMAIN events :
       events[i].c = c /\ events[i].k = "RECEIVE" /\ events[j].c = c /\ events[j].k = "DISCONNECT"
         => i < j

\* A client that the run control has not looked at yet has said nothing: what
\* it may have got, the rest of a command for the last owner of its
\* descriptor, is no greeting.
Young(c) ==
  sock[c] \in {"none", "backlog"} \/ (pc \in {"select", "serve"} /\ In(c, "CONNECT"))
NoGreeting(c) ==
  /\ mine[c].buf # <<>> => mine[c].buf[1] = 3
  /\ mine[c].buf = <<>> /\ down[c] # <<>> => down[c][1] = 3
Silent(c) ==
  /\ sent[c] = <<>> /\ up[c] = <<>>
  /\ peer[c] \in {"out", "greet", "failed", "left"}
  /\ peer[c] \in {"out", "greet"} => NoGreeting(c)

ServerInv ==
  /\ Types /\ Lengths /\ NoBug /\ Slots /\ Thread
  /\ \A c \in Conns : Listed(c) /\ (Young(c) => Silent(c))

\* The inductive invariant behind HandshakeAgrees: what was written to c, what
\* it made of it, and what the server has yet to hear of it.
Confirming(c) == pc = "confirm" /\ cur = c
Told(c) ==
  /\ sock[c] \in {"none", "backlog"} \/ In(c, "CONNECT")
       => wrote[c] = <<>> /\ state[c] = 0 /\ c \notin known
  /\ sock[c] = "open" /\ ~In(c, "CONNECT")
       => wrote[c] = IF state[c] = 0 \/ Confirming(c) THEN <<Greeting>> ELSE <<Greeting, OK>>
  /\ sock[c] = "shut" => wrote[c] = <<Refusal>> /\ state[c] = 0 /\ c \notin known
  /\ Confirming(c) => state[c] = 1 /\ sock[c] = "open"
Understood(c) ==
  /\ peer[c] \in {"out", "greet"} => got[c] = <<>> /\ sent[c] = <<>>
  /\ peer[c] = "confirm" => got[c] = <<Greeting>> /\ sent[c] = <<Ident>>
  /\ peer[c] = "in" => got[c] = <<Greeting, OK>>
  /\ peer[c] = "failed" => got[c] \in {<<>>, <<Refusal>>} /\ sent[c] = <<>> /\ sock[c] = "shut"
Expected(c) ==
  /\ In(c, "CONNECT") => sock[c] = "open"
  /\ \A i, j \in DOMAIN events :
       events[i].c = c /\ events[i].k = "CONNECT" /\ events[j].c = c /\ events[j].k = "CONNECT"
         => i = j
  /\ ~In(c, "DISCONNECT")
  /\ state[c] = 0 => \A i \in DOMAIN events :
                       events[i].c = c /\ events[i].k = "RECEIVE" => events[i].p = Ident

Handshake ==
  env.mishaps \cap {"leave", "calls", "slow"} = {} =>
    /\ pc # "dead" /\ \A c \in ready : up[c] # <<>>
    /\ \A c \in Conns : Told(c) /\ Understood(c) /\ Expected(c)

(***************************************************************************)
(* The inductive invariant behind CommandsReach: when nobody leaves, the   *)
(* server closes only what it refuses, so that a client that is in the     *)
(* list keeps its slot and its descriptor, and the call that is under way  *)
(* has been written to those whose slot it has passed.                     *)
(***************************************************************************)
Stays(c) ==
  /\ peer[c] # "left"
  /\ c \in ready => up[c] # <<>>
  /\ In(c, "CONNECT") => sock[c] = "open" /\ c \notin known
  /\ \A i, j \in DOMAIN events :
       events[i].c = c /\ events[i].k = "CONNECT" /\ events[j].c = c /\ events[j].k = "CONNECT"
         => i = j
  /\ ~In(c, "DISCONNECT")
  /\ c \in known \/ state[c] = 1 => sock[c] = "open"
  /\ sock[c] = "open" => fd[c] # 0

History ==
  /\ calls \in Seq([p : {Start, Config}, to : Conns \cup {All}])
  /\ since \in [Conns -> SUBSET (0 .. Len(calls))]
  /\ call # Idle => calls # <<>>

Calling ==
  call # Idle =>
    /\ Last(calls) = [p |-> call.pkt, to |-> call.to]
    /\ call.to = All \/ call.to \in known
    /\ call.half # 0 => /\ call.at \in DOMAIN slots /\ slots[call.at] # None
                        /\ state[slots[call.at]] = 1 /\ call.half = fd[slots[call.at]]

Passed(c) ==
  \/ call = Idle
  \/ \E i \in DOMAIN slots : slots[i] = c /\ (i < call.at \/ (i = call.at /\ call.half # 0))

Served(c) ==
  /\ state[c] = 0 => Commanded(c) = <<>>
  /\ state[c] = 1 /\ Passed(c) => \E n \in since[c] : Commanded(c) = Due(calls, c, n)
  /\ state[c] = 1 /\ ~Passed(c) =>
       \E n \in since[c] : n < Len(calls) /\ Commanded(c) = Due(Front(calls), c, n)

Reaching ==
  /\ History
  /\ "leave" \notin env.mishaps => Calling /\ \A c \in Conns : Stays(c) /\ Served(c)
=============================================================================
