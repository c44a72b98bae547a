------------------------------ MODULE Logging ------------------------------
(***************************************************************************)
(* The log messages: LogSender in every process, LogCollector in one, which *)
(* is a client of its own server as well.  The run control broadcasts LOG  *)
(* (the address) before it initialises the LogCollector; the forwarding    *)
(* thread of each client then connects, and all threads of a process share *)
(* its LogSender and its mutex.  The LogThread of the LogCollector serves  *)
(* all of them; with the window of euLog it logs as well.                  *)
(*                                                                         *)
(* A message is its number among those of its connection, Ident the        *)
(* packet of the handshake.                                                *)
(***************************************************************************)
EXTENDS Naturals, SequencesExt

CONSTANTS
  Clients,    \* the processes
  Own,        \* that of the LogCollector
  MaxSocket,  \* packets that the buffers of a connection hold
  Envs        \* the circumstances that are looked at, a set of records

\* [kind, who, script, calls, mishaps]: the LogCollector is a "file" or a
\* "gui" one; these clients take part; this is what the run control tells the
\* LogCollector; so many messages come from other threads; clients may "die",
\* and the LogThread may be "late" without any reason of its own.
ASSUME LoggingAssumption ==
  /\ Own \in Clients /\ MaxSocket \in Nat \ {0}
  /\ Envs \subseteq [kind : {"file", "gui"}, who : SUBSET Clients,
                     script : Seq({"INIT", "RESET", "TERMINATE"}),
                     calls : Nat, mishaps : SUBSET {"die", "late"}]

VARIABLES
  env,      \* one of Envs
  cmds,     \* the commands on their way to each client
  pc,       \* the forwarding thread of each client, in LogSender::Connect
  tried,    \* isConnected
  sock,     \* m_logclient is there
  call,     \* a log message of another thread: "none", "waiting", "sending"
  calls,    \* how many there were
  sent,     \* how many messages the connection took
  gone,     \* the process has died
  up, down, \* the packets to and from the server
  con,      \* the connection: "none", "backlog", "open", "closed"
  known,    \* the server's state of it: identified
  name,     \* and with a name
  events,   \* m_events of the server
  logpc,    \* the LogThread
  exit,     \* m_exit
  file,     \* m_os_file
  lines     \* what DoReceive got of each client

clientVars == <<cmds, pc, tried, sock, call, calls, sent, gone>>
Ident == 0

serverVars == <<con, known, name, events, logpc, exit, file, lines>>
vars == <<env, clientVars, up, down, serverVars>>

\* An INIT of the LogCollector is preceded by a LOG to all clients.  That
\* all is sent at once changes nothing: each client handles it in its time.
Sent(c, script) ==
  FlattenSeq([i \in DOMAIN script |->
    (IF script[i] = "INIT" THEN <<"LOG">> ELSE <<>>)
      \o (IF c = Own THEN <<script[i]>> ELSE <<>>)])

Init ==
  /\ env \in Envs
  /\ cmds = [c \in Clients |-> IF c \in env.who THEN Sent(c, env.script) ELSE <<>>]
  /\ pc = [c \in Clients |-> "idle"]
  /\ tried = [c \in Clients |-> FALSE] /\ sock = [c \in Clients |-> FALSE]
  /\ call = [c \in Clients |-> "none"] /\ calls = 0
  /\ sent = [c \in Clients |-> 0] /\ gone = [c \in Clients |-> FALSE]
  /\ up = [c \in Clients |-> <<>>] /\ down = [c \in Clients |-> <<>>]
  /\ con = [c \in Clients |-> "none"]
  /\ known = [c \in Clients |-> FALSE] /\ name = [c \in Clients |-> FALSE]
  /\ events = <<>> /\ logpc = "select" /\ exit = FALSE
  /\ file = "closed" /\ lines = [c \in Clients |-> <<>>]
-----------------------------------------------------------------------------
(***************************************************************************)
(* A client.                                                               *)
(***************************************************************************)
Connecting(c) == pc[c] \in {"hello", "ok", "throw"}

\* m_mutex of the LogSender of c.
Held(c) == \/ Connecting(c) \/ call[c] = "sending"
           \/ c = Own /\ logpc = "logging"

Popped(c) == cmds' = [cmds EXCEPT ![c] = Tail(@)]
Goto(c, l) == pc' = [pc EXCEPT ![c] = l]

\* The server's process ends: "gone".  What is sent just before that is
\* noticed is lost.
ServerThere == logpc # "gone"

\* SendLogMessage: without a connection the message is printed only; a send
\* that fails deletes the client; a send into full buffers spins.
Full(c) == sock[c] /\ ServerThere /\ Len(up[c]) >= MaxSocket
Sends(c) ==
  /\ ~Full(c)
  /\ \/ ~sock[c] /\ UNCHANGED <<sock, up, sent>>
     \/ /\ sock[c] /\ ServerThere
        /\ up' = [up EXCEPT ![c] = Append(@, sent[c] + 1)]
        /\ sent' = [sent EXCEPT ![c] = @ + 1]
        /\ UNCHANGED sock
     \/ /\ sock[c] /\ ~ServerThere
        /\ sock' \in {sock, [sock EXCEPT ![c] = FALSE]}
        /\ UNCHANGED <<up, sent>>

\* With the mutex: the message is sent, or its thread spins.
SendsOrSpins(c) ==
  \/ Sends(c) /\ call' = [call EXCEPT ![c] = "none"]
  \/ Full(c) /\ call' = [call EXCEPT ![c] = "sending"] /\ UNCHANGED <<sock, up, sent>>

\* Another thread of the client logs.
Logs(c) ==
  /\ ~gone[c] /\ c \in env.who /\ call[c] = "none" /\ calls < env.calls
  /\ calls' = calls + 1
  /\ \/ ~Held(c) /\ SendsOrSpins(c)
     \/ Held(c) /\ call' = [call EXCEPT ![c] = "waiting"] /\ UNCHANGED <<sock, up, sent>>
  /\ UNCHANGED <<env, cmds, pc, tried, gone, down, serverVars>>

Locks(c) ==
  /\ ~gone[c] /\ call[c] = "waiting" /\ ~Held(c)
  /\ SendsOrSpins(c)
  /\ UNCHANGED <<env, cmds, pc, tried, calls, gone, down, serverVars>>

Spins(c) ==
  /\ ~gone[c] /\ call[c] = "sending"
  /\ Sends(c)
  /\ call' = [call EXCEPT ![c] = "none"]
  /\ UNCHANGED <<env, cmds, pc, tried, calls, gone, down, serverVars>>

\* LOG: isConnected says that it was tried before, and is never taken back.
Connect(c) ==
  /\ ~gone[c] /\ pc[c] = "idle" /\ cmds[c] # <<>> /\ Head(cmds[c]) = "LOG" /\ ~Held(c)
  /\ Popped(c)
  /\ tried' = [tried EXCEPT ![c] = TRUE]
  /\ IF tried[c] THEN UNCHANGED <<pc, sock, con>>
     ELSE IF ServerThere
     THEN /\ sock' = [sock EXCEPT ![c] = TRUE]
          /\ con' = [con EXCEPT ![c] = "backlog"]
          /\ Goto(c, "hello")
     ELSE Goto(c, "dead") /\ UNCHANGED <<sock, con>>
  /\ UNCHANGED <<env, call, calls, sent, gone, up, down,
                 known, name, events, logpc, exit, file, lines>>

Greeted(c) ==
  /\ ~gone[c] /\ pc[c] = "hello" /\ down[c] # <<>>
  /\ down' = [down EXCEPT ![c] = Tail(@)]
  /\ up' = [up EXCEPT ![c] = Append(@, Ident)]
  /\ Goto(c, "ok")
  /\ UNCHANGED <<env, cmds, tried, sock, call, calls, sent, gone, serverVars>>

Confirmed(c) ==
  /\ ~gone[c] /\ pc[c] = "ok" /\ down[c] # <<>>
  /\ down' = [down EXCEPT ![c] = Tail(@)]
  /\ Goto(c, "idle")
  /\ UNCHANGED <<env, cmds, tried, sock, call, calls, sent, gone, up, serverVars>>

\* ReceivePacket gives up after a second, which is long enough for a LogThread
\* that does not wait itself.  The exception logs itself, to the
\* server that did not answer, before it ends the forwarding thread.
TimesOut(c) ==
  /\ ~gone[c] /\ pc[c] \in {"hello", "ok"} /\ down[c] = <<>>
  /\ "late" \in env.mishaps \/ logpc \in {"log", "logging", "dead", "left"}
  /\ Goto(c, "throw")
  /\ UNCHANGED <<env, cmds, tried, sock, call, calls, sent, gone, up, down, serverVars>>

\* Mutant: the mutex is not recursive.
MutThrows(c) ==
  /\ ~gone[c] /\ pc[c] = "throw" /\ ~Held(c)
  /\ Sends(c)
  /\ Goto(c, "dead")
  /\ UNCHANGED <<env, cmds, tried, call, calls, gone, down, serverVars>>

Throws(c) ==
  /\ ~gone[c] /\ pc[c] = "throw"
  /\ Sends(c)
  /\ Goto(c, "dead")
  /\ UNCHANGED <<env, cmds, tried, call, calls, gone, down, serverVars>>

\* The server closes the connection during the handshake; that exception
\* logs nothing.
SeesEnd(c) ==
  /\ ~gone[c] /\ pc[c] \in {"hello", "ok"} /\ ~ServerThere
  /\ Goto(c, "dead")
  /\ UNCHANGED <<env, cmds, tried, sock, call, calls, sent, gone, up, down, serverVars>>

Dies(c) ==
  /\ "die" \in env.mishaps /\ c \in env.who \ {Own} /\ ~gone[c]
  /\ gone' = [gone EXCEPT ![c] = TRUE]
  /\ UNCHANGED <<env, cmds, pc, tried, sock, call, calls, sent, up, down, serverVars>>
-----------------------------------------------------------------------------
(***************************************************************************)
(* The forwarding thread of the LogCollector.                              *)
(***************************************************************************)
Obeys(k) ==
  /\ ~gone[Own] /\ pc[Own] = "idle" /\ cmds[Own] # <<>> /\ Head(cmds[Own]) = k
  /\ Popped(Own)

\* DoInitialise: open() of a file that is open sets the failbit for ever.
\* The command is logged first, which takes the mutex.
Initialise ==
  /\ Obeys("INIT") /\ ~Held(Own)
  /\ file' = IF file = "closed" THEN "open" ELSE "failed"
  /\ UNCHANGED <<env, pc, tried, sock, call, calls, sent, gone, up, down,
                 con, known, name, events, logpc, exit, lines>>

\* OnReset is that of the CommandReceiver: server and file stay as they are.
Reset ==
  /\ Obeys("RESET")
  /\ UNCHANGED <<env, pc, tried, sock, call, calls, sent, gone, up, down, serverVars>>

\* OnTerminate: CloseLogCollector joins the LogThread; then std::exit.
Terminate ==
  /\ Obeys("TERMINATE")
  /\ exit' = TRUE
  /\ Goto(Own, "closing")
  /\ UNCHANGED <<env, tried, sock, call, calls, sent, gone, up, down,
                 con, known, name, events, logpc, file, lines>>

Exits ==
  /\ pc[Own] = "closing" /\ logpc \in {"dead", "left"}
  /\ logpc' = "gone"
  /\ gone' = [gone EXCEPT ![Own] = TRUE]
  /\ UNCHANGED <<env, cmds, pc, tried, sock, call, calls, sent, up, down,
                 con, known, name, events, exit, file, lines>>
-----------------------------------------------------------------------------
(***************************************************************************)
(* The LogThread.                                                          *)
(***************************************************************************)
Event(t, c, p) == [t |-> t, c |-> c, p |-> p]

Accept(c) ==
  /\ logpc = "select" /\ con[c] = "backlog"
  /\ con' = [con EXCEPT ![c] = "open"]
  /\ events' = Append(events, Event("CONNECT", c, 0))
  /\ UNCHANGED <<env, clientVars, up, down, known, name, logpc, exit, file, lines>>

Recv(c) ==
  /\ logpc = "select" /\ con[c] = "open"
  /\ \/ /\ up[c] # <<>>
        /\ events' = events \o [i \in DOMAIN up[c] |-> Event("RECEIVE", c, up[c][i])]
        /\ up' = [up EXCEPT ![c] = <<>>]
        /\ UNCHANGED con
     \/ /\ up[c] = <<>> /\ gone[c]
        /\ events' = Append(events, Event("DISCONNECT", c, 0))
        /\ con' = [con EXCEPT ![c] = "closed"]
        /\ UNCHANGED up
  /\ UNCHANGED <<env, clientVars, down, known, name, logpc, exit, file, lines>>

\* ProcessEvents returns with a packet, or after a tenth of a second in which
\* there was nothing to read; then nothing follows but a look at m_exit.
Readable(c) == \/ con[c] = "backlog"
               \/ con[c] = "open" /\ (up[c] # <<>> \/ gone[c])
SelectReturns ==
  /\ logpc = "select"
  /\ events # <<>> \/ (exit /\ ~\E c \in Clients : Readable(c))
  /\ logpc' = "handle"
  /\ UNCHANGED <<env, clientVars, up, down, con, known, name, events, exit, file, lines>>

\* SendPacket to one connection: to nobody once that is closed; to a client
\* that has died it is lost or throws, which ends the LogThread.
Answers(c, p, then) ==
  \/ /\ con[c] = "open" /\ ~gone[c]
     /\ down' = [down EXCEPT ![c] = Append(@, p)]
     /\ logpc' = then
  \/ con[c] = "open" /\ gone[c] /\ logpc' \in {then, "dead"} /\ UNCHANGED down
  \/ con[c] = "closed" /\ logpc' = then /\ UNCHANGED down

HandleConnect(c) ==
  /\ Answers(c, "hello", "handle")
  /\ UNCHANGED <<known, name, lines>>

\* Mutant: a packet that does not identify leaves the connection unknown.
MutIgnores(c, p) ==
  /\ Answers(c, "ok", IF env.kind = "gui" THEN "log" ELSE "handle")
  /\ known' = [known EXCEPT ![c] = p = Ident /\ logpc' # "dead"]
  /\ name' = [name EXCEPT ![c] = p = Ident]
  /\ UNCHANGED lines

\* Mutant: such a packet throws, as in the DataReceiver.
MutRefuses(c, p) ==
  /\ IF p = Ident THEN Answers(c, "ok", IF env.kind = "gui" THEN "log" ELSE "handle")
     ELSE logpc' = "dead" /\ UNCHANGED down
  /\ known' = [known EXCEPT ![c] = logpc' # "dead"]
  /\ name' = [name EXCEPT ![c] = p = Ident]
  /\ UNCHANGED lines

\* Any first packet identifies; only the right one gives a name.  DoConnect
\* of the window logs.
HandleIdentification(c, p) ==
  /\ Answers(c, "ok", IF env.kind = "gui" THEN "log" ELSE "handle")
  /\ known' = [known EXCEPT ![c] = logpc' # "dead"]
  /\ name' = [name EXCEPT ![c] = p = Ident]
  /\ UNCHANGED lines

\* DoReceive: the window shows it; the file gets it if it is in order.
HandleMessage(c, p) ==
  /\ lines' = [lines EXCEPT ![c] = Append(@, p)]
  /\ logpc' = "handle"
  /\ UNCHANGED <<down, known, name>>

HandleDisconnect ==
  logpc' = "handle" /\ UNCHANGED <<down, known, name, lines>>

\* LogHandler, for one event of the queue.
Handle ==
  /\ logpc = "handle" /\ events # <<>>
  /\ events' = Tail(events)
  /\ LET e == Head(events)
     IN \/ e.t = "CONNECT" /\ HandleConnect(e.c)
        \/ e.t = "RECEIVE" /\ ~known[e.c] /\ HandleIdentification(e.c, e.p)
        \/ e.t = "RECEIVE" /\ known[e.c] /\ HandleMessage(e.c, e.p)
        \/ e.t = "DISCONNECT" /\ HandleDisconnect
  /\ UNCHANGED <<env, clientVars, up, con, exit, file>>

ProcessReturns ==
  /\ logpc = "handle" /\ events = <<>>
  /\ logpc' = IF exit THEN "left" ELSE "select"
  /\ UNCHANGED <<env, clientVars, up, down, con, known, name, events, exit, file, lines>>

\* EUDAQ_INFO of the LogThread itself, which spins like any other.
LogThreadLogs ==
  /\ (logpc = "log" /\ ~Held(Own)) \/ logpc = "logging"
  /\ \/ Sends(Own) /\ logpc' = "handle"
     \/ logpc = "log" /\ Full(Own) /\ logpc' = "logging" /\ UNCHANGED <<sock, up, sent>>
  /\ UNCHANGED <<env, cmds, pc, tried, call, calls, gone, down,
                 con, known, name, events, exit, file, lines>>
-----------------------------------------------------------------------------
Client(c) == \/ Locks(c) \/ Spins(c) \/ Connect(c) \/ Greeted(c)
             \/ Confirmed(c) \/ TimesOut(c) \/ Throws(c) \/ SeesEnd(c)
Forwarding == Initialise \/ Reset \/ Terminate \/ Exits
LogThread == \/ \E c \in Clients : Accept(c) \/ Recv(c)
             \/ SelectReturns \/ Handle \/ ProcessReturns
             \/ LogThreadLogs

Next ==
  \/ \E c \in Clients : Logs(c) \/ Dies(c) \/ Client(c)
  \/ Forwarding
  \/ LogThread

\* The threads run, a second passes, select notices what arrives; nothing
\* makes a user log, a process die or the run control call.
Fairness ==
  /\ \A c \in Clients : WF_vars(Client(c))
  /\ WF_vars(Forwarding) /\ WF_vars(LogThread)

Spec == Init /\ [][Next]_vars /\ Fairness
-----------------------------------------------------------------------------
(***************************************************************************)
(* Properties.                                                             *)
(***************************************************************************)
TypeOK ==
  /\ pc \in [Clients -> {"idle", "hello", "ok", "throw", "dead", "closing"}]
  /\ call \in [Clients -> {"none", "waiting", "sending"}]
  /\ con \in [Clients -> {"none", "backlog", "open", "closed"}]
  /\ logpc \in {"select", "handle", "log", "logging", "dead", "left", "gone"}
  /\ file \in {"closed", "open", "failed"}
  /\ \A c \in Clients : Len(up[c]) <= MaxSocket

\* The packets of a client that are not handled yet.
OnTheWay(c) ==
  Range(up[c]) \cup {e.p : e \in {x \in Range(events) : x.t = "RECEIVE" /\ x.c = c}}

\* The message of its own exception that a client sends into an unfinished
\* handshake: it is taken for the identification.
Mistaken(c) == IF known[c] /\ ~name[c] THEN 1 ELSE 0
Handled(c)  == Mistaken(c) + Len(lines[c])

\* What is shown of c, and what is still to come.
Shown(c) ==
  /\ \A i \in DOMAIN lines[c] : lines[c][i] = i + Mistaken(c)
  /\ logpc \notin {"dead", "gone"} => OnTheWay(c) \ {Ident} = Handled(c) + 1 .. sent[c]

\* Whose name it is shown with.
Named(c) ==
  /\ Mistaken(c) = 1 => pc[c] = "dead"
  /\ tried[c] /\ pc[c] = "idle" => known[c] /\ name[c]

\* The log is complete: the messages that the connection of a client took
\* are shown once each and in order, with the name of that client, and none
\* is lost between the two; a client whose LOG failed is the one exception,
\* which stays without a name and whose first message is taken for it.
LogComplete == \A c \in Clients : Shown(c) /\ Named(c)

\* The log outlives the processes that it logs: the LogThread ends by itself
\* only over a process that died in its handshake, whatever the packets are
\* and in whatever order handshakes, messages and ends arrive.
ServerSurvives ==
  /\ TypeOK
  /\ logpc = "dead" => \E c \in Clients : gone[c] /\ ~known[c]

\* Nobody reads the connections any more: after the LogThread is over, or
\* when it waits to write into full buffers that it alone could read.
Unread == \/ logpc \in {"dead", "left"}
          \/ logpc \in {"log", "logging"} /\ Full(Own)

\* Logging does not stop a process: each message and each LOG comes to an
\* end, although the forwarding thread holds the mutex during the handshake
\* while the LogThread may wait for that mutex; and so does TERMINATE.  The
\* exception is a log that nobody reads, where the next send spins for ever.
CallsEnd ==
  /\ \A c \in Clients :
       /\ call[c] # "none" ~> (call[c] = "none" \/ gone[c] \/ Unread)
       /\ Connecting(c) ~> (~Connecting(c) \/ gone[c] \/ Unread)
  /\ (pc[Own] = "closing") ~> (gone[Own] \/ Unread)
-----------------------------------------------------------------------------
(***************************************************************************)
(* The inductive invariant behind LogComplete and ServerSurvives.          *)
(***************************************************************************)
Types ==
  /\ TypeOK
  /\ tried \in [Clients -> BOOLEAN] /\ sock \in [Clients -> BOOLEAN]
  /\ sent \in [Clients -> Nat] /\ gone \in [Clients -> BOOLEAN]
  /\ up \in [Clients -> Seq(Nat)] /\ down \in [Clients -> Seq({"hello", "ok"})]
  /\ known \in [Clients -> BOOLEAN] /\ name \in [Clients -> BOOLEAN]
  /\ events \in Seq([t : {"CONNECT", "RECEIVE", "DISCONNECT"}, c : Clients, p : Nat])
  /\ lines \in [Clients -> Seq(Nat)]

\* The mutex has one owner.
Excludes(c) ==
  /\ Connecting(c) => call[c] # "sending"
  /\ c = Own /\ logpc = "logging" => ~Connecting(c) /\ call[c] # "sending"

\* The log server works.
Up == logpc \notin {"dead", "gone"}

Of(c, i)      == i \in DOMAIN events /\ events[i].c = c
From(c, t, i) == Of(c, i) /\ events[i].t = t
Coming(c, n)  == \/ \E i \in DOMAIN events : From(c, "RECEIVE", i) /\ events[i].p = n
                 \/ \E i \in DOMAIN up[c] : up[c][i] = n

\* A connection is made once and begins with its CONNECT.
Begins(c) ==
  /\ ~tried[c] => con[c] = "none" /\ sent[c] = 0 /\ up[c] = <<>>
  /\ con[c] = "none" => ~Connecting(c) /\ ~sock[c]
  /\ con[c] \in {"none", "backlog"} =>
       /\ ~known[c] /\ down[c] = <<>> /\ pc[c] # "ok"
       /\ \A i \in DOMAIN events : ~Of(c, i)
  /\ \A i \in DOMAIN events : From(c, "CONNECT", i) =>
       /\ ~known[c] /\ down[c] = <<>> /\ pc[c] # "ok"
       /\ \A j \in DOMAIN events : Of(c, j) => i <= j

\* The handshake goes step by step: greeting, identification, confirmation.
Shakes(c) ==
  /\ sock[c] => tried[c]
  /\ Connecting(c) => sent[c] = 0
  /\ pc[c] = "hello" => /\ up[c] = <<>> /\ ~known[c] /\ Len(down[c]) <= 1
                        /\ \A i \in DOMAIN events : ~From(c, "RECEIVE", i)
  /\ pc[c] = "ok" /\ ~known[c] => down[c] = <<>> /\ (Up => Coming(c, Ident))
  /\ pc[c] = "ok" /\ known[c] => name[c]
  /\ tried[c] /\ pc[c] \in {"idle", "closing"} => known[c] /\ name[c]
  /\ Mistaken(c) = 1 => pc[c] = "dead"

\* The messages of a connection are numbered and none is missing; the
\* identification, if there is one, comes before them.
Numbered(c) ==
  /\ \A i \in DOMAIN lines[c] : lines[c][i] = i + Mistaken(c)
  /\ (~known[c] => lines[c] = <<>>) /\ Handled(c) <= sent[c]
  /\ Up => \A n \in Nat : n # Ident => (Coming(c, n) <=> n \in Handled(c) + 1 .. sent[c])
  /\ Up /\ known[c] => ~Coming(c, Ident)
  /\ Up /\ ~known[c] /\ sent[c] > 0 /\ ~Coming(c, Ident) => pc[c] = "dead"

\* They are handled in the order of their numbers.
Ordered(c) ==
  Up => /\ \A i, j \in DOMAIN up[c] : i < j => up[c][i] < up[c][j]
        /\ \A i, j \in DOMAIN events :
             (i < j /\ From(c, "RECEIVE", i) /\ From(c, "RECEIVE", j)) => events[i].p < events[j].p
        /\ \A i \in DOMAIN events : \A j \in DOMAIN up[c] :
             From(c, "RECEIVE", i) => events[i].p < up[c][j]

ClientInv(c) == Begins(c) /\ Shakes(c) /\ Numbered(c) /\ Ordered(c)

IInv == /\ Types /\ ServerSurvives
        /\ \A c \in Clients : Excludes(c) /\ ClientInv(c)
=============================================================================
