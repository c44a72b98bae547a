----------------------------- MODULE RunControl -----------------------------
(***************************************************************************)
(* The run control and the client processes connected to it.               *)
(*                                                                         *)
(*   user thread    Initialise, Configure, StartRun, StopRun, Reset, ... of *)
(*                  RunControl.cc, called by the GUI or by a master DAQ     *)
(*   server thread  CommandHandler: connections come and go, each received  *)
(*                  status replaces the entry of m_conn_status              *)
(*   status thread  asks every client for its status once a second          *)
(*                                                                         *)
(* A client is reduced to what CommandReceiver.tla shows of it: it takes    *)
(* its commands one by one and reports its status after each.  Commands     *)
(* and statuses travel on one TCP connection per client, in order.          *)
(***************************************************************************)
EXTENDS Naturals, Sequences, SequencesExt, FiniteSets

CONSTANTS
  Producers, DataCollectors, Others,  \* the clients by type
  LastStart,   \* the name at EUDAQ_CTRL_PRODUCER_LAST_START
  FirstStop,   \* the name at EUDAQ_CTRL_PRODUCER_FIRST_STOP
  Late,        \* clients that are not connected at the beginning
  Failing,     \* clients whose user code may fail
  Mortal,      \* clients whose process may die
  Driver,      \* who calls the user thread: "gui", "scan" or "api"
  MaxRun,      \* bound on the run number
  MaxCmds,     \* bound on the commands a client is behind the operator
  MaxUp        \* bound on the statuses the run control is behind a client

Clients == Producers \cup DataCollectors \cup Others

ASSUME ClientAssumption ==
  /\ Producers \cap DataCollectors = {}
  /\ Producers \cap Others = {}
  /\ DataCollectors \cap Others = {} /\ "none" \notin Clients
  /\ Late \subseteq Clients /\ Failing \subseteq Clients /\ Mortal \subseteq Clients
ASSUME DriverAssumption == Driver \in {"gui", "scan", "api"}
ASSUME BoundAssumption == MaxRun \in Nat \ {0} /\ MaxCmds \in Nat \ {0} /\ MaxUp \in Nat \ {0}

States   == {"ERROR", "UNINIT", "UNCONF", "CONF", "STOPPED", "RUNNING"}
Commands == {"INIT", "CONFIG", "START", "STOP", "RESET", "TERMINATE"}
None     == "none"

StartPhases == {"start_others", "start_collectors", "start_producers",
                "wait_producers", "start_last"}
StopPhases  == {"stop_first", "stop_producers", "wait_stopped",
                "stop_collectors", "stop_others"}
OtherPhases == {"init", "tags", "config"}
Phases      == {"idle", "crashed", "closed"}
                 \cup StartPhases \cup StopPhases \cup OtherPhases

VARIABLES
  alive,     \* client -> "new", "on", "mute" (its forwarding thread died), "gone"
  st,        \* client -> its own status
  loop,      \* client -> a run-loop thread exists
  run,       \* client -> its m_run_number
  cmds,      \* client -> commands on the way to it
  up,        \* client -> statuses on the way from it
  view,      \* m_conn_status: client -> state, or None
  listening, \* m_listening
  runN,      \* m_run_n
  pc,        \* the loop that the user thread is in
  conns,     \* conn_to_run or conn_to_stop
  todo,      \* the connections that loop has not finished
  cur,       \* the connection it sent to and waits for, or None
  uiState,   \* the state at the last tick of DisplayTimer; for a scan, the
             \* state that nextStep waits for
  ready      \* that wait is over (TRUE without a scan)

clientVars == <<alive, st, loop, run>>
userVars   == <<listening, runN, pc, conns, todo, cur>>
uiVars     == <<uiState, ready>>
vars == <<clientVars, cmds, up, view, userVars, uiVars>>

TypeOK ==
  /\ alive \in [Clients -> {"new", "on", "mute", "gone"}]
  /\ st \in [Clients -> States]
  /\ loop \in [Clients -> BOOLEAN]
  /\ run \in [Clients -> 0 .. MaxRun]
  /\ cmds \in [Clients -> Seq([cmd : Commands, n : 0 .. MaxRun])]
  /\ up \in [Clients -> Seq(States)]
  /\ view \in [Clients -> States \cup {None}]
  /\ listening \in BOOLEAN
  /\ runN \in 1 .. MaxRun
  /\ pc \in Phases
  /\ conns \subseteq Clients /\ todo \subseteq Clients
  /\ cur \in Clients \cup {None}
  /\ uiState \in States /\ ready \in BOOLEAN

\* A scan begins on an initialised system, configured or not.
Init ==
  \E first \in IF Driver = "scan" THEN {"UNCONF", "CONF"} ELSE {"UNINIT"} :
     /\ alive = [c \in Clients |-> IF c \in Late THEN "new" ELSE "on"]
     /\ st = [c \in Clients |-> IF c \in Late THEN "UNINIT" ELSE first]
     /\ loop = [c \in Clients |-> FALSE]
     /\ run = [c \in Clients |-> 0]
     /\ cmds = [c \in Clients |-> <<>>]
     /\ up = [c \in Clients |-> <<>>]
     /\ view = [c \in Clients |-> IF c \in Late THEN None ELSE first]
     /\ listening = TRUE
     /\ runN = 1
     /\ pc = "idle" /\ conns = {} /\ todo = {} /\ cur = None
     /\ uiState = IF Driver = "scan" THEN "UNCONF" ELSE "UNINIT"
     /\ ready = TRUE
-----------------------------------------------------------------------------
(***************************************************************************)
(* The clients.                                                            *)
(***************************************************************************)
\* Only a Producer looks at its state; a collector refuses a second server.
Accepts(c, k) ==
  /\ k = "START" => ~loop[c]
  /\ c \in Producers =>
       CASE k = "INIT"   -> st[c] = "UNINIT"
         [] k = "CONFIG" -> st[c] \in {"UNCONF", "CONF", "STOPPED"}
         [] k = "START"  -> st[c] \in {"CONF", "STOPPED"}
         [] k = "STOP"   -> st[c] = "RUNNING"
         [] OTHER        -> TRUE

Success(k) ==
  CASE k = "INIT"  -> "UNCONF"  [] k = "CONFIG" -> "CONF"
    [] k = "START" -> "RUNNING" [] k = "STOP"   -> "STOPPED"
    [] k \in {"RESET", "TERMINATE"} -> "UNINIT"

Reach(c, s) == st' = [st EXCEPT ![c] = s] /\ up' = [up EXCEPT ![c] = Append(@, s)]

\* Once TERMINATE is handled, with success or not, the process ends.
Alive(c, k, a) == alive' = [alive EXCEPT ![c] = IF k = "TERMINATE" THEN "gone" ELSE a]

\* One command is handled and its outcome reported.  An exception that the
\* handler does not catch (for a DataCollector anything in its reset) ends
\* the forwarding thread: the client reports nothing any more.
Handle(c) ==
  /\ alive[c] = "on" /\ cmds[c] # <<>> /\ Len(up[c]) < MaxUp
  /\ LET k == Head(cmds[c]).cmd
     IN /\ cmds' = [cmds EXCEPT ![c] = Tail(@)]
        /\ run' = IF k = "START" THEN [run EXCEPT ![c] = Head(cmds[c]).n] ELSE run
        /\ \/ /\ Accepts(c, k)
              /\ Reach(c, Success(k))
              /\ loop' = IF k \in {"START", "STOP", "RESET"}
                         THEN [loop EXCEPT ![c] = (k = "START")] ELSE loop
              /\ Alive(c, k, "on")
           \/ /\ ~Accepts(c, k) \/ c \in Failing
              /\ c \in DataCollectors => k \notin {"RESET", "TERMINATE"}
              /\ Reach(c, "ERROR")
              /\ \/ UNCHANGED loop
                 \/ c \in Failing /\ k \in {"STOP", "RESET"}
                      /\ loop' = [loop EXCEPT ![c] = FALSE]
              /\ Alive(c, k, "on")
           \/ /\ c \in Failing \ Producers
              /\ c \in Others => k # "RESET"
              /\ Alive(c, k, "mute")
              /\ UNCHANGED <<st, up, loop>>
  /\ UNCHANGED <<view, userVars, uiVars>>

\* The answer to a STATUS command; one is asked for when the last arrived.
Report(c) ==
  /\ alive[c] = "on" /\ up[c] = <<>> /\ view[c] # st[c]
  /\ up' = [up EXCEPT ![c] = Append(@, st[c])]
  /\ UNCHANGED <<clientVars, cmds, view, userVars, uiVars>>

\* The RunLoop of a client throws, or a collector fails to write an event.
RunFails(c) ==
  /\ alive[c] = "on" /\ c \in Failing /\ loop[c] /\ st[c] = "RUNNING"
  /\ st' = [st EXCEPT ![c] = "ERROR"]
  /\ UNCHANGED <<alive, loop, run, cmds, up, view, userVars, uiVars>>

Dies(c) ==
  /\ alive[c] \in {"on", "mute"} /\ c \in Mortal
  /\ alive' = [alive EXCEPT ![c] = "gone"]
  /\ UNCHANGED <<st, loop, run, cmds, up, view, userVars, uiVars>>
-----------------------------------------------------------------------------
(***************************************************************************)
(* The server thread: CommandHandler.                                      *)
(***************************************************************************)
\* CONNECT and the identification that follows it.
Connect(c) ==
  /\ alive[c] = "new" /\ pc \notin {"crashed", "closed"}
  /\ \/ /\ listening
        /\ alive' = [alive EXCEPT ![c] = "on"]
        /\ view' = [view EXCEPT ![c] = "UNINIT"]
     \/ /\ ~listening
        /\ alive' = [alive EXCEPT ![c] = "gone"]
        /\ UNCHANGED view
  /\ UNCHANGED <<st, loop, run, cmds, up, userVars, uiVars>>

Receive(c) ==
  /\ up[c] # <<>> /\ pc \notin {"crashed", "closed"}
  /\ view' = [view EXCEPT ![c] = Head(up[c])]
  /\ up' = [up EXCEPT ![c] = Tail(@)]
  /\ UNCHANGED <<clientVars, cmds, userVars, uiVars>>

Disconnect(c) ==
  /\ alive[c] = "gone" /\ up[c] = <<>> /\ view[c] # None
  /\ pc \notin {"crashed", "closed"}
  /\ view' = [view EXCEPT ![c] = None]
  /\ UNCHANGED <<clientVars, cmds, up, userVars, uiVars>>
-----------------------------------------------------------------------------
(***************************************************************************)
(* The calls on the user thread.                                           *)
(***************************************************************************)
Known == {c \in Clients : view[c] # None}
\* Mutant: the scan looks at the Producers only.
MutProducersIn(S) == \A c \in Known \cap Producers : view[c] \in S

AllIn(S) == \A c \in Known : view[c] \in S

(***************************************************************************)
(* Who calls what.  GUI: the buttons follow the state of the last tick.    *)
(* Scan: nextStep stops, configures and starts, and waits in between until *)
(* every connection is in the state of success.  A master DAQ, like the    *)
(* context menu of the GUI, calls what it likes.  MaxCmds and MaxRun bound *)
(* all three.                                                              *)
(***************************************************************************)
May(k) ==
  /\ pc = "idle"
  /\ \A c \in Clients : Len(cmds[c]) < MaxCmds
  /\ CASE Driver = "api" -> TRUE
       [] Driver = "gui" ->
            CASE k = "INIT"   -> uiState = "UNINIT"
              [] k = "CONFIG" -> uiState \in {"UNCONF", "CONF", "STOPPED"}
              [] k = "START"  -> uiState \in {"CONF", "STOPPED"}
              [] k = "STOP"   -> uiState = "RUNNING"
              [] OTHER        -> uiState # "RUNNING"
       [] Driver = "scan" ->
            /\ ready
            /\ k \in CASE uiState \in {"UNCONF", "STOPPED"} -> {"CONFIG"}
                       [] uiState = "CONF"                  -> {"START"}
                       [] uiState = "RUNNING"               -> {"STOP"}

\* The scan goes on to wait for the success of the call.
Awaits(k) ==
  IF Driver = "scan" THEN uiState' = Success(k) /\ ready' = FALSE
                     ELSE UNCHANGED uiVars

Rank(s) == CASE s = "ERROR" -> 0 [] s = "UNINIT"  -> 1 [] s = "UNCONF"  -> 2
             [] s = "CONF"  -> 3 [] s = "STOPPED" -> 4 [] s = "RUNNING" -> 5

\* DisplayTimer runs in the thread of the buttons: never during a call.
Tick ==
  /\ pc = "idle" /\ Driver = "gui"
  /\ uiState' = IF Known = {} THEN "UNINIT"
                ELSE CHOOSE s \in {view[c] : c \in Known} :
                       \A c \in Known : Rank(s) <= Rank(view[c])
  /\ UNCHANGED <<clientVars, cmds, up, view, userVars, ready>>

\* SendPacket reaches the connections that are still open.
Put(c, k) ==
  IF view[c] = None THEN cmds[c]
  ELSE Append(cmds[c], [cmd |-> k, n |-> IF k = "START" THEN runN ELSE 0])
SendCommand(k, c) == cmds' = [cmds EXCEPT ![c] = Put(c, k)]
Broadcast(k) == cmds' = [c \in Clients |-> Put(c, k)]

\* allConnectionsInState: over at last, or an ERROR that is reset.  What
\* follows is called some seconds later and does not look again.
ScanReady ==
  /\ pc = "idle" /\ ~ready /\ AllIn({uiState})
  /\ ready' = TRUE
  /\ UNCHANGED <<clientVars, cmds, up, view, userVars, uiState>>

ScanResets(c) ==
  /\ pc = "idle" /\ ~ready /\ view[c] = "ERROR" /\ Len(cmds[c]) < MaxCmds
  /\ listening' = TRUE
  /\ SendCommand("RESET", c)
  /\ UNCHANGED <<clientVars, up, view, runN, pc, conns, todo, cur, uiVars>>

(***************************************************************************)
(* A call takes a snapshot of m_conn_status under the lock and then runs   *)
(* one or several loops over it without the lock.                          *)
(***************************************************************************)
After(ph) ==
  CASE ph = "tags"            -> "config"
    [] ph = "start_others"    -> "start_collectors"
    [] ph = "start_collectors" -> "start_producers"
    [] ph = "start_producers" -> "wait_producers"
    [] ph = "wait_producers"  -> "start_last"
    [] ph = "stop_first"      -> "stop_producers"
    [] ph = "stop_producers"  -> "wait_stopped"
    [] ph = "wait_stopped"    -> "stop_collectors"
    [] ph = "stop_collectors" -> "stop_others"
    [] OTHER                  -> "idle"

\* Mutant: the first loop of StartRun takes the collectors too.
MutOthersAreNotProducers(ph, c) ==
  CASE ph \in {"start_others", "tags"} -> c \notin Producers
    [] ph = "stop_others"              -> c \in Others
    [] ph \in {"start_collectors", "stop_collectors"} -> c \in DataCollectors
    [] ph = "start_producers" -> c \in Producers /\ c # LastStart
    [] ph = "wait_producers"  -> c # LastStart
    [] ph = "start_last"      -> c \in Producers /\ c = LastStart
    [] ph = "stop_first"      -> c \in Producers /\ c = FirstStop
    [] ph \in {"stop_producers", "wait_stopped"} -> c \in Producers /\ c # FirstStop
    [] OTHER                  -> TRUE

\* The connections that loop ph is about.
In(ph, c) ==
  CASE ph \in {"start_others", "stop_others"}         -> c \in Others
    [] ph \in {"start_collectors", "stop_collectors"} -> c \in DataCollectors
    [] ph = "start_producers" -> c \in Producers /\ c # LastStart
    [] ph = "wait_producers"  -> c # LastStart
    [] ph = "start_last"      -> c \in Producers /\ c = LastStart
    [] ph = "stop_first"      -> c \in Producers /\ c = FirstStop
    [] ph \in {"stop_producers", "wait_stopped"} -> c \in Producers /\ c # FirstStop
    [] ph = "tags"            -> c \notin Producers
    [] OTHER                  -> TRUE

CommandOf(ph) ==
  CASE ph = "init" -> "INIT" [] ph = "config" -> "CONFIG"
    [] ph \in StartPhases -> "START" [] ph \in StopPhases -> "STOP"

Waits    == {"tags", "wait_producers", "wait_stopped"}         \* sends nothing
SendWait == {"start_others", "start_collectors", "stop_first"} \* waits after each
Polling  == pc \in Waits \/ cur # None

\* Mutant: StartRun does not wait for the collectors.
MutCollectorsUnawaited(c) ==
  CASE pc = "start_others"                   -> view[c] = "RUNNING"
    [] pc = "wait_producers"                 -> view[c] # "CONF"
    [] pc \in {"stop_first", "wait_stopped"} -> view[c] # "RUNNING"
    [] OTHER                                 -> TRUE

\* Mutant: StopRun waits for the first Producer only.
MutProducersUnawaited(c) ==
  CASE pc \in {"start_others", "start_collectors"} -> view[c] = "RUNNING"
    [] pc = "wait_producers"                       -> view[c] # "CONF"
    [] pc = "stop_first"                           -> view[c] # "RUNNING"
    [] OTHER                                       -> TRUE

\* Mutant: the two waits for producers want the state of success.
MutWaitsForSuccess(c) ==
  CASE pc \in {"start_others", "start_collectors", "wait_producers"} ->
         view[c] = "RUNNING"
    [] pc \in {"stop_first", "wait_stopped"} -> view[c] = "STOPPED"
    [] OTHER                                 -> TRUE

\* What a wait for c waits for.
Released(c) ==
  CASE pc \in {"start_others", "start_collectors"} -> view[c] = "RUNNING"
    [] pc = "wait_producers"                       -> view[c] # "CONF"
    [] pc \in {"stop_first", "wait_stopped"}       -> view[c] # "RUNNING"
    [] OTHER                                       -> TRUE

\* Only the first waits of StartRun ask whether the connection still exists.
NullStatus(c) == view[c] = None /\ pc \notin {"start_others", "start_collectors"}

Enter(ph, S) ==
  /\ pc' = ph
  /\ conns' = S
  /\ todo' = {c \in S : In(ph, c)}
  /\ cur' = None

NextPhase ==
  /\ pc \in StartPhases \cup StopPhases \cup OtherPhases
  /\ todo = {}
  /\ Enter(After(pc), IF After(pc) = "idle" THEN {} ELSE conns)
  /\ UNCHANGED <<clientVars, cmds, up, view, listening, runN, uiVars>>

\* Initialise looks at each state again; it needs the entry to exist.
Send(c) ==
  /\ pc \in (StartPhases \cup StopPhases \cup OtherPhases) \ Waits
  /\ cur = None /\ c \in todo
  /\ IF pc = "init" /\ view[c] = None
     THEN pc' = "crashed" /\ UNCHANGED <<cmds, todo, cur>>
     ELSE /\ IF pc = "init" /\ view[c] \notin {"UNINIT", "UNCONF"}
             THEN UNCHANGED cmds
             ELSE SendCommand(CommandOf(pc), c)
          /\ IF pc \in SendWait
             THEN cur' = c /\ UNCHANGED todo
             ELSE todo' = todo \ {c} /\ UNCHANGED cur
          /\ UNCHANGED pc
  /\ UNCHANGED <<clientVars, up, view, listening, runN, conns, uiVars>>

Poll(c) ==
  /\ Polling /\ c \in todo /\ cur \in {c, None}
  /\ \/ /\ NullStatus(c)
        /\ pc' = "crashed" /\ UNCHANGED <<todo, cur>>
     \/ /\ ~NullStatus(c) /\ Released(c)
        /\ todo' = todo \ {c} /\ cur' = None
        /\ UNCHANGED pc
  /\ UNCHANGED <<clientVars, cmds, up, view, listening, runN, conns, uiVars>>

-----------------------------------------------------------------------------
Initialise ==
  /\ May("INIT") /\ AllIn({"UNINIT", "UNCONF"})
  /\ Enter("init", {c \in Known : view[c] = "UNINIT"})
  /\ UNCHANGED <<clientVars, cmds, up, view, listening, runN, uiVars>>

Configure ==
  /\ May("CONFIG")
  /\ Enter("tags", {c \in Known : view[c] \in {"UNCONF", "CONF", "STOPPED"}})
  /\ Awaits("CONFIG")
  /\ UNCHANGED <<clientVars, cmds, up, view, listening, runN>>

\* Mutant: StartRun goes on accepting connections.
MutStartKeepsListening ==
  /\ May("START")
  /\ Enter("start_others", {c \in Known : view[c] \in {"CONF", "STOPPED"}})
  /\ Awaits("START")
  /\ UNCHANGED <<clientVars, cmds, up, view, listening, runN>>

StartRun ==
  /\ May("START")
  /\ listening' = FALSE
  /\ Enter("start_others", {c \in Known : view[c] \in {"CONF", "STOPPED"}})
  /\ Awaits("START")
  /\ UNCHANGED <<clientVars, cmds, up, view, runN>>

\* Mutant: the run number counts down.
MutStopCountsDown ==
  /\ May("STOP") /\ runN < MaxRun
  /\ listening' = TRUE
  /\ runN' = runN - 1
  /\ Enter("stop_first", {c \in Known : view[c] = "RUNNING"})
  /\ Awaits("STOP")
  /\ UNCHANGED <<clientVars, cmds, up, view>>

StopRun ==
  /\ May("STOP") /\ runN < MaxRun
  /\ listening' = TRUE
  /\ runN' = runN + 1
  /\ Enter("stop_first", {c \in Known : view[c] = "RUNNING"})
  /\ Awaits("STOP")
  /\ UNCHANGED <<clientVars, cmds, up, view>>

Reset ==
  /\ May("RESET")
  /\ listening' = TRUE
  /\ Broadcast("RESET")
  /\ UNCHANGED <<clientVars, up, view, runN, pc, conns, todo, cur, uiVars>>

Terminate ==
  /\ May("TERMINATE")
  /\ listening' = FALSE
  /\ Broadcast("TERMINATE")
  /\ pc' = "closed"
  /\ UNCHANGED <<clientVars, up, view, runN, conns, todo, cur, uiVars>>

\* The calls for a single connection; StartSingleConnection and
\* StopSingleConnection log "skipped" in the wrong state, and send.
Single(k, c) ==
  /\ Driver = "api" /\ May(k)
  /\ \/ /\ c \in Known
        /\ k = "INIT" => view[c] \in {"UNINIT", "UNCONF"}
        /\ k = "CONFIG" => view[c] \in {"UNCONF", "CONF", "STOPPED"}
        /\ SendCommand(k, c)
        /\ UNCHANGED pc
     \/ /\ c \notin Known /\ alive[c] = "gone" /\ k \notin {"RESET", "TERMINATE"}
        /\ pc' = "crashed"
        /\ UNCHANGED cmds
  /\ listening' = (listening \/ k = "RESET")
  /\ UNCHANGED <<clientVars, up, view, runN, conns, todo, cur, uiVars>>
-----------------------------------------------------------------------------
Calls == Initialise \/ Configure \/ StartRun \/ StopRun \/ Reset \/ Terminate

Next ==
  \/ \E c \in Clients : Handle(c) \/ Report(c) \/ RunFails(c) \/ Dies(c)
  \/ \E c \in Clients : Connect(c) \/ Receive(c) \/ Disconnect(c)
  \/ \E c \in Clients : Send(c) \/ Poll(c)
  \/ NextPhase
  \/ Tick
  \/ ScanReady \/ \E c \in Clients : ScanResets(c)
  \/ Calls
  \/ \E k \in Commands, c \in Clients : Single(k, c)

\* The threads of the run control and of the clients run; nothing makes the
\* operator press a button or a user's code fail.
Fairness ==
  /\ \A c \in Clients : WF_vars(Handle(c)) /\ WF_vars(Report(c)) /\ WF_vars(Receive(c))
  /\ \A c \in Clients : WF_vars(Send(c)) /\ WF_vars(Poll(c))
  /\ WF_vars(NextPhase)

Spec == Init /\ [][Next]_vars
FairSpec == Spec /\ Fairness
-----------------------------------------------------------------------------
(***************************************************************************)
(* Properties.                                                             *)
(***************************************************************************)
On == {c \in Clients : alive[c] = "on"}

Sent(k, c) == /\ Len(cmds'[c]) > Len(cmds[c])
              /\ Last(cmds'[c]).cmd = k

\* StartRun sends START to a Producer only when every DataCollector of the
\* run has taken this run's START: the wait of RunControl.cc:237-246 cannot
\* be satisfied by a RUNNING that is left over from an earlier run.
CollectorsFirst ==
  [][\A p \in Producers : (pc \in StartPhases /\ Sent("START", p))
       => \A d \in conns \cap DataCollectors :
            run[d] = runN /\ st[d] \in {"RUNNING", "ERROR"}]_vars

\* "RunControl will not send the StopRun command to the DataCollector until
\* all Producers have returned from the DoStopRun function and feedback
\* their status" (doc/manual/src/Integration.tex:155).
ProducersStopFirst ==
  [][\A d \in DataCollectors : Sent("STOP", d)
       => \A p \in Producers \cap On : st[p] # "RUNNING"]_vars

\* The order of the documentation, in both directions.
DocumentedOrder == CollectorsFirst /\ ProducersStopFirst

\* All clients that are running are running the same run.
OneRun ==
  \A c, o \in On : (st[c] = "RUNNING" /\ st[o] = "RUNNING") => run[c] = run[o]

\* No client refuses a command: one whose user code does not fail never gets
\* into ERROR, the state machines of run control and clients agree.
NoRefusal == \A c \in On \ Failing : st[c] # "ERROR"

\* A connection is accepted during a run only once StopRun or Reset was
\* called: every client that runs has been, or is being, told to end.
NoJoinDuringRun ==
  [][\A c \in Clients : (view[c] = None /\ view'[c] # None)
       => \/ pc \in StopPhases
          \/ \A o \in On : st[o] = "RUNNING" =>
               \E i \in 1 .. Len(cmds[o]) : cmds[o][i].cmd \in {"STOP", "RESET"}]_vars

\* StopRun comes to an end, even if Producers fail while they stop.
StopRunEnds == (pc \in StopPhases) ~> (pc \notin StopPhases)

\* StartRun comes to an end, even if Producers fail while they start.
StartRunEnds == (pc \in StartPhases) ~> (pc \notin StartPhases)
-----------------------------------------------------------------------------
(***************************************************************************)
(* The inductive invariant behind OneRun and NoRefusal.  A scan goes round: *)
(* CONF, RUNNING, STOPPED.  Of these, a client and all that it has told can *)
(* show only the one that is waited for and the one before; the command    *)
(* that leads to it is sent once, and what shows it has handled that.      *)
(***************************************************************************)
Step(s)   == CASE s = "CONF" -> "CONFIG" [] s = "RUNNING" -> "START" [] OTHER -> "STOP"
Before(s) == CASE s = "CONF" -> "STOPPED" [] s = "RUNNING" -> "CONF" [] OTHER -> "RUNNING"
Behind(s) == CASE s = "CONF" -> "RUNNING" [] s = "RUNNING" -> "STOPPED" [] OTHER -> "CONF"

Has(c, k)   == \E i \in DOMAIN cmds[c] : cmds[c][i].cmd = k
Tells(c, s) == \E i \in DOMAIN up[c] : up[c][i] = s
Shows(c, s) == view[c] = s \/ st[c] = s \/ Tells(c, s)

\* Once it was b, it is not a any more.
Turned(c, a, b) ==
  /\ view[c] = b => st[c] # a /\ ~Tells(c, a)
  /\ \A i \in DOMAIN up[c] : up[c][i] = b =>
       st[c] # a /\ \A j \in DOMAIN up[c] : j > i => up[c][j] # a

\* The loops that follow and send, and who waits for a command of the call.
Later(ph) ==
  CASE ph = "start_others"     -> {"start_collectors", "start_producers", "start_last"}
    [] ph = "start_collectors" -> {"start_producers", "start_last"}
    [] ph \in {"start_producers", "wait_producers"} -> {"start_last"}
    [] ph = "stop_first"       -> {"stop_producers", "stop_collectors", "stop_others"}
    [] ph \in {"stop_producers", "wait_stopped"} -> {"stop_collectors", "stop_others"}
    [] ph = "stop_collectors"  -> {"stop_others"}
    [] OTHER                   -> {}
Unsent(c) ==
  /\ c \in conns
  /\ \/ pc \in (StartPhases \cup StopPhases) \ Waits /\ c \in todo /\ cur # c
     \/ \E ph \in Later(pc) : In(ph, c)

\* Where the scan can be.
Round ==
  /\ uiState \in {"UNCONF", "CONF", "RUNNING", "STOPPED"}
  /\ pc \in {"idle", "crashed", "tags", "config"} \cup StartPhases \cup StopPhases
  /\ pc \in {"tags", "config"} => uiState = "CONF" /\ ~ready
  /\ pc \in StartPhases => uiState = "RUNNING" /\ ~ready
  /\ pc \in StopPhases => uiState = "STOPPED" /\ ~ready
  /\ uiState = "UNCONF" => ready
  /\ \A c \in todo : c \in conns /\ In(pc, c)
  /\ \A c \in Clients : alive[c] = "new" =>
       /\ view[c] = None /\ st[c] = "UNINIT" /\ ~loop[c]
       /\ up[c] = <<>> /\ cmds[c] = <<>> /\ c \notin conns

\* What may be in the queue of a client.
QueueInv(c) ==
  /\ \A i \in DOMAIN cmds[c] :
       \/ cmds[c][i].cmd = "RESET"
       \/ cmds[c][i].cmd = "CONFIG" /\ uiState = "CONF"
       \/ cmds[c][i].cmd = "CONFIG" /\ uiState = "RUNNING" /\ ~ready /\ ~Shows(c, "RUNNING")
       \/ /\ cmds[c][i].cmd = Step(uiState) /\ uiState \in {"RUNNING", "STOPPED"} /\ ~ready
          /\ ~Shows(c, uiState) /\ ~Unsent(c)
          /\ \A j \in DOMAIN cmds[c] : j > i => cmds[c][j].cmd = "RESET"
  /\ \A i \in DOMAIN cmds[c] : cmds[c][i].cmd = "START" => cmds[c][i].n = runN
  /\ Unsent(c) => ~Shows(c, uiState)

\* What it may show.
RoundInv(c) ==
  /\ view[c] # None
  /\ uiState = "UNCONF" => ~Shows(c, "RUNNING") /\ ~Shows(c, "STOPPED")
  /\ uiState # "UNCONF" => ~Shows(c, Behind(uiState)) /\ Turned(c, Before(uiState), uiState)
  /\ uiState # "UNCONF" /\ ready => ~Shows(c, Before(uiState))
  /\ st[c] = "RUNNING" => run[c] = IF uiState = "STOPPED" THEN runN - 1 ELSE runN

\* A client whose user code does not fail; one that came late stays UNINIT.
SoundInv(c) ==
  /\ ~Shows(c, "ERROR") /\ ~Has(c, "RESET")
  /\ loop[c] => st[c] = "RUNNING"
  /\ Shows(c, "UNINIT") =>
       /\ st[c] = "UNINIT" /\ view[c] = "UNINIT" /\ \A i \in DOMAIN up[c] : up[c][i] = "UNINIT"
       /\ cmds[c] = <<>> /\ c \notin conns
  /\ uiState \in {"UNCONF", "CONF"} => Turned(c, "UNCONF", "CONF")
  /\ uiState \in {"RUNNING", "STOPPED"} \/ (uiState = "CONF" /\ ready) => ~Shows(c, "UNCONF")

ClientInv(c) == QueueInv(c) /\ RoundInv(c) /\ (c \notin Failing => SoundInv(c))
ScanInv == TypeOK /\ Round /\ \A c \in On : ClientInv(c)
=============================================================================
