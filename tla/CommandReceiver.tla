-------------------------- MODULE CommandReceiver --------------------------
(***************************************************************************)
(* One EUDAQ client process (Producer, DataCollector, Monitor or           *)
(* LogCollector) as seen by the run control: the five threads that         *)
(* CommandReceiver.cc runs, and the On* handlers that the four kinds of    *)
(* client put on top of it.                                                *)
(*                                                                         *)
(*   receiving thread   AsyncReceiving: socket -> m_qu_cmd                 *)
(*   forwarding thread  AsyncForwarding: m_qu_cmd -> On* -> SendStatus     *)
(*   run-loop thread    RunLooping, started by OnStartRun                  *)
(*   deamon thread      Deamon: reaps the threads, closes the connection   *)
(*   data threads       (DataCollector, Monitor) see DataReceiver.tla;     *)
(*                      here only whether they serve, are dying or stuck   *)
(*                                                                         *)
(* User code (Do* hooks and RunLoop) may return or throw whenever it runs. *)
(***************************************************************************)
EXTENDS Naturals, Sequences

CONSTANTS
  Kind,      \* which of the four client classes this process is
  MaxQueue,  \* bound on the commands waiting in m_qu_cmd
  Faults     \* what may go wrong: a subset of AllFaults

Kinds == {"Producer", "DataCollector", "Monitor", "LogCollector"}

AllFaults ==
  { "hook",    \* a user Do* method throws
    "loop",    \* the user RunLoop throws
    "data",    \* a data connection or the listening socket cannot be made
    "dying",   \* the data receiving thread ends by an exception
    "write",   \* DataCollector::WriteEvent fails
    "log",     \* the log server cannot be reached
    "conn" }   \* the connection to the run control breaks

ASSUME KindAssumption == Kind \in Kinds
ASSUME QueueAssumption == MaxQueue \in Nat \ {0}
ASSUME FaultsAssumption == Faults \subseteq AllFaults

States   == {"ERROR", "UNINIT", "UNCONF", "CONF", "STOPPED", "RUNNING"}
Commands == {"INIT", "CONFIG", "START", "STOP", "RESET", "TERMINATE",
             "STATUS", "LOG", "OTHER"}
Exceptions == {"eudaq", "other"}    \* eudaq::Exception, anything else

\* Where the forwarding thread is; "hung" is blocked for ever in Listen.
FwdBusy == {"guard", "open", "hook", "close", "base", "started", "join",
            "set", "send"}
FwdGone == {"returned", "dead", "reaped", "crashed", "exited"}
FwdPC   == {"pop", "hung"} \cup FwdBusy \cup FwdGone

VARIABLES
  status,        \* m_status.m_state
  sent,          \* the last state SendStatus put on the wire
  queue,         \* m_qu_cmd
  cmd,           \* the command the forwarding thread popped last
  fwd,           \* program counter of the forwarding thread
  isRunlooping,  \* m_is_runlooping
  runloop,       \* the run-loop thread and m_fut_runloop ("none": not valid)
  data,          \* m_senders of a Producer, the data server of a collector
  confSet,       \* m_conf is not null
  isConnected,   \* m_is_connected
  isDestructing, \* m_is_destructing
  rcv,           \* the receiving thread and m_fut_async_rcv
  deamon         \* the deamon thread

vars == <<status, sent, queue, cmd, fwd, isRunlooping, runloop, data, confSet,
          isConnected, isDestructing, rcv, deamon>>

linkVars == <<isConnected, isDestructing, rcv, deamon>>
loopVars == <<isRunlooping, runloop>>

TypeOK ==
  /\ status \in States
  /\ sent \in States
  /\ queue \in Seq(Commands)
  /\ cmd \in Commands
  /\ fwd \in FwdPC
  /\ isRunlooping \in BOOLEAN
  /\ runloop \in {"none", "user", "waiting", "returned"} \cup Exceptions
  /\ data \in {"closed", "open", "dying", "stuck"}
  /\ confSet \in BOOLEAN
  /\ isConnected \in BOOLEAN
  /\ isDestructing \in BOOLEAN
  /\ rcv \in {"running", "returned", "threw", "reaped"}
  /\ deamon \in {"running", "exiting", "done"}

(***************************************************************************)
(* The process just after Connect() returned.                              *)
(***************************************************************************)
Init ==
  /\ status = "UNINIT"
  /\ sent = "UNINIT"
  /\ queue = <<>>
  /\ cmd = "OTHER"
  /\ fwd = "pop"
  /\ isRunlooping = FALSE
  /\ runloop = "none"
  /\ data = "closed"
  /\ confSet = FALSE
  /\ isConnected = TRUE
  /\ isDestructing = FALSE
  /\ rcv = "running"
  /\ deamon = "running"

Alive == fwd \notin {"crashed", "exited"}
HasServer == Kind \in {"DataCollector", "Monitor"}
-----------------------------------------------------------------------------
(***************************************************************************)
(* What becomes of an exception e raised while the handler of cmd runs.    *)
(* A handler that catches it sets STATE_ERROR; the catch block of the      *)
(* OnInitialise of everything but a Producer reads the name of the         *)
(* configuration, which is a null pointer before the first CONFIG.         *)
(* What no handler catches ends the forwarding thread.                     *)
(***************************************************************************)
Catches(e) ==
  \/ Kind = "Producer" /\ cmd \notin {"LOG", "OTHER"}
  \/ HasServer /\ e = "eudaq" /\ cmd \in {"INIT", "CONFIG", "START", "STOP"}
  \/ Kind = "Monitor" /\ cmd = "RESET"
  \/ Kind = "LogCollector" /\ e = "eudaq" /\ cmd = "INIT"

ReadsNullConf == Kind # "Producer" /\ cmd = "INIT" /\ ~confSet

\* Mutant: the catch block forgets to set STATE_ERROR.
MutThrowKeepsStatus(e) ==
  /\ fwd' = IF Catches(e) THEN "send" ELSE "dead"
  /\ UNCHANGED status

Throw(e) ==
  \/ /\ Catches(e) /\ ~ReadsNullConf
     /\ status' = "ERROR"
     /\ fwd' = "send"
  \/ /\ Catches(e) /\ ReadsNullConf
     /\ fwd' = "crashed"
     /\ UNCHANGED status
  \/ /\ ~Catches(e)
     /\ fwd' = "dead"
     /\ UNCHANGED status

\* SetStatus(s) and go on with the thread at pc.
SetStatus(s, pc) == status' = s /\ fwd' = pc
-----------------------------------------------------------------------------
(***************************************************************************)
(* The forwarding thread.                                                  *)
(***************************************************************************)
Pop ==
  /\ fwd = "pop" /\ queue # <<>>
  /\ cmd' = Head(queue)
  /\ queue' = Tail(queue)
  /\ fwd' = "guard"
  /\ isDestructing' = (isDestructing \/ cmd' = "TERMINATE")
  /\ confSet' = (confSet \/ cmd' = "CONFIG")
  /\ UNCHANGED <<status, sent, loopVars, data, isConnected, rcv, deamon>>

\* Only a Producer looks at its state before it obeys.
\* Mutant: a Producer obeys CONFIG in every state.
MutAcceptConfig ==
  (Kind = "Producer" /\ cmd # "CONFIG") =>
    CASE cmd = "INIT"   -> status = "UNINIT"
      [] cmd = "START"  -> status \in {"CONF", "STOPPED"}
      [] cmd = "STOP"   -> status = "RUNNING"
      [] OTHER          -> TRUE

Accepted ==
  Kind = "Producer" =>
    CASE cmd = "INIT"   -> status = "UNINIT"
      [] cmd = "CONFIG" -> status \in {"UNCONF", "CONF", "STOPPED"}
      [] cmd = "START"  -> status \in {"CONF", "STOPPED"}
      [] cmd = "STOP"   -> status = "RUNNING"
      [] OTHER          -> TRUE

Guard ==
  /\ fwd = "guard"
  /\ \/ ~Accepted /\ Throw("eudaq")
     \/ /\ Accepted
        /\ status' = IF cmd = "CONFIG" /\ Kind # "LogCollector"
                     THEN "UNCONF" ELSE status
        /\ fwd' = IF \/ HasServer /\ cmd \in {"INIT", "START"}
                     \/ Kind = "Producer" /\ cmd = "START"
                  THEN "open" ELSE "hook"
  /\ UNCHANGED <<sent, queue, cmd, loopVars, data, confSet, linkVars>>

\* The Producer connects its senders before it replaces m_senders.
ConnectSenders ==
  /\ fwd = "open" /\ Kind = "Producer"
  /\ \/ /\ data' = "open"
        /\ fwd' = "hook"
        /\ UNCHANGED status
     \/ /\ "data" \in Faults
        /\ Throw("eudaq")
        /\ UNCHANGED data
  /\ UNCHANGED <<sent, queue, cmd, loopVars, confSet, linkVars>>

\* INIT opens the server only to learn its address and reports that address.
Listen ==
  /\ fwd = "open" /\ HasServer
  /\ \/ /\ data = "closed" /\ cmd = "INIT"
        /\ sent' = status
        /\ fwd' = "hook"
        /\ UNCHANGED <<status, data>>
     \/ /\ data = "closed" /\ cmd = "START"
        /\ data' = "open"
        /\ fwd' = IF Kind = "DataCollector" /\ ~confSet
                  THEN "crashed" ELSE "hook"
        /\ UNCHANGED <<status, sent>>
     \/ /\ \/ data \in {"open", "dying"}   \* "Last server did not closed"
           \/ data = "closed" /\ "data" \in Faults
        /\ Throw("eudaq")
        /\ UNCHANGED <<sent, data>>
     \/ /\ data = "stuck"                   \* the deamon holds m_mx_deamon
        /\ fwd' = "hung"
        /\ UNCHANGED <<status, sent, data>>
  /\ UNCHANGED <<queue, cmd, loopVars, confSet, linkVars>>

\* The commands for which this kind of client calls a method that may throw.
HookMayThrow ==
  \/ "hook" \in Faults /\ cmd \in Commands \ {"LOG", "OTHER"}
       /\ (Kind = "LogCollector" => cmd \in {"INIT", "TERMINATE"})
  \/ "log" \in Faults /\ cmd = "LOG"

Hook ==
  /\ fwd = "hook"
  /\ \/ /\ fwd' = IF HasServer /\ cmd \in {"STOP", "RESET"} THEN "close" ELSE "base"
        /\ UNCHANGED status
     \/ /\ HookMayThrow
        /\ \E e \in Exceptions : (cmd = "LOG" => e = "eudaq") /\ Throw(e)
  /\ UNCHANGED <<sent, queue, cmd, loopVars, data, confSet, linkVars>>

\* Ends only when both data threads were reaped, or gives up after 10 s.
StopListen ==
  /\ fwd = "close"
  /\ \/ /\ data \in {"closed", "open"}
        /\ data' = "closed"
        /\ fwd' = "base"
        /\ UNCHANGED status
     \/ /\ data \in {"dying", "stuck"}
        /\ data' = "stuck"
        /\ Throw("eudaq")
  /\ UNCHANGED <<sent, queue, cmd, loopVars, confSet, linkVars>>
-----------------------------------------------------------------------------
(***************************************************************************)
(* CommandReceiver::On*, the common end of every handler.                  *)
(***************************************************************************)
BaseOther ==
  /\ fwd = "base" /\ cmd \notin {"START", "STOP", "RESET"}
  /\ CASE cmd = "INIT"      -> SetStatus("UNCONF", "send")
       [] cmd = "CONFIG"    -> SetStatus("CONF", "send")
       [] cmd = "TERMINATE" -> SetStatus("UNINIT", IF Kind = "LogCollector"
                                                   THEN "exited" ELSE "send")
       [] OTHER             -> SetStatus(status, "send")
  /\ UNCHANGED <<sent, queue, cmd, loopVars, data, confSet, linkVars>>

\* Mutant: OnStartRun does not ask whether the last future is still valid.
MutStartOverwrites ==
  /\ fwd = "base" /\ cmd = "START"
  /\ isRunlooping' = TRUE
  /\ runloop' = "user"
  /\ fwd' = "started"
  /\ UNCHANGED <<status, sent, queue, cmd, data, confSet, linkVars>>

BaseStartRun ==
  /\ fwd = "base" /\ cmd = "START"
  /\ \/ /\ runloop # "none"             \* "Last run is not stoped"
        /\ Throw("eudaq")
        /\ UNCHANGED loopVars
     \/ /\ runloop = "none"
        /\ isRunlooping' = TRUE
        /\ runloop' = "user"
        /\ fwd' = "started"
        /\ UNCHANGED status
  /\ UNCHANGED <<sent, queue, cmd, data, confSet, linkVars>>

\* Mutant: the status is not one of the enumeration.
MutStartedUnknown ==
  /\ fwd = "started"
  /\ SetStatus("STARTED", "send")
  /\ UNCHANGED <<sent, queue, cmd, loopVars, data, confSet, linkVars>>

\* The thread is already running when OnStartRun sets the status.
StartedSetStatus ==
  /\ fwd = "started"
  /\ SetStatus("RUNNING", "send")
  /\ UNCHANGED <<sent, queue, cmd, loopVars, data, confSet, linkVars>>

\* Mutant: OnReset forgets the run-loop thread.
MutResetNoJoin ==
  /\ fwd = "base" /\ cmd \in {"STOP", "RESET"}
  /\ \/ /\ runloop = "none" \/ cmd = "RESET"
        /\ fwd' = "set"
        /\ UNCHANGED isRunlooping
     \/ /\ runloop # "none" /\ cmd = "STOP"
        /\ isRunlooping' = FALSE
        /\ fwd' = "join"
  /\ UNCHANGED <<status, sent, queue, cmd, runloop, data, confSet, linkVars>>

BaseStop ==
  /\ fwd = "base" /\ cmd \in {"STOP", "RESET"}
  /\ \/ /\ runloop = "none"
        /\ fwd' = "set"
        /\ UNCHANGED isRunlooping
     \/ /\ runloop # "none"
        /\ isRunlooping' = FALSE
        /\ fwd' = "join"
  /\ UNCHANGED <<status, sent, queue, cmd, runloop, data, confSet, linkVars>>

\* m_fut_runloop.get() returns, or rethrows what the RunLoop threw.
JoinGet ==
  /\ fwd = "join" /\ runloop \in {"returned"} \cup Exceptions
  /\ runloop' = "none"
  /\ \/ /\ runloop = "returned"
        /\ fwd' = "set"
        /\ UNCHANGED status
     \/ /\ runloop \in Exceptions
        /\ Throw(runloop)
  /\ UNCHANGED <<sent, queue, cmd, isRunlooping, data, confSet, linkVars>>

\* A second passed: report "Stopping ...".  On a broken socket that throws.
JoinSlice ==
  /\ fwd = "join" /\ runloop \in {"user", "waiting"}
  /\ \/ /\ sent' = status
        /\ UNCHANGED <<status, fwd>>
     \/ /\ "conn" \in Faults
        /\ Throw("eudaq")
        /\ UNCHANGED sent
  /\ UNCHANGED <<queue, cmd, loopVars, data, confSet, linkVars>>

\* Mutant: the join has no limit.
MutJoinForEver == FALSE /\ UNCHANGED vars

\* Twenty seconds passed: "Unable to stop the user's RunLoop".
JoinTimeout ==
  /\ fwd = "join" /\ runloop \in {"user", "waiting"}
  /\ Throw("eudaq")
  /\ UNCHANGED <<sent, queue, cmd, loopVars, data, confSet, linkVars>>

\* Mutant: the senders survive the end of the run.
MutKeepsSenders ==
  /\ fwd = "set"
  /\ SetStatus(IF cmd = "STOP" THEN "STOPPED" ELSE "UNINIT", "send")
  /\ UNCHANGED <<sent, queue, cmd, loopVars, data, confSet, linkVars>>

\* A Producer drops its senders after the base class is done.
StoppedSetStatus ==
  /\ fwd = "set"
  /\ SetStatus(IF cmd = "STOP" THEN "STOPPED" ELSE "UNINIT", "send")
  /\ data' = IF Kind = "Producer" THEN "closed" ELSE data
  /\ UNCHANGED <<sent, queue, cmd, loopVars, confSet, linkVars>>

\* SendStatus after every command, then the test of m_is_connected that heads
\* the loop; on a broken socket SendStatus may throw.
SendStatus ==
  /\ fwd = "send"
  /\ \/ sent' = status /\ fwd' = IF isConnected THEN "pop" ELSE "returned"
     \/ "conn" \in Faults /\ fwd' = "dead" /\ UNCHANGED sent
  /\ UNCHANGED <<status, queue, cmd, loopVars, data, confSet, linkVars>>

\* A second passed without a command and the connection is gone.
ForwardingReturns ==
  /\ fwd = "pop" /\ ~isConnected
  /\ fwd' = "returned"
  /\ UNCHANGED <<status, sent, queue, cmd, loopVars, data, confSet, linkVars>>

Forwarding ==
  \/ Pop \/ Guard \/ ConnectSenders \/ Listen \/ Hook \/ StopListen
  \/ BaseOther \/ BaseStartRun \/ StartedSetStatus \/ BaseStop
  \/ JoinGet \/ JoinTimeout \/ StoppedSetStatus \/ SendStatus
  \/ ForwardingReturns
-----------------------------------------------------------------------------
(***************************************************************************)
(* The run-loop thread.                                                    *)
(***************************************************************************)
fwdVars == <<sent, queue, cmd, fwd, data, confSet>>

UserLoopReturns ==
  /\ Alive /\ runloop = "user"
  /\ runloop' = "waiting"
  /\ UNCHANGED <<status, isRunlooping, fwdVars, linkVars>>

UserLoopThrows ==
  /\ Alive /\ runloop = "user" /\ "loop" \in Faults
  /\ runloop' \in Exceptions
  /\ status' = "ERROR"
  /\ UNCHANGED <<isRunlooping, fwdVars, linkVars>>

LoopReturns ==
  /\ Alive /\ runloop = "waiting" /\ ~isRunlooping
  /\ runloop' = "returned"
  /\ UNCHANGED <<status, isRunlooping, fwdVars, linkVars>>
-----------------------------------------------------------------------------
(***************************************************************************)
(* The data threads of a collector.                                        *)
(***************************************************************************)
WriteEventFails ==
  /\ Alive /\ Kind = "DataCollector" /\ data = "open" /\ "write" \in Faults
  /\ status' = "ERROR"
  /\ UNCHANGED <<loopVars, fwdVars, linkVars>>

DataReceivingDies ==
  /\ Alive /\ HasServer /\ data = "open" /\ "dying" \in Faults
  /\ data' = "dying"
  /\ UNCHANGED <<status, sent, queue, cmd, fwd, loopVars, confSet, linkVars>>
-----------------------------------------------------------------------------
(***************************************************************************)
(* The receiving thread and the deamon.                                    *)
(***************************************************************************)
Receive(c) ==
  /\ Alive /\ rcv = "running" /\ isConnected
  /\ Len(queue) < MaxQueue
  /\ queue' = Append(queue, c)
  /\ UNCHANGED <<status, sent, cmd, fwd, loopVars, data, confSet, linkVars>>

ConnectionLost ==
  /\ Alive /\ rcv = "running" /\ "conn" \in Faults
  /\ rcv' = "threw"
  /\ isConnected' = FALSE
  /\ UNCHANGED <<status, loopVars, fwdVars, isDestructing, deamon>>

ReceivingReturns ==
  /\ Alive /\ rcv = "running" /\ ~isConnected
  /\ rcv' = "returned"
  /\ UNCHANGED <<status, loopVars, fwdVars, isConnected, isDestructing, deamon>>

\* While connected the deamon only buries a forwarding thread that threw.
DeamonBuries ==
  /\ deamon = "running" /\ isConnected
  /\ fwd = "dead"
  /\ fwd' = "reaped"
  /\ UNCHANGED <<status, sent, queue, cmd, loopVars, data, confSet, linkVars>>

DeamonReapsReceiving ==
  /\ Alive /\ deamon # "done" /\ ~isConnected
  /\ rcv \in {"returned", "threw"}
  /\ rcv' = "reaped"
  /\ deamon' = IF deamon = "exiting" /\ rcv = "threw" THEN "done" ELSE deamon
  /\ UNCHANGED <<status, loopVars, fwdVars, isConnected, isDestructing>>

DeamonReapsForwarding ==
  /\ deamon # "done" /\ ~isConnected /\ rcv = "reaped"
  /\ fwd \in {"returned", "dead", "reaped"}
  /\ fwd' = "reaped"
  /\ queue' = IF deamon = "running" /\ fwd # "dead" THEN <<>> ELSE queue
  /\ deamon' = IF deamon = "exiting" THEN "done" ELSE deamon
  /\ UNCHANGED <<status, sent, cmd, loopVars, data, confSet, isConnected,
                 isDestructing, rcv>>

\* Mutant: the deamon leaves its loop without dropping the connection flag.
MutDeamonExitsConnected ==
  /\ Alive /\ deamon = "running" /\ isDestructing
  /\ deamon' = "exiting"
  /\ UNCHANGED <<status, loopVars, fwdVars, isConnected, isDestructing, rcv>>

DeamonExits ==
  /\ Alive /\ deamon = "running" /\ isDestructing
  /\ deamon' = "exiting"
  /\ isConnected' = FALSE
  /\ UNCHANGED <<status, loopVars, fwdVars, isDestructing, rcv>>

Deamon ==
  DeamonBuries \/ DeamonReapsReceiving \/ DeamonReapsForwarding \/ DeamonExits
-----------------------------------------------------------------------------
Next ==
  \/ Forwarding
  \/ JoinSlice
  \/ UserLoopReturns
  \/ UserLoopThrows
  \/ LoopReturns
  \/ WriteEventFails
  \/ DataReceivingDies
  \/ \E c \in Commands : Receive(c)
  \/ ConnectionLost
  \/ ReceivingReturns
  \/ Deamon

\* The scheduler runs every thread of the process; nothing makes a user
\* RunLoop return, the run control send, or a fault happen.
Fairness ==
  /\ WF_vars(Forwarding)
  /\ WF_vars(LoopReturns)
  /\ WF_vars(ReceivingReturns)
  /\ WF_vars(Deamon)

Spec == Init /\ [][Next]_vars
FairSpec == Spec /\ Fairness
-----------------------------------------------------------------------------
(***************************************************************************)
(* Properties.                                                             *)
(***************************************************************************)

\* Between two commands, a client that says it is uninitialised or stopped
\* has joined its run-loop thread and closed its data connections, whatever
\* failed before (OnStopRun, OnReset and the StopListen calls before them).
QuietWhenIdle ==
  (fwd = "pop" /\ ~isDestructing /\ status \in {"UNINIT", "STOPPED"})
    => (runloop = "none" /\ data = "closed")

\* The state guards of Producer.cc extend this to the other states in which
\* a START may come: no run-loop thread is left that could still send.
ProducerQuiet ==
  (Kind = "Producer" /\ fwd = "pop" /\ ~isDestructing
     /\ status \in {"UNINIT", "UNCONF", "CONF", "STOPPED"})
    => (runloop = "none" /\ data = "closed")

\* A client that reports RUNNING between two commands still owns the future
\* of its RunLoop and has not closed its data side: a later STOP has a
\* thread to join and senders or a server to close.
RunningHasLoop ==
  (fwd = "pop" /\ status = "RUNNING")
    => /\ runloop # "none"
       /\ Kind # "LogCollector" => data \in {"open", "dying"}

\* A RunLoop is started only when the last one was joined and its outcome
\* taken, and with the data side open (m_fut_runloop.valid() in OnStartRun,
\* after Listen or the DataSender connections).
LoopStartsFresh ==
  [][(runloop' = "user" /\ runloop # "user")
       => /\ runloop = "none"
          /\ Kind # "LogCollector" => data \in {"open", "dying"}]_vars

\* A Producer leaves ERROR by RESET, by TERMINATE, or because its new
\* RunLoop failed before OnStartRun had set RUNNING; until it terminates.
ProducerErrorLeft ==
  [][(Kind = "Producer" /\ status = "ERROR" /\ status' # "ERROR")
       => cmd \in {"RESET", "TERMINATE"} \/ fwd = "started" \/ isDestructing]_vars

\* A command that a Producer takes is answered, even when its RunLoop never
\* returns: every wait of the handlers ends or times out.
CommandsAnswered == (fwd = "guard") ~> (fwd \in {"pop", "returned"})

\* After TERMINATE the deamon ends and every thread it owns was collected.
ShutsDown ==
  isDestructing ~> (deamon = "done" /\ rcv = "reaped" /\ fwd \in FwdGone)
-----------------------------------------------------------------------------
(***************************************************************************)
(* The client as the run control sees it.                                  *)
(***************************************************************************)
Doing ==
  CASE fwd \in {"pop", "guard"}     -> "idle"
    [] fwd \in FwdGone \cup {"hung"} -> "gone"
    [] fwd = "send"                 -> "answer"
    [] OTHER                        -> cmd

Loop == IF runloop = "none" THEN "none" ELSE "started"

Abstract == INSTANCE Client WITH
  st <- status, told <- sent, loop <- Loop, doing <- Doing

\* Whatever its threads do, and whatever fails, a client keeps the promises
\* of Client.tla: it claims RUNNING only with a run loop, STOPPED and UNINIT
\* only after joining it, a Producer answers every command that concerns its
\* state, and no thread but the run loop, a DataCollector's writer and the
\* forwarding thread changes the state.
ImplementsClient == Abstract!Spec
-----------------------------------------------------------------------------
(***************************************************************************)
(* The inductive invariant behind the safety properties.                   *)
(***************************************************************************)
Quiet    == runloop = "none" /\ data = "closed"
DataOpen == Kind # "LogCollector" => data \in {"open", "dying"}
Starting == cmd = "START" /\ fwd \in {"hook", "base", "started"}
Stopping == cmd \in {"STOP", "RESET"} /\ fwd \in {"base", "join", "set"}
Lost     == fwd \in FwdGone \cup {"hung"}

\* Which handler the thread can be in at which point.
PCInv ==
  /\ fwd \in {"close", "join", "set"} => cmd \in {"STOP", "RESET"}
  /\ fwd = "close" => HasServer
  /\ fwd = "open" => \/ cmd = "START" /\ (HasServer \/ Kind = "Producer")
                     \/ cmd = "INIT" /\ HasServer
  /\ fwd = "started" => cmd = "START" /\ runloop # "none"
  /\ fwd = "set" => runloop = "none"
  /\ (cmd = "TERMINATE" /\ fwd \in FwdBusy) => isDestructing

\* What the data side is at those points.
DataInv ==
  /\ Kind = "LogCollector" => data = "closed"
  /\ Starting => DataOpen
  /\ (HasServer /\ Stopping) => data = "closed"

IdleInv ==
  (~isDestructing /\ status \in {"UNINIT", "STOPPED"}) => (Quiet \/ Starting \/ Lost)

ProducerInv ==
  (Kind = "Producer" /\ ~isDestructing) =>
    /\ status \in {"UNCONF", "CONF"} => (Quiet \/ Starting \/ Lost)
    /\ (cmd \in {"INIT", "CONFIG"} /\ fwd \in {"hook", "base"})
         => (Quiet /\ status # "ERROR")
    /\ (cmd = "STOP" /\ fwd \in {"hook", "base", "join", "set"})
         => (status = "RUNNING" \/ runloop \in Exceptions)

RunningInv ==
  status = "RUNNING" => \/ runloop # "none" /\ DataOpen
                        \/ Stopping
                        \/ Lost

IInv == TypeOK /\ PCInv /\ DataInv /\ IdleInv /\ ProducerInv /\ RunningInv
=============================================================================
