------------------------------- MODULE Client -------------------------------
(***************************************************************************)
(* What a client process promises to the run control: a command is taken   *)
(* or refused by the state of the client, carried out, and answered with   *)
(* the state it led to.  The threads of CommandReceiver.cc, the data side  *)
(* and the causes of a failure are left out; RunControl.tla takes a whole  *)
(* command of this specification as one step.                              *)
(***************************************************************************)
CONSTANT Kind    \* Producer, DataCollector, Monitor or LogCollector

VARIABLES
  st,     \* the state of the client
  told,   \* the state it reported last
  loop,   \* "none", or "started" and not yet joined
  doing   \* the command it carries out, or one of the three below

vars == <<st, told, loop, doing>>

Idle   == "idle"
Answer == "answer"     \* the command is over and not yet answered
Gone   == "gone"       \* no command will be answered any more

\* The commands that concern the state of the client, and the others.
StateCommands == {"INIT", "CONFIG", "START", "STOP", "RESET", "TERMINATE"}
Commands      == StateCommands \cup {"STATUS", "LOG", "OTHER"}

Init ==
  /\ st = "UNINIT" /\ told = "UNINIT"
  /\ loop = "none"
  /\ doing = Idle

\* Only a Producer looks at its state before it obeys.
Accepts(k) ==
  Kind = "Producer" =>
    CASE k = "INIT"   -> st = "UNINIT"
      [] k = "CONFIG" -> st \in {"UNCONF", "CONF", "STOPPED"}
      [] k = "START"  -> st \in {"CONF", "STOPPED"}
      [] k = "STOP"   -> st = "RUNNING"
      [] OTHER        -> TRUE

\* Where a command leads that does not fail.
Success(k) ==
  CASE k = "INIT"  -> "UNCONF"  [] k = "CONFIG" -> "CONF"
    [] k = "START" -> "RUNNING" [] k = "STOP"   -> "STOPPED"
    [] k \in {"RESET", "TERMINATE"} -> "UNINIT"
    [] OTHER -> st

Accept(k) ==
  /\ doing = Idle /\ Accepts(k)
  /\ doing' = k
  /\ st' = IF k = "CONFIG" /\ Kind # "LogCollector" THEN "UNCONF" ELSE st
  /\ UNCHANGED <<told, loop>>

Refuse(k) ==
  /\ doing = Idle /\ ~Accepts(k)
  /\ st' = "ERROR" /\ doing' = Answer
  /\ UNCHANGED <<told, loop>>

LoopStarts ==
  /\ doing = "START" /\ loop = "none"
  /\ loop' = "started"
  /\ UNCHANGED <<st, told, doing>>

LoopJoined ==
  /\ doing \in {"STOP", "RESET"} /\ loop = "started"
  /\ loop' = "none"
  /\ UNCHANGED <<st, told, doing>>

\* RUNNING is claimed only with a loop, STOPPED and UNINIT only without.  A
\* LogCollector exits at the end of TERMINATE.
Succeed ==
  /\ doing \in Commands
  /\ doing = "START" => loop = "started"
  /\ doing \in {"STOP", "RESET"} => loop = "none"
  /\ st' = Success(doing)
  /\ doing' = IF doing = "TERMINATE" /\ Kind = "LogCollector" THEN Gone ELSE Answer
  /\ UNCHANGED <<told, loop>>

\* The join of a failed run loop fails, too.
MayJoin == loop' = loop \/ (doing \in {"STOP", "RESET"} /\ loop' = "none")

\* The commands whose handlers catch a failure.
Caught ==
  CASE Kind = "Producer"      -> StateCommands \cup {"STATUS"}
    [] Kind = "DataCollector" -> StateCommands \ {"RESET", "TERMINATE"}
    [] Kind = "Monitor"       -> StateCommands \ {"TERMINATE"}
    [] OTHER                  -> {"INIT"}

Fail ==
  /\ doing \in Caught
  /\ st' = "ERROR" /\ doing' = Answer
  /\ MayJoin
  /\ UNCHANGED told

\* An exception that no handler catches, or another in the catch block of
\* the others: a Producer catches whatever its user code throws.
Mute ==
  /\ doing \in (IF Kind = "Producer" THEN {"LOG"} ELSE Commands)
  /\ doing' = Gone
  /\ MayJoin
  /\ UNCHANGED <<st, told>>

\* The connection to the run control breaks between or after the commands.
Leave ==
  /\ doing \in {Idle, Answer}
  /\ doing' = Gone
  /\ UNCHANGED <<st, told, loop>>

Reply ==
  /\ doing = Answer
  /\ told' = st /\ doing' \in {Idle, Gone}
  /\ UNCHANGED <<st, loop>>

\* A report in the middle of a command: the address of the server, or that
\* the run loop is still being waited for.
Report ==
  /\ doing \in {"INIT", "STOP", "RESET"}
  /\ told' = st
  /\ UNCHANGED <<st, loop, doing>>

\* The run loop throws, at any moment.
RunFails ==
  /\ loop = "started" /\ st' = "ERROR"
  /\ UNCHANGED <<told, loop, doing>>

\* A DataCollector that cannot write an event, on its data thread.
WriteFails ==
  /\ Kind = "DataCollector" /\ st' = "ERROR"
  /\ UNCHANGED <<told, loop, doing>>

Next ==
  \/ \E k \in Commands : Accept(k) \/ Refuse(k)
  \/ LoopStarts \/ LoopJoined \/ Succeed \/ Fail \/ Mute \/ Leave
  \/ Reply \/ Report \/ RunFails \/ WriteFails

Spec == Init /\ [][Next]_vars
=============================================================================
