------------------------------ MODULE Producers ------------------------------
(***************************************************************************)
(* A Producer of a detector inside the framework: the forwarding thread    *)
(* ("hook") calls the Do* hooks, CommandReceiver runs and joins the        *)
(* RunLoop ("loop"), and the user's code does with the objects and threads *)
(* it shares what UserProducers.tla says.  How a command arrives and what  *)
(* becomes of one the state refuses is in CommandReceiver.tla.             *)
(***************************************************************************)
EXTENDS UserProducers, FiniteSetsExt

CONSTANTS Kinds,   \* the producers to look at
          Envs     \* the sets of irregularities to look at each under

AllEnv ==
  { "early",   \* a RESET or TERMINATE before INIT
    "mid",     \* a RESET or TERMINATE while a run is on
    "quick",   \* a command before the threads of the last one have settled
    "slow",    \* a wait with a limit reaches it
    "fail" }   \* hardware, network or files fail

ASSUME EnvAssumption == Envs \subseteq SUBSET AllEnv

\* What the threads of each producer execute; "main" called Exec.
Programs ==
  [ ex0      |-> [hooks |-> Ex0Hooks,      threads |-> [loop |-> Ex0Loop]],
    ni       |-> [hooks |-> NiHooks,       threads |-> [loop |-> NiLoop]],
    eudettlu |-> [hooks |-> EudetTluHooks, threads |-> [loop |-> EudetTluLoop]],
    dummy    |-> [hooks |-> DummyHooks,    threads |-> [loop |-> <<>>]],
    pistage  |-> [hooks |-> PIStageHooks,  threads |-> [loop |-> <<>>]],
    aidatlu  |-> [hooks |-> AidaTluHooks,  threads |-> [loop |-> AidaTluLoop]],
    caribou  |-> [hooks |-> CaribouHooks,  threads |-> [loop |-> CaribouLoop]],
    cmspixel |-> [hooks |-> CMSPixelHooks, threads |-> [loop |-> CMSPixelLoop]],
    timepix3 |-> [hooks |-> Hooks(Timepix3Initialise, Timepix3Configure, Timepix3Start,
                                  Timepix3Stop, Timepix3Reset, <<>>),
                  threads |-> [loop |-> Timepix3Loop, ts |-> Timepix3Timestamps]],
    kpix     |-> [hooks |-> KpixHooks,
                  threads |-> [loop |-> <<>>, acq |-> RunKpix, rx |-> KpixDataReceiver,
                               tx |-> SendKpixEvent]],
    tbsc     |-> [hooks |-> TbscHooks,  threads |-> [loop |-> <<>>, acq |-> TbscMainloop]],
    ahcal    |-> [hooks |-> AHCALHooks, threads |-> [loop |-> <<>>, main |-> AHCALExec]],
    bif      |-> [hooks |-> BifHooks,   threads |-> [loop |-> <<>>, main |-> BifMainLoop]],
    its      |-> [hooks |-> ItsHooks,   threads |-> [loop |-> <<>>, main |-> ItsCheckStatus]] ]

ASSUME KindsAssumption == Kinds \subseteq DOMAIN Programs

Threads  == {"hook", "loop", "ts", "acq", "rx", "tx", "main"}
Mutexes  == {"tlu", "device", "api", "ctrl", "daq", "fd", "doing"}
Commands == {"INIT", "CONFIG", "START", "STOP", "RESET", "TERMINATE"}
Phases   == {"GOTOINIT", "GOTOCONF", "GOTORUN", "GOTOSTOP", "GOTOTERM", "UNCONF",
             "CONFED", "RUNNING"}

VARIABLES
  kind, env,  \* the producer, and what may go wrong around it
  status,     \* m_status.m_state
  call,       \* the hook that runs, "join" after it, "none", "gone": terminated
  command,    \* the command obeyed last
  at,         \* the step each thread is at; 0: it does not run
  flags,      \* the members of the user's class that are true
  there,      \* the objects that exist
  stale,      \* the pointers to objects deleted
  owner,      \* of each mutex, or "free"
  joinable,   \* the std::threads that can be joined
  future,     \* m_fut_runloop: none, user, waiting, over or threw
  looping,    \* m_is_runlooping
  senders,    \* m_senders is not empty
  crash       \* "none", or why the process is at an end

vars == <<kind, env, status, call, command, at, flags, there, stale, owner, joinable,
          future, looping, senders, crash>>
baseVars == <<kind, env, status, call, command, future, looping, senders>>
userVars == <<flags, there, stale, owner, joinable>>

Program(t) == IF t = "hook" THEN Programs[kind].hooks[command]
                            ELSE Programs[kind].threads[t]

TypeOK ==
  /\ kind \in Kinds /\ env \in Envs
  /\ status \in {"ERROR", "UNINIT", "UNCONF", "CONF", "STOPPED", "RUNNING"}
  /\ call \in {"none", "hook", "join", "gone"}
  /\ command \in Commands
  /\ \A t \in Threads : at[t] # 0 => at[t] \in 1..Len(Program(t)) + 1
  /\ owner \in [Mutexes -> Threads \cup {"free"}]
  /\ joinable \subseteq Threads
  /\ there \cap stale = {}
  /\ Cardinality(flags \cap Phases) <= 1
  /\ future \in {"none", "user", "waiting", "over", "threw"}
  /\ looping \in BOOLEAN /\ senders \in BOOLEAN
  /\ crash \in {"none", "object", "thread"}

Init ==
  /\ kind \in Kinds /\ env \in Envs
  /\ status = "UNINIT" /\ call = "none" /\ command = "RESET"
  /\ at = [t \in Threads |-> IF t = "main" /\ kind \in {"ahcal", "bif", "its"} THEN 1 ELSE 0]
  /\ flags = {"alive"} /\ there = {} /\ stale = {}
  /\ owner = [m \in Mutexes |-> "free"] /\ joinable = {}
  /\ future = "none" /\ looping = FALSE /\ senders = FALSE /\ crash = "none"

Holds(x) == x \in flags \cup there \cup joinable

Running(t) == at[t] # 0 /\ at[t] <= Len(Program(t))
Instruction(t) == Program(t)[at[t]]
Ready(t, ops) == crash = "none" /\ Running(t) /\ Instruction(t).op \in ops
Goto(t, n) == at' = [at EXCEPT ![t] = @ + n]
Over(t) == crash = "none" /\ at[t] # 0 /\ at[t] = Len(Program(t)) + 1
-----------------------------------------------------------------------------
(***************************************************************************)
(* The user's threads.                                                     *)
(***************************************************************************)
\* Mutant: a state is entered without leaving the last.
MutAssign(t) ==
  /\ Ready(t, {"set", "clear", "phase"})
  /\ LET x == Instruction(t).x
     IN flags' = IF Instruction(t).op = "clear" THEN flags \ {x} ELSE flags \cup {x}
  /\ Goto(t, 1)
  /\ UNCHANGED <<baseVars, there, stale, owner, joinable, crash>>

Assign(t) ==
  /\ Ready(t, {"set", "clear", "phase"})
  /\ LET x == Instruction(t).x
     IN flags' = CASE Instruction(t).op = "set"   -> flags \cup {x}
                   [] Instruction(t).op = "clear" -> flags \ {x}
                   [] OTHER                       -> (flags \ Phases) \cup {x}
  /\ Goto(t, 1)
  /\ UNCHANGED <<baseVars, there, stale, owner, joinable, crash>>

Mutex(t) ==
  /\ Ready(t, {"lock", "unlock"})
  /\ LET m == Instruction(t).x
     IN \/ Instruction(t).op = "lock" /\ owner[m] = "free" /\ owner' = [owner EXCEPT ![m] = t]
        \/ Instruction(t).op = "unlock" /\ owner' = [owner EXCEPT ![m] = "free"]
  /\ Goto(t, 1)
  /\ UNCHANGED <<baseVars, flags, there, stale, joinable, crash>>

\* An object is touched that is not there, or deleted twice.
Misses(op, d) == \/ op = "use" /\ d \notin there
                 \/ op \in {"free", "delete"} /\ d \in stale

Object(t) ==
  /\ Ready(t, {"make", "free", "delete", "use"})
  /\ LET op == Instruction(t).op
         d  == Instruction(t).x
     IN /\ crash' = IF Misses(op, d) THEN "object" ELSE crash
        /\ there' = CASE op = "make"             -> there \cup {d}
                      [] op \in {"free", "delete"} -> there \ {d}
                      [] OTHER                   -> there
        /\ stale' = CASE op = "delete" /\ d \in there -> stale \cup {d}
                      [] op \in {"make", "free"}      -> stale \ {d}
                      [] OTHER                        -> stale
  /\ Goto(t, 1)
  /\ UNCHANGED <<baseVars, flags, owner, joinable>>

\* To assign to a thread that was not joined ends the process.
SpawnThread(t) ==
  /\ Ready(t, {"spawn"})
  /\ LET new == Instruction(t).x
     IN IF new \in joinable
        THEN crash' = "thread" /\ UNCHANGED <<at, joinable>>
        ELSE /\ at' = [at EXCEPT ![t] = @ + 1, ![new] = 1]
             /\ joinable' = joinable \cup {new}
             /\ UNCHANGED crash
  /\ UNCHANGED <<baseVars, flags, there, stale, owner>>

JoinThread(t) ==
  /\ Ready(t, {"join"})
  /\ LET x == Instruction(t).x IN (x \in joinable => at[x] = 0) /\ joinable' = joinable \ {x}
  /\ Goto(t, 1)
  /\ UNCHANGED <<baseVars, flags, there, stale, owner, crash>>

\* An exception leaves what thread t executes: out of a hook and of the
\* RunLoop it makes the state ERROR, out of a std::thread the end.
Thrown(t) ==
  /\ owner' = [m \in Mutexes |-> IF owner[m] = t THEN "free" ELSE owner[m]]
  /\ at' = [at EXCEPT ![t] = 0]
  /\ status' = IF t \in {"hook", "loop"} THEN "ERROR" ELSE status
  /\ call' = IF t = "hook" THEN "none" ELSE call
  /\ future' = IF t = "loop" THEN "threw" ELSE future
  /\ crash' = IF t \in {"hook", "loop"} THEN crash ELSE "thread"

Throw(t) ==
  /\ Ready(t, {"need", "throws"})
  /\ LET Fails == IF Instruction(t).op = "throws" THEN "fail" \in env
                                                  ELSE ~Holds(Instruction(t).x)
     IN \/ /\ ~Fails \/ Instruction(t).op = "throws"
           /\ Goto(t, 1)
           /\ UNCHANGED <<owner, status, call, future, crash>>
        \/ Fails /\ Thrown(t)
  /\ UNCHANGED <<kind, env, command, looping, senders, flags, there, stale, joinable>>

\* Where the step leads, n being the length of the branch.
Leads(op, x, n) ==
  CASE op \in {"if", "while"} -> {IF Holds(x) THEN 1 ELSE n}
    [] op = "unless"          -> {IF Holds(x) THEN n ELSE 1}
    [] op = "again"           -> {IF Holds(x) THEN n ELSE 1}
    [] op = "either"          -> {1, n}
    [] op = "fails"           -> {1} \cup IF "fail" \in env THEN {n} ELSE {}
    [] op = "read"            -> {IF Holds("peer") THEN 1 ELSE n}
    [] op = "await"           -> IF Holds(x) THEN {} ELSE {1}
    [] op = "patient"         -> IF Holds(x) /\ "slow" \notin env THEN {} ELSE {1}
    [] op = "jump"            -> {n}
    [] OTHER                  -> {1}

Branch(t) ==
  /\ Ready(t, {"if", "while", "unless", "again", "either", "fails", "read", "await",
               "patient", "jump", "do", "send"})
  /\ LET i == Instruction(t) IN \E n \in Leads(i.op, i.x, i.n) : Goto(t, n)
  /\ UNCHANGED <<baseVars, userVars, crash>>

\* A std::thread comes to its end.
ThreadEnds(t) ==
  /\ t \notin {"hook", "loop"} /\ Over(t)
  /\ at' = [at EXCEPT ![t] = 0]
  /\ UNCHANGED <<baseVars, userVars, crash>>

Executes(t) ==
  \/ Assign(t) \/ Mutex(t) \/ Object(t) \/ SpawnThread(t) \/ JoinThread(t)
  \/ Throw(t) \/ Branch(t) \/ ThreadEnds(t)
-----------------------------------------------------------------------------
(***************************************************************************)
(* The framework.                                                          *)
(***************************************************************************)
\* A thread has settled when it is in its loop and no mutex is free that it
\* waits for.
Entry(p) == Min({Len(p) + 1} \cup {i \in 1..Len(p) : p[i].op \in {"while", "do"}})
Settled ==
  \A t \in Threads \ {"hook"} :
    /\ at[t] # 0 => at[t] >= Entry(Program(t))
    /\ ~(Ready(t, {"lock"}) /\ owner[Instruction(t).x] = "free")

Accepts(c) ==
  CASE c = "INIT"   -> status = "UNINIT"
    [] c = "CONFIG" -> status \in {"UNCONF", "CONF", "STOPPED"}
    [] c = "START"  -> status \in {"CONF", "STOPPED"}
    [] c = "STOP"   -> status = "RUNNING"
    [] OTHER        -> TRUE

\* A RESET or TERMINATE of an uninitialised Producer or during a run is for
\* the environments that name it; the other irregularities bring it about.
Regular(c) ==
  /\ c \in {"RESET", "TERMINATE"} /\ status = "UNINIT" => "early" \in env
  /\ c \in {"RESET", "TERMINATE"} /\ status = "RUNNING" => "mid" \in env
  /\ Settled \/ "quick" \in env

\* OnStartRun fills m_senders before it calls the hook.
Call(c) ==
  /\ crash = "none" /\ call = "none" /\ Accepts(c) /\ Regular(c)
  /\ call' = "hook" /\ command' = c
  /\ at' = [at EXCEPT !["hook"] = 1]
  /\ senders' = (senders \/ c = "START")
  /\ status' = IF c = "CONFIG" THEN "UNCONF" ELSE status
  /\ UNCHANGED <<kind, env, userVars, future, looping, crash>>

HookOver == call = "hook" /\ Over("hook")

Initialised ==
  /\ HookOver /\ command \in {"INIT", "CONFIG", "TERMINATE"}
  /\ at' = [at EXCEPT !["hook"] = 0]
  /\ call' = IF command = "TERMINATE" THEN "gone" ELSE "none"
  /\ status' = CASE command = "INIT" -> "UNCONF" [] command = "CONFIG" -> "CONF"
                 [] OTHER -> "UNINIT"
  /\ UNCHANGED <<kind, env, userVars, command, future, looping, senders, crash>>

\* "Last run is not stopped".
Started ==
  /\ HookOver /\ command = "START"
  /\ call' = "none"
  /\ IF future = "none"
     THEN /\ at' = [at EXCEPT !["hook"] = 0, !["loop"] = 1]
          /\ future' = "user" /\ looping' = TRUE /\ status' = "RUNNING"
     ELSE /\ at' = [at EXCEPT !["hook"] = 0]
          /\ status' = "ERROR" /\ UNCHANGED <<future, looping>>
  /\ UNCHANGED <<kind, env, userVars, command, senders, crash>>

Stopping ==
  /\ HookOver /\ command \in {"STOP", "RESET"}
  /\ call' = "join" /\ looping' = FALSE
  /\ at' = [at EXCEPT !["hook"] = 0]
  /\ UNCHANGED <<kind, env, userVars, status, command, future, senders, crash>>

\* Mutant: the RunLoop is told to stop and not waited for.
MutJoined ==
  /\ crash = "none" /\ call = "join"
  /\ call' = "none" /\ future' = "none"
  /\ status' = IF command = "STOP" THEN "STOPPED" ELSE "UNINIT"
  /\ senders' = FALSE
  /\ UNCHANGED <<kind, env, at, userVars, command, looping, crash>>

Joined ==
  /\ crash = "none" /\ call = "join" /\ future \in {"none", "over", "threw"}
  /\ call' = "none" /\ future' = "none"
  /\ IF future = "threw"
     THEN status' = "ERROR" /\ UNCHANGED senders
     ELSE /\ status' = IF command = "STOP" THEN "STOPPED" ELSE "UNINIT"
          /\ senders' = FALSE
  /\ UNCHANGED <<kind, env, at, userVars, command, looping, crash>>

\* "Unable to stop the user's RunLoop".
JoinTimeout ==
  /\ crash = "none" /\ call = "join" /\ future \in {"user", "waiting"} /\ "slow" \in env
  /\ call' = "none" /\ status' = "ERROR"
  /\ UNCHANGED <<kind, env, at, userVars, command, future, looping, senders, crash>>

LoopReturns ==
  /\ future = "user" /\ Over("loop")
  /\ at' = [at EXCEPT !["loop"] = 0]
  /\ future' = "waiting"
  /\ UNCHANGED <<kind, env, status, call, command, userVars, looping, senders, crash>>

LoopEnds ==
  /\ crash = "none" /\ future = "waiting" /\ ~looping
  /\ future' = "over"
  /\ UNCHANGED <<kind, env, status, call, command, at, userVars, looping, senders, crash>>
-----------------------------------------------------------------------------
(***************************************************************************)
(* Outside: the other end of the AHCAL's socket, the KPiX hardware.        *)
(***************************************************************************)
PeerCloses ==
  /\ crash = "none" /\ "peer" \in flags /\ ("asked" \in flags \/ "fail" \in env)
  /\ flags' = flags \ {"peer"}
  /\ UNCHANGED <<baseVars, at, there, stale, owner, joinable, crash>>

HardwareStops ==
  /\ crash = "none" /\ "hw" \in flags /\ "fail" \in env
  /\ flags' = flags \ {"hw"}
  /\ UNCHANGED <<baseVars, at, there, stale, owner, joinable, crash>>

Framework == \/ Initialised \/ Started \/ Stopping \/ Joined \/ LoopReturns \/ LoopEnds

Next ==
  \/ \E t \in Threads : Executes(t)
  \/ \E c \in Commands : Call(c)
  \/ Framework \/ JoinTimeout \/ PeerCloses \/ HardwareStops

\* Whether data come is nobody's promise.
Blocked(t) == Ready(t, {"read"}) /\ Holds("peer")
Fair(t) == Executes(t) /\ ~Blocked(t)

Spec == Init /\ [][Next]_vars

FairSpec ==
  /\ Spec
  /\ WF_vars(Framework) /\ WF_vars(PeerCloses /\ "asked" \in flags)
  /\ SF_vars(Fair("hook"))
  /\ \A t \in Threads \ {"hook"} : WF_vars(Fair(t))
-----------------------------------------------------------------------------
(***************************************************************************)
(* Properties.  Each names the producers, and the irregularities, under    *)
(* which the code does not keep it; README.md tells how.                   *)
(***************************************************************************)
Except(exceptions) == \E e \in exceptions : kind \in e[1] /\ e[2] \subseteq env

\* No hook and no thread touches a hardware object that was deleted or never
\* made, and none is deleted twice: a reset or a configuration that replaces
\* the object does not do so under the thread that reads it.
HardwareThere ==
  crash = "object" =>
    Except({ <<{"ni", "kpix"}, {"early"}>>, <<{"ex0", "cmspixel", "kpix"}, {"fail"}>>,
             <<{"eudettlu", "bif"}, {"mid"}>>, <<{"eudettlu"}, {"slow"}>>,
             <<{"timepix3"}, {"quick"}>>, <<{"aidatlu", "cmspixel"}, {"mid", "quick"}>>,
             <<{"aidatlu", "cmspixel"}, {"slow", "quick"}>> })

\* No exception leaves a std::thread and none is replaced before it is
\* joined: what fails in a thread does not end the process.
NoTerminate == crash = "thread" => Except({<<{"kpix"}, {"fail"}>>})

Sends(t) == Ready(t, {"send"}) /\ at'[t] # at[t]

\* A thread sends an event only while m_senders is filled: none is lost
\* between the hook that ends the run and the last data.
EventsInRun ==
  [][\A t \in Threads \ {"hook"} :
       Sends(t) => senders \/ Except({<<{"ahcal"}, {}>>, <<{"bif"}, {"mid"}>>})]_vars

\* After a stop or a reset was answered no thread of the run is left.
QuietAfterRun ==
  call = "none" /\ status \in {"STOPPED", "UNINIT"} =>
    future = "none" /\ \A t \in Threads \ {"main"} : at[t] = 0

\* No thread outlives its run, and none takes the process with it; the
\* variables have their types.
EndsClean == TypeOK /\ NoTerminate /\ QuietAfterRun

Collectors == {t \in DOMAIN Programs[kind].threads \ {"rx", "ts"} : Program(t) # <<>>}

\* What the threads of the producer look at to know that a run is on.
Polled == CASE kind = "ahcal"                -> {"fd", "reading"}
            [] kind = "bif"                  -> {"started"}
            [] kind = "its"                  -> {"RUNNING"}
            [] kind \in {"dummy", "pistage"} -> {}
            [] OTHER                         -> {"run"}

\* While the Producer says RUNNING the threads that collect its data do, and
\* are not told otherwise.
RunningCollects ==
  call = "none" /\ status = "RUNNING" =>
    \/ Polled \subseteq flags /\ \A t \in Collectors : Running(t)
    \/ Except({<<{"kpix", "caribou", "ahcal"}, {"fail"}>>})
    \/ kind = "kpix" /\ "run" \notin flags

\* A hook, and the wait for the RunLoop after it, ends: no deadlock of the
\* hook with the thread it stops.
HooksReturn ==
  call \in {"hook", "join"} ~>
    \/ call \in {"none", "gone"} \/ crash # "none" \/ "slow" \in env
    \/ Except({ <<{"ex0", "cmspixel", "timepix3", "ahcal"}, {"mid"}>>,
                <<{"kpix", "tbsc", "its"}, {"quick"}>> })
=============================================================================
