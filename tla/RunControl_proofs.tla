------------------------- MODULE RunControl_proofs -------------------------
(***************************************************************************)
(* The run control and its clients: the types, whoever calls; and for a    *)
(* scan that all clients run the same run and none refuses a command.      *)
(* For every set of clients, failing, mortal or late, and every bound.     *)
(***************************************************************************)
EXTENDS RunControl, TLAPS

USE ClientAssumption, DriverAssumption, BoundAssumption
    DEF clientVars, userVars, uiVars, vars

\* Every command has a state of success.
LEMMA SuccessIsState == \A k \in Commands : Success(k) \in States
BY DEF Success, Commands, States

\* The loops follow one another.
LEMMA AfterIsPhase == \A ph \in Phases : After(ph) \in Phases
BY DEF After, Phases, StartPhases, StopPhases, OtherPhases

\* A command in the queue of a client is well formed.
LEMMA PutType ==
  ASSUME TypeOK, NEW c \in Clients, NEW k \in Commands
  PROVE  Put(c, k) \in Seq([cmd : Commands, n : 0 .. MaxRun])
<1> DEFINE e == [cmd |-> k, n |-> IF k = "START" THEN runN ELSE 0]
<1>1. e \in [cmd : Commands, n : 0 .. MaxRun] BY DEF TypeOK
<1>2. cmds[c] \in Seq([cmd : Commands, n : 0 .. MaxRun]) BY DEF TypeOK
<1> HIDE DEF e
<1>3. Append(cmds[c], e) \in Seq([cmd : Commands, n : 0 .. MaxRun]) BY <1>1, <1>2
<1> QED BY <1>2, <1>3 DEF Put, e

LEMMA Popped ==
  ASSUME NEW S, NEW s \in Seq(S), s # <<>>
  PROVE  Head(s) \in S /\ Tail(s) \in Seq(S)
OBVIOUS

LEMMA SendCommandType ==
  ASSUME TypeOK, NEW c \in Clients, NEW k \in Commands, SendCommand(k, c)
  PROVE  cmds' \in [Clients -> Seq([cmd : Commands, n : 0 .. MaxRun])]
BY PutType DEF SendCommand, TypeOK

LEMMA BroadcastType ==
  ASSUME TypeOK, NEW k \in Commands, Broadcast(k)
  PROVE  cmds' \in [Clients -> Seq([cmd : Commands, n : 0 .. MaxRun])]
BY PutType DEF Broadcast, TypeOK

LEMMA EnterType ==
  ASSUME NEW ph \in Phases, NEW S \in SUBSET Clients, Enter(ph, S)
  PROVE  pc' \in Phases /\ conns' \subseteq Clients /\ todo' \subseteq Clients
         /\ cur' \in Clients \cup {None}
BY DEF Enter

LEMMA ReachType ==
  ASSUME TypeOK, NEW c \in Clients, NEW s \in States, Reach(c, s)
  PROVE  st' \in [Clients -> States] /\ up' \in [Clients -> Seq(States)]
<1>1. Append(up[c], s) \in Seq(States) BY DEF TypeOK
<1> QED BY <1>1 DEF Reach, TypeOK

LEMMA InitType == Init => TypeOK
<1> SUFFICES ASSUME Init PROVE TypeOK OBVIOUS
<1> QED BY DEF Init, TypeOK, States, Phases, None

LEMMA HandleType == ASSUME TypeOK, NEW c \in Clients, Handle(c) PROVE TypeOK'
<1> DEFINE k == Head(cmds[c]).cmd
<1>0. cmds[c] \in Seq([cmd : Commands, n : 0 .. MaxRun]) /\ cmds[c] # <<>>
  BY DEF Handle, TypeOK
<1>1. /\ Head(cmds[c]) \in [cmd : Commands, n : 0 .. MaxRun]
      /\ Tail(cmds[c]) \in Seq([cmd : Commands, n : 0 .. MaxRun])
  BY <1>0, Popped
<1>2. k \in Commands /\ Head(cmds[c]).n \in 0 .. MaxRun BY <1>1
<1>3. cmds' \in [Clients -> Seq([cmd : Commands, n : 0 .. MaxRun])]
  BY <1>1 DEF Handle, TypeOK
<1>4. run' \in [Clients -> 0 .. MaxRun] BY <1>2 DEF Handle, TypeOK
<1>5. /\ st' \in [Clients -> States] /\ up' \in [Clients -> Seq(States)]
      /\ loop' \in [Clients -> BOOLEAN]
      /\ alive' \in [Clients -> {"new", "on", "mute", "gone"}]
  <2>1. "ERROR" \in States /\ Success(k) \in States BY <1>2, SuccessIsState DEF States
  <2>2. CASE Reach(c, Success(k)) /\ Alive(c, k, "on")
             /\ loop' = IF k \in {"START", "STOP", "RESET"}
                        THEN [loop EXCEPT ![c] = (k = "START")] ELSE loop
    <3>1. (k = "START") \in BOOLEAN OBVIOUS
    <3>2. loop' \in [Clients -> BOOLEAN] BY <2>2, <3>1 DEF TypeOK
    <3>3. alive' \in [Clients -> {"new", "on", "mute", "gone"}] BY <2>2 DEF Alive, TypeOK
    <3> QED BY <2>1, <2>2, <3>2, <3>3, ReachType
  <2>3. CASE Reach(c, "ERROR") /\ Alive(c, k, "on")
             /\ (loop' = loop \/ loop' = [loop EXCEPT ![c] = FALSE])
    <3>1. loop' \in [Clients -> BOOLEAN] BY <2>3 DEF TypeOK
    <3>2. alive' \in [Clients -> {"new", "on", "mute", "gone"}] BY <2>3 DEF Alive, TypeOK
    <3> QED BY <2>1, <2>3, <3>1, <3>2, ReachType
  <2>4. CASE Alive(c, k, "mute") /\ UNCHANGED <<st, up, loop>>
    BY <2>4 DEF Alive, TypeOK
  <2> QED BY <2>2, <2>3, <2>4 DEF Handle
<1> QED BY <1>3, <1>4, <1>5 DEF Handle, TypeOK

LEMMA ClientType ==
  ASSUME TypeOK, NEW c \in Clients,
         Report(c) \/ RunFails(c) \/ Dies(c) \/ Connect(c) \/ Receive(c) \/ Disconnect(c)
  PROVE  TypeOK'
<1>1. CASE Report(c)
  <2>1. Append(up[c], st[c]) \in Seq(States) BY DEF TypeOK
  <2> QED BY <1>1, <2>1 DEF Report, TypeOK
<1>2. CASE RunFails(c) BY <1>2 DEF RunFails, TypeOK, States
<1>3. CASE Dies(c) BY <1>3 DEF Dies, TypeOK
<1>4. CASE Connect(c) BY <1>4 DEF Connect, TypeOK, States
<1>5. CASE Receive(c)
  <2>1. Head(up[c]) \in States /\ Tail(up[c]) \in Seq(States) BY <1>5 DEF Receive, TypeOK
  <2> QED BY <1>5, <2>1 DEF Receive, TypeOK
<1>6. CASE Disconnect(c) BY <1>6 DEF Disconnect, TypeOK
<1> QED BY <1>1, <1>2, <1>3, <1>4, <1>5, <1>6

LEMMA SendType == ASSUME TypeOK, NEW c \in Clients, Send(c) PROVE TypeOK'
<1>1. CommandOf(pc) \in Commands
  BY DEF Send, CommandOf, Commands, Waits, StartPhases, StopPhases, OtherPhases
<1>2. cmds' \in [Clients -> Seq([cmd : Commands, n : 0 .. MaxRun])]
  <2>1. cmds' = cmds \/ SendCommand(CommandOf(pc), c) BY DEF Send
  <2> QED BY <1>1, <2>1, SendCommandType DEF TypeOK
<1>3. pc' \in Phases /\ todo' \subseteq Clients /\ cur' \in Clients \cup {None}
  BY DEF Send, TypeOK, Phases
<1> QED BY <1>2, <1>3 DEF Send, TypeOK

LEMMA PollType == ASSUME TypeOK, NEW c \in Clients, Poll(c) PROVE TypeOK'
BY DEF Poll, TypeOK, Phases

LEMMA NextPhaseType == ASSUME TypeOK, NextPhase PROVE TypeOK'
<1>1. After(pc) \in Phases BY AfterIsPhase DEF TypeOK
<1>2. \E S \in SUBSET Clients : Enter(After(pc), S) BY DEF NextPhase, TypeOK
<1> QED BY <1>1, <1>2, EnterType DEF NextPhase, TypeOK

\* The buttons and the scan.
LEMMA TickType == ASSUME TypeOK, Tick PROVE TypeOK'
<1> DEFINE Seen == {view[c] : c \in Known}
           Lowest(s) == \A c \in Known : Rank(s) <= Rank(view[c])
<1>1. Seen \subseteq States BY DEF Known, TypeOK
<1>2. uiState' \in States
  <2>1. CASE Known = {} BY <2>1 DEF Tick, States
  <2>2. CASE Known # {}
    <3>1. \A s \in States : Rank(s) \in 0 .. 5 BY DEF Rank, States
    <3>2. \E s \in Seen : Lowest(s)
      <4>1. \A n \in 0 .. 5 : (\E s \in Seen : Rank(s) = n /\ \A t \in Seen : Rank(t) >= n)
                              => \E s \in Seen : Lowest(s)
        OBVIOUS
      <4>2. Seen # {} BY <2>2
      <4>3. \A s \in Seen : Rank(s) \in {0, 1, 2, 3, 4, 5} BY <1>1, <3>1
      <4> HIDE DEF Seen, Lowest
      <4>4. \E n \in 0 .. 5 : \E s \in Seen : Rank(s) = n /\ \A t \in Seen : Rank(t) >= n
        <5>1. CASE \E s \in Seen : Rank(s) = 0 BY <4>3, <5>1
        <5>2. CASE (\E s \in Seen : Rank(s) = 1) /\ (\A s \in Seen : Rank(s) # 0)
          BY <4>3, <5>2
        <5>3. CASE (\E s \in Seen : Rank(s) = 2) /\ (\A s \in Seen : Rank(s) \notin {0, 1})
          BY <4>3, <5>3
        <5>4. CASE (\E s \in Seen : Rank(s) = 3) /\ (\A s \in Seen : Rank(s) \notin {0, 1, 2})
          BY <4>3, <5>4
        <5>5. CASE (\E s \in Seen : Rank(s) = 4) /\ (\A s \in Seen : Rank(s) \notin {0, 1, 2, 3})
          BY <4>3, <5>5
        <5>6. CASE \A s \in Seen : Rank(s) \notin {0, 1, 2, 3, 4} BY <4>2, <4>3, <5>6
        <5> QED BY <5>1, <5>2, <5>3, <5>4, <5>5, <5>6
      <4> QED BY <4>1, <4>4 DEF Seen, Lowest
    <3>3. uiState' = CHOOSE s \in Seen : Lowest(s) BY <2>2 DEF Tick
    <3> HIDE DEF Seen, Lowest
    <3>4. uiState' \in Seen BY <3>2, <3>3
    <3> QED BY <1>1, <3>4
  <2> QED BY <2>1, <2>2
<1> QED BY <1>2 DEF Tick, TypeOK

LEMMA ScanType ==
  ASSUME TypeOK, ScanReady \/ \E c \in Clients : ScanResets(c)
  PROVE  TypeOK'
<1>1. CASE ScanReady BY <1>1 DEF ScanReady, TypeOK
<1>2. ASSUME NEW c \in Clients, ScanResets(c) PROVE TypeOK'
  <2>1. "RESET" \in Commands BY DEF Commands
  <2>2. cmds' \in [Clients -> Seq([cmd : Commands, n : 0 .. MaxRun])]
    BY <1>2, <2>1, SendCommandType DEF ScanResets
  <2> QED BY <1>2, <2>2 DEF ScanResets, TypeOK
<1> QED BY <1>1, <1>2

\* The calls of the user thread.
LEMMA CallType == ASSUME TypeOK, Calls PROVE TypeOK'
<1>0. /\ {"init", "tags", "start_others", "stop_first", "closed"} \subseteq Phases
      /\ {"RESET", "TERMINATE", "CONFIG", "START", "STOP"} \subseteq Commands
  BY DEF Phases, StartPhases, StopPhases, OtherPhases, Commands
<1>a. ASSUME NEW k \in Commands, Awaits(k) PROVE uiState' \in States /\ ready' \in BOOLEAN
  <2>1. CASE Driver = "scan" BY <1>a, <2>1, SuccessIsState DEF Awaits
  <2>2. CASE Driver # "scan" BY <1>a, <2>2 DEF Awaits, TypeOK
  <2> QED BY <2>1, <2>2
<1>1. CASE Initialise
  <2>1. {c \in Known : view[c] = "UNINIT"} \in SUBSET Clients BY DEF Known
  <2> QED BY <1>0, <1>1, <2>1, EnterType DEF Initialise, TypeOK
<1>2. CASE Configure
  <2>1. {c \in Known : view[c] \in {"UNCONF", "CONF", "STOPPED"}} \in SUBSET Clients
    BY DEF Known
  <2> QED BY <1>0, <1>a, <1>2, <2>1, EnterType DEF Configure, TypeOK
<1>3. CASE StartRun
  <2>1. {c \in Known : view[c] \in {"CONF", "STOPPED"}} \in SUBSET Clients BY DEF Known
  <2> QED BY <1>0, <1>a, <1>3, <2>1, EnterType DEF StartRun, TypeOK
<1>4. CASE StopRun
  <2>1. {c \in Known : view[c] = "RUNNING"} \in SUBSET Clients BY DEF Known
  <2>2. runN' \in 1 .. MaxRun BY <1>4 DEF StopRun, TypeOK
  <2> QED BY <1>0, <1>a, <1>4, <2>1, <2>2, EnterType DEF StopRun, TypeOK
<1>5. CASE Reset
  <2>1. cmds' \in [Clients -> Seq([cmd : Commands, n : 0 .. MaxRun])]
    BY <1>0, <1>5, BroadcastType DEF Reset
  <2> QED BY <1>5, <2>1 DEF Reset, TypeOK
<1>6. CASE Terminate
  <2>1. cmds' \in [Clients -> Seq([cmd : Commands, n : 0 .. MaxRun])]
    BY <1>0, <1>6, BroadcastType DEF Terminate
  <2> QED BY <1>0, <1>6, <2>1 DEF Terminate, TypeOK
<1> QED BY <1>1, <1>2, <1>3, <1>4, <1>5, <1>6 DEF Calls

LEMMA SingleType ==
  ASSUME TypeOK, NEW k \in Commands, NEW c \in Clients, Single(k, c)
  PROVE  TypeOK'
<1>1. cmds' \in [Clients -> Seq([cmd : Commands, n : 0 .. MaxRun])]
  BY SendCommandType DEF Single, TypeOK
<1>2. pc' \in Phases /\ listening' \in BOOLEAN
  <2>1. pc' \in Phases BY DEF Single, TypeOK, Phases
  <2>2. listening' \in BOOLEAN BY DEF Single, TypeOK
  <2> QED BY <2>1, <2>2
<1> QED BY <1>1, <1>2 DEF Single, TypeOK

LEMMA NextType == TypeOK /\ [Next]_vars => TypeOK'
<1> SUFFICES ASSUME TypeOK, [Next]_vars PROVE TypeOK' OBVIOUS
<1>1. CASE Next
  BY <1>1, HandleType, ClientType, SendType, PollType, NextPhaseType, TickType,
     ScanType, CallType, SingleType DEF Next
<1>2. CASE UNCHANGED vars BY <1>2 DEF TypeOK
<1> QED BY <1>1, <1>2

\* Whoever calls and whatever the clients do, the call that is under way, the
\* snapshot it works on and the statuses it reads are what RunControl.cc
\* takes them for.
THEOREM TypeCorrect == Spec => []TypeOK
BY InitType, NextType, PTL DEF Spec
-----------------------------------------------------------------------------
(***************************************************************************)
(* A scan: one run at a time and no command refused.                       *)
(***************************************************************************)
UpType   == [Clients -> Seq(States)]
CmdType  == [cmd : Commands, n : 0 .. MaxRun]

LEMMA QueuesAre ==
  ASSUME TypeOK, NEW c \in Clients
  PROVE  /\ up[c] \in Seq(States) /\ DOMAIN up[c] = 1 .. Len(up[c]) /\ Len(up[c]) \in Nat
         /\ \A i \in DOMAIN up[c] : up[c][i] \in States
         /\ cmds[c] \in Seq(CmdType) /\ DOMAIN cmds[c] = 1 .. Len(cmds[c]) /\ Len(cmds[c]) \in Nat
         /\ \A i \in DOMAIN cmds[c] : cmds[c][i] \in CmdType
<1>1. up[c] \in Seq(States) /\ cmds[c] \in Seq(CmdType) BY DEF TypeOK, CmdType
<1> HIDE DEF CmdType
<1> QED BY <1>1

\* What a client shows after it has reached s and told it.
LEMMA Grows ==
  ASSUME TypeOK, NEW c \in Clients, NEW s \in States,
         up'[c] = Append(up[c], s), st'[c] = s, view'[c] = view[c]
  PROVE  /\ \A x : Shows(c, x)' => Shows(c, x) \/ x = s
         /\ \A a, b : a # b /\ Turned(c, a, b) /\ (s = a => ~Shows(c, b)) => Turned(c, a, b)'
<1>1. /\ DOMAIN up[c] = 1 .. Len(up[c]) /\ Len(up[c]) \in Nat
      /\ DOMAIN up'[c] = 1 .. Len(up[c]) + 1
      /\ \A i \in 1 .. Len(up[c]) : up'[c][i] = up[c][i]
      /\ up'[c][Len(up[c]) + 1] = s
  <2> DEFINE u == up[c]
  <2>1. u \in Seq(States) BY QueuesAre
  <2> HIDE DEF u
  <2>2. /\ DOMAIN u = 1 .. Len(u) /\ Len(u) \in Nat
        /\ DOMAIN Append(u, s) = 1 .. Len(u) + 1
        /\ \A i \in 1 .. Len(u) : Append(u, s)[i] = u[i]
        /\ Append(u, s)[Len(u) + 1] = s
    BY <2>1
  <2> QED BY <2>2 DEF u
<1>2. \A i \in DOMAIN up'[c] : i \in DOMAIN up[c] \/ i = Len(up[c]) + 1 BY <1>1
<1>3. \A x : Tells(c, x)' => Tells(c, x) \/ x = s BY <1>1, <1>2 DEF Tells
<1>4. ASSUME NEW a, NEW b, a # b, Turned(c, a, b), s = a => ~Shows(c, b)
      PROVE  Turned(c, a, b)'
  <2>1. view[c] = b => s # a /\ ~Tells(c, a)' BY <1>3, <1>4 DEF Turned, Shows
  <2>2. ASSUME NEW i \in DOMAIN up'[c], up'[c][i] = b
        PROVE  s # a /\ \A j \in DOMAIN up'[c] : j > i => up'[c][j] # a
    <3>1. CASE i \in DOMAIN up[c]
      <4>1. up[c][i] = b /\ Shows(c, b) BY <1>1, <2>2, <3>1 DEF Shows, Tells
      <4> QED BY <1>1, <1>2, <1>4, <3>1, <4>1 DEF Turned
    <3>2. CASE i = Len(up[c]) + 1
      <4>1. s = b BY <1>1, <2>2, <3>2
      <4> QED BY <1>1, <1>4, <3>2, <4>1
    <3> QED BY <1>2, <3>1, <3>2
  <2> QED BY <2>1, <2>2 DEF Turned
<1> QED BY <1>3, <1>4 DEF Shows

\* What its entry and its connection show after a status has been received.
LEMMA Moves ==
  ASSUME TypeOK, NEW c \in Clients, up[c] # <<>>,
         up'[c] = Tail(up[c]), st'[c] = st[c], view'[c] = Head(up[c])
  PROVE  /\ \A x : Shows(c, x)' => Shows(c, x)
         /\ \A a, b : a # b /\ Turned(c, a, b) => Turned(c, a, b)'
         /\ view'[c] # None /\ Tells(c, view'[c])
         /\ \A x : (\A i \in DOMAIN up[c] : up[c][i] = x)
                      => view'[c] = x /\ \A i \in DOMAIN up'[c] : up'[c][i] = x
<1>1. /\ 1 \in DOMAIN up[c] /\ view'[c] = up[c][1]
      /\ \A i \in DOMAIN up'[c] : /\ i \in Nat /\ i + 1 \in DOMAIN up[c] /\ i + 1 > 1
                                  /\ up'[c][i] = up[c][i + 1]
  <2> DEFINE u == up[c]
  <2>1. u \in Seq(States) /\ u # <<>> BY QueuesAre
  <2> HIDE DEF u
  <2>2. /\ 1 \in DOMAIN u /\ Head(u) = u[1]
        /\ \A i \in DOMAIN Tail(u) : /\ i \in Nat /\ i + 1 \in DOMAIN u /\ i + 1 > 1
                                     /\ Tail(u)[i] = u[i + 1]
    BY <2>1
  <2> QED BY <2>2 DEF u
<1>2. \A x : Tells(c, x)' => Tells(c, x) BY <1>1 DEF Tells
<1>3. Tells(c, view'[c]) /\ view'[c] # None
  BY <1>1, QueuesAre DEF Tells, States, None
<1>4. ASSUME NEW a, NEW b, a # b, Turned(c, a, b) PROVE Turned(c, a, b)'
  <2>1. view'[c] = b => st'[c] # a /\ ~Tells(c, a)'
    BY <1>1, <1>4 DEF Turned, Tells
  <2>2. ASSUME NEW i \in DOMAIN up'[c], up'[c][i] = b
        PROVE  st'[c] # a /\ \A j \in DOMAIN up'[c] : j > i => up'[c][j] # a
    <3>1. up[c][i + 1] = b /\ i + 1 \in DOMAIN up[c] BY <1>1, <2>2
    <3>2. \A j \in DOMAIN up'[c] : j > i => j + 1 > i + 1 /\ up'[c][j] = up[c][j + 1]
      BY <1>1
    <3> QED BY <1>1, <1>4, <3>1, <3>2 DEF Turned
  <2> QED BY <2>1, <2>2 DEF Turned
<1>5. \A x : Shows(c, x)' => Shows(c, x) BY <1>2, <1>3 DEF Shows
<1>6. \A x : (\A i \in DOMAIN up[c] : up[c][i] = x)
               => view'[c] = x /\ \A i \in DOMAIN up'[c] : up'[c][i] = x
  BY <1>1
<1> QED BY <1>3, <1>4, <1>5, <1>6

\* Who waits for a command, and when.
LEMMA UnsentWhen ==
  ASSUME Round, NEW c, Unsent(c)
  PROVE  ~ready /\ c \in conns /\ uiState \in {"RUNNING", "STOPPED"}
         /\ (pc \in StartPhases \/ pc \in StopPhases)
BY DEF Round, Unsent, Later, StartPhases, StopPhases

\* What is not touched of a client stays true.
LEMMA Same ==
  ASSUME NEW c \in Clients, ClientInv(c),
         view'[c] = view[c], st'[c] = st[c], up'[c] = up[c], cmds'[c] = cmds[c],
         run'[c] = run[c], loop'[c] = loop[c],
         uiState' = uiState, ready' = ready, runN' = runN,
         Unsent(c)' => Unsent(c), c \in conns' => c \in conns
  PROVE  ClientInv(c)'
<1>1. \A x : Shows(c, x)' <=> Shows(c, x) BY DEF Shows, Tells
<1>2. \A a, b : Turned(c, a, b)' <=> Turned(c, a, b) BY DEF Turned, Tells
<1>3. \A x : Has(c, x)' <=> Has(c, x) BY DEF Has
<1>4. QueueInv(c)' BY <1>1 DEF ClientInv, QueueInv
<1>5. RoundInv(c)' BY <1>1, <1>2 DEF ClientInv, RoundInv
<1>6. c \notin Failing => SoundInv(c)' BY <1>1, <1>2, <1>3 DEF ClientInv, SoundInv
<1> QED BY <1>4, <1>5, <1>6 DEF ClientInv

\* A command that is handled leaves the queue.
LEMMA Pops ==
  ASSUME TypeOK, NEW c \in Clients, cmds[c] # <<>>, cmds'[c] = Tail(cmds[c])
  PROVE  /\ 1 \in DOMAIN cmds[c] /\ Head(cmds[c]) = cmds[c][1] /\ Head(cmds[c]) \in CmdType
         /\ \A i \in DOMAIN cmds'[c] : /\ i \in Nat /\ i + 1 \in DOMAIN cmds[c] /\ i + 1 > 1
                                       /\ cmds'[c][i] = cmds[c][i + 1]
<1> DEFINE q == cmds[c]
<1>1. q \in Seq(CmdType) /\ q # <<>> BY QueuesAre
<1> HIDE DEF q, CmdType
<1>2. /\ 1 \in DOMAIN q /\ Head(q) = q[1] /\ Head(q) \in CmdType
      /\ \A i \in DOMAIN Tail(q) : /\ i \in Nat /\ i + 1 \in DOMAIN q /\ i + 1 > 1
                                   /\ Tail(q)[i] = q[i + 1]
  BY <1>1
<1> QED BY <1>2 DEF q

\* The queue after a step that puts a command at its end.
LEMMA Puts ==
  ASSUME TypeOK, NEW c \in Clients, NEW e \in CmdType, cmds'[c] = Append(cmds[c], e)
  PROVE  /\ Len(cmds[c]) + 1 \in DOMAIN cmds'[c] /\ cmds'[c][Len(cmds[c]) + 1] = e
         /\ \A i \in DOMAIN cmds[c] : /\ i \in DOMAIN cmds'[c] /\ cmds'[c][i] = cmds[c][i]
                                      /\ i < Len(cmds[c]) + 1
         /\ \A i \in DOMAIN cmds'[c] : i \in DOMAIN cmds[c] \/ i = Len(cmds[c]) + 1
<1> DEFINE q == cmds[c]
<1>1. q \in Seq(CmdType) BY QueuesAre
<1> HIDE DEF q, CmdType
<1>2. /\ Len(q) + 1 \in DOMAIN Append(q, e) /\ Append(q, e)[Len(q) + 1] = e
      /\ \A i \in DOMAIN q : /\ i \in DOMAIN Append(q, e) /\ Append(q, e)[i] = q[i]
                             /\ i < Len(q) + 1
      /\ \A i \in DOMAIN Append(q, e) : i \in DOMAIN q \/ i = Len(q) + 1
  BY <1>1
<1> QED BY <1>2 DEF q

\* A client handles a command: what it reaches is the state of success of the
\* command of this round, UNINIT or ERROR; a sound client accepts it.
LEMMA HandleOwn ==
  ASSUME ScanInv, NEW c \in On, Handle(c), alive'[c] = "on"
  PROVE  ClientInv(c)'
<1> DEFINE e == Head(cmds[c])
           k == e.cmd
<1>0. /\ TypeOK /\ Round /\ c \in Clients /\ QueueInv(c) /\ RoundInv(c)
      /\ (c \notin Failing => SoundInv(c))
  BY DEF ScanInv, On, ClientInv
<1>1. /\ cmds[c] # <<>> /\ cmds'[c] = Tail(cmds[c])
      /\ view' = view /\ UNCHANGED <<userVars, uiVars>>
      /\ run'[c] = IF k = "START" THEN e.n ELSE run[c]
  BY <1>0 DEF Handle, TypeOK
<1>2. /\ 1 \in DOMAIN cmds[c] /\ e = cmds[c][1] /\ e \in CmdType
      /\ \A i \in DOMAIN cmds'[c] : /\ i \in Nat /\ i + 1 \in DOMAIN cmds[c] /\ i + 1 > 1
                                    /\ cmds'[c][i] = cmds[c][i + 1]
  BY <1>0, <1>1, Pops
<1>3. k \in Commands BY <1>2 DEF CmdType
<1>4. Unsent(c)' <=> Unsent(c) BY <1>1 DEF Unsent
<1>5. \/ k = "RESET"
      \/ k = "CONFIG" /\ uiState = "CONF"
      \/ k = "CONFIG" /\ uiState = "RUNNING" /\ ~ready /\ ~Shows(c, "RUNNING")
      \/ /\ k = Step(uiState) /\ uiState \in {"RUNNING", "STOPPED"} /\ ~ready
         /\ ~Shows(c, uiState) /\ ~Unsent(c)
         /\ \A j \in DOMAIN cmds[c] : j > 1 => cmds[c][j].cmd = "RESET"
  BY <1>0, <1>2 DEF QueueInv
<1>6. k = "START" => e.n = runN BY <1>0, <1>2 DEF QueueInv
<1>7. PICK s \in States : /\ up'[c] = Append(up[c], s) /\ st'[c] = s
                          /\ \/ s = "ERROR" /\ (~Accepts(c, k) \/ c \in Failing)
                             \/ s = Success(k)
                          /\ \/ loop'[c] = loop[c] /\ k # "START" /\ k # "STOP"
                             \/ loop'[c] = (k = "START") /\ s = Success(k)
                             \/ c \in Failing \/ ~Accepts(c, k)
  <2>1. CASE /\ Reach(c, Success(k))
             /\ loop' = IF k \in {"START", "STOP", "RESET"}
                        THEN [loop EXCEPT ![c] = (k = "START")] ELSE loop
    <3>1. Success(k) \in States BY <1>3, SuccessIsState
    <3>2. up'[c] = Append(up[c], Success(k)) /\ st'[c] = Success(k)
      BY <1>0, <2>1 DEF Reach, TypeOK
    <3>3. \/ loop'[c] = loop[c] /\ k # "START" /\ k # "STOP"
          \/ loop'[c] = (k = "START")
      BY <1>0, <2>1 DEF TypeOK
    <3> QED BY <3>1, <3>2, <3>3
  <2>2. CASE Reach(c, "ERROR") /\ (~Accepts(c, k) \/ c \in Failing)
    <3>1. up'[c] = Append(up[c], "ERROR") /\ st'[c] = "ERROR" /\ "ERROR" \in States
      BY <1>0, <2>2 DEF Reach, TypeOK, States
    <3> QED BY <2>2, <3>1
  <2>3. CASE Alive(c, k, "mute") BY <1>0, <2>3 DEF Alive, TypeOK
  <2> QED BY <2>1, <2>2, <2>3 DEF Handle
<1> HIDE DEF e, k
<1>8. /\ \A x : Shows(c, x)' => Shows(c, x) \/ x = s
      /\ \A a, b : a # b /\ Turned(c, a, b) /\ (s = a => ~Shows(c, b)) => Turned(c, a, b)'
  BY <1>0, <1>1, <1>7, Grows
<1>9. /\ s = "RUNNING" => k = "START"
      /\ s = "STOPPED" => k = "STOP"
      /\ s = "CONF" => k = "CONFIG"
      /\ s = "UNINIT" => k = "RESET"
      /\ s # "UNCONF"
  BY <1>5, <1>7 DEF Success, Step
<1>11. uiState \in {"UNCONF", "CONF", "RUNNING", "STOPPED"} BY <1>0 DEF Round
<1>10. /\ s = "RUNNING" => uiState = "RUNNING" /\ ~ready
       /\ s = "STOPPED" => uiState = "STOPPED" /\ ~ready
       /\ s = "CONF" => \/ uiState = "CONF"
                        \/ uiState = "RUNNING" /\ ~ready /\ ~Shows(c, "RUNNING")
       /\ s = uiState /\ s # "CONF" => /\ ~Unsent(c) /\ k = Step(uiState)
                                       /\ \A j \in DOMAIN cmds[c] : j > 1 => cmds[c][j].cmd = "RESET"
  BY <1>5, <1>9, <1>11 DEF Step
<1>12. QueueInv(c)'
  <2>1. ASSUME NEW i \in DOMAIN cmds'[c]
        PROVE  \/ cmds'[c][i].cmd = "RESET"
               \/ cmds'[c][i].cmd = "CONFIG" /\ uiState = "CONF"
               \/ cmds'[c][i].cmd = "CONFIG" /\ uiState = "RUNNING" /\ ~ready /\ ~Shows(c, "RUNNING")'
               \/ /\ cmds'[c][i].cmd = Step(uiState) /\ uiState \in {"RUNNING", "STOPPED"} /\ ~ready
                  /\ ~Shows(c, uiState)' /\ ~Unsent(c)
                  /\ \A j \in DOMAIN cmds'[c] : j > i => cmds'[c][j].cmd = "RESET"
    <3>1. /\ i + 1 \in DOMAIN cmds[c] /\ i + 1 > 1 /\ cmds'[c][i] = cmds[c][i + 1]
          /\ \A j \in DOMAIN cmds'[c] : j > i => j + 1 > i + 1
      BY <1>2, <2>1
    <3>2. CASE cmds[c][i + 1].cmd = "RESET" BY <3>1, <3>2
    <3>3. CASE cmds[c][i + 1].cmd # "RESET"
      <4>1. s = uiState => s = "CONF" BY <1>10, <3>1, <3>3
      <4>2. \A x : x = uiState /\ x # "CONF" /\ ~Shows(c, x) => ~Shows(c, x)' BY <1>8, <4>1
      <4>3. uiState' = uiState BY <1>1
      <4> QED BY <1>0, <1>2, <3>1, <3>3, <4>2, <4>3 DEF QueueInv
    <3> QED BY <3>2, <3>3
  <2>2. \A i \in DOMAIN cmds'[c] : cmds'[c][i].cmd = "START" => cmds'[c][i].n = runN
    BY <1>0, <1>2 DEF QueueInv
  <2>3. Unsent(c) => ~Shows(c, uiState)'
    <3>1. ASSUME Unsent(c) PROVE uiState # "CONF" /\ ~Shows(c, uiState)
      BY <1>0, <3>1, UnsentWhen DEF QueueInv
    <3>2. ASSUME Unsent(c) PROVE s # uiState BY <1>10, <3>1, <3>2
    <3>3. uiState' = uiState BY <1>1
    <3> QED BY <1>8, <3>1, <3>2, <3>3
  <2>4. ready' = ready /\ uiState' = uiState /\ runN' = runN BY <1>1
  <2> QED BY <1>4, <2>1, <2>2, <2>3, <2>4 DEF QueueInv
<1>13. RoundInv(c)'
  <2>1. uiState = "UNCONF" => s \notin {"RUNNING", "STOPPED"} BY <1>10
  <2>2. uiState # "UNCONF" => s # Behind(uiState) /\ Before(uiState) # uiState
    BY <1>10, <1>11 DEF Behind, Before
  <2>3. uiState # "UNCONF" => (s = Before(uiState) => ~ready /\ ~Shows(c, uiState))
    BY <1>10, <1>11 DEF Before
  <2>4. st'[c] = "RUNNING" => run'[c] = runN /\ uiState = "RUNNING"
    BY <1>1, <1>6, <1>7, <1>9, <1>10
  <2>5. ready' = ready /\ uiState' = uiState /\ runN' = runN /\ view'[c] = view[c] BY <1>1
  <2>6. uiState # "UNCONF" => Turned(c, Before(uiState), uiState)'
    BY <1>0, <1>8, <2>2, <2>3, <2>5 DEF RoundInv
  <2>7. /\ uiState = "UNCONF" => ~Shows(c, "RUNNING")' /\ ~Shows(c, "STOPPED")'
        /\ uiState # "UNCONF" => ~Shows(c, Behind(uiState))'
        /\ uiState # "UNCONF" /\ ready => ~Shows(c, Before(uiState))'
    BY <1>0, <1>8, <2>1, <2>2, <2>3, <2>5 DEF RoundInv
  <2> QED BY <1>0, <2>4, <2>5, <2>6, <2>7 DEF RoundInv
<1>14. ASSUME c \notin Failing PROVE SoundInv(c)'
  <2>1. /\ SoundInv(c) /\ k # "RESET" /\ st[c] \in States
    BY <1>0, <1>2, <1>14 DEF SoundInv, Has, TypeOK, k
  <2>2. st[c] \notin {"ERROR", "UNINIT"} /\ ~Shows(c, "UNINIT")
    BY <1>1, <2>1 DEF SoundInv, Shows
  <2>3. /\ k = "CONFIG" => st[c] # "RUNNING"
        /\ k = "START" => st[c] = "CONF"
        /\ k = "STOP" => st[c] = "RUNNING"
    <3>1. k = "CONFIG" => st[c] # "RUNNING"
      BY <1>0, <1>5 DEF Shows, RoundInv, Behind, Step
    <3>2. k = "START" => st[c] \notin {"RUNNING", "STOPPED", "UNCONF"}
      BY <1>0, <1>5, <2>1 DEF Shows, RoundInv, SoundInv, Behind, Step
    <3>3. k = "STOP" => st[c] \notin {"CONF", "STOPPED", "UNCONF"}
      BY <1>0, <1>5, <2>1 DEF Shows, RoundInv, SoundInv, Behind, Step
    <3> QED BY <2>1, <2>2, <3>1, <3>2, <3>3 DEF States
  <2>4. k \in {"CONFIG", "START", "STOP"} BY <1>5, <2>1 DEF Step
  <2>5. Accepts(c, k)
    BY <2>1, <2>2, <2>3, <2>4 DEF Accepts, SoundInv, States
  <2>6. s \in {"CONF", "RUNNING", "STOPPED"} /\ (k = "START" => s = "RUNNING")
    BY <1>7, <1>14, <2>4, <2>5 DEF Success
  <2>7. loop'[c] => s = "RUNNING"
    BY <1>7, <1>9, <1>14, <2>1, <2>3, <2>4, <2>5, <2>6 DEF SoundInv
  <2>8. ~Has(c, "RESET")' BY <1>2, <2>1 DEF SoundInv, Has
  <2>9. ~Shows(c, "ERROR")' /\ ~Shows(c, "UNINIT")' BY <1>8, <2>1, <2>2, <2>6 DEF SoundInv
  <2>10. /\ uiState \in {"UNCONF", "CONF"} => Turned(c, "UNCONF", "CONF")'
         /\ uiState \in {"RUNNING", "STOPPED"} \/ (uiState = "CONF" /\ ready) => ~Shows(c, "UNCONF")'
    BY <1>8, <2>1, <2>6 DEF SoundInv
  <2>11. ready' = ready /\ uiState' = uiState BY <1>1
  <2> QED BY <1>7, <2>7, <2>8, <2>9, <2>10, <2>11 DEF SoundInv
<1> QED BY <1>12, <1>13, <1>14 DEF ClientInv

\* The other steps of a client and those of the server thread.
LEMMA ReportOwn ==
  ASSUME ScanInv, NEW c \in On, Report(c)
  PROVE  ClientInv(c)'
<1>0. /\ TypeOK /\ c \in Clients /\ QueueInv(c) /\ RoundInv(c) /\ (c \notin Failing => SoundInv(c))
  BY DEF ScanInv, On, ClientInv
<1>1. /\ up[c] = <<>> /\ up'[c] = Append(up[c], st[c]) /\ st[c] \in States
      /\ UNCHANGED <<clientVars, cmds, view, userVars, uiVars>>
  BY <1>0 DEF Report, TypeOK
<1>2. /\ \A x : Shows(c, x)' => Shows(c, x)
      /\ \A a, b : a # b /\ Turned(c, a, b) => Turned(c, a, b)'
  <2>1. \A x : Shows(c, x)' => Shows(c, x) \/ x = st[c] BY <1>0, <1>1, Grows
  <2>2. \A x : x = st[c] => Shows(c, x) BY DEF Shows
  <2>3. DOMAIN up'[c] = {1} /\ up'[c][1] = st[c] BY <1>1
  <2>4. ASSUME NEW a, NEW b, a # b, Turned(c, a, b) PROVE Turned(c, a, b)'
    BY <1>1, <2>3, <2>4 DEF Turned, Tells
  <2> QED BY <2>1, <2>2, <2>4
<1>3. (Unsent(c)' <=> Unsent(c)) /\ \A k : Has(c, k)' <=> Has(c, k) BY <1>1 DEF Unsent, Has
<1>4. QueueInv(c)' BY <1>0, <1>1, <1>2, <1>3 DEF QueueInv
<1>5. \A x : Before(x) # x BY DEF Before
<1>6. RoundInv(c)' BY <1>0, <1>1, <1>2, <1>5 DEF RoundInv
<1>7. ASSUME c \notin Failing PROVE SoundInv(c)'
  <2>1. SoundInv(c) BY <1>0, <1>7
  <2>2. Shows(c, "UNINIT")' => \A i \in DOMAIN up'[c] : up'[c][i] = "UNINIT"
    <3>1. DOMAIN up'[c] = {1} /\ up'[c][1] = st[c] BY <1>1
    <3> QED BY <1>2, <2>1, <3>1 DEF SoundInv
  <2> QED BY <1>1, <1>2, <1>3, <2>1, <2>2 DEF SoundInv
<1> QED BY <1>4, <1>6, <1>7 DEF ClientInv

LEMMA RunFailsOwn ==
  ASSUME ScanInv, NEW c \in On, RunFails(c)
  PROVE  ClientInv(c)'
<1>0. /\ TypeOK /\ Round /\ c \in Clients /\ QueueInv(c) /\ RoundInv(c) /\ c \in Failing
  BY DEF ScanInv, On, ClientInv, RunFails
<1>1. /\ st'[c] = "ERROR" /\ UNCHANGED <<alive, loop, run, cmds, up, view, userVars, uiVars>>
  BY <1>0 DEF RunFails, TypeOK
<1>2. /\ \A x : x # "ERROR" => (Shows(c, x)' => Shows(c, x))
      /\ \A a, b : a # "ERROR" /\ Turned(c, a, b) => Turned(c, a, b)'
  BY <1>1 DEF Shows, Turned, Tells
<1>3. Unsent(c)' <=> Unsent(c) BY <1>1 DEF Unsent
<1>4. \A x : Before(x) # "ERROR" /\ Behind(x) # "ERROR" BY DEF Before, Behind
<1>5. uiState # "ERROR" BY <1>0 DEF Round
<1>6. QueueInv(c)' BY <1>0, <1>1, <1>2, <1>3, <1>5 DEF QueueInv
<1>7. RoundInv(c)' BY <1>0, <1>1, <1>2, <1>4 DEF RoundInv
<1> QED BY <1>0, <1>6, <1>7 DEF ClientInv

LEMMA ReceiveOwn ==
  ASSUME ScanInv, NEW c \in On, Receive(c)
  PROVE  ClientInv(c)'
<1>0. /\ TypeOK /\ c \in Clients /\ QueueInv(c) /\ RoundInv(c) /\ (c \notin Failing => SoundInv(c))
  BY DEF ScanInv, On, ClientInv
<1>1. /\ up[c] # <<>> /\ up'[c] = Tail(up[c]) /\ view'[c] = Head(up[c])
      /\ UNCHANGED <<clientVars, cmds, userVars, uiVars>>
  BY <1>0 DEF Receive, TypeOK
<1>2. /\ \A x : Shows(c, x)' => Shows(c, x)
      /\ \A a, b : a # b /\ Turned(c, a, b) => Turned(c, a, b)'
      /\ view'[c] # None
      /\ \A x : (\A i \in DOMAIN up[c] : up[c][i] = x)
                   => view'[c] = x /\ \A i \in DOMAIN up'[c] : up'[c][i] = x
  BY <1>0, <1>1, Moves
<1>3. (Unsent(c)' <=> Unsent(c)) /\ \A k : Has(c, k)' <=> Has(c, k) BY <1>1 DEF Unsent, Has
<1>4. QueueInv(c)' BY <1>0, <1>1, <1>2, <1>3 DEF QueueInv
<1>5. \A x : Before(x) # x BY DEF Before
<1>6. RoundInv(c)' BY <1>0, <1>1, <1>2, <1>5 DEF RoundInv
<1>7. ASSUME c \notin Failing PROVE SoundInv(c)'
  <2>1. SoundInv(c) BY <1>0, <1>7
  <2> QED BY <1>1, <1>2, <1>3, <2>1 DEF SoundInv
<1> QED BY <1>4, <1>6, <1>7 DEF ClientInv

LEMMA ConnectOwn ==
  ASSUME ScanInv, NEW c \in Clients, Connect(c), alive'[c] = "on"
  PROVE  ClientInv(c)'
<1>0. TypeOK /\ Round BY DEF ScanInv
<1>1. /\ view'[c] = "UNINIT" /\ st[c] = "UNINIT" /\ ~loop[c]
      /\ up[c] = <<>> /\ cmds[c] = <<>> /\ c \notin conns
      /\ UNCHANGED <<st, loop, run, cmds, up, userVars, uiVars>>
  BY <1>0 DEF Connect, TypeOK, Round
<1>2. \A x : Shows(c, x)' => x = "UNINIT" BY <1>1 DEF Shows, Tells
<1>3. ~Unsent(c)' /\ \A k : ~Has(c, k)' BY <1>1 DEF Unsent, Has
<1>4. QueueInv(c)' BY <1>1, <1>3 DEF QueueInv
<1>5. \A x : Before(x) # "UNINIT" /\ Behind(x) # "UNINIT" BY DEF Before, Behind
<1>6. \A a, b : b # "UNINIT" => Turned(c, a, b)' BY <1>1 DEF Turned
<1>7. uiState # "UNINIT" BY <1>0 DEF Round
<1>8. RoundInv(c)' BY <1>1, <1>2, <1>5, <1>6, <1>7 DEF RoundInv, None
<1>9. SoundInv(c)' BY <1>1, <1>2, <1>3, <1>6 DEF SoundInv
<1> QED BY <1>4, <1>8, <1>9 DEF ClientInv

LEMMA ScanClients ==
  ASSUME ScanInv, NEW d \in Clients,
         \/ Handle(d) \/ Report(d) \/ RunFails(d) \/ Dies(d)
         \/ Connect(d) \/ Receive(d) \/ Disconnect(d)
  PROVE  Round' /\ \A c \in On' : ClientInv(c)'
<1>0. TypeOK /\ Round /\ \A c \in On : ClientInv(c) BY DEF ScanInv
<1>1. /\ UNCHANGED <<userVars, uiVars>>
      /\ \A c \in Clients \ {d} :
           /\ alive'[c] = alive[c] /\ st'[c] = st[c] /\ loop'[c] = loop[c] /\ run'[c] = run[c]
           /\ cmds'[c] = cmds[c] /\ up'[c] = up[c] /\ view'[c] = view[c]
  <2>1. CASE Handle(d)
    BY <1>0, <2>1 DEF Handle, Reach, Alive, TypeOK
  <2>2. CASE Report(d) \/ RunFails(d) \/ Dies(d) BY <1>0, <2>2 DEF Report, RunFails, Dies, TypeOK
  <2>3. CASE Connect(d) \/ Receive(d) \/ Disconnect(d)
    BY <1>0, <2>3 DEF Connect, Receive, Disconnect, TypeOK
  <2> QED BY <2>1, <2>2, <2>3
<1>2. \A c : Unsent(c)' <=> Unsent(c) BY <1>1 DEF Unsent
<1>3. Round'
  <2>1. ASSUME NEW c \in Clients, alive'[c] = "new" PROVE c # d /\ alive[c] = "new"
    <3>1. CASE c = d
      BY <1>0, <2>1, <3>1 DEF Handle, Alive, Report, RunFails, Dies, Connect, Receive, Disconnect,
         TypeOK, Round, None
    <3> QED BY <1>1, <2>1, <3>1
  <2>2. \A c \in todo : In(pc, c)' <=> In(pc, c) BY <1>1 DEF In
  <2> QED BY <1>0, <1>1, <2>1, <2>2 DEF Round
<1>4. ASSUME NEW c \in On' PROVE ClientInv(c)'
  <2>1. c \in Clients /\ alive'[c] = "on" BY <1>4 DEF On
  <2>2. CASE c # d
    <3>1. c \in On BY <1>1, <2>1, <2>2 DEF On
    <3> QED BY <1>0, <1>1, <1>2, <2>1, <2>2, <3>1, Same
  <2>3. CASE c = d /\ c \in On
    <3>1. ~Dies(d) /\ ~Connect(d) /\ ~Disconnect(d)
      BY <1>0, <2>1, <2>3 DEF Dies, Connect, Disconnect, On, TypeOK
    <3> QED BY <2>1, <2>3, <3>1, HandleOwn, ReportOwn, RunFailsOwn, ReceiveOwn
  <2>4. CASE c = d /\ c \notin On
    <3>1. Connect(d)
      BY <1>0, <2>1, <2>4 DEF Handle, Report, RunFails, Dies, Receive, Disconnect, On, TypeOK
    <3> QED BY <2>1, <2>4, <3>1, ConnectOwn
  <2> QED BY <2>2, <2>3, <2>4
<1> QED BY <1>3, <1>4

\* The loops are about different connections, and one follows another.
LEMMA Loops ==
  ASSUME NEW c \in Clients
  PROVE  /\ \A ph \in StartPhases \cup StopPhases : ph \notin Waits /\ In(ph, c)
                => \A l \in Later(ph) : ~In(l, c)
         /\ \A ph \in StartPhases \cup StopPhases :
                /\ After(ph) \notin Waits \cup {"idle"} => After(ph) \in Later(ph)
                /\ Later(After(ph)) \subseteq Later(ph)
                /\ ph \in StartPhases => After(ph) \in StartPhases \cup {"idle"}
                /\ ph \in StopPhases => After(ph) \in StopPhases \cup {"idle"}
BY DEF StartPhases, StopPhases, Waits, In, Later, After, Clients

LEMMA ScanSends ==
  ASSUME ScanInv, NEW d \in Clients, Send(d)
  PROVE  Round' /\ \A c \in On' : ClientInv(c)'
<1>0. TypeOK /\ Round /\ \A c \in On : ClientInv(c) BY DEF ScanInv
<1>1. /\ pc \in {"config"} \cup (StartPhases \cup StopPhases) /\ pc \notin Waits
      /\ cur = None /\ d \in todo /\ d \in conns /\ In(pc, d)
      /\ SendCommand(CommandOf(pc), d)
      /\ \/ cur' = d /\ todo' = todo
         \/ cur' = cur /\ todo' = todo \ {d} /\ pc \notin SendWait
      /\ UNCHANGED <<clientVars, up, view, listening, runN, pc, conns, uiVars>>
  <2>1. pc \in {"config"} \cup (StartPhases \cup StopPhases) /\ pc # "init"
    BY <1>0 DEF Send, Round, StartPhases, StopPhases, OtherPhases, Waits
  <2> QED BY <1>0, <2>1 DEF Send, Round
<1>2. /\ \A c \in Clients \ {d} : cmds'[c] = cmds[c]
      /\ view[d] # None =>
           cmds'[d] = Append(cmds[d], [cmd |-> CommandOf(pc),
                                       n |-> IF CommandOf(pc) = "START" THEN runN ELSE 0])
  BY <1>0, <1>1 DEF SendCommand, Put, TypeOK
<1>3. \A c \in Clients \ {d} : Unsent(c)' => Unsent(c) BY <1>1 DEF Unsent, None, Clients
<1>4. ~Unsent(d)'
  <2>1. d \notin todo' \/ cur' = d BY <1>1
  <2>2. \A ph \in Later(pc) : ~In(ph, d)
    <3>1. CASE pc = "config" BY <3>1 DEF Later
    <3>2. CASE pc \in StartPhases \cup StopPhases BY <1>1, <3>2, Loops
    <3> QED BY <1>1, <3>1, <3>2
  <2>3. \A ph \in Later(pc) : ~In(ph, d)' BY <2>2 DEF In
  <2> QED BY <1>1, <2>1, <2>2 DEF Unsent
<1>5. Round'
  <2>1. ASSUME NEW c \in Clients, alive'[c] = "new" PROVE cmds'[c] = cmds[c]
    BY <1>0, <1>1, <1>2, <2>1 DEF Round
  <2> QED BY <1>0, <1>1, <2>1 DEF Round, In
<1>6. ASSUME NEW c \in On', c # d PROVE ClientInv(c)'
  <2>1. c \in On /\ c \in Clients BY <1>1, <1>6 DEF On
  <2> QED BY <1>0, <1>1, <1>2, <1>3, <1>6, <2>1, Same
<1>7. ASSUME d \in On PROVE ClientInv(d)'
  <2>0. /\ QueueInv(d) /\ RoundInv(d) /\ (d \notin Failing => SoundInv(d)) /\ view[d] # None
    BY <1>0, <1>7 DEF ClientInv, RoundInv
  <2> DEFINE k == CommandOf(pc)
  <2>1. PICK e \in CmdType : /\ e.cmd = k /\ (k = "START" => e.n = runN)
                             /\ cmds'[d] = Append(cmds[d], e)
    <3>1. k \in Commands
      BY <1>1 DEF CommandOf, Commands, StartPhases, StopPhases
    <3>2. runN \in 0 .. MaxRun /\ 0 \in 0 .. MaxRun BY <1>0 DEF TypeOK
    <3> DEFINE e == [cmd |-> k, n |-> IF k = "START" THEN runN ELSE 0]
    <3>3. e \in CmdType BY <3>1, <3>2 DEF CmdType
    <3>4. e.cmd = k /\ (k = "START" => e.n = runN) OBVIOUS
    <3>5. cmds'[d] = Append(cmds[d], e) BY <1>2, <2>0
    <3> HIDE DEF e, k
    <3> QED BY <3>3, <3>4, <3>5
  <2>2. PICK m : m = Len(cmds[d]) + 1 OBVIOUS
  <2>3. /\ m \in DOMAIN cmds'[d] /\ cmds'[d][m] = e
        /\ \A i \in DOMAIN cmds[d] : i \in DOMAIN cmds'[d] /\ cmds'[d][i] = cmds[d][i] /\ i < m
        /\ \A i \in DOMAIN cmds'[d] : i \in DOMAIN cmds[d] \/ i = m
    BY <1>0, <2>1, <2>2, Puts
  <2>4. /\ k = "CONFIG" /\ uiState = "CONF"
        \/ /\ k = Step(uiState) /\ uiState \in {"RUNNING", "STOPPED"} /\ ~ready
           /\ Unsent(d) /\ ~Shows(d, uiState)
    <3>1. CASE pc = "config" BY <1>0, <3>1 DEF Round, CommandOf, StartPhases, StopPhases
    <3>2. CASE pc \in StartPhases \cup StopPhases
      <4>1. Unsent(d) BY <1>1, <3>2 DEF Unsent, None, Clients
      <4>2. ~Shows(d, uiState) BY <2>0, <4>1 DEF QueueInv
      <4>3. k = Step(uiState) /\ uiState \in {"RUNNING", "STOPPED"} /\ ~ready
        BY <1>0, <3>2 DEF Round, CommandOf, Step, StartPhases, StopPhases
      <4> QED BY <4>1, <4>2, <4>3
    <3> QED BY <1>1, <3>1, <3>2
  <2> HIDE DEF k
  <2>5. /\ \A x : Shows(d, x)' <=> Shows(d, x)
        /\ \A a, b : Turned(d, a, b)' <=> Turned(d, a, b)
    BY <1>1 DEF Shows, Turned, Tells
  <2>6. k # "RESET" BY <2>4 DEF Step
  <2>7. QueueInv(d)'
    <3>0. m \in Nat BY <1>0, <2>2, QueuesAre
    <3>1. ASSUME NEW i \in DOMAIN cmds'[d]
          PROVE  \/ cmds'[d][i].cmd = "RESET"
                 \/ cmds'[d][i].cmd = "CONFIG" /\ uiState = "CONF"
                 \/ cmds'[d][i].cmd = "CONFIG" /\ uiState = "RUNNING" /\ ~ready /\ ~Shows(d, "RUNNING")
                 \/ /\ cmds'[d][i].cmd = Step(uiState) /\ uiState \in {"RUNNING", "STOPPED"} /\ ~ready
                    /\ ~Shows(d, uiState)
                    /\ \A j \in DOMAIN cmds'[d] : j > i => cmds'[d][j].cmd = "RESET"
      <4>1. CASE i \in DOMAIN cmds[d]
        <5>1. \/ cmds[d][i].cmd = "RESET"
              \/ cmds[d][i].cmd = "CONFIG" /\ uiState = "CONF"
              \/ cmds[d][i].cmd = "CONFIG" /\ uiState = "RUNNING" /\ ~ready /\ ~Shows(d, "RUNNING")
              \/ ~Unsent(d) /\ uiState # "CONF"
          BY <2>0, <4>1 DEF QueueInv
        <5> QED BY <2>3, <2>4, <4>1, <5>1
      <4>2. CASE i = m
        <5>1. \A j \in DOMAIN cmds'[d] : ~(j > m) BY <2>3, <3>0, QueuesAre, SMTT(20)
        <5> QED BY <2>1, <2>3, <2>4, <4>2, <5>1
      <4> QED BY <2>3, <4>1, <4>2
    <3>2. \A i \in DOMAIN cmds'[d] : cmds'[d][i].cmd = "START" => cmds'[d][i].n = runN
      BY <2>0, <2>1, <2>3 DEF QueueInv
    <3>3. uiState' = uiState /\ ready' = ready /\ runN' = runN BY <1>1
    <3> QED BY <1>4, <2>5, <3>1, <3>2, <3>3 DEF QueueInv
  <2>8. RoundInv(d)' BY <1>1, <2>0, <2>5 DEF RoundInv
  <2>9. ASSUME d \notin Failing PROVE SoundInv(d)'
    <3>1. SoundInv(d) /\ ~Shows(d, "UNINIT") BY <1>1, <2>0, <2>9 DEF SoundInv
    <3>2. ~Has(d, "RESET")' BY <2>1, <2>3, <2>6, <3>1 DEF SoundInv, Has
    <3> QED BY <1>1, <2>5, <3>1, <3>2 DEF SoundInv
  <2> QED BY <2>7, <2>8, <2>9 DEF ClientInv
<1>8. On' = On BY <1>1 DEF On
<1> QED BY <1>5, <1>6, <1>7, <1>8

\* A wait that is over, or that finds no status, leaves nobody more to send to.
LEMMA ScanPolls ==
  ASSUME ScanInv, NEW d \in Clients, Poll(d)
  PROVE  Round' /\ \A c \in On' : ClientInv(c)'
<1>0. TypeOK /\ Round /\ \A c \in On : ClientInv(c) BY DEF ScanInv
<1>1. /\ todo' \subseteq todo /\ (pc' = pc \/ pc' = "crashed")
      /\ \A c \in Clients : c \in todo' /\ cur # c => cur' # c
      /\ \A c \in Clients : c \in todo' /\ pc' = pc /\ cur' # c => cur # c
      /\ UNCHANGED <<clientVars, cmds, up, view, listening, runN, conns, uiVars>>
  BY DEF Poll, None
<1>2. ASSUME NEW c \in Clients, Unsent(c)' PROVE Unsent(c)
  <2>1. pc' = pc BY <1>1, <1>2 DEF Unsent, Later, StartPhases, StopPhases
  <2> QED BY <1>1, <1>2, <2>1 DEF Unsent, In
<1>3. Round'
  <2>1. \A c \in todo' : In(pc', c)
    <3>1. CASE pc' = pc BY <1>0, <1>1, <3>1 DEF Round
    <3>2. CASE pc' = "crashed" BY <3>2 DEF In
    <3> QED BY <1>1, <3>1, <3>2
  <2>2. \A c \in todo' : In(pc, c)' BY <2>1 DEF In
  <2> QED BY <1>0, <1>1, <2>2 DEF Round, StartPhases, StopPhases
<1>4. On' = On /\ On \subseteq Clients BY <1>1 DEF On
<1> QED BY <1>0, <1>1, <1>2, <1>3, <1>4, Same

LEMMA ScanPhases ==
  ASSUME ScanInv, NextPhase
  PROVE  Round' /\ \A c \in On' : ClientInv(c)'
<1>0. TypeOK /\ Round /\ \A c \in On : ClientInv(c) BY DEF ScanInv
<1>1. /\ pc' = After(pc) /\ cur' = None
      /\ conns' \subseteq conns /\ (pc' = "idle" => conns' = {})
      /\ todo' = {c \in conns' : In(pc', c)}
      /\ UNCHANGED <<clientVars, cmds, up, view, listening, runN, uiVars>>
  BY DEF NextPhase, Enter
<1>2. pc \in {"tags", "config"} \cup StartPhases \cup StopPhases
  BY <1>0 DEF NextPhase, Round, StartPhases, StopPhases, OtherPhases
<1>3. ASSUME NEW c \in Clients, Unsent(c)' PROVE Unsent(c)
  <2>1. c \in conns' /\ c \in conns BY <1>1, <1>3 DEF Unsent
  <2>2. pc \in StartPhases \cup StopPhases
    BY <1>1, <1>2, <1>3 DEF Unsent, After, Later, StartPhases, StopPhases
  <2>3. PICK ph : In(ph, c) /\ (\/ ph = pc' /\ pc' \notin Waits /\ pc' # "idle"
                                \/ ph \in Later(pc'))
    <3>1. CASE pc' \in (StartPhases \cup StopPhases) \ Waits /\ c \in todo'
      BY <1>1, <3>1 DEF StartPhases, StopPhases
    <3>2. CASE \E ph \in Later(pc)' : In(ph, c)' BY <3>2 DEF In, Later
    <3> QED BY <1>3, <3>1, <3>2 DEF Unsent
  <2>4. ph \in Later(pc) BY <1>1, <2>2, <2>3, Loops
  <2> QED BY <2>1, <2>3, <2>4 DEF Unsent
<1>4. Round'
  <2>1. \/ pc \in {"tags", "config"} /\ pc' \in {"config", "idle"}
        \/ pc \in StartPhases /\ pc' \in StartPhases \cup {"idle"}
        \/ pc \in StopPhases /\ pc' \in StopPhases \cup {"idle"}
    BY <1>1, <1>2 DEF After, StartPhases, StopPhases
  <2>2. /\ pc' \in {"idle", "crashed", "tags", "config"} \cup StartPhases \cup StopPhases
        /\ pc' \in {"tags", "config"} => uiState = "CONF" /\ ~ready
        /\ pc' \in StartPhases => uiState = "RUNNING" /\ ~ready
        /\ pc' \in StopPhases => uiState = "STOPPED" /\ ~ready
    BY <1>0, <2>1 DEF Round, StartPhases, StopPhases
  <2>3. \A c \in todo' : c \in conns' /\ In(pc, c)' BY <1>1 DEF In
  <2> QED BY <1>0, <1>1, <2>2, <2>3 DEF Round
<1>5. On' = On /\ On \subseteq Clients BY <1>1 DEF On
<1> QED BY <1>0, <1>1, <1>3, <1>4, <1>5, Same

\* The scan has seen everybody in the state it waits for: the state before is over.
LEMMA ScanIsReady ==
  ASSUME ScanInv, ScanReady
  PROVE  Round' /\ \A c \in On' : ClientInv(c)'
<1>0. TypeOK /\ Round /\ \A c \in On : ClientInv(c) BY DEF ScanInv
<1>1. /\ pc = "idle" /\ ~ready /\ ready' = TRUE /\ AllIn({uiState})
      /\ UNCHANGED <<clientVars, cmds, up, view, userVars, uiState>>
  BY DEF ScanReady
<1>2. Round' BY <1>0, <1>1 DEF Round, In, StartPhases, StopPhases
<1>3. ASSUME NEW c \in On PROVE ClientInv(c)'
  <2>0. /\ c \in Clients /\ QueueInv(c) /\ RoundInv(c) /\ (c \notin Failing => SoundInv(c))
    BY <1>0 DEF On, ClientInv
  <2>1. view[c] = uiState /\ Shows(c, uiState)
    BY <1>1, <2>0 DEF RoundInv, AllIn, Known, Shows
  <2>2. uiState \in {"CONF", "RUNNING", "STOPPED"} BY <1>0, <1>1 DEF Round
  <2>3. ~Unsent(c) /\ ~Unsent(c)'
    BY <1>1 DEF Unsent, Later, StartPhases, StopPhases
  <2>4. /\ \A x : Shows(c, x)' <=> Shows(c, x)
        /\ \A a, b : Turned(c, a, b)' <=> Turned(c, a, b)
        /\ \A k : Has(c, k)' <=> Has(c, k)
    BY <1>1 DEF Shows, Turned, Tells, Has
  <2>5. QueueInv(c)' BY <1>1, <2>0, <2>1, <2>2, <2>3 DEF QueueInv
  <2>6. ~Shows(c, Before(uiState))
    <3>1. Turned(c, Before(uiState), uiState) BY <2>0, <2>2 DEF RoundInv
    <3>2. Before(uiState) # uiState BY <2>2 DEF Before
    <3> QED BY <2>1, <3>1, <3>2 DEF Turned, Shows
  <2>7. RoundInv(c)' BY <1>1, <2>0, <2>4, <2>6 DEF RoundInv
  <2>8. ASSUME c \notin Failing PROVE SoundInv(c)'
    <3>1. SoundInv(c) BY <2>0, <2>8
    <3>2. uiState = "CONF" => ~Shows(c, "UNCONF")
      BY <2>1, <3>1 DEF SoundInv, Turned, Shows
    <3> QED BY <1>1, <2>4, <3>1, <3>2 DEF SoundInv
  <2> QED BY <2>5, <2>7, <2>8 DEF ClientInv
<1>4. On' = On BY <1>1 DEF On
<1> QED BY <1>2, <1>3, <1>4

\* Only a client that shows ERROR is reset.
LEMMA ScanIsReset ==
  ASSUME ScanInv, NEW d \in Clients, ScanResets(d)
  PROVE  Round' /\ \A c \in On' : ClientInv(c)'
<1>0. TypeOK /\ Round /\ \A c \in On : ClientInv(c) BY DEF ScanInv
<1>1. /\ view[d] = "ERROR" /\ SendCommand("RESET", d)
      /\ UNCHANGED <<clientVars, up, view, runN, pc, conns, todo, cur, uiVars>>
  BY DEF ScanResets
<1>2. /\ \A c \in Clients \ {d} : cmds'[c] = cmds[c]
      /\ cmds'[d] = Append(cmds[d], [cmd |-> "RESET", n |-> 0])
  BY <1>0, <1>1 DEF SendCommand, Put, TypeOK, None
<1>3. \A c : Unsent(c)' <=> Unsent(c) BY <1>1 DEF Unsent
<1>4. Round'
  <2>1. \A c \in Clients : alive[c] = "new" => c # d BY <1>0, <1>1 DEF Round, None
  <2> QED BY <1>0, <1>1, <1>2, <2>1 DEF Round, In
<1>5. ASSUME NEW c \in On, c # d PROVE ClientInv(c)'
  <2>1. c \in Clients BY DEF On
  <2> QED BY <1>0, <1>1, <1>2, <1>3, <1>5, <2>1, Same
<1>6. ASSUME d \in On PROVE ClientInv(d)'
  <2>0. QueueInv(d) /\ RoundInv(d) /\ d \in Failing
    BY <1>0, <1>1, <1>6 DEF ClientInv, SoundInv, Shows
  <2>1. PICK e \in CmdType : e.cmd = "RESET" /\ cmds'[d] = Append(cmds[d], e)
    <3> DEFINE e == [cmd |-> "RESET", n |-> 0]
    <3>1. e \in CmdType BY DEF CmdType, Commands
    <3>2. e.cmd = "RESET" /\ cmds'[d] = Append(cmds[d], e) BY <1>2
    <3> HIDE DEF e
    <3> QED BY <3>1, <3>2
  <2>2. PICK m : m = Len(cmds[d]) + 1 OBVIOUS
  <2>3. /\ m \in DOMAIN cmds'[d] /\ cmds'[d][m] = e
        /\ \A i \in DOMAIN cmds[d] : i \in DOMAIN cmds'[d] /\ cmds'[d][i] = cmds[d][i] /\ i < m
        /\ \A i \in DOMAIN cmds'[d] : i \in DOMAIN cmds[d] \/ i = m
    BY <1>0, <2>1, <2>2, Puts
  <2>4. /\ \A x : Shows(d, x)' <=> Shows(d, x)
        /\ \A a, b : Turned(d, a, b)' <=> Turned(d, a, b)
    BY <1>1 DEF Shows, Turned, Tells
  <2>5. QueueInv(d)'
    <3>1. ASSUME NEW i \in DOMAIN cmds'[d]
          PROVE  \/ cmds'[d][i].cmd = "RESET"
                 \/ cmds'[d][i].cmd = "CONFIG" /\ uiState = "CONF"
                 \/ cmds'[d][i].cmd = "CONFIG" /\ uiState = "RUNNING" /\ ~ready /\ ~Shows(d, "RUNNING")
                 \/ /\ cmds'[d][i].cmd = Step(uiState) /\ uiState \in {"RUNNING", "STOPPED"} /\ ~ready
                    /\ ~Shows(d, uiState) /\ ~Unsent(d)
                    /\ \A j \in DOMAIN cmds'[d] : j > i => cmds'[d][j].cmd = "RESET"
      <4>1. CASE i \in DOMAIN cmds[d]
        BY <2>0, <2>1, <2>3, <4>1 DEF QueueInv
      <4>2. CASE i = m BY <2>1, <2>3, <4>2
      <4> QED BY <2>3, <4>1, <4>2
    <3>2. \A i \in DOMAIN cmds'[d] : cmds'[d][i].cmd = "START" => cmds'[d][i].n = runN
      BY <2>0, <2>1, <2>3 DEF QueueInv
    <3>3. uiState' = uiState /\ ready' = ready /\ runN' = runN BY <1>1
    <3> QED BY <1>3, <2>0, <2>4, <3>1, <3>2, <3>3 DEF QueueInv
  <2>6. RoundInv(d)' BY <1>1, <2>0, <2>4 DEF RoundInv
  <2> QED BY <2>0, <2>5, <2>6 DEF ClientInv
<1>7. On' = On BY <1>1 DEF On
<1> QED BY <1>4, <1>5, <1>6, <1>7

\* What is not shown has turned into nothing and nothing has turned into it.
LEMMA NotShown ==
  ASSUME NEW c, NEW a, NEW b, ~Shows(c, a) \/ ~Shows(c, b)
  PROVE  Turned(c, a, b)
BY DEF Shows, Tells, Turned

\* The scan goes on to the next stage.
LEMMA ScanCalls ==
  ASSUME ScanInv, Driver = "scan", Configure \/ StartRun \/ StopRun
  PROVE  Round' /\ \A c \in On' : ClientInv(c)'
<1>0. TypeOK /\ Round /\ \A c \in On : ClientInv(c) BY DEF ScanInv
<1>1. PICK k \in {"CONFIG", "START", "STOP"} :
        /\ May(k) /\ Awaits(k)
        /\ k = "CONFIG" => Configure
        /\ k = "START" => StartRun
        /\ k = "STOP" => StopRun
  BY DEF Configure, StartRun, StopRun
<1>2. /\ pc = "idle" /\ ready /\ ~ready' /\ uiState' = Success(k)
      /\ k = "CONFIG" => uiState \in {"UNCONF", "STOPPED"}
      /\ k = "START" => uiState = "CONF"
      /\ k = "STOP" => uiState = "RUNNING"
  BY <1>0, <1>1 DEF May, Awaits, Round
<1>3. /\ k = "CONFIG" => uiState' = "CONF" /\ pc' = "tags" /\ runN' = runN
      /\ k = "START" => uiState' = "RUNNING" /\ pc' = "start_others" /\ runN' = runN
      /\ k = "STOP" => uiState' = "STOPPED" /\ pc' = "stop_first" /\ runN' = runN + 1
      /\ cur' = None /\ todo' = {c \in conns' : In(pc', c)}
      /\ UNCHANGED <<clientVars, cmds, up, view>>
  BY <1>1, <1>2 DEF Configure, StartRun, StopRun, Enter, Success
<1>4. \A c \in conns' : c \in Clients /\ view[c] \notin {None, "UNINIT", "ERROR"}
  BY <1>1 DEF Configure, StartRun, StopRun, Enter, Known
<1>5. Round'
  <2>1. \A c \in todo' : c \in conns' /\ In(pc, c)' BY <1>3 DEF In
  <2>2. /\ uiState' \in {"UNCONF", "CONF", "RUNNING", "STOPPED"}
        /\ pc' \in {"idle", "crashed", "tags", "config"} \cup StartPhases \cup StopPhases
        /\ pc' \in {"tags", "config"} => uiState' = "CONF"
        /\ pc' \in StartPhases => uiState' = "RUNNING"
        /\ pc' \in StopPhases => uiState' = "STOPPED"
        /\ uiState' # "UNCONF"
    BY <1>1, <1>3 DEF StartPhases, StopPhases
  <2> QED BY <1>0, <1>2, <1>3, <1>4, <2>1, <2>2 DEF Round
<1>6. ASSUME NEW c \in On PROVE ClientInv(c)'
  <2>0. /\ c \in Clients /\ QueueInv(c) /\ RoundInv(c) /\ (c \notin Failing => SoundInv(c))
    BY <1>0 DEF On, ClientInv
  <2>1. /\ \A x : Shows(c, x)' <=> Shows(c, x)
        /\ \A a, b : Turned(c, a, b)' <=> Turned(c, a, b)
        /\ \A x : Has(c, x)' <=> Has(c, x)
    BY <1>3 DEF Shows, Turned, Tells, Has
  <2>2. /\ uiState' \in {"CONF", "RUNNING", "STOPPED"} /\ ~Shows(c, Behind(uiState'))
        /\ ~Shows(c, Before(uiState')) \/ ~Shows(c, uiState')
        /\ uiState' # "CONF" => ~Shows(c, uiState')
        /\ uiState' # "STOPPED" => ~Shows(c, "RUNNING")
    <3>1. CASE k = "CONFIG"
      BY <1>2, <1>3, <2>0, <3>1 DEF RoundInv, Before, Behind
    <3>2. CASE k = "START"
      BY <1>2, <1>3, <2>0, <3>2 DEF RoundInv, Before, Behind
    <3>3. CASE k = "STOP"
      BY <1>2, <1>3, <2>0, <3>3 DEF RoundInv, Before, Behind
    <3> QED BY <3>1, <3>2, <3>3
  <2>3. QueueInv(c)'
    <3>1. \A i \in DOMAIN cmds[c] : \/ cmds[c][i].cmd = "RESET"
                                    \/ cmds[c][i].cmd = "CONFIG" /\ uiState = "CONF"
      BY <1>2, <2>0 DEF QueueInv
    <3>2. uiState = "CONF" => uiState' = "RUNNING" BY <1>1, <1>2, <1>3
    <3>3. Unsent(c)' => uiState' # "CONF"
      BY <1>1, <1>3 DEF Unsent, Later, StartPhases, StopPhases
    <3>4. \A i \in DOMAIN cmds'[c] : cmds'[c][i] = cmds[c][i] /\ i \in DOMAIN cmds[c] BY <1>3
    <3>5. /\ ~ready' /\ (uiState' = "RUNNING" => ~Shows(c, "RUNNING")')
          /\ Unsent(c)' => ~Shows(c, uiState)'
      BY <1>2, <2>1, <2>2, <3>3
    <3> QED BY <3>1, <3>2, <3>4, <3>5 DEF QueueInv
  <2>4. RoundInv(c)'
    <3>1. Turned(c, Before(uiState'), uiState') BY <2>2, NotShown
    <3>2. st[c] = "RUNNING" =>
            uiState' = "STOPPED" /\ run[c] = runN /\ runN' = runN + 1 /\ runN \in Nat
      BY <1>0, <1>1, <1>2, <1>3, <2>0, <2>2 DEF Shows, RoundInv, TypeOK
    <3>3. /\ Turned(c, Before(uiState), uiState)'
          /\ ~Shows(c, Behind(uiState))'
          /\ uiState' # "UNCONF" /\ ~ready'
      BY <1>2, <2>1, <2>2, <3>1
    <3> QED BY <1>3, <2>0, <3>2, <3>3 DEF RoundInv
  <2>5. ASSUME c \notin Failing PROVE SoundInv(c)'
    <3>1. SoundInv(c) BY <2>0, <2>5
    <3>2. Shows(c, "UNINIT") => c \notin conns' BY <1>4, <3>1 DEF SoundInv
    <3>3. /\ uiState' = "CONF" => Turned(c, "UNCONF", "CONF")
          /\ uiState' # "CONF" => ~Shows(c, "UNCONF")
      BY <1>1, <1>2, <1>3, <3>1, NotShown DEF SoundInv
    <3> QED BY <1>2, <1>3, <2>1, <2>2, <3>1, <3>2, <3>3 DEF SoundInv
  <2> QED BY <2>3, <2>4, <2>5 DEF ClientInv
<1>7. On' = On BY <1>3 DEF On
<1> QED BY <1>5, <1>6, <1>7

LEMMA InitScan == Init /\ Driver = "scan" => ScanInv
<1> SUFFICES ASSUME Init, Driver = "scan" PROVE ScanInv OBVIOUS
<1>1. PICK first \in {"UNCONF", "CONF"} :
        /\ alive = [c \in Clients |-> IF c \in Late THEN "new" ELSE "on"]
        /\ st = [c \in Clients |-> IF c \in Late THEN "UNINIT" ELSE first]
        /\ view = [c \in Clients |-> IF c \in Late THEN None ELSE first]
  BY DEF Init
<1>2. /\ loop = [c \in Clients |-> FALSE] /\ run = [c \in Clients |-> 0]
      /\ cmds = [c \in Clients |-> <<>>] /\ up = [c \in Clients |-> <<>>]
      /\ pc = "idle" /\ conns = {} /\ todo = {} /\ uiState = "UNCONF" /\ ready
  BY DEF Init
<1>3. \A c \in Clients : DOMAIN cmds[c] = {} /\ DOMAIN up[c] = {} BY <1>2
<1>4. Round BY <1>1, <1>2 DEF Round, StartPhases, StopPhases
<1>5. ASSUME NEW c \in On PROVE ClientInv(c)
  <2>1. c \in Clients /\ view[c] = first /\ st[c] = first BY <1>1 DEF On
  <2>2. \A x : Shows(c, x) <=> x = first BY <1>3, <2>1 DEF Shows, Tells
  <2>3. \A a, b : a # b => Turned(c, a, b) BY <1>3, <2>1 DEF Turned, Tells
  <2>4. QueueInv(c)
    <3>1. ~Unsent(c) BY <1>2 DEF Unsent
    <3> QED BY <1>3, <2>1, <3>1 DEF QueueInv
  <2>5. RoundInv(c) BY <1>2, <2>1, <2>2 DEF RoundInv, None
  <2>6. SoundInv(c) BY <1>2, <1>3, <2>1, <2>2, <2>3 DEF SoundInv, Has
  <2> QED BY <2>4, <2>5, <2>6 DEF ClientInv
<1> QED BY <1>4, <1>5, InitType DEF ScanInv

LEMMA NextScan == ScanInv /\ [Next]_vars /\ Driver = "scan" => ScanInv'
<1> SUFFICES ASSUME ScanInv, [Next]_vars, Driver = "scan" PROVE ScanInv' OBVIOUS
<1>1. TypeOK' BY NextType DEF ScanInv
<1>2. CASE Next
  <2>1. ~Tick /\ ~Initialise /\ ~Reset /\ ~Terminate
        /\ \A k \in Commands, c \in Clients : ~Single(k, c)
    <3>1. \A k : May(k) => k \in {"CONFIG", "START", "STOP"}
      BY DEF May, ScanInv, Round
    <3> QED BY <3>1 DEF Tick, Initialise, Reset, Terminate, Single
  <2>2. Calls => Configure \/ StartRun \/ StopRun BY <2>1 DEF Calls
  <2> QED BY <1>1, <1>2, <2>1, <2>2, ScanClients, ScanSends, ScanPolls, ScanPhases,
             ScanIsReady, ScanIsReset, ScanCalls DEF Next, ScanInv
<1>3. CASE UNCHANGED vars
  <2>1. Round' BY <1>3 DEF ScanInv, Round, In
  <2>2. \A c : Unsent(c)' <=> Unsent(c) BY <1>3 DEF Unsent
  <2>3. ASSUME NEW c \in On PROVE ClientInv(c)'
    <3>1. c \in Clients /\ ClientInv(c) BY DEF On, ScanInv
    <3> QED BY <1>3, <2>2, <3>1, Same
  <2>4. On' = On BY <1>3 DEF On
  <2> QED BY <1>1, <2>1, <2>3, <2>4 DEF ScanInv
<1> QED BY <1>2, <1>3

\* A scan, with clients of every type and number, some of which may fail, die
\* or come late: what is on the way to and from every client belongs to the
\* stage that the scan is in or has just left.
THEOREM ScanKeepsStep == ASSUME Driver = "scan" PROVE Spec => []ScanInv
BY InitScan, NextScan, PTL DEF Spec

\* During a scan all clients that run, run the same run, whatever statuses are
\* still on the way when the next run is started.
THEOREM ScanOneRun == ASSUME Driver = "scan" PROVE Spec => []OneRun
<1>1. ASSUME ScanInv PROVE OneRun
  <2>1. \A c \in On : st[c] = "RUNNING" => run[c] = IF uiState = "STOPPED" THEN runN - 1 ELSE runN
    BY <1>1 DEF ScanInv, ClientInv, RoundInv
  <2> QED BY <2>1 DEF OneRun
<1> QED BY <1>1, ScanKeepsStep, PTL

\* nextStep waits long enough: the command that follows is one that each
\* client accepts.
THEOREM ScanNoRefusal == ASSUME Driver = "scan" PROVE Spec => []NoRefusal
<1>1. ASSUME ScanInv PROVE NoRefusal
  BY <1>1 DEF ScanInv, ClientInv, SoundInv, Shows, NoRefusal
<1> QED BY <1>1, ScanKeepsStep, PTL
=============================================================================
