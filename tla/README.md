# EUDAQ2 in TLA+

A verification project for the data-acquisition framework EUDAQ2: TLA+ modules of the parts that
steer a run, move its data and merge it, TLC configurations that check them on small instances, and
proofs that TLAPS checks for every value of the constants. Paths below are relative to `src/`;
`core/` stands for `src/main/lib/core/src/`, `user/` for `src/user/`, `manual/` for
`src/doc/manual/src/`.

## 1. The system

A run is steered by one **run control** process. **Clients** (Producers, DataCollectors, Monitors,
LogCollectors) connect to it over TCP, receive commands (`INIT`, `CONFIG`, `START`, `STOP`, `RESET`,
`TERMINATE`, `STATUS`, `LOG`) and report a status after each. During a run the Producers connect to the
DataCollectors (and these to Monitors) and stream events over connections that live as long as the run. A
DataCollector that synchronises merges the streams into one file; some experiments merge files afterwards.
All processes send log messages to the LogCollector.

| Part | State it keeps | Operations | Interacts with | What is hard |
|---|---|---|---|---|
| Client command side: `core/CommandReceiver.cc` and the handlers of `Producer.cc`, `DataCollector.cc`, `Monitor.cc`, `LogCollector.cc` | `m_status`, `m_qu_cmd`, `m_fut_runloop`, `m_is_runlooping`, `m_is_connected`, `m_is_destructing`, senders or data server | `OnInitialise` ... `OnTerminate`, `SetStatus`, `SendStatus`, `Connect`, `Deamon` | run control (socket), user code (`Do*`, `RunLoop`), data receiver | five threads, exceptions of user code in any of them, joins with time limits, handlers that stop half way |
| Run control: `core/RunControl.cc` | `m_conn_status`, `m_listening`, `m_run_n`, `m_conf` | `Initialise`, `Configure`, `StartRun`, `StopRun`, `Reset`, `Terminate`, the single-connection calls, `CommandHandler` | clients, GUI or master DAQ | decisions from statuses that lag behind, waits for clients that fail or disappear, order of START and STOP |
| GUI: `gui/src/euRun.cc` | state of the last tick, scan step | buttons, `DisplayTimer`, `nextStep` | run control | check, then act seconds later |
| Data receiver: `core/DataReceiver.cc` | `m_dataserver`, `m_qu_ev`, `m_vt_con`, three flags, two futures | `Listen`, `StopListen`, `DataHandler`, callbacks `OnConnect`, `OnReceive`, `OnDisconnect` | senders (socket), collector code | four threads, a queue with a limit, flags read once per cycle, exceptions in threads |
| Data sender: `core/DataSender.cc` | socket, connection flag | `Connect`, `SendEvent` | data receiver | handshake while the peer restarts |
| Transport: `core/TransportTCP.cc`, `TransportBase.cc` | connections, event list, partial packets | `Process`, `SendPacket`, `ReceivePacket`, `Close` | everything above | framing across `recv`, connections changed by another thread, descriptors that are used again |
| Synchronising collectors: `*DataCollector.cc` of `user/eudet/`, `user/experimental/`, `user/example/` (`Ex0Tg`, `Ex0Ts`), `user/calice/` | one queue per connection or producer | `DoConnect`, `DoDisconnect`, `DoReceive`, `DoStartRun`, `DoReset` | data receiver | streams that end, lag, miss a trigger or are announced wrongly |
| Offline mergers: `user/eudet/exe/src/euCliMerger*.cxx` | the event at hand of each file | `main` | recorded files | files of different length, missing triggers |
| User producers: the `*Producer.cc`, `*.cxx` of `user/` (fourteen) | flags, mutexes, hardware objects, threads of their own | the `Do*` hooks, `RunLoop`, data threads | client side, hardware | flags and objects shared by hook and data thread |
| Logging: `core/Logger.cc`, `LogSender.cc`, `LogCollector.cc`, `FileLogCollector.cc`, `gui/src/euLog.cc` | connection, flag and mutex per process; the server's list; the file | `Connect`, `SendLogMessage`, `LogHandler`, `DoReceive` | all processes | a server that logs to itself, handshakes with time-outs, clients that die |
| Events, files, naming, configuration, processors, converters, bindings, detector libraries | | sequential conversion and I/O | | |

What makes the parts correct:

* **Client**: a client that says it is idle has nothing of a run left (thread, senders, server); one that
  says RUNNING has a run loop; ERROR is left only by the documented way; every command is answered;
  TERMINATE ends the process. Altogether: it behaves as the run control believes (`Client.tla`).
* **Run control**: collectors start before producers and stop after them; all running clients run the same
  run; nobody joins during a run; a call ends even if clients fail.
* **Data receiver**: events of a connection are forwarded once, in order, in the session they belong to;
  connections are announced and their end is told; stopping joins the threads; a new session starts clean.
* **Transport**: packets arrive as they were sent; what a client is told is what the run control thinks;
  every client in the list gets every command.
* **Collectors and mergers**: nothing is lost in the middle, doubled, reordered or put together with what
  does not belong to it; nothing of one run is left for the next.
* **Producers**: no hardware object is used when it is gone, no thread outlives its run, no hook waits for ever.
* **Logging**: the log is complete and named; logging neither stops a process nor the log server.

## 2. Modules

| Module | Models | Used by |
|---|---|---|
| `Client` | what a client promises to the run control: the abstract specification | `CommandReceiver` (`INSTANCE Client WITH ...`) |
| `CommandReceiver`, `MCCommandReceiver` | one client process of kind `Kind`, all its threads | runs `CommandReceiver_*` |
| `RunControl`, `MCRunControl` | the run control, its GUI or scan, and the clients it talks to | runs `RunControl_*` |
| `DataReceiver`, `MCDataReceiver` | the data server of a DataCollector or Monitor, with external senders | runs `DataReceiver_*` |
| `Framing` | packets in a stream of bytes: pure operators | `Transport` |
| `Transport`, `MCTransport` | the command connections byte by byte: server thread, `SendCommand`, clients | run `Transport` |
| `Streams` | the callbacks a collector is fed with, run after run | the collectors |
| `TriggerSync` | `Ex0TgDataCollector`, `TriggerIDSyncDataCollector` | `Collectors` |
| `EventIDSync` | `EventIDSyncDataCollector` | `Collectors` |
| `TimestampSync` | `Ex0TsDataCollector`, `TimestampSyncDataCollector` | `Collectors` |
| `PairSync` | `CaliceDataCollector` | `Collectors` |
| `OverlapSync` | `CaliceTsDataCollector`, `CaliceTelDataCollector` | `Collectors` |
| `Mergers` | `euCliMergerStandardTrigID`, `...MixedCombinedTrigID`, `...MixedDuplicateMimosaTrigID` | `Collectors` |
| `Collectors`, `MCCollectors` | all of them behind one variable `kind` | run `Collectors` |
| `Steps` | a notation for programs made of atomic steps on shared state | `UserProducers` |
| `UserProducers` | hooks and threads of fourteen Producers, in that notation | `Producers` |
| `Producers`, `MCProducers` | the threads that execute them inside the framework | run `Producers` |
| `Logging`, `MCLogging` | the LogSenders of several processes and the LogCollector | run `Logging` |
| `CommandReceiver_proofs`, `RunControl_proofs`, `DataReceiver_proofs`, `Transport_proofs`, `Logging_proofs`, `Collectors_proofs`, `Calice_proofs`, `Times_proofs` | theorems (section 4) | |

How they meet: `CommandReceiver` is a client in detail; it implements `Client`, and `RunControl` takes a whole
command of `Client` as one step (`Handle`). `CommandReceiver`'s `data` is what it sees of `DataReceiver`.
`Streams` is what a collector sees of `DataReceiver`: its mishaps (`"ghost"`, `"lost"`, a callback that throws)
are the disagreements found there (section 5). `Transport` is the bytes below `RunControl`'s `cmds`, `up`,
`view` and `Connect`. `Producers` keeps of `CommandReceiver` only the run loop, its join and the senders.

### CommandReceiver

| TLA+ | Code |
|---|---|
| `status`, `sent` | `m_status.m_state`; the last state that `SendStatus` put on the wire |
| `queue`, `cmd`, `fwd` | `m_qu_cmd`; the command popped last; the program counter of `AsyncForwarding` |
| `isRunlooping`, `runloop` | `m_is_runlooping`; the thread of `RunLooping` and `m_fut_runloop` (`"none"`: not valid) |
| `data` | `m_senders` of a Producer; the server of a DataCollector or Monitor: closed, open, dying (its receiving thread threw), stuck (the deamon waits for ever, `DataReceiver.tla`) |
| `confSet` | `m_conf` is not null |
| `isConnected`, `isDestructing`, `rcv`, `deamon` | the flags and the two other threads |

A handler is cut where another thread can see the difference or where it can fail: `Guard` (the state test
of a Producer), `ConnectSenders` or `Listen`, `Hook` (the user's `Do*`), `StopListen`, the `Base*` steps of
`CommandReceiver::On*`, the join of the run loop in slices of a second, `StoppedSetStatus`, `SendStatus`.
`Throw(e)` is what becomes of an exception at each point: which `catch` takes it depends on the kind of
client, the command and the type of the exception. `Faults` selects what may go wrong.

Abstracted: texts and tags of the status, the configuration (only whether one was received), the addresses
of senders and servers. `STATUS`, `LOG` and unknown commands are kept because they pass through the same
loop and `LOG` may throw.

### Client and the refinement

`Client` has four variables: the state of a client, the state it reported last, whether it has a run loop,
and the command it is in. `CommandReceiver` ends with the mapping: `st` is `m_status`, `told` the last
state on the wire, `Loop` the future, and `Doing` reads the command from the program counter of the forwarding
thread (a handler that is past its last `SetStatus` is at `Answer`; an exception that nobody catches,
the end of the connection, or a destructor is `Gone`). `ImplementsClient == Abstract!Spec` is checked by
TLC and proved. It says, among others: no client says RUNNING without having started a loop, or STOPPED without
having joined it; every command is answered once, by the state it led to; a Producer's command fails with
ERROR and never silently, except `LOG`.

### RunControl

A client is what `CommandReceiver` shows the run control: it takes commands one by one (`Handle`), with
success, with a refusal or failure that ends in ERROR, or with an exception that ends its forwarding thread
(`alive = "mute"`); it reports after each command and when asked (`Report`); its run loop may fail
(`RunFails`) and its process may die (`Dies`). Connection and client are one: a restarted process is another
client in `Late`. CONNECT and the identification after it are one step. Commands and statuses travel in
order (`cmds`, `up`), as TCP delivers them.

The user thread is a program counter `pc` over the loops of a call. `StartRun` takes a snapshot `conns` under
the lock and goes through `start_others`, `start_collectors`, `start_producers`, `wait_producers`,
`start_last`; `StopRun` through `stop_first`, `stop_producers`, `wait_stopped`, `stop_collectors`,
`stop_others`; `Configure` and `Initialise` through `tags`, `config` and `init`. `todo` are the connections a
loop has not finished, `cur` the one it waits for. `Released` is the condition of each wait; `NullStatus` is
where the code dereferences the status of a lost connection (`pc = "crashed"`). The order inside a loop is the
order of a map of pointers, so any.

`Driver` says who calls: `"gui"` presses the buttons that the last `Tick` enables; `"scan"` is `nextStep`
(`ready` is the end of a wait of `allConnectionsInState`, `ScanResets` its reset of a client in ERROR);
`"api"` is a master DAQ or the context menu of the GUI, which call anything (`manual/RunControl.tex`, "EUDAQ
Working as Slaver DAQ").

Abstracted: `SetRunN`, reading the configuration file, status tags, the once-a-second `STATUS` broadcast
(its only effect is `Report`), the operator interrupting a scan.

### DataReceiver

| TLA+ | Code |
|---|---|
| `server`, `listening`, `rcvReturned`, `destructing` | `m_dataserver != null`, `m_is_listening`, `m_is_async_rcv_return`, `m_is_destructing` |
| `rcv`, `fwd` | the threads of `AsyncReceiving` and `AsyncForwarding` with their futures |
| `deamon` | program counter of `Deamon`; it holds `m_mx_deamon` except in `"sleep"` |
| `events` | `m_events` of the transport server |
| `queue`, `item` | `m_qu_ev`, and the pair the forwarding thread has popped; `n = 0` is the null event that marks a connection made or lost |
| `woken` | the forwarding thread was notified while in `wait_for` |
| `known`, `state` | `m_vt_con`, `m_state` of each connection |
| `user`, `answer`, `session` | the call the owner is in, how the last one ended, how many servers there were |
| `peer`, `wire`, `sent`, `born`, `log` | the senders and sockets; what was sent, in which session, and which callbacks were made |

`Callback` reads the state of the connection at the moment of the call, as line 146 does.
`ForwardingTimesOut` keeps what `std::condition_variable::wait_for` does: it reports a timeout by the clock
after it has the mutex back, also when it was notified. A sender closes its socket when a run stops or its
process ends; `"early"` is a sender that leaves before it was identified (a `DataSender::Connect` that gave
up after its second, or died). Errors of single `send`/`recv` calls are not modelled.

### Framing and Transport

`Framing` is `do_send_packet` (header and data in one `send`, or two from 1020 bytes on) and
`ConnectionInfoTCP` (`append`, `update_length`, `havepacket`, `getpacket`). A header has two bytes here and
four in the code; a byte has `Base` values.

`Transport` models `TCPServer` (`m_conn` as `slots`, with slots that are reused; descriptors that are reused;
`m_events`), `ProcessEvents` as `Select`, `Recv`, `GetPacket`, `RecvEnd`, `RoundEnds`, `Timeout`; the handlers
of `RunControl::CommandHandler` for connects, ends, identification and statuses; `SendCommand` on the user and
status threads as a walk over the slots while the server thread changes them; and `TCPClient` with
`CommandReceiver::Connect`. `wrote`, `since` are history: what was sent to whom, and from which call on a client
was in the list. Eight environments in `MCTransport` say which mishaps come together: bytes in
pieces, clients that leave or give up, `SendCommand`, long packets, a server that stops listening.

### Streams and the collectors

`Streams` produces what the forwarding thread of a `DataReceiver` delivers: `Joins`, `Sends`, `Leaves`, in
order for one connection and in any order for different ones. `AllMishaps` lists what may go wrong: gaps in the
trigger numbers, connections made late, the misread mark of a connection (`"ghost"`), marks dropped at
`StopListen` (`"lost"`), `DoReset` before `StopListen` (`"reset"`), a full queue, unexpected events. `"prefixed"` is
about names: a connection has the name its producer was started under (`GetName`, `core/DataReceiver.cc:84`), which is the plain one
with the repository's programs and configurations, or has the type in front, as two collectors ask for. Each
collector has its own queues, its `Connect`, `Disconnect`, `Receive`, `StartRun` and a variable `out` of the
events written. `DoReceive` is one step except where it may loop for ever (`TimestampSync`: `building`,
`BuildEvent`; `OverlapSync`: a round that ends with `continue` or throws). Of an event only what the
collector reads is kept: a trigger number, an event number, or an interval of time. In `TimestampSync` NoBeg and NoEnd stand
for the two largest values of `uint64_t`, as in the code.

`OverlapSync` keeps the conversions of its collectors. The AHCAL and the BIF count in clocks of their own, 32 ticks of the one to one of the other,
which start anew in each run (`FirstROC`); the offset between them is computed from the tags of the two
first events (`Offset`) and applied in every round (`Beg`, `End`). `Shift` is `SHIFT_TGN_CAL`: the triggers of the AHCAL or the numbers of the
telescope are shifted as they come in (`Trg`), before they are compared. An event without times, or of another run, is dropped (`Unfit`), one of a
producer whose name is not known too (`Known`). The properties do not use the offset of the code: `At` says when a
moment was, in ticks since the clocks were started. Two things stay outside: an event earlier than the first tag, with which the difference of the unsigned
numbers would wrap, and events without times for `CaliceTelDataCollector`, which does not look at the flag.

`Mergers` reads all combinations of files with triggers up to a bound; the program's variables are `todo`
(the event at hand, and those to come) and a program counter for its nested loops.

### Steps, UserProducers, Producers

A Producer's hooks and threads are written as sequences of steps: `Set`, `Clear`, `Lock`, `Make`, `Use`,
`Free`, `Send`, `Spawn`, `Join`, loops and branches. `UserProducers` holds one definition per hook or
thread, `Producers` one action per kind of step, plus the framework: `Call` (which command may come in
which status), `Initialised`, `Started`, `Stopping`, the run loop's future with its join and time limit. `env`
is the set of irregularities: commands before INIT (`"early"`), RESET or TERMINATE in a run (`"mid"`), a command
before the threads of the last have settled (`"quick"`), a wait that reaches its limit (`"slow"`), failing
hardware (`"fail"`). The properties name with `Except` the Producers and irregularities for which the code
does not keep them; section 5 says how each goes wrong. Outside these the property is checked for all fourteen.

### Logging

Per process: the forwarding thread inside `LogSender::Connect` (`pc`), a message of another thread
(`call`), the mutex (`Held`), the flag `isConnected` (`tried`). The LogCollector: `TCPServer` events, the
`LogThread` (`logpc`), the file, and with `euLog` the message that the LogThread itself sends to its
own server in `DoConnect`. Buffers have `MaxSocket` packets; a `send` into a full buffer spins, as
`do_send_data` does.

## 3. Runs

Twelve runs; each finishes within four minutes with two workers. `CHECK_DEADLOCK` is off because all of
these systems may stop: a client ends after TERMINATE, the run control after Terminate or a crash, the data
receiver after its destructor, a Producer when its process ends, the server thread after an exception of a
`send`, and the bounds end the rest. A property that is a conjunction is listed with its parts.

| Run | Checks | Instance |
|---|---|---|
| `CommandReceiver_producer` | `TypeOK`, `ProducerQuiet`, `ProducerErrorLeft`; `ImplementsClient`; `CommandsAnswered`, `ShutsDown` under `FairSpec` | a Producer; hooks, run loop and sender connections fail |
| `CommandReceiver_collector` | `QuietWhenIdle`, `RunningHasLoop`, `LoopStartsFresh` | a DataCollector with every fault |
| `RunControl_scan` | `TypeOK`, `OneRun`, `NoRefusal`; `StartRunEnds` under `FairSpec` | two Producers that may fail, a DataCollector, a Monitor; two runs |
| `RunControl_gui` | `NoJoinDuringRun`, `DocumentedOrder` (`CollectorsFirst`, `ProducersStopFirst`) | a Producer that is `LAST_START` and `FIRST_STOP` and may die, a plain Producer that connects late, a DataCollector |
| `RunControl_api` | `StopRunEnds` under `FairSpec` | a Producer that may fail and is stopped with the others (no `FIRST_STOP`), a DataCollector; every call at any time |
| `DataReceiver_faults` | `NothingLost`, `OpenOnesDisconnected` | two senders, two events each, early ends, unidentified senders |
| `DataReceiver_live` | `TypeOK`, `OldestDropped`, `SessionsSeparate` (`ServesClean`, `EventsInSession`); `ThreadsEnd` (`ThreadsJoined`, `Destroyed`) under `FairSpec` | one sender, a queue of two, two sessions, throwing callbacks |
| `Transport` | `PacketsIntact`, `ServerConsistent` (`TypeOK`, `NoBug`), `HandshakeAgrees`, `CommandsReach`; `Answered` under `FairSpec` | eight environments with up to three connections and two calls of `SendCommand` |
| `Collectors` | `TriggersMerged` (`PrefixWritten`, `SourceOrder`, `RunsSeparate`, `Prompt`), `PositionsMerged` (`SamePosition`, `NamesFollow`), `TimesMerged` (`SlicesOrdered`, `NothingSkipped`, `EachSliceUsesOne`), `PairsMerged` (`PairsComplete`, `TogetherOverlap`, `AloneIsAlone`, `EachUsed`, `TelescopeMatches`), `FilesMerged` (`EachCommonTrigger`, `FrameOfTrigger`, `NoneLeftOut`) | seven kinds of collector (eight classes; `TriggerIDSyncDataCollector` is the same code as `Ex0TgDataCollector`), two runs of two or three producers; three mergers over all files |
| `Producers` | `HardwareThere`, `EndsClean` (`TypeOK`, `NoTerminate`, `QuietAfterRun`), `RunningCollects`; `EventsInRun`, `HooksReturn` under `FairSpec` | fourteen Producers, each with every set of up to three irregularities |
| `Logging` | `LogComplete`, `ServerSurvives`; `CallsEnd` under its fairness | up to three processes, file and window, processes that die, a second INIT, TERMINATE |

One run is expected to find a violation of what a text of the repository states:

| Run | Formula | What the counterexample shows |
|---|---|---|
| `RunControl_start_hangs` | `StartRunEnds` | the counter of the wait is declared inside the loop (`core/RunControl.cc:221`): a collector in ERROR keeps `StartRun`, and the GUI thread, for ever |

### Bounds

* `MaxQueue = 1` in `CommandReceiver`: the forwarding thread takes commands one at a time and any command may
  come at any time, so a longer queue only delays them. The proofs do not bound it.
* `MaxRun` counts `StopRun`s: 3 is two full runs and the start of a third (a run number left over, a status
  left over); 2 is one run and the start of the next.
* `MaxCmds`, `MaxUp` are how far a client is behind the operator and the run control behind a client. One is
  enough for a stale view; two lets two commands or two statuses be in flight on one connection (scan).
* One client of each type suffices for the order between types. Two Producers give the order between them: one
  that is started last and stopped first, and a plain one, so that every loop of `StartRun` and `StopRun` over Producers has a
  member (`RunControl_gui`), and one that fails while another does not (`RunControl_scan`). `DocumentedOrder` has two mutants for
  it, a start that does not wait for the collectors and a stop that does not wait for the plain Producers.
* `MaxEvents`, `MaxQueue` of `DataReceiver`: two events per connection show reordering, three for a
  limit of two show overflow. The two senders of `DataReceiver_faults`, which checks invariants only, are symmetric
  (`SYMMETRY Senders`: no definition tells them apart). Callbacks throw in `DataReceiver_live` only; the theorems of section 4
  have both properties of `DataReceiver_faults` for every choice of faults. Two sessions show everything that crosses a restart.
* `Transport`: `Base = 4` and `MinLong = 3` make packets of one byte short and `Config` (three bytes) long;
  two connections show the reuse of a slot and of a descriptor, three a list with a hole.
* `Collectors`: `MaxTrigger = 3` gives a missed trigger in the middle; `MaxTime = 3` all ways in which
  two intervals meet; two runs show what is left over; `MaxRecord = 4` gives the mergers a frame with a gap inside it
  and triggers on both sides. `MaxSlices` stops the loop that `TimestampSync` may not leave; `MaxQue` is
  where a queue of `OverlapSync` is full (the code says 10000 or 100 000). `FirstROC` and `Delays` let the clocks start apart and differently in the
  two runs, and events overlap, touch, or lie in a gap; `Shift = -1` with `TriggerNs` gives each trigger of the AHCAL a
  telescope number that is one higher, and numbers and triggers without a partner. `Misfits` is the AHCAL only: an event that is dropped for
  its producer is dropped in the same way for the others.
* `Producers`: the steps of a program are its own bound; up to three irregularities at once, as no defect found needs more than two.
* `Logging`: `MaxSocket = 2` lets a buffer be neither empty nor full; two messages of other threads.

### Fairness

Threads run: `WF` on the forwarding, run-loop, receiving and deamon threads of a client; on handling,
reporting and receiving for the run control, and on its own loops; on the threads of the data receiver; on the
server thread and on the reads of each client (`Transport`); on the forwarding and message threads of each
process and the LogThread (`Logging`); on every thread of a Producer.
`SF` on `Listen`, because the deamon gives up the mutex for 200 ms in each cycle, so it is free again and
again, and on the hook of a Producer, which competes for mutexes that its data thread releases in each turn.
Nothing is assumed of the environment: no fairness on the operator, the run control's commands to a
client, senders, faults, the arrival of data at a detector, or the return of a user's `RunLoop` (the joins time out).
The data receiver's liveness assumes that callbacks return, as the manual asks of user code.

## 4. Proofs

| Module | Theorem | Statement |
|---|---|---|
| `CommandReceiver_proofs` | `Inductive` | `Spec => []IInv` |
| | `TypeCorrect` | `Spec => []TypeOK` |
| | `IdleIsQuiet` | `Spec => []QuietWhenIdle` |
| | `ProducerIsQuiet` | `Spec => []ProducerQuiet` |
| | `RunningOwnsLoop` | `Spec => []RunningHasLoop` |
| | `StartsAreFresh` | `Spec => LoopStartsFresh` |
| | `ErrorIsLeftByReset` | `Spec => ProducerErrorLeft` |
| | `Implements` | `Spec => ImplementsClient`: a client process implements `Client` |
| `RunControl_proofs` | `TypeCorrect` | `Spec => []TypeOK` |
| | `ScanKeepsStep` | `Driver = "scan"`: `Spec => []ScanInv` |
| | `ScanOneRun` | `Driver = "scan"`: `Spec => []OneRun` |
| | `ScanNoRefusal` | `Driver = "scan"`: `Spec => []NoRefusal` |
| `DataReceiver_proofs` | `Inductive` | `Spec => []IInv` |
| | `TypesCorrect` | `Spec => []Types` (`TypeOK` without the length of the queue) |
| | `TypeCorrect` | `Spec => []TypeOK` |
| | `OpenOnesAreTold` | `Spec => []OpenOnesDisconnected` |
| | `SessionsAreSeparate` | `Spec => SessionsSeparate` |
| | `NothingInAdvance` | `Spec => []AwayInv` |
| | `OnlyOldestDropped` | `Spec => []OldestDropped` |
| | `NothingLostBelowLimit` | `Spec /\ [](Len(queue) < MaxQueue) => []NothingLost` |
| `Transport_proofs` | `PiecesDoNotMatter` | what a connection holds does not depend on how the bytes were cut |
| | `RoundTrip` | a packet is read as it was written, and what follows it as if it had come first |
| | `ServerInvariant` | `Spec => []ServerInv` |
| | `Consistent` | `Spec => []ServerConsistent` |
| | `PacketInvariant` | `Spec => []PacketInv` |
| | `Intact` | `Spec => []PacketsIntact` |
| | `HandshakeInvariant` | `Spec => [](PacketInv /\ Handshake)` |
| | `Agrees` | `Spec => []HandshakeAgrees` |
| | `ReachingInvariant` | `Spec => [](ServerInv /\ Reaching)` |
| | `Reach` | `Spec => []CommandsReach` |
| `Logging_proofs` | `Inductive` | `Spec => []IInv` |
| | `Survives` | `Spec => []ServerSurvives` |
| | `Complete` | `Spec => []LogComplete` |
| `Collectors_proofs` | `TriggersAreMerged` | `CollectorsSpec => []TriggersMerged` |
| | `PositionsAreMerged` | `CollectorsSpec => []PositionsMerged` |
| | `FilesAreMerged` | `CollectorsSpec => []FilesMerged` |
| `Times_proofs` | `TimesAreMerged` | `CollectorsSpec => []TimesMerged` |
| `Calice_proofs` | `PairsAreMerged` | `CollectorsSpec => []PairsMerged` |

**Client.** For every kind of client, every set of faults and every queue bound, from `KindAssumption`,
`QueueAssumption` and `FaultsAssumption`. The properties speak of the moments
between two commands and are not inductive: in the middle of a handler the thread, the status and the data
side disagree. `IInv` says what holds there: `PCInv` ties each program point to the commands that reach it,
`DataInv` gives the data side at those points (a collector that is past `StopListen` has closed it; a client
that starts has opened it), and `IdleInv`, `ProducerInv`, `RunningInv` say of each status that nothing is left,
or a START is under way, or a STOP or RESET is, or the forwarding thread is gone. `ProducerInv` needs
that INIT and CONFIG pass the guard of a Producer only outside a run, which is why the property
holds in more states for a Producer than for the kinds without guards.

**Refinement.** `Implements` uses `IInv`: the initial states map to the initial state of `Client`, and each
action of `CommandReceiver` maps to one action of `Client` or to a stutter (one lemma per group of actions). Where the
status and the run loop change apart, the order in which the code does it decides whether a step exists on
the abstract side: `OnStartRun` starts the thread before it says RUNNING, `OnStopRun` joins before STOPPED.

**Run control.** From `ClientAssumption`, `DriverAssumption` and `BoundAssumption`, for any set of clients of each
type, any that fail, die or come late, and any bounds. The types hold whoever calls: they cover the dereference of a
status that exists, the snapshot and the state of the last tick. `OneRun` and `NoRefusal` are proved for a scan, the
caller for which they hold (section 5), by `ScanInv`. What a client *shows* is the
entry of `m_conn_status`, its own state and every status between the two (`Shows`). A scan goes round CONF,
RUNNING, STOPPED; `RoundInv` says that of these three a client shows only the one that is waited for and
the one before, and that the order is kept: a status that shows the new state has no old one after it (`Turned`). So
when the view of everybody is the new state, the old one is gone from all connections, not from the view alone. `QueueInv`
ties each command in flight to that: the command that leads to a stage is in a queue only as long as its state is
not shown, and is the last there (but for RESETs); a client that still has to be sent to (`Unsent`) shows neither. `SoundInv` is about
clients whose user code does not fail: never in ERROR, no RESET in their queue, a run loop only while RUNNING.

**Data receiver.** From `ConnsAssumption` and `BoundAssumption`, for any number of connections, sessions and events and
any faults. `OpenOnesDisconnected` and `SessionsSeparate` need to know where the pieces of a session are.
`ClosedInv`: without a server there is no thread, no queue, no event, nothing on a wire. `ThreadsInv`: where the
four threads can be together (the deamon closes only when both futures were taken; the forwarding thread
cleans up only when the receiving thread is over). `OriginInv`: everything that is on its way, on a wire, in
the event list, in the queue or in a callback, was born in this session. `KnownInv`: an identified connection is in `m_vt_con`
until its end is told.
`OldestDropped` and `NothingLost` say that there are marks `t <= q <= a` for each connection, such that the queue carries
the events `t + 1` to `q`, the event list `q + 1` to `a`, the socket the rest (`Carries`), and that what was taken
is older. They are inductive next to `IInv` and `AwayInv` (a connection not made has left nothing). A step moves one
event over one mark (`Progress`), and the first event of all goes one of three ways (`Fate`): the forwarding thread takes it, it is
handed to the callback, or it is dropped, which happens only where the queue is at its limit. `NothingLost` is therefore
proved of the behaviours whose queue stays below `MaxQueue` (50000 in the code); `OldestDropped` is what holds of any queue.
`TypeCorrect` bounds the queue, which marks may overfill: a connection sends its identification and its end once each
(`MarksInv`), and the queue is longer than its limit by at most the marks that will not come again (`LimitInv`).

**Framing.** For every base and every content of packets shorter than the square of the base: the header's two digits give
the length back (`Digits`), and with it `append`, `havepacket` and `getpacket` undo `do_send_packet`, packet after packet.
For a proof about the connections this is said of sequences of packets: one more packet is appended to a stream
(`FramedAppend`), and the first that is taken leaves the rest (`FramedTail`, `TakesFirst`).

**Transport.** From `FramingAssumption` and `TransportAssumption` (finitely many connections; packets are made of the
bytes 0 to 3, so `Base > 3`; a START is shorter than `MinLong`), for every number of connections, every mishap and bounds.
`ServerInv` is what keeps the server from its "BUG" exceptions: an open connection has one slot and one descriptor (`Slots`),
the thread has in hand what is open (`Thread`), and the events of a connection are CONNECT, RECEIVE, DISCONNECT in this order,
RECEIVE only with an entry in the statuses (`Listed`). The last needs the other side: a client that has not been
greeted says nothing (`Young`, `Silent`), although it may hold the rest of a command for the last owner of
its descriptor, so that no RECEIVE overtakes the CONNECT.
`PacketInv` adds that buffer and stream of a direction together spell the packets that were sent and not yet taken
(`Upward`, `Downward`). That no descriptor is used again is what `PacketsIntact` needs for the packets to a client. `Handshake`
follows each client through the handshake: what was written to it (`Told`), what it made of that (`Understood`) and what the
server has yet to hear (`Expected`); a RECEIVE of a client that is not identified can only be its identification.
`Reaching` is about the broadcasts: while nobody leaves, the server closes only whom it refuses, so a client in the list keeps its
slot and its descriptor (`Stays`); the walk of `SendPacket` meets its slot once (`Passed`), and what was written to the client are
the commands of the calls since it is in the list, without the last one until then (`Served`). The commands among what was written are
picked by a recursive function (`Kept`). What it gives for one element more (`KeptOne`) is an induction over data; the installed provers
cannot instantiate the library's theorem, so the proof takes the least length at which it fails (`MinExists`), which
is as good.

**Logging.** From `LoggingAssumption`, for every number of processes, socket size and circumstance.
`Begins`: a connection is made once and its CONNECT comes before anything else of it. `Shakes`: greeting,
identification and confirmation follow one another, so that a client that waits for the confirmation is either in the server's
list or its identification is still to come. `Numbered` and `Ordered`: the messages on the way are exactly the
numbers between the last one shown and the last one sent, in their order, on the socket and in the event list
together. `Excludes`: the mutex of `LogSender` has one owner, also where the LogThread of `euLog` logs to itself.
`ServerSurvives` is proved with it: a client is named before a message of it can reach the front of the events.

**Collectors.** From `StreamsAssumption`, `KeysAssumption` (a connection object is of one run: the maps hold shared pointers) and
`TriggerAssumption`, for any connections, runs and sets of mishaps. `KindStays` reduces a step of `Collectors` to one of the
collector in question.
For `TriggerSync`, `Merging` says what one `DoReceive` does to the queues: the smallest front F is written with the sources
that have it, and everything that stays is later. `TriggerInv`, which holds under every mishap, follows from it: what is queued of a
connection is later than all that was written of it (`WrittenInv`), hence `SourceOrder`. The other parts need more orderly streams and are
layered on it. `MapsInv`: the keys of `m_conn_evque` that are not inactive are the connections that are on, so the
comparison of the two sizes in `DoDisconnect` tells when the last is gone (`RunsSeparate`). `DividesInv`: the last
trigger written divides what came into written and queued, a connection that is on has come as far, and one
that was forgotten has nothing after it (`PrefixWritten`). `CountsInv`: the triggers of a connection are 1 to k; with it the event
that completes a set is the smallest front and empties its queue again (`Prompt`).
For `EventIDSync`, `NamesInv` is `NamesFollow` with "no ghost", and `PositionsInv` counts: the i-th entry of a queue is the
(n + i)-th event of its producer, n the number of events written.
For `TimestampSync`, also from `SliceAssumption` (`MaxTime` is a number; a connection of an `Ex0TsDataCollector` is of one
run), the lemmas on one queue come first: reading stops at the first event that reaches beyond the slice (`StopSays`), the
event that ends with the slice is the one that is used (`ReadSays`), and what is left begins with what comes next, after at most one
event that was longer than the slice (`RoundSays`). `TimeInv` has the types under every mishap and, for orderly streams, layers:
`SpanInv` (a source that is ready reaches the end of the slice), `KeyedInv` (an event that is queued ends with the slice, the slice begins
after the last one; hence each slice written uses one up) and, as long as nothing is left of an earlier run and no producer was left out,
`ReachedInv` (time has gone no further than each source has come, so its next event is not too late) and `QueuedInv` (what is queued
and not written reaches to the end of the slice, so that what is read up to there is what is used).

**AHCAL, BIF and telescope.** Needs `NamesAssumption` as well (the producers these collectors look for have fixed, different
names in the code) and `ClockAssumption` (the events of a run are not earlier than its first tags, trigger numbers begin at 1). Whether
the names of the connections are those the collector asks for divides the proof: `PairIdle` and `OverlapIdle` say that otherwise nothing is
ever queued or written. For `PairSync`, `PairInv` says that the queues go on where the file ends and that what one side delivered waits, is written,
or can have no partner any more because the other side is further (`Skipped`).
For `OverlapSync`, `ClockInv` says that the offset, once it is computed, is the true one of this run (`Started`): the first event in each queue is
the first that was delivered, so it has the tag. All other parts are stated with the true offset, and at the end `At`, which does not mention it, is
shown to put events in the same order. The last event used of each side is the pivot: what waits comes after it (`WaitingInv`), what no longer
waits is up to it (`UsedInv`), and it begins before anything that waits on the other side ends (`ReachInv`), which makes the
interval of the next round end where some event ends that was not used yet. An event that is written alone has ended before an event of the other side
that was delivered begins (`Lonely`): the events to come begin later still, so that none of them can
overlap it; `AloneIsAlone` by itself, which speaks of what was delivered so far, is not inductive. `KeptInv` has every event
waiting, written or, for the BIF next to a telescope, lonely. `TelescopeInv` keeps the telescope from
being ahead of the AHCAL: an event of the AHCAL is written without it only when the telescope has passed its trigger.

**Mergers.** From `RecordAssumption` (`MaxRecord` is a number), for all contents of the files. That every file can be put in order is an
induction over its size, done again by a smallest set that cannot (`OrderExists`). `StandardInv`: what was skipped of the two other
files is earlier than every trigger still to come, so a trigger that is in all three is found at the front of each. For the
other two, `GroupInv` holds for detectors in sync: TLU and detector are at the same place, what is not at hand any more is
earlier (`Suffixes`), and the frame at hand is the last that is not later than the trigger at hand (`FrameOf`). With no
trigger missing the next trigger is the successor, which either has the next frame or keeps this one.

Only model-checked:
* Liveness under fairness, which needs `ENABLED`.
* `NoJoinDuringRun` and `DocumentedOrder` of `RunControl`, with every group of Producers inhabited: checked for the buttons, where a client may be behind by
  commands of several calls; they need an invariant about the whole queue against the statuses in flight.
* `Producers`: its constants are the fourteen programs that exist, so that a run over all of them leaves nothing
  for a theorem to add but the size of the bounds.

## 5. Further disagreements

The first table has formulas of the MC modules; the code violates each in the instance given (other constants as in the
configuration named). They are not among the runs, which keep one per part and question.

| Formula | Instance | Shows |
|---|---|---|
| `MCCommandReceiver!OnlyResetLeavesError` | `Kind = "Producer"`, `Faults = {"loop"}` | `OnStartRun` starts the run loop, the loop throws and sets ERROR, `OnStartRun` sets RUNNING over it (`core/CommandReceiver.cc:111`): a dead client says RUNNING (`manual/Integration.tex:158`) |
| the same | `Kind = "DataCollector"`, `Faults = {"hook"}` | a DataCollector in ERROR obeys CONFIG |
| `MCCommandReceiver!ResetReachesUninit` | `Kind = "Producer"`, `Faults = {"loop"}` | the first RESET after a RunLoop threw ends in ERROR again: the join rethrows (`core/CommandReceiver.cc:149`, `manual/Integration.tex:137`) |
| `MCCommandReceiver!RunningOnlyStops` | `Kind = "Producer"`, `Faults = {}` | RESET is obeyed while RUNNING (`core/Producer.cc:110`, `manual/Integration.tex:155`) |
| `MCCommandReceiver!FailedResetIsError` | `Kind = "DataCollector"`, `Faults = {"hook"}` | the catch block throws before it sets ERROR (`core/DataCollector.cc:151`) |
| `MCRunControl!ConfiguredBeforeRun` | `RunControl_gui.cfg` with `MaxCmds = 2` | Configure again, then Start while the view still says CONF: clients start that others are not configured for (`manual/Integration.tex:123`) |
| `RunControl!ProducersStopFirst` | `RunControl_api.cfg` | a master DAQ starts a Producer after the snapshot of `StopRun`; the DataCollector is stopped under it (`manual/Integration.tex:155`) |
| `MCRunControl!StartFromConfigured` | `RunControl_gui.cfg` with `MaxUp = 2` | Start pressed again before RUNNING arrives sends a second START (`manual/Integration.tex:135`) |
| `MCRunControl!RunNumberIncreased` | `RunControl_gui.cfg` | a run that ends by Reset keeps its number for the next (`core/RunControl.cc:307`, `manual/Producers.tex:47`) |
| `MCRunControl!SurvivesLoss` | `RunControl_gui.cfg` | a client lost during a call: null status (`core/RunControl.cc:270, 338, 361`) |
| `MCDataReceiver!ListenAnswers` | `DataReceiver_live.cfg` with `Faults = {"early"}` | a sender that leaves unidentified ends the receiving thread without its flag (`core/DataReceiver.cc:52`); the deamon waits for the forwarding thread with the mutex that `Listen` needs (225, 163) |
| `MCDataReceiver!ConnectedBeforeReceive` | `DataReceiver_faults.cfg` | a sender that closed while its mark was queued is announced by `OnDisconnect` (`core/DataReceiver.cc:146`) |
| `MCDataReceiver!ExpiredIsTold` | `DataReceiver_faults.cfg` | a disconnect mark is dropped with the queue at the stop (`manual/DataCollector.tex:26`) |
| `MCDataReceiver!RefusedOnlyUnstopped` | `DataReceiver_live.cfg` with `Faults = {}` | `StopListen` returns before the server is closed, the next `Listen` throws (`core/DataReceiver.cc:172`, 206) |
| `MCDataReceiver!EventsForwarded` | `DataReceiver_live.cfg` with `Faults = {}` | a notification lost to a timeout of `wait_for` (`core/DataReceiver.cc:128`) |
| `MCDataReceiver!ConnectionEndsWithRun` | `DataReceiver_live.cfg` | after a callback threw, `m_vt_con` survives into the next session |
| `MCLogging!LogStored` | `Logging.cfg` | the second INIT opens an open stream, which sets its failbit: nothing is stored any more (`core/FileLogCollector.cc:59`, `manual/Running.tex:323`) |

`OneRun` holds for a scan, which waits for all clients, and not for the buttons: with a slow DataCollector the
aggregate state may be STOPPED while that collector's STOP is still to come, and Start is enabled.

The properties of the other modules hold under conditions that they state; each condition is there because the
code does something else without it.

**Transport.**
* A client's state becomes 1 before the confirmation is sent (`core/RunControl.cc:487`, 489): a command of another
  thread may overtake the `"OK"`, and the client says "refused" (`core/CommandReceiver.cc:363`) while the run control
  keeps it in its list (`HandshakeAgrees` without `"calls"`).
* A packet of 1020 bytes or more is sent as header and data (`core/TransportTCP.cc:138-147`) and may be cut by
  an answer of the server thread to the same client (`PacketsIntact` without `"long"`).
* `SendPacket` and `Close` look for descriptors, which are used again: a greeting for one that left goes to the
  next (`"leave"`).
* A send to a client that is gone throws out of the handler; nothing catches it in the server and status threads
  (`core/RunControl.cc:421-432`), so the process ends; on the user thread the broadcast stops half way.
* `TCPClient::ProcessEvents` throws at the end of the stream although packets came before it; a failed `Connect`
  leaves its `TCPClient` open. `m_conn` is walked by three threads without a lock (each step of the walk is
  atomic in the model).

**Collectors.**
* Ghost (`core/DataReceiver.cc:146`): a disconnect without a connect lets `Ex0TgDataCollector.cc:43-50` take one that
  left for the last, and clear the queues of the others; `Ex0TsDataCollector.cc:70` throws.
* Lost marks (the stop drops the queue): connections of the old run stay in the map, and the next run writes
  nothing until RESET. A RESET before `StopListen` leaves entries of the old run that are written in the next.
* One event is built per event received: a backlog is dropped with the last disconnect. A connection that
  leaves with an empty queue blocks the building.
* `EventIDSync` has no `DoReset`: a name that was left is only removed by a restart.
* `Ex0TsDataCollector` keeps `m_ts_last_end` when a queue was not empty at the end: the events of the next
  run throw. `TimestampSyncDataCollector.cc:121-196` writes empty events for ever when all queues run empty while
  `ready` is still true. With three producers, one whose queue is exhausted still counts as ready (158-163): the
  slices of the two others are written without it, and its next event is before `m_ts_last_end` and throws (84);
  `NothingSkipped` is therefore about runs in which each producer has a part in each slice. A slice does not hold every event of a source that overlaps it.
* Names: a Producer introduces itself with its type and its name (`core/DataSender.cc:70`) and `DataReceiver` keeps them apart, so
  `GetName()` is the plain name (`core/DataReceiver.cc:80-84`). `CaliceDataCollector.cc:43, 62, 67` compares with plain names, but
  `CaliceTsDataCollector.cc:87-93` and `CaliceTelDataCollector.cc:117-152` with "Producer.Calice1", "Producer.caliceahcalbifProducer" and
  "Producer.ni". The programs start their Producers as `Calice1` (`user/calice/AHCAL/src/AHCALProducer.cxx:18`) and `caliceahcalbifProducer`
  (`caliceahcalbif_Producer.cxx:858`, fixed), and `user/calice/conf/achal_tel_all.conf:16` lists these names: with them the two collectors
  drop every event as of an "unkonwn Producer" and write an empty file. `EachUsed` and `PairsComplete` say which names are used and which are not;
  what `TogetherOverlap`, `AloneIsAlone` and `TelescopeMatches` say of a file is about Producers under names with the type in front, of which only that of the AHCAL
  can be chosen by an option and that of the BIF needs another `main`.
* `CaliceTsDataCollector.cc:103` tests one queue's BORE twice and never the other's, drops events without the timestamp flag,
  which the BIF sets only with one of its preferences (`caliceahcalbif_Producer.cxx:718, 777`) and the AHCAL only if its clock data are complete
  (`ScReader.cc:586-593`, 750-753); an event that overlaps two of the other detector is written with
  the later, so a pair may be lost. `CaliceTelDataCollector` drops BIF events without AHCAL partner (233), numbers
  telescope-only events as triggers (244), and clears its queues on the command thread while `DoReceive` runs.
  A full queue is cleared as a whole, with a BORE whose absence makes the next check throw.

**Mergers.** `Combined` never writes the last frame (131-134), reads a null event when the TLU file ends inside the inner
loop (139-147), and with gaps in the TLU file puts the next frame's events into the group; `Duplicate` compares
triggers before it tests for the end of the files (139) and drops the last pair; all read a null event of an
empty file. Their properties are for files in step (`InSync`).

**Producers** (`Except` in `Producers.tla`; `mid`, `quick` ... as in section 2):
* `HardwareThere`: ex0 uses `fileno` of a failed `fopen` (`Ex0Producer.cc:47-51`); ni and kpix use their object in a
  RESET before INIT (`NiProducer.cc:197`, `kpixProducer.cc:248`), which the manual allows (`manual/Integration.tex:113`);
  cmspixel deletes before a `new` that may throw (`CMSPixelProducer.cxx:184-188`), kpix goes on after an error
  of INIT (149); eudettlu frees the TLU under its run loop (`EudetTluProducer.cc:216`), bif its buffers
  in a CONFIG after a RESET that did nothing (`caliceahcalbif_Producer.cxx:215`, 372); timepix3 uses a null
  pointer when STOP is quick (903-916, 1043); aidatlu and cmspixel delete before the run loop has the
  mutex (`AidaTluProducer.cc:319`, `CMSPixelProducer.cxx:330`).
* `NoTerminate`: an exception in kpix's `std::thread` (393).
* `EventsInRun`: ahcal says stopped before it sends its last events (`AHCALProducer.cc:389`); bif after a RESET in a run.
* `RunningCollects`: kpix never resets `m_exit_of_run`, its second run stops at once (195-217); this is the only state of kpix that is exempt
  when its hardware works. An error of the device ends caribou's `RunLoop` in the middle of a run, only `EUDAQ_ERROR` is called and the status stays
  RUNNING (`CaribouProducer.cxx:290-292`); kpix and ahcal stop collecting in the same silence when a read fails. That a run is on is read by the threads from
  the flags in `Polled`.
* `HooksReturn`: a RESET in a run raises and lowers the flag of ex0 between two looks (78-89), and the
  join takes its twenty seconds; cmspixel (326) and timepix3 (250, 990) wait for each other's mutex; START of ahcal
  blocks on `_mufd`; in kpix (324) and tbsc (268) the thread itself raises the flag that a quick STOP
  has just lowered; its waits for a lock.
* Outside the model: kpix deletes a buffer that another thread reads (336); the ROOT thread of its may
  answer after the time-out of START (87), and its `DoReset` always throws; sockets of ni closed under `select`.

**Logging.** `isConnected` is set before the connection succeeded and never cleared (`core/LogSender.cc:19`): a LOG that fails is
never tried again. The exception of a time-out in the handshake logs itself into that handshake (26-27) and is
taken for the name. In `euLog` the LogThread sends a message to its own server in `DoConnect` (`gui/src/euLog.cc:122-127`)
and waits for the mutex that its own forwarding thread holds: they wait for each other until a time-out of a second, after
which the LogCollector ignores INIT and TERMINATE. A client that died in its handshake ends the LogThread, while the status still says active; senders
then fill the buffers and spin for ever with the mutex held (`core/TransportTCP.cc:102-124`). A client
that joins late never gets a LOG (`core/RunControl.cc:41-101`). `m_os_file` is used by two threads without a lock.

**GUI.** The number of the current run is stored when it changes and on closing: a window closed during a run
leaves the number of that run and a clean exit to the next session, which uses it again (`gui/src/euRun.cc:306-314`).

## 6. Not modelled

* `Ex0TgTsDataCollector`: it reads `m_pri_ts` before anything sets it and takes the front of a queue that may be empty.
  The kpix and DirectSave collectors write each event as it comes.
* The user run controls. `Ex0RunControl`, `kpixRunControl` and `ItkstripRunControl` each have a thread that calls
  `StopRun` (and `Reset`, or `Configure` and `StartRun`) by itself after a time, also while the operator's `StopRun` is
  under way: `m_run_n` is then counted twice, and a Producer may get a second STOP, which it refuses. In the model
  `RunControl` has one caller. `ItkstripRunControl` waits after `StopRun` for every client to be in `STATE_CONF`
  (`user/itkstrip/module/src/ItkstripRunControl.cc:66-80`), a state that STOP does not lead to.
* Files and their names, events, serialisation, configuration, processors (no program runs them), converters:
  sequential, with nothing that depends on the order of steps. The file classes overwrite run and event numbers
  (`core/DataCollector.cc:186-222`) and do not write over existing files.
* The mergers of `user/itkstrip` and the experimental ones, `euCliReSynchroniser`: variants of what `Mergers` models.
* Everything that is hardware, display, language binding, or legacy (`src/legacy`, most of `src/user`): two thirds
  of the repository's lines. `PROJECT.json` lists each part with its reason.
* Data races as such: the model interleaves atomic steps; where the code has a race whose outcome
  matters, the outcomes are alternatives of an action.

## 7. Plan

1. Theorems: `CollectorsFirst` and `NoJoinDuringRun` of `RunControl` for the buttons.
2. The user run controls as a second caller of `RunControl`, and the settings of the GUI across sessions.
3. The data side composed: `CommandReceiver`'s `data` as the abstraction of `DataReceiver`.
4. Files: naming, the reader's time-out and a writer that meets an existing file.
