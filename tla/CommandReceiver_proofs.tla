----------------------- MODULE CommandReceiver_proofs -----------------------
(***************************************************************************)
(* CommandReceiver proved for every kind of client, every bound on the     *)
(* queue and every set of faults: IInv is inductive, the safety properties *)
(* of the module follow from it, and the module implements Client.         *)
(***************************************************************************)
EXTENDS CommandReceiver, TLAPS

LEMMA InitInv == Init => IInv
<1> SUFFICES ASSUME Init PROVE IInv OBVIOUS
<1> USE DEF Init
<1>1. queue \in Seq(Commands) OBVIOUS
<1>2. /\ isRunlooping \in BOOLEAN /\ confSet \in BOOLEAN
      /\ isConnected \in BOOLEAN /\ isDestructing \in BOOLEAN
  OBVIOUS
<1>3. TypeOK BY <1>1, <1>2 DEF TypeOK, States, Commands, FwdPC
<1>4. PCInv /\ DataInv BY DEF PCInv, DataInv, Starting, Stopping, FwdBusy
<1>5. IdleInv /\ ProducerInv /\ RunningInv
  BY DEF IdleInv, ProducerInv, RunningInv, Quiet
<1> QED BY <1>3, <1>4, <1>5 DEF IInv

(***************************************************************************)
(* Steps that leave the handler, the status, the run loop and the data     *)
(* side alone keep everything but the types.                               *)
(***************************************************************************)
LEMMA Untouched ==
  ASSUME IInv, TypeOK', UNCHANGED <<status, cmd, fwd, runloop, data>>,
         isDestructing => isDestructing'
  PROVE  IInv'
<1>1. PCInv' /\ DataInv'
  BY DEF IInv, PCInv, DataInv, Starting, Stopping, DataOpen
<1>2. IdleInv' /\ ProducerInv' /\ RunningInv'
  BY DEF IInv, IdleInv, ProducerInv, RunningInv, Starting, Stopping, DataOpen,
         Quiet, Lost
<1> QED BY <1>1, <1>2 DEF IInv

\* The steps of the receiving thread, of the network and of the deamon that
\* are of that sort.
Link ==
  \/ \E c \in Commands : Receive(c)
  \/ ConnectionLost \/ ReceivingReturns \/ DeamonReapsReceiving \/ DeamonExits

LEMMA LinkStep == ASSUME IInv, Link PROVE IInv'
<1> USE DEF linkVars, loopVars, fwdVars
<1>1. CASE \E c \in Commands : Receive(c)
  <2>1. PICK c \in Commands : Receive(c) BY <1>1
  <2>2. queue' \in Seq(Commands) BY <2>1 DEF Receive, IInv, TypeOK
  <2>3. TypeOK' BY <2>1, <2>2 DEF Receive, IInv, TypeOK
  <2> QED BY <2>1, <2>3, Untouched DEF Receive
<1>2. CASE ConnectionLost
  <2>1. isConnected' \in BOOLEAN BY <1>2 DEF ConnectionLost
  <2>2. TypeOK' BY <1>2, <2>1 DEF ConnectionLost, IInv, TypeOK
  <2> QED BY <1>2, <2>2, Untouched DEF ConnectionLost
<1>3. CASE ReceivingReturns
  <2>1. TypeOK' BY <1>3 DEF ReceivingReturns, IInv, TypeOK
  <2> QED BY <1>3, <2>1, Untouched DEF ReceivingReturns
<1>4. CASE DeamonReapsReceiving
  <2>1. TypeOK' BY <1>4 DEF DeamonReapsReceiving, IInv, TypeOK
  <2> QED BY <1>4, <2>1, Untouched DEF DeamonReapsReceiving
<1>5. CASE DeamonExits
  <2>1. isConnected' \in BOOLEAN BY <1>5 DEF DeamonExits
  <2>2. TypeOK' BY <1>5, <2>1 DEF DeamonExits, IInv, TypeOK
  <2> QED BY <1>5, <2>2, Untouched DEF DeamonExits
<1> QED BY <1>1, <1>2, <1>3, <1>4, <1>5 DEF Link

\* All the other steps; one lemma follows for each conjunct of IInv.
Handler ==
  \/ Forwarding \/ JoinSlice
  \/ UserLoopReturns \/ UserLoopThrows \/ LoopReturns
  \/ WriteEventFails \/ DataReceivingDies
  \/ DeamonBuries \/ DeamonReapsForwarding

(***************************************************************************)
(* The types.                                                              *)
(***************************************************************************)
LEMMA TypeStep == ASSUME IInv, Handler PROVE TypeOK'
<1> USE DEF IInv, TypeOK, States, Commands, FwdPC, FwdBusy, FwdGone,
      Exceptions, linkVars, loopVars, fwdVars
<1>1. CASE Pop
  <2>1. Head(queue) \in Commands /\ Tail(queue) \in Seq(Commands) BY <1>1 DEF Pop
  <2>2. isDestructing' \in BOOLEAN /\ confSet' \in BOOLEAN BY <1>1 DEF Pop
  <2> QED BY <1>1, <2>1, <2>2 DEF Pop
<1>2. CASE Guard BY <1>2 DEF Guard, Accepted, Throw, Catches, ReadsNullConf
<1>3. CASE ConnectSenders
  BY <1>3 DEF ConnectSenders, Throw, Catches, ReadsNullConf
<1>4. CASE Listen BY <1>4 DEF Listen, Throw, Catches, ReadsNullConf
<1>5. CASE Hook
  <2>1. fwd' \in {"close", "base", "send", "crashed", "dead"} /\ status' \in {status, "ERROR"}
    BY <1>5 DEF Hook, HookMayThrow, Throw
  <2> QED BY <1>5, <2>1 DEF Hook
<1>6. CASE StopListen BY <1>6 DEF StopListen, Throw, Catches, ReadsNullConf
<1>7. CASE BaseOther BY <1>7 DEF BaseOther, SetStatus
<1>8. CASE BaseStartRun
  <2>1. isRunlooping' \in BOOLEAN BY <1>8 DEF BaseStartRun
  <2>2. fwd' \in {"started", "send", "crashed", "dead"} /\ status' \in {status, "ERROR"}
    BY <1>8 DEF BaseStartRun, Throw
  <2>3. runloop' \in {runloop, "user"} BY <1>8 DEF BaseStartRun
  <2> QED BY <1>8, <2>1, <2>2, <2>3 DEF BaseStartRun
<1>9. CASE StartedSetStatus BY <1>9 DEF StartedSetStatus, SetStatus
<1>10. CASE BaseStop
  <2>1. isRunlooping' \in BOOLEAN BY <1>10 DEF BaseStop
  <2> QED BY <1>10, <2>1 DEF BaseStop
<1>11. CASE JoinGet BY <1>11 DEF JoinGet, Throw, Catches, ReadsNullConf
<1>12. CASE JoinTimeout
  BY <1>12 DEF JoinTimeout, Throw, Catches, ReadsNullConf
<1>13. CASE StoppedSetStatus BY <1>13 DEF StoppedSetStatus, SetStatus
<1>14. CASE SendStatus BY <1>14 DEF SendStatus
<1>15. CASE ForwardingReturns BY <1>15 DEF ForwardingReturns
<1>16. CASE JoinSlice BY <1>16 DEF JoinSlice, Throw, Catches, ReadsNullConf
<1>17. CASE UserLoopReturns BY <1>17 DEF UserLoopReturns
<1>18. CASE UserLoopThrows BY <1>18 DEF UserLoopThrows
<1>19. CASE LoopReturns BY <1>19 DEF LoopReturns
<1>20. CASE WriteEventFails BY <1>20 DEF WriteEventFails
<1>21. CASE DataReceivingDies BY <1>21 DEF DataReceivingDies
<1>22. CASE DeamonBuries BY <1>22 DEF DeamonBuries
<1>23. CASE DeamonReapsForwarding BY <1>23 DEF DeamonReapsForwarding
<1> QED BY <1>1, <1>2, <1>3, <1>4, <1>5, <1>6, <1>7, <1>8, <1>9, <1>10, <1>11,
         <1>12, <1>13, <1>14, <1>15, <1>16, <1>17, <1>18, <1>19, <1>20, <1>21,
         <1>22, <1>23 DEF Handler, Forwarding

(***************************************************************************)
(* Which handler the thread can be in at which point of its code.          *)
(***************************************************************************)
LEMMA PCStep == ASSUME IInv, Handler PROVE PCInv'
<1> USE DEF IInv, PCInv, FwdBusy, FwdGone, HasServer, Exceptions, linkVars,
      loopVars, fwdVars
<1>1. CASE Pop BY <1>1 DEF Pop
<1>2. CASE Guard BY <1>2 DEF Guard, Accepted, Throw, Catches, ReadsNullConf
<1>3. CASE ConnectSenders
  BY <1>3 DEF ConnectSenders, Throw, Catches, ReadsNullConf
<1>4. CASE Listen BY <1>4 DEF Listen, Throw, Catches, ReadsNullConf
<1>5. CASE Hook BY <1>5 DEF Hook, HookMayThrow, Throw, Catches, ReadsNullConf
<1>6. CASE StopListen BY <1>6 DEF StopListen, Throw, Catches, ReadsNullConf
<1>7. CASE BaseOther BY <1>7 DEF BaseOther, SetStatus
<1>8. CASE BaseStartRun
  BY <1>8 DEF BaseStartRun, Throw, Catches, ReadsNullConf
<1>9. CASE StartedSetStatus BY <1>9 DEF StartedSetStatus, SetStatus
<1>10. CASE BaseStop BY <1>10 DEF BaseStop
<1>11. CASE JoinGet BY <1>11 DEF JoinGet, Throw, Catches, ReadsNullConf
<1>12. CASE JoinTimeout
  BY <1>12 DEF JoinTimeout, Throw, Catches, ReadsNullConf
<1>13. CASE StoppedSetStatus BY <1>13 DEF StoppedSetStatus, SetStatus
<1>14. CASE SendStatus BY <1>14 DEF SendStatus
<1>15. CASE ForwardingReturns BY <1>15 DEF ForwardingReturns
<1>16. CASE JoinSlice BY <1>16 DEF JoinSlice, Throw, Catches, ReadsNullConf
<1>17. CASE UserLoopReturns BY <1>17 DEF UserLoopReturns
<1>18. CASE UserLoopThrows BY <1>18 DEF UserLoopThrows
<1>19. CASE LoopReturns BY <1>19 DEF LoopReturns
<1>20. CASE WriteEventFails BY <1>20 DEF WriteEventFails
<1>21. CASE DataReceivingDies BY <1>21 DEF DataReceivingDies
<1>22. CASE DeamonBuries BY <1>22 DEF DeamonBuries
<1>23. CASE DeamonReapsForwarding BY <1>23 DEF DeamonReapsForwarding
<1> QED BY <1>1, <1>2, <1>3, <1>4, <1>5, <1>6, <1>7, <1>8, <1>9, <1>10, <1>11,
         <1>12, <1>13, <1>14, <1>15, <1>16, <1>17, <1>18, <1>19, <1>20, <1>21,
         <1>22, <1>23 DEF Handler, Forwarding

(***************************************************************************)
(* The data side at those points: Listen and the senders open it before    *)
(* the base class starts a run, StopListen closes it before the base class *)
(* stops one.                                                              *)
(***************************************************************************)
LEMMA DataStep == ASSUME IInv, Handler PROVE DataInv'
<1> USE DEF IInv, DataInv, PCInv, Starting, Stopping, DataOpen, HasServer,
      FwdGone, linkVars, loopVars, fwdVars
<1>1. CASE Pop BY <1>1 DEF Pop
<1>2. CASE Guard
  BY <1>2, KindAssumption DEF Kinds, Guard, Throw
<1>3. CASE ConnectSenders
  BY <1>3 DEF ConnectSenders, Throw, Catches, ReadsNullConf
<1>4. CASE Listen BY <1>4 DEF Listen, Throw, Catches, ReadsNullConf
<1>5. CASE Hook BY <1>5 DEF Hook, HookMayThrow, Throw, Catches, ReadsNullConf
<1>6. CASE StopListen BY <1>6 DEF StopListen, Throw, Catches, ReadsNullConf
<1>7. CASE BaseOther BY <1>7 DEF BaseOther, SetStatus
<1>8. CASE BaseStartRun
  BY <1>8 DEF BaseStartRun, Throw, Catches, ReadsNullConf
<1>9. CASE StartedSetStatus BY <1>9 DEF StartedSetStatus, SetStatus
<1>10. CASE BaseStop BY <1>10 DEF BaseStop
<1>11. CASE JoinGet BY <1>11 DEF JoinGet, Throw, Catches, ReadsNullConf
<1>12. CASE JoinTimeout
  BY <1>12 DEF JoinTimeout, Throw, Catches, ReadsNullConf
<1>13. CASE StoppedSetStatus BY <1>13 DEF StoppedSetStatus, SetStatus
<1>14. CASE SendStatus BY <1>14 DEF SendStatus
<1>15. CASE ForwardingReturns BY <1>15 DEF ForwardingReturns
<1>16. CASE JoinSlice BY <1>16 DEF JoinSlice, Throw, Catches, ReadsNullConf
<1>17. CASE UserLoopReturns BY <1>17 DEF UserLoopReturns
<1>18. CASE UserLoopThrows BY <1>18 DEF UserLoopThrows
<1>19. CASE LoopReturns BY <1>19 DEF LoopReturns
<1>20. CASE WriteEventFails BY <1>20 DEF WriteEventFails
<1>21. CASE DataReceivingDies BY <1>21 DEF DataReceivingDies
<1>22. CASE DeamonBuries BY <1>22 DEF DeamonBuries
<1>23. CASE DeamonReapsForwarding BY <1>23 DEF DeamonReapsForwarding
<1> QED BY <1>1, <1>2, <1>3, <1>4, <1>5, <1>6, <1>7, <1>8, <1>9, <1>10, <1>11,
         <1>12, <1>13, <1>14, <1>15, <1>16, <1>17, <1>18, <1>19, <1>20, <1>21,
         <1>22, <1>23 DEF Handler, Forwarding

(***************************************************************************)
(* UNINIT and STOPPED are only reached through StoppedSetStatus, where the *)
(* run loop was joined.                                                    *)
(***************************************************************************)
LEMMA IdleStep == ASSUME IInv, Handler PROVE IdleInv'
<1> USE DEF IInv, IdleInv, PCInv, DataInv, Starting, Stopping, Quiet, Lost,
      FwdGone, FwdBusy, HasServer, linkVars, loopVars, fwdVars
<1>1. CASE Pop BY <1>1 DEF Pop
<1>2. CASE Guard BY <1>2 DEF Guard, Accepted, Throw, Catches, ReadsNullConf
<1>3. CASE ConnectSenders
  BY <1>3 DEF ConnectSenders, Throw, Catches, ReadsNullConf
<1>4. CASE Listen BY <1>4 DEF Listen, Throw, Catches, ReadsNullConf
<1>5. CASE Hook BY <1>5 DEF Hook, HookMayThrow, Throw, Catches, ReadsNullConf
<1>6. CASE StopListen BY <1>6 DEF StopListen, Throw, Catches, ReadsNullConf
<1>7. CASE BaseOther BY <1>7 DEF BaseOther, SetStatus
<1>8. CASE BaseStartRun
  BY <1>8 DEF BaseStartRun, Throw, Catches, ReadsNullConf
<1>9. CASE StartedSetStatus BY <1>9 DEF StartedSetStatus, SetStatus
<1>10. CASE BaseStop BY <1>10 DEF BaseStop
<1>11. CASE JoinGet BY <1>11 DEF JoinGet, Throw, Catches, ReadsNullConf
<1>12. CASE JoinTimeout
  BY <1>12 DEF JoinTimeout, Throw, Catches, ReadsNullConf
<1>13. CASE StoppedSetStatus
  BY <1>13, KindAssumption DEF Kinds, StoppedSetStatus, SetStatus
<1>14. CASE SendStatus BY <1>14 DEF SendStatus
<1>15. CASE ForwardingReturns BY <1>15 DEF ForwardingReturns
<1>16. CASE JoinSlice BY <1>16 DEF JoinSlice, Throw, Catches, ReadsNullConf
<1>17. CASE UserLoopReturns BY <1>17 DEF UserLoopReturns
<1>18. CASE UserLoopThrows BY <1>18 DEF UserLoopThrows
<1>19. CASE LoopReturns BY <1>19 DEF LoopReturns
<1>20. CASE WriteEventFails BY <1>20 DEF WriteEventFails
<1>21. CASE DataReceivingDies BY <1>21 DEF DataReceivingDies
<1>22. CASE DeamonBuries BY <1>22 DEF DeamonBuries
<1>23. CASE DeamonReapsForwarding BY <1>23 DEF DeamonReapsForwarding
<1> QED BY <1>1, <1>2, <1>3, <1>4, <1>5, <1>6, <1>7, <1>8, <1>9, <1>10, <1>11,
         <1>12, <1>13, <1>14, <1>15, <1>16, <1>17, <1>18, <1>19, <1>20, <1>21,
         <1>22, <1>23 DEF Handler, Forwarding

(***************************************************************************)
(* A Producer reaches UNCONF and CONF only from states its guards accept.  *)
(***************************************************************************)
LEMMA ProducerStep == ASSUME IInv, Handler PROVE ProducerInv'
<1> USE DEF IInv, ProducerInv, IdleInv, PCInv, DataInv, Starting, Stopping,
      Quiet, Lost, FwdGone, FwdBusy, HasServer, Exceptions, RunningInv,
      linkVars, loopVars, fwdVars
<1>1. CASE Pop BY <1>1 DEF Pop
<1>2. CASE Guard BY <1>2 DEF Guard, Accepted, Throw, Catches, ReadsNullConf
<1>3. CASE ConnectSenders
  BY <1>3 DEF ConnectSenders, Throw, Catches, ReadsNullConf
<1>4. CASE Listen BY <1>4 DEF Listen, Throw, Catches, ReadsNullConf
<1>5. CASE Hook BY <1>5 DEF Hook, HookMayThrow, Throw, Catches, ReadsNullConf
<1>6. CASE StopListen BY <1>6 DEF StopListen, Throw, Catches, ReadsNullConf
<1>7. CASE BaseOther BY <1>7 DEF BaseOther, SetStatus
<1>8. CASE BaseStartRun
  BY <1>8 DEF BaseStartRun, Throw, Catches, ReadsNullConf
<1>9. CASE StartedSetStatus BY <1>9 DEF StartedSetStatus, SetStatus
<1>10. CASE BaseStop BY <1>10 DEF BaseStop
<1>11. CASE JoinGet BY <1>11 DEF JoinGet, Throw, Catches, ReadsNullConf
<1>12. CASE JoinTimeout
  BY <1>12 DEF JoinTimeout, Throw, Catches, ReadsNullConf
<1>13. CASE StoppedSetStatus BY <1>13 DEF StoppedSetStatus, SetStatus
<1>14. CASE SendStatus BY <1>14 DEF SendStatus
<1>15. CASE ForwardingReturns BY <1>15 DEF ForwardingReturns
<1>16. CASE JoinSlice BY <1>16 DEF JoinSlice, Throw, Catches, ReadsNullConf
<1>17. CASE UserLoopReturns BY <1>17 DEF UserLoopReturns
<1>18. CASE UserLoopThrows BY <1>18 DEF UserLoopThrows
<1>19. CASE LoopReturns BY <1>19 DEF LoopReturns
<1>20. CASE WriteEventFails BY <1>20 DEF WriteEventFails
<1>21. CASE DataReceivingDies BY <1>21 DEF DataReceivingDies
<1>22. CASE DeamonBuries BY <1>22 DEF DeamonBuries
<1>23. CASE DeamonReapsForwarding BY <1>23 DEF DeamonReapsForwarding
<1> QED BY <1>1, <1>2, <1>3, <1>4, <1>5, <1>6, <1>7, <1>8, <1>9, <1>10, <1>11,
         <1>12, <1>13, <1>14, <1>15, <1>16, <1>17, <1>18, <1>19, <1>20, <1>21,
         <1>22, <1>23 DEF Handler, Forwarding

(***************************************************************************)
(* RUNNING is only entered with a run loop started and the data side open. *)
(***************************************************************************)
LEMMA RunningStep == ASSUME IInv, Handler PROVE RunningInv'
<1> USE DEF IInv, RunningInv, PCInv, DataInv, Starting, Stopping, Quiet,
      DataOpen, Lost, FwdGone, FwdBusy, HasServer, linkVars, loopVars, fwdVars
<1>1. CASE Pop BY <1>1 DEF Pop
<1>2. CASE Guard BY <1>2 DEF Guard, Accepted, Throw, Catches, ReadsNullConf
<1>3. CASE ConnectSenders
  BY <1>3 DEF ConnectSenders, Throw, Catches, ReadsNullConf
<1>4. CASE Listen BY <1>4 DEF Listen, Throw, Catches, ReadsNullConf
<1>5. CASE Hook BY <1>5 DEF Hook, HookMayThrow, Throw, Catches, ReadsNullConf
<1>6. CASE StopListen BY <1>6 DEF StopListen, Throw, Catches, ReadsNullConf
<1>7. CASE BaseOther BY <1>7 DEF BaseOther, SetStatus
<1>8. CASE BaseStartRun
  BY <1>8 DEF BaseStartRun, Throw, Catches, ReadsNullConf
<1>9. CASE StartedSetStatus BY <1>9 DEF StartedSetStatus, SetStatus
<1>10. CASE BaseStop BY <1>10 DEF BaseStop
<1>11. CASE JoinGet BY <1>11 DEF JoinGet, Throw, Catches, ReadsNullConf
<1>12. CASE JoinTimeout
  BY <1>12 DEF JoinTimeout, Throw, Catches, ReadsNullConf
<1>13. CASE StoppedSetStatus BY <1>13 DEF StoppedSetStatus, SetStatus
<1>14. CASE SendStatus BY <1>14 DEF SendStatus
<1>15. CASE ForwardingReturns BY <1>15 DEF ForwardingReturns
<1>16. CASE JoinSlice BY <1>16 DEF JoinSlice, Throw, Catches, ReadsNullConf
<1>17. CASE UserLoopReturns BY <1>17 DEF UserLoopReturns
<1>18. CASE UserLoopThrows BY <1>18 DEF UserLoopThrows
<1>19. CASE LoopReturns BY <1>19 DEF LoopReturns
<1>20. CASE WriteEventFails BY <1>20 DEF WriteEventFails
<1>21. CASE DataReceivingDies BY <1>21 DEF DataReceivingDies
<1>22. CASE DeamonBuries BY <1>22 DEF DeamonBuries
<1>23. CASE DeamonReapsForwarding BY <1>23 DEF DeamonReapsForwarding
<1> QED BY <1>1, <1>2, <1>3, <1>4, <1>5, <1>6, <1>7, <1>8, <1>9, <1>10, <1>11,
         <1>12, <1>13, <1>14, <1>15, <1>16, <1>17, <1>18, <1>19, <1>20, <1>21,
         <1>22, <1>23 DEF Handler, Forwarding

LEMMA Step == IInv /\ [Next]_vars => IInv'
<1> SUFFICES ASSUME IInv, [Next]_vars PROVE IInv' OBVIOUS
<1>1. CASE Link BY <1>1, LinkStep
<1>2. CASE Handler
  BY <1>2, TypeStep, PCStep, DataStep, IdleStep, ProducerStep, RunningStep DEF IInv
<1>3. CASE UNCHANGED vars
  <2>1. TypeOK' BY <1>3 DEF vars, IInv, TypeOK
  <2> QED BY <1>3, <2>1, Untouched DEF vars
<1> QED BY <1>1, <1>2, <1>3 DEF Next, Deamon, Link, Handler

\* IInv holds of every state that a client process can reach.
THEOREM Inductive == Spec => []IInv
BY InitInv, Step, PTL DEF Spec

\* Every variable of the process has its type.
THEOREM TypeCorrect == Spec => []TypeOK
<1>1. IInv => TypeOK BY DEF IInv
<1> QED BY <1>1, Inductive, PTL

\* A client that reports UNINIT or STOPPED between two commands has joined
\* its run loop and closed its data connections.
THEOREM IdleIsQuiet == Spec => []QuietWhenIdle
<1>1. IInv => QuietWhenIdle
  BY DEF IInv, IdleInv, QuietWhenIdle, Quiet, Starting, Lost, FwdGone
<1> QED BY <1>1, Inductive, PTL

\* A Producer that may be started, or configured, has no run loop left.
THEOREM ProducerIsQuiet == Spec => []ProducerQuiet
<1>1. IInv => ProducerQuiet
  BY DEF IInv, IdleInv, ProducerInv, ProducerQuiet, Quiet, Starting, Lost, FwdGone
<1> QED BY <1>1, Inductive, PTL

\* A client that reports RUNNING between two commands owns a run loop and an
\* open data side.
THEOREM RunningOwnsLoop == Spec => []RunningHasLoop
<1>1. IInv => RunningHasLoop
  BY DEF IInv, RunningInv, RunningHasLoop, DataOpen, Stopping, Lost, FwdGone
<1> QED BY <1>1, Inductive, PTL

\* A run loop is started only when the last one was joined, and with the data
\* side open.
THEOREM StartsAreFresh == Spec => LoopStartsFresh
<1> DEFINE Fresh == (runloop' = "user" /\ runloop # "user")
                      => /\ runloop = "none"
                         /\ Kind # "LogCollector" => data \in {"open", "dying"}
<1>1. IInv /\ [Next]_vars => [Fresh]_vars
  <2> SUFFICES ASSUME IInv, Next, runloop' # runloop, runloop' = "user"
               PROVE  Fresh
    BY DEF vars
  <2>1. BaseStartRun
    BY DEF Next, Forwarding, Deamon, Pop, Guard, ConnectSenders, Listen, Hook,
           StopListen, BaseOther, StartedSetStatus, BaseStop, JoinGet, JoinTimeout,
           StoppedSetStatus, SendStatus, ForwardingReturns, JoinSlice,
           UserLoopReturns, UserLoopThrows, LoopReturns, WriteEventFails,
           DataReceivingDies, Receive, ConnectionLost, ReceivingReturns,
           DeamonBuries, DeamonReapsReceiving, DeamonReapsForwarding, DeamonExits,
           loopVars, Exceptions
  <2> QED BY <2>1 DEF BaseStartRun, loopVars, IInv, DataInv, Starting, DataOpen
<1> QED BY <1>1, Inductive, PTL DEF Spec, LoopStartsFresh

\* A Producer leaves ERROR only by RESET or TERMINATE, or by the race of its
\* new run loop with OnStartRun.
THEOREM ErrorIsLeftByReset == Spec => ProducerErrorLeft
<1> DEFINE Left == (Kind = "Producer" /\ status = "ERROR" /\ status' # "ERROR")
                     => \/ cmd \in {"RESET", "TERMINATE"}
                        \/ fwd = "started" \/ isDestructing
<1>1. IInv /\ [Next]_vars => [Left]_vars
  <2> SUFFICES ASSUME IInv, Next, Kind = "Producer", status = "ERROR",
                      status' # "ERROR", ~isDestructing
               PROVE  Left
    BY DEF vars
  <2> USE DEF linkVars, loopVars, fwdVars
  <2>1. \/ Guard \/ BaseOther \/ StartedSetStatus \/ StoppedSetStatus
    BY DEF Next, Forwarding, Deamon, Pop, ConnectSenders, Listen, Hook,
           StopListen, BaseStartRun, BaseStop, JoinGet, JoinTimeout, Throw,
           SendStatus, ForwardingReturns, JoinSlice,
           UserLoopReturns, UserLoopThrows, LoopReturns, WriteEventFails,
           DataReceivingDies, Receive, ConnectionLost, ReceivingReturns,
           DeamonBuries, DeamonReapsReceiving, DeamonReapsForwarding, DeamonExits
  <2>2. CASE Guard BY <2>2 DEF Guard, Accepted, Throw
  <2>3. CASE BaseOther
    BY <2>3 DEF BaseOther, SetStatus, IInv, ProducerInv
  <2>4. CASE StartedSetStatus BY <2>4 DEF StartedSetStatus
  <2>5. CASE StoppedSetStatus
    BY <2>5 DEF StoppedSetStatus, IInv, PCInv, ProducerInv, Exceptions
  <2> QED BY <2>1, <2>2, <2>3, <2>4, <2>5
<1> QED BY <1>1, Inductive, PTL DEF Spec, ProducerErrorLeft
-----------------------------------------------------------------------------
(***************************************************************************)
(* CommandReceiver implements Client.                                      *)
(***************************************************************************)
\* The abstract program counter at each point of the forwarding thread.
LEMMA DoingValue ==
  ASSUME TypeOK
  PROVE  /\ fwd \in {"pop", "guard"} => Doing = "idle"
         /\ fwd \in FwdGone \cup {"hung"} => Doing = "gone"
         /\ fwd = "send" => Doing = "answer"
         /\ fwd \in FwdBusy \ {"guard", "send"} => Doing = cmd
BY DEF Doing, FwdGone, FwdBusy

LEMMA DoingValueNext ==
  ASSUME TypeOK'
  PROVE  /\ fwd' \in {"pop", "guard"} => Doing' = "idle"
         /\ fwd' \in FwdGone \cup {"hung"} => Doing' = "gone"
         /\ fwd' = "send" => Doing' = "answer"
         /\ fwd' \in FwdBusy \ {"guard", "send"} => Doing' = cmd'
BY DEF Doing, FwdGone, FwdBusy

LEMMA AbstractInit == Init => Abstract!Init
<1> SUFFICES ASSUME Init PROVE Abstract!Init OBVIOUS
<1>1. Doing = "idle" BY InitInv, DoingValue DEF IInv, Init
<1>2. Loop = "none" BY DEF Init, Loop
<1> QED BY <1>1, <1>2 DEF Init, Abstract!Init, Abstract!Idle

\* Steps that the run control cannot see.
LEMMA Hidden ==
  ASSUME UNCHANGED <<status, sent, runloop, cmd, fwd>>
  PROVE  UNCHANGED Abstract!vars
BY DEF Abstract!vars, Doing, Loop

\* An exception in a handler is a Fail or a Mute.
LEMMA ThrowStep ==
  ASSUME TypeOK, TypeOK', NEW e, Throw(e), fwd \in FwdBusy \ {"guard", "send"},
         cmd' = cmd, sent' = sent,
         \/ runloop' = runloop
         \/ cmd \in {"STOP", "RESET"} /\ runloop' = "none",
         Kind = "Producer" => cmd # "OTHER"
  PROVE  Abstract!Fail \/ Abstract!Mute
<1>1. Doing = cmd /\ cmd \in Commands BY DoingValue DEF TypeOK
<1>2. Abstract!MayJoin BY <1>1 DEF Abstract!MayJoin, Loop
<1>3. CASE Catches(e) /\ ~ReadsNullConf
  <2>1. Doing' = "answer" /\ status' = "ERROR"
    BY <1>3, DoingValueNext DEF Throw
  <2>2. cmd \in Abstract!Caught
    BY <1>1, <1>3, KindAssumption
    DEF Abstract!Caught, Abstract!StateCommands, Catches, HasServer, Kinds, Commands
  <2> QED BY <1>1, <1>2, <2>1, <2>2 DEF Abstract!Fail, Abstract!Answer
<1>4. CASE ~(Catches(e) /\ ~ReadsNullConf)
  <2>1. Doing' = "gone" /\ status' = status
    BY <1>4, DoingValueNext DEF Throw, FwdGone
  <2>2. Kind = "Producer" => cmd = "LOG"
    BY <1>1, <1>4 DEF Catches, ReadsNullConf
  <2> QED BY <1>1, <1>2, <2>1, <2>2
       DEF Abstract!Mute, Abstract!Gone, Abstract!Commands,
           Abstract!StateCommands, Commands
<1> QED BY <1>3, <1>4

(***************************************************************************)
(* Every step of the process is a step of the client or invisible.         *)
(***************************************************************************)
LEMMA ForwardingStep ==
  ASSUME IInv, IInv', Forwarding PROVE Abstract!Next \/ UNCHANGED Abstract!vars
<1> DEFINE Visible == Abstract!Next \/ UNCHANGED Abstract!vars
<1>0. /\ TypeOK /\ TypeOK' /\ PCInv
      /\ cmd \in Abstract!Commands
  BY DEF IInv, TypeOK, Commands, Abstract!Commands, Abstract!StateCommands
<1> USE DEF loopVars, linkVars
<1>1. CASE Pop
  <2>1. Doing = "idle" /\ Doing' = "idle"
    BY <1>0, <1>1, DoingValue, DoingValueNext DEF Pop
  <2>2. Loop' = Loop BY <1>1 DEF Pop, Loop
  <2> QED BY <1>1, <2>1, <2>2 DEF Pop, Abstract!vars
<1>2. CASE Guard
  <2>1. Doing = "idle" BY <1>0, <1>2, DoingValue DEF Guard
  <2>2. Loop' = Loop BY <1>2 DEF Guard, Loop
  <2>3. Accepted <=> Abstract!Accepts(cmd) BY DEF Accepted, Abstract!Accepts
  <2>4. CASE Accepted
    <3>1. Doing' = cmd BY <1>0, <1>2, <2>4, DoingValueNext DEF Guard, FwdBusy
    <3>2. Abstract!Accept(cmd)
      BY <1>2, <2>1, <2>2, <2>3, <2>4, <3>1 DEF Guard, Abstract!Accept, Abstract!Idle
    <3> QED BY <1>0, <3>2 DEF Abstract!Next
  <2>5. CASE ~Accepted
    <3>1. fwd' = "send" /\ status' = "ERROR"
      BY <1>2, <2>5 DEF Guard, Accepted, Throw, Catches, ReadsNullConf
    <3>2. Doing' = "answer" BY <1>0, <3>1, DoingValueNext
    <3>3. Abstract!Refuse(cmd)
      BY <1>2, <2>1, <2>2, <2>3, <2>5, <3>1, <3>2
      DEF Guard, Abstract!Refuse, Abstract!Idle, Abstract!Answer
    <3> QED BY <1>0, <3>3 DEF Abstract!Next
  <2> QED BY <2>4, <2>5
<1>3. CASE ConnectSenders
  <2>1. CASE Throw("eudaq")
    <3>1. Abstract!Fail \/ Abstract!Mute
      BY <1>0, <1>3, <2>1, ThrowStep DEF ConnectSenders, FwdBusy, PCInv
    <3> QED BY <3>1 DEF Abstract!Next
  <2>2. CASE fwd' = "hook" /\ UNCHANGED status
    BY <1>0, <1>3, <2>2, DoingValue, DoingValueNext
    DEF ConnectSenders, FwdBusy, Abstract!vars, Loop
  <2> QED BY <1>3, <2>1, <2>2 DEF ConnectSenders
<1>4. CASE Listen
  <2>1. Doing = cmd BY <1>0, <1>4, DoingValue DEF Listen, FwdBusy
  <2>2. Loop' = Loop BY <1>4 DEF Listen, Loop
  <2>3. CASE Throw("eudaq")
    <3>0. UNCHANGED <<sent, cmd, runloop>> BY <1>4, <2>3 DEF Listen, Throw
    <3>1. Abstract!Fail \/ Abstract!Mute
      BY <1>0, <1>4, <2>3, <3>0, ThrowStep DEF Listen, FwdBusy, PCInv, HasServer
    <3> QED BY <3>1 DEF Abstract!Next
  <2>4. CASE fwd' = "hook" /\ UNCHANGED status
    <3>1. Doing' = cmd BY <1>0, <1>4, <2>4, DoingValueNext DEF Listen, FwdBusy
    <3>2. CASE UNCHANGED sent
      BY <1>4, <2>1, <2>2, <2>4, <3>1, <3>2 DEF Abstract!vars
    <3>3. CASE cmd = "INIT" /\ sent' = status
      <4>1. Abstract!Report
        BY <1>4, <2>1, <2>2, <2>4, <3>1, <3>3 DEF Abstract!Report
      <4> QED BY <4>1 DEF Abstract!Next
    <3> QED BY <1>4, <2>4, <3>2, <3>3 DEF Listen, Throw
  <2>5. CASE /\ fwd' \in {"crashed", "hung"} /\ HasServer
             /\ UNCHANGED <<status, sent>>
    <3>1. Doing' = "gone" BY <1>0, <2>5, DoingValueNext DEF FwdGone
    <3>2. Abstract!Mute
      BY <1>0, <2>1, <2>2, <2>5, <3>1
      DEF Abstract!Mute, Abstract!MayJoin, Abstract!Gone, HasServer
    <3> QED BY <3>2 DEF Abstract!Next
  <2> QED BY <1>4, <2>3, <2>4, <2>5 DEF Listen
<1>5. CASE Hook
  <2>1. CASE fwd' \in {"close", "base"} /\ UNCHANGED status
    BY <1>0, <1>5, <2>1, DoingValue, DoingValueNext
    DEF Hook, FwdBusy, Abstract!vars, Loop
  <2>2. CASE HookMayThrow /\ \E e \in Exceptions : Throw(e)
    <3>1. PICK e \in Exceptions : Throw(e) BY <2>2
    <3>2. Abstract!Fail \/ Abstract!Mute
      BY <1>0, <1>5, <2>2, <3>1, ThrowStep DEF Hook, HookMayThrow, FwdBusy
    <3> QED BY <3>2 DEF Abstract!Next
  <2> QED BY <1>5, <2>1, <2>2 DEF Hook
<1>6. CASE StopListen
  <2>1. CASE Throw("eudaq")
    <3>1. Abstract!Fail \/ Abstract!Mute
      BY <1>0, <1>6, <2>1, ThrowStep DEF StopListen, FwdBusy, PCInv
    <3> QED BY <3>1 DEF Abstract!Next
  <2>2. CASE fwd' = "base" /\ UNCHANGED status
    BY <1>0, <1>6, <2>2, DoingValue, DoingValueNext
    DEF StopListen, FwdBusy, Abstract!vars, Loop
  <2> QED BY <1>6, <2>1, <2>2 DEF StopListen
<1>7. CASE BaseOther
  <2>1. Doing = cmd BY <1>0, <1>7, DoingValue DEF BaseOther, FwdBusy
  <2>2. Doing' = IF cmd = "TERMINATE" /\ Kind = "LogCollector" THEN "gone" ELSE "answer"
    BY <1>0, <1>7, DoingValueNext DEF BaseOther, SetStatus, FwdGone
  <2>3. Loop' = Loop BY <1>7 DEF BaseOther, Loop
  <2>4. status' = Abstract!Success(cmd) /\ UNCHANGED sent
    BY <1>7 DEF BaseOther, SetStatus, Abstract!Success
  <2>5. Abstract!Succeed
    BY <1>0, <1>7, <2>1, <2>2, <2>3, <2>4
    DEF Abstract!Succeed, Abstract!Answer, Abstract!Gone, BaseOther
  <2> QED BY <2>5 DEF Abstract!Next
<1>8. CASE BaseStartRun
  <2>1. CASE Throw("eudaq") /\ UNCHANGED runloop
    <3>1. Abstract!Fail \/ Abstract!Mute
      BY <1>0, <1>8, <2>1, ThrowStep DEF BaseStartRun, FwdBusy
    <3> QED BY <3>1 DEF Abstract!Next
  <2>2. CASE runloop = "none" /\ runloop' = "user" /\ fwd' = "started" /\ UNCHANGED status
    <3>1. Doing = "START" /\ Doing' = "START"
      BY <1>0, <1>8, <2>2, DoingValue, DoingValueNext DEF BaseStartRun, FwdBusy
    <3>2. Loop = "none" /\ Loop' = "started" BY <2>2 DEF Loop
    <3>3. Abstract!LoopStarts
      BY <1>8, <2>2, <3>1, <3>2 DEF BaseStartRun, Abstract!LoopStarts
    <3> QED BY <3>3 DEF Abstract!Next
  <2> QED BY <1>8, <2>1, <2>2 DEF BaseStartRun
<1>9. CASE StartedSetStatus
  <2>1. cmd = "START" /\ Loop = "started" /\ Loop' = "started"
    BY <1>0, <1>9 DEF StartedSetStatus, PCInv, Loop
  <2>2. Doing = "START" /\ Doing' = "answer" /\ status' = "RUNNING"
    BY <1>0, <1>9, <2>1, DoingValue, DoingValueNext
    DEF StartedSetStatus, SetStatus, FwdBusy
  <2>3. Abstract!Succeed
    BY <1>0, <1>9, <2>1, <2>2
    DEF StartedSetStatus, Abstract!Succeed, Abstract!Success, Abstract!Answer
  <2> QED BY <2>3 DEF Abstract!Next
<1>10. CASE BaseStop
  BY <1>0, <1>10, DoingValue, DoingValueNext DEF BaseStop, FwdBusy, Abstract!vars, Loop
<1>11. CASE JoinGet
  <2>1. cmd \in {"STOP", "RESET"} BY <1>0, <1>11 DEF JoinGet, PCInv
  <2>2. CASE runloop \in Exceptions /\ Throw(runloop)
    <3>1. Abstract!Fail \/ Abstract!Mute
      BY <1>0, <1>11, <2>1, <2>2, ThrowStep DEF JoinGet, FwdBusy
    <3> QED BY <3>1 DEF Abstract!Next
  <2>3. CASE runloop = "returned" /\ fwd' = "set" /\ UNCHANGED status
    <3>1. Doing = cmd /\ Doing' = cmd
      BY <1>0, <1>11, <2>3, DoingValue, DoingValueNext DEF JoinGet, FwdBusy
    <3>2. Loop = "started" /\ Loop' = "none" BY <1>11, <2>3 DEF JoinGet, Loop
    <3>3. Abstract!LoopJoined
      BY <1>11, <2>1, <2>3, <3>1, <3>2 DEF JoinGet, Abstract!LoopJoined
    <3> QED BY <3>3 DEF Abstract!Next
  <2> QED BY <1>11, <2>2, <2>3 DEF JoinGet
<1>12. CASE JoinTimeout
  <2>1. Abstract!Fail \/ Abstract!Mute
    BY <1>0, <1>12, ThrowStep DEF JoinTimeout, FwdBusy, PCInv
  <2> QED BY <2>1 DEF Abstract!Next
<1>13. CASE StoppedSetStatus
  <2>1. cmd \in {"STOP", "RESET"} /\ Loop = "none" /\ Loop' = "none"
    BY <1>0, <1>13 DEF StoppedSetStatus, PCInv, Loop
  <2>2. Doing = cmd /\ Doing' = "answer"
    BY <1>0, <1>13, DoingValue, DoingValueNext
    DEF StoppedSetStatus, SetStatus, FwdBusy
  <2>3. status' = Abstract!Success(cmd)
    BY <1>13, <2>1 DEF StoppedSetStatus, SetStatus, Abstract!Success
  <2>4. Abstract!Succeed
    BY <1>0, <1>13, <2>1, <2>2, <2>3
    DEF StoppedSetStatus, Abstract!Succeed, Abstract!Answer
  <2> QED BY <2>4 DEF Abstract!Next
<1>14. CASE SendStatus
  <2>1. Doing = "answer" BY <1>0, <1>14, DoingValue DEF SendStatus
  <2>2. Doing' \in {"idle", "gone"} BY <1>0, <1>14, DoingValueNext DEF SendStatus, FwdGone
  <2>3. Loop' = Loop BY <1>14 DEF SendStatus, Loop
  <2>4. CASE sent' = status
    <3>1. Abstract!Reply
      BY <1>14, <2>1, <2>2, <2>3, <2>4
      DEF SendStatus, Abstract!Reply, Abstract!Answer, Abstract!Idle, Abstract!Gone
    <3> QED BY <3>1 DEF Abstract!Next
  <2>5. CASE fwd' = "dead" /\ UNCHANGED sent
    <3>1. Doing' = "gone" BY <1>0, <2>5, DoingValueNext DEF FwdGone
    <3>2. Abstract!Leave
      BY <1>14, <2>1, <2>3, <2>5, <3>1
      DEF SendStatus, Abstract!Leave, Abstract!Answer, Abstract!Gone
    <3> QED BY <3>2 DEF Abstract!Next
  <2> QED BY <1>14, <2>4, <2>5 DEF SendStatus
<1>15. CASE ForwardingReturns
  <2>1. Doing = "idle" /\ Doing' = "gone"
    BY <1>0, <1>15, DoingValue, DoingValueNext DEF ForwardingReturns, FwdGone
  <2>2. Loop' = Loop BY <1>15 DEF ForwardingReturns, Loop
  <2>3. Abstract!Leave
    BY <1>15, <2>1, <2>2
    DEF ForwardingReturns, Abstract!Leave, Abstract!Idle, Abstract!Gone
  <2> QED BY <2>3 DEF Abstract!Next
<1> QED BY <1>1, <1>2, <1>3, <1>4, <1>5, <1>6, <1>7, <1>8, <1>9, <1>10, <1>11,
         <1>12, <1>13, <1>14, <1>15 DEF Forwarding

LEMMA OtherStep ==
  ASSUME IInv, IInv', Next, ~Forwarding PROVE Abstract!Next \/ UNCHANGED Abstract!vars
<1>0. TypeOK /\ TypeOK' /\ PCInv BY DEF IInv
<1> USE DEF loopVars, linkVars, fwdVars
<1>1. CASE JoinSlice
  <2>1. cmd \in {"STOP", "RESET"} BY <1>0, <1>1 DEF JoinSlice, PCInv
  <2>2. CASE Throw("eudaq") /\ UNCHANGED sent
    <3>1. Abstract!Fail \/ Abstract!Mute
      BY <1>0, <1>1, <2>1, <2>2, ThrowStep DEF JoinSlice, FwdBusy
    <3> QED BY <3>1 DEF Abstract!Next
  <2>3. CASE sent' = status /\ UNCHANGED <<status, fwd>>
    <3>1. Doing = cmd /\ Doing' = cmd
      BY <1>0, <1>1, <2>3, DoingValue, DoingValueNext DEF JoinSlice, FwdBusy
    <3>2. Abstract!Report
      BY <1>1, <2>1, <2>3, <3>1 DEF JoinSlice, Abstract!Report, Loop
    <3> QED BY <3>2 DEF Abstract!Next
  <2> QED BY <1>1, <2>2, <2>3 DEF JoinSlice
<1>2. CASE UserLoopThrows
  <2>1. Loop = "started" /\ Loop' = "started"
    BY <1>2 DEF UserLoopThrows, Loop, Exceptions
  <2>2. Doing' = Doing BY <1>2 DEF UserLoopThrows, Doing
  <2>3. Abstract!RunFails BY <1>2, <2>1, <2>2 DEF UserLoopThrows, Abstract!RunFails
  <2> QED BY <2>3 DEF Abstract!Next
<1>3. CASE WriteEventFails
  <2>1. Doing' = Doing /\ Loop' = Loop BY <1>3 DEF WriteEventFails, Doing, Loop
  <2>2. Abstract!WriteFails BY <1>3, <2>1 DEF WriteEventFails, Abstract!WriteFails
  <2> QED BY <2>2 DEF Abstract!Next
<1>4. CASE UserLoopReturns \/ LoopReturns
  <2>1. Loop' = Loop BY <1>4 DEF UserLoopReturns, LoopReturns, Loop
  <2>2. Doing' = Doing BY <1>4 DEF UserLoopReturns, LoopReturns, Doing
  <2> QED BY <1>4, <2>1, <2>2 DEF UserLoopReturns, LoopReturns, Abstract!vars
<1>5. CASE DeamonBuries \/ DeamonReapsForwarding
  <2>1. Doing = "gone" /\ Doing' = "gone"
    BY <1>0, <1>5, DoingValue, DoingValueNext
    DEF DeamonBuries, DeamonReapsForwarding, FwdGone
  <2> QED BY <1>5, <2>1
       DEF DeamonBuries, DeamonReapsForwarding, Abstract!vars, Loop
<1>6. CASE \/ DataReceivingDies \/ ConnectionLost \/ ReceivingReturns
           \/ DeamonReapsReceiving \/ DeamonExits \/ \E c \in Commands : Receive(c)
  BY <1>6, Hidden
  DEF DataReceivingDies, ConnectionLost, ReceivingReturns, DeamonReapsReceiving,
      DeamonExits, Receive
<1> QED BY <1>1, <1>2, <1>3, <1>4, <1>5, <1>6 DEF Next, Deamon

\* A client process, with all its threads and faults, is a Client: the run
\* control may rely on Client.tla whatever kind of client it talks to.
THEOREM Implements == Spec => ImplementsClient
<1>1. IInv /\ IInv' /\ [Next]_vars => [Abstract!Next]_(Abstract!vars)
  <2> SUFFICES ASSUME IInv, IInv', [Next]_vars
               PROVE  Abstract!Next \/ UNCHANGED Abstract!vars
    OBVIOUS
  <2>1. CASE UNCHANGED vars BY <2>1, Hidden DEF vars
  <2> QED BY <2>1, ForwardingStep, OtherStep
<1> QED BY <1>1, AbstractInit, Inductive, PTL DEF Spec, ImplementsClient, Abstract!Spec
=============================================================================
