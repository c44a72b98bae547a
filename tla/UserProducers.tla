---------------------------- MODULE UserProducers ----------------------------
(***************************************************************************)
(* The Producers of the detectors: what their hooks and threads do to the  *)
(* flags, mutexes, hardware objects and threads they share.  "run" is      *)
(* m_running or the negation of m_exit_of_run.  Reading the configuration, *)
(* what is told to the hardware and what is put into events are left out.  *)
(***************************************************************************)
EXTENDS Steps

Hooks(init, config, start, stop, reset, terminate) ==
  [INIT |-> init, CONFIG |-> config, START |-> start, STOP |-> stop,
   RESET |-> reset, TERMINATE |-> terminate]
-----------------------------------------------------------------------------
(***************************************************************************)
(* A flag and nothing else.                                                *)
(***************************************************************************)
\* Mutant: the flag is as the last run left it.
MutEx0Start == <<>>

Ex0Start == Set("run")

\* fileno is called whether fopen succeeded or not.
Ex0Hooks == Hooks(Unfailing(Make("file")) \o Use("file") \o Throws, <<>>, Ex0Start, Clear("run"),
                  Clear("run") \o Free("file") \o Set("run"), Clear("run") \o Free("file"))

Ex0Loop == While("run", Send)

\* The sockets of an NiController are closed by a reset and not looked at.
NiHooks ==
  LET Stop  == Use("ni") \o Clear("run")
  IN Hooks(Make("ni") \o Throws, Use("ni") \o Throws, Use("ni") \o Set("run"), Stop, Stop, Stop)

NiLoop == While("run", Use("ni") \o Maybe(Send)) \o Use("ni")

EudetTluHooks ==
  Hooks(<<>>, Unless("tlu", Throws \o Make("tlu")) \o Use("tlu"), Set("run"), Clear("run"),
        Clear("run") \o Free("tlu"), Clear("run"))

EudetTluLoop == Use("tlu") \o Do(Use("tlu") \o Maybe(Send), "run") \o Use("tlu")

DummyHooks == Hooks(<<>>, <<>>, Set("run"), Clear("run"), Clear("run"), Clear("run"))

\* "changes" is m_allow_changes.
PIStageHooks ==
  Hooks(Set("changes") \o Unless("connected", Throws \o Set("connected")),
        Need("changes") \o Throws, Clear("changes"), Set("changes"), Set("changes"), <<>>)
-----------------------------------------------------------------------------
(***************************************************************************)
(* The RunLoop holds a mutex; a reset waits for it.                        *)
(***************************************************************************)
AidaTluInitialise == Throws \o Make("tlu") \o Use("tlu")

AidaTluConfigure == Use("tlu")

AidaTluHooks ==
  Hooks(AidaTluInitialise, AidaTluConfigure, Set("run"), Clear("run"),
        Clear("run") \o Lock("tlu") \o Free("tlu") \o Unlock("tlu"), Clear("run"))

AidaTluLoop ==
  Lock("tlu") \o Use("tlu") \o While("run", Use("tlu") \o Maybe(Send)) \o Use("tlu") \o Unlock("tlu")

\* Mutant: the reset does not wait for the RunLoop.
MutCaribouReset == Clear("run") \o Free("device")

CaribouReset == Clear("run") \o Lock("device") \o Free("device") \o Unlock("device")

CaribouHooks ==
  Hooks(Lock("device") \o Throws \o Make("device") \o Unlock("device"),
        Lock("device") \o Use("device") \o Throws \o Unlock("device"),
        Lock("device") \o Use("device") \o Send \o Use("device") \o Set("run") \o Unlock("device"),
        Clear("run") \o Lock("device") \o Use("device") \o Unlock("device"),
        CaribouReset, <<>>)

\* An error of the device is logged and ends the loop; the last events are sent
\* after it.
CaribouLoop ==
  Lock("device") \o While("run", Use("device") \o Breaks(Maybe(Send))) \o Maybe(Send) \o Unlock("device")

CMSPixelConfigure ==
  Throws \o Lock("api") \o Delete("api") \o Throws \o Make("api") \o Throws \o Use("api")
  \o Unlock("api")

\* A reset and the end do not stop the RunLoop they wait for.
CMSPixelHooks ==
  LET Stop == Lock("api") \o Free("api") \o Unlock("api")
  IN Hooks(<<>>, CMSPixelConfigure,
           Lock("api") \o Use("api") \o Throws \o Set("run") \o Unlock("api"),
           Clear("run"), Stop, Stop)

CMSPixelLoop ==
  Lock("api") \o While("run", Use("api") \o Maybe(Send)) \o Use("api") \o Throws \o Send \o Unlock("api")
-----------------------------------------------------------------------------
(***************************************************************************)
(* Timepix3: one mutex for the controller, which a thread asks for         *)
(* timestamps, and one for the data acquisition of a run.                  *)
(***************************************************************************)
Timepix3Reset ==
  Clear("run") \o Lock("ctrl") \o Lock("daq") \o Clear("init") \o Clear("config")
  \o Free("ctrl") \o Free("daq") \o Unlock("daq") \o Unlock("ctrl")

Timepix3Initialise ==
  If("init", Timepix3Reset) \o If("config", Timepix3Reset) \o If("run", Timepix3Reset)
  \o Lock("ctrl") \o Make("ctrl") \o Throws \o Set("init") \o Unlock("ctrl")

Timepix3Configure ==
  Need("init") \o Clear("run") \o Lock("ctrl") \o Need("ctrl") \o Use("ctrl") \o Throws
  \o Set("config") \o Unlock("ctrl")

Timepix3Start ==
  Need("init") \o Need("config") \o Clear("run") \o Lock("ctrl") \o Lock("daq")
  \o Unless("run", Make("daq") \o Use("ctrl") \o Throws \o Set("run"))
  \o Unlock("daq") \o Unlock("ctrl")

\* Mutant: the controller stays locked while the run loop is waited for.
MutTimepix3Stop ==
  Lock("ctrl") \o Use("ctrl") \o Clear("run")
  \o Lock("daq") \o Free("daq") \o Unlock("daq") \o Unlock("ctrl")

Timepix3Stop ==
  Lock("ctrl") \o Use("ctrl") \o Unlock("ctrl") \o Clear("run")
  \o Lock("daq") \o Free("daq") \o Unlock("daq")

Timepix3Loop ==
  Need("run") \o Need("daq") \o Lock("daq") \o Spawn("ts") \o Use("daq")
  \o While("run", Use("daq") \o Maybe(Send))
  \o Use("daq") \o Clear("run") \o Join("ts") \o Unlock("daq")

Timepix3Timestamps == While("run", Lock("ctrl") \o Use("ctrl") \o Unlock("ctrl"))
-----------------------------------------------------------------------------
(***************************************************************************)
(* Threads of their own beside the RunLoop, which only waits.              *)
(***************************************************************************)
\* "data" is _enableDataThread, "hw" the run state of the hardware.
KpixJoins ==
  Clear("run") \o Join("acq") \o If("rx", Clear("data") \o Join("rx")) \o Join("tx")

\* An error in the construction of m_kpix is caught and forgotten.
KpixInitialise == Set("run") \o Throws \o Spawn("rx") \o Unfailing(Make("kpix"))

KpixStart == Set("data") \o Spawn("tx") \o Spawn("acq")

KpixConfigure == Use("kpix")

StopKpix == Use("kpix") \o Unfailing(Clear("hw"))

KpixHooks ==
  Hooks(KpixInitialise, KpixConfigure, KpixStart, KpixJoins \o StopKpix,
        StopKpix \o KpixJoins \o Set("run"), KpixJoins \o StopKpix \o Delete("kpix"))

RunKpix ==
  Use("kpix") \o If("hw", Raise) \o Set("hw")
  \o Do(Use("kpix") \o Unless("hw", Clear("run")), "run") \o StopKpix
  \o Clear("data") \o Use("kpix")

KpixDataReceiver == Set("data") \o While("data", Step("jump", "", 1))

SendKpixEvent == If("data", Do(Maybe(Send), "data"))

\* The thread sets the flag, too, as it begins.
\* Mutant: the thread is not joined.
MutTbscStop == Clear("run")

TbscStop == Clear("run") \o Join("acq")

TbscConfigure == Throws

TbscHooks ==
  Hooks(<<>>, TbscConfigure, Set("run") \o Spawn("acq"), TbscStop, TbscStop \o Set("run"), TbscStop)

TbscMainloop == Set("run") \o Do(Maybe(Send), "run")
-----------------------------------------------------------------------------
(***************************************************************************)
(* The thread that called Exec.                                            *)
(***************************************************************************)
\* "reading" is the negation of _stopped, "peer" that the other end of the
\* socket is open, "asked" that it was told to stop.
AHCALConfigure == Unless("reader", Make("reader")) \o Use("reader")

AHCALStart ==
  Use("reader") \o Lock("fd") \o Set("fd") \o Clear("asked") \o Unfailing(Set("peer")) \o Unlock("fd")
  \o Set("run") \o Set("reading")

AHCALStop == Use("reader") \o Set("asked") \o Clear("run") \o Await("reading")

AHCALHooks == Hooks(<<>>, AHCALConfigure, AHCALStart, AHCALStop, <<>>, Clear("alive"))

\* The socket is read with the mutex held; the last events are sent after
\* _stopped is set.
AHCALExec ==
  While("alive",
    Lock("fd")
    \o If("fd", If("reading",
         Read(Use("reader") \o Maybe(Send),
              Clear("fd") \o Use("reader") \o Clear("reading") \o Maybe(Send))))
    \o Unlock("fd"))

\* "just" is _TLUJustStopped.
BifConfigure == Free("tlu") \o Throws \o Make("tlu") \o Use("tlu")

BifHooks ==
  Hooks(<<>>, BifConfigure, If("tlu", Use("tlu") \o Set("started")),
        Clear("started") \o Set("just") \o Await("just") \o Use("tlu"), <<>>, Clear("alive"))

\* Mutant: the stop is answered before the last events are sent.
MutBifMainLoop ==
  Do(If("tlu",
       IfElse("just", Use("tlu") \o Clear("just") \o Maybe(Send),
                      If("started", Use("tlu") \o Maybe(Send)))),
     "alive")

\* The wait after the last data is left out.
BifMainLoop ==
  Do(If("tlu",
       IfElse("just", Use("tlu") \o Maybe(Send) \o Clear("just"),
                      If("started", Use("tlu") \o Maybe(Send)))),
     "alive")

\* The hooks ask the ROOT thread by a state and wait five seconds for the
\* state that answers it.
Asks(question, answer) ==
  Lock("doing") \o Phase(question) \o Patient(question) \o Need(answer) \o Unlock("doing")

ItsHooks ==
  Hooks(Asks("GOTOINIT", "UNCONF"), Asks("GOTOCONF", "CONFED"), Asks("GOTORUN", "RUNNING"),
        Asks("GOTOSTOP", "CONFED"), Raise, Lock("doing") \o Phase("GOTOTERM") \o Unlock("doing"))

Answers(question, answer) ==
  If(question, Phase(answer) \o Lock("doing") \o Unlock("doing"))

\* sendEvent ends with checkStatus.
ItsCheckStatus ==
  Do(If("RUNNING", Maybe(Send))
     \o Answers("GOTOINIT", "UNCONF") \o Answers("GOTOCONF", "CONFED")
     \o Answers("GOTORUN", "RUNNING") \o Answers("GOTOSTOP", "CONFED")
     \o Answers("GOTOTERM", "UNCONF"), "alive")
=============================================================================
