---------------------------- MODULE MCRunControl ----------------------------
(***************************************************************************)
(* The clients of the small instances, and what the manual and the code    *)
(* say of the run control, stated as they say it.  The runs that check     *)
(* these formulas find them violated.                                      *)
(***************************************************************************)
EXTENDS RunControl

CONSTANTS m, d, p, q   \* a Monitor, a DataCollector and two Producers

\* "The state of RunControl is determined by the lowest state of the
\* connected client [...] This prevents such mistakes as running the system
\* before every component has finished the configuration":
\* doc/manual/src/Integration.tex:123.  About Configure, StartRun and the
\* buttons of euRun.cc: no client starts to run while another still has a
\* CONFIG to handle.
ConfiguredBeforeRun ==
  [][(\E c \in Clients : st[c] # "RUNNING" /\ st'[c] = "RUNNING")
       => \A o \in On : \A i \in 1 .. Len(cmds[o]) : cmds[o][i].cmd # "CONFIG"]_vars

\* Command table of the manual, Integration.tex:135: the pre-state of StartRun
\* is Configured (or stopped).  About the STARTs that reach a Producer.
StartFromConfigured ==
  [][\A c \in Producers : (cmds'[c] # cmds[c] /\ cmds[c] # <<>>
                             /\ cmds'[c] = Tail(cmds[c]) /\ Head(cmds[c]).cmd = "START")
       => st[c] \in {"CONF", "STOPPED"}]_vars

\* "When this function is called, the run-number has already been increased
\* by 1": doc/manual/src/Producers.tex:47.  About m_run_n: a client that took
\* a START before never gets one with the same number again.
RunNumberIncreased ==
  [][\A c \in Producers : (st[c] # "RUNNING" /\ st'[c] = "RUNNING")
       => run'[c] > run[c]]_vars

\* A lost connection is an empty pointer, and "if(st && ...)" tests for it
\* (RunControl.cc:225 and 242).  About all the waits: a run control that
\* loses a client does not fall over.
SurvivesLoss ==
  [][(pc \in StartPhases \cup StopPhases) => pc' # "crashed"]_vars
=============================================================================
