------------------------- MODULE MCCommandReceiver -------------------------
(***************************************************************************)
(* What the manual and the code say of a client, stated as they say it.    *)
(* The runs that check these formulas find them violated.                  *)
(***************************************************************************)
EXTENDS CommandReceiver

\* "In any case when an EUDAQ process goes to the state of Error, only the
\* Reset command is allowed" (and TERMINATE, by the table of commands):
\* doc/manual/src/Integration.tex:158.  About the On* handlers.
OnlyResetLeavesError ==
  [][(status = "ERROR" /\ status' # "ERROR")
       => cmd \in {"RESET", "TERMINATE"}]_vars

\* Command table of the manual, Integration.tex:137: Reset brings Error to
\* Uninitialised.  About OnReset of a client whose RunLoop is over, so that
\* there is nothing left to wait for, and none of whose hooks fail.
ResetReachesUninit ==
  [][(cmd = "RESET" /\ fwd # "send" /\ fwd' = "send"
        /\ runloop \notin {"user", "waiting"})
       => status' = "UNINIT"]_vars

\* "When an EUDAQ process is in the state of Running, it only accepts the
\* StopRun command": Integration.tex:155.  About the guards of the handlers.
RunningOnlyStops ==
  [][(status = "RUNNING" /\ status' \notin {"RUNNING", "ERROR"})
       => cmd = "STOP"]_vars

\* A DataCollector whose reset fails is in STATE_ERROR, as the statement at
\* DataCollector.cc:152 has it.  About DataCollector::OnReset.
FailedResetIsError ==
  [][(cmd = "RESET" /\ fwd' = "dead") => status' = "ERROR"]_vars
=============================================================================
