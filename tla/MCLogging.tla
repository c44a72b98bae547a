----------------------------- MODULE MCLogging -----------------------------
(***************************************************************************)
(* The instance of Logging that TLC checks.                                *)
(***************************************************************************)
EXTENDS Logging

MCClients == {"log", "a", "b"}
Short == <<"INIT", "TERMINATE">>
Again == <<"INIT", "RESET", "INIT">>

MCEnvs ==
  { [kind |-> "gui",  who |-> {"log", "a"}, script |-> Short, calls |-> 2, mishaps |-> {}],
    [kind |-> "file", who |-> {"log", "a"}, script |-> Short, calls |-> 1, mishaps |-> {"die", "late"}],
    [kind |-> "gui",  who |-> {"log", "a"}, script |-> Again, calls |-> 1, mishaps |-> {"late"}],
    [kind |-> "file", who |-> MCClients,    script |-> <<"INIT">>, calls |-> 0, mishaps |-> {"die"}],
    [kind |-> "gui",  who |-> MCClients,    script |-> <<"INIT">>, calls |-> 0, mishaps |-> {}] }

\* "The text should appear in the LogCollector window, and will be stored in
\* the log file for later access": doc/manual/src/Running.tex:323.  About the
\* second INIT of a LogCollector, after which nothing is stored any more.
LogStored == file # "failed"
=============================================================================
