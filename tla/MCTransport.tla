---------------------------- MODULE MCTransport ----------------------------
(***************************************************************************)
(* The instance of Transport that TLC checks.                              *)
(***************************************************************************)
EXTENDS Transport

MCConns == {"a", "b", "c"}
MCEnvs ==
  { [mishaps |-> {"cut", "deaf"},  conns |-> {"a", "b"},  calls |-> 0, status |-> 1],
    [mishaps |-> {"deaf"},  conns |-> MCConns,  calls |-> 0, status |-> 0],
    [mishaps |-> {"cut", "deaf", "leave"}, conns |-> {"a", "b"},  calls |-> 0, status |-> 1],
    [mishaps |-> {"calls"}, conns |-> {"a"}, calls |-> 2, status |-> 0],
    [mishaps |-> {"calls", "slow"}, conns |-> {"a", "b"}, calls |-> 1, status |-> 0],
    [mishaps |-> {"calls", "deaf"}, conns |-> {"a", "b"}, calls |-> 1, status |-> 0],
    [mishaps |-> {"calls", "leave", "long"}, conns |-> {"a"}, calls |-> 2, status |-> 1],
    [mishaps |-> {"calls", "long"}, conns |-> {"a", "b"}, calls |-> 1, status |-> 0] }
=============================================================================
