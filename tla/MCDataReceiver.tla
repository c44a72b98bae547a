--------------------------- MODULE MCDataReceiver ---------------------------
(***************************************************************************)
(* What the manual and the code say of the data server, stated as they say *)
(* it.  The runs that check these formulas find them violated.             *)
(***************************************************************************)
EXTENDS DataReceiver

CONSTANTS a, b   \* two connections

\* The senders are alike.
Senders == Permutations(Conns)

Called(c, k) == \E i \in 1 .. Len(log[c]) : log[c][i].k = k

\* "DoConnect, will be called when a new connection from eudaq::Producer is
\* created": doc/manual/src/DataCollector.tex:26.  About AsyncForwarding: a
\* collector is told of a connection before it gets an event from it.
ConnectedBeforeReceive ==
  \A c \in Conns : Called(c, "receive") => Called(c, "connect")

\* "DoDisconnect, will be called when the connection is expired":
\* doc/manual/src/DataCollector.tex:26.  About the end of AsyncForwarding:
\* when StopListen has returned, a collector that was told of a connection
\* has been told of its end.
ExpiredIsTold ==
  (user = "idle" /\ answer = "stopped") =>
    \A c \in Conns : Called(c, "connect") => Called(c, "disconnect")

\* "Last server did not closed sucessfully": DataReceiver.cc:172.  About the
\* stop branch of Deamon: Listen says so only after a StopListen that failed
\* or when it was not called.
RefusedOnlyUnstopped ==
  [][(user = "listen" /\ answer' = "refused") => answer # "stopped"]_vars

\* The same line: Listen does not wait for a server that cannot be closed,
\* it throws.
ListenAnswers == (user = "listen") ~> (user # "listen")

\* "DoReveive which respond to a connection in establishing or deleting, or a
\* new coming Event": doc/manual/src/DataCollector.tex:11.  About the wait of
\* AsyncForwarding: what is in m_qu_ev of a running server is forwarded.
EventsForwarded ==
  (queue # <<>> /\ fwd = "wait") ~> (fwd # "wait" \/ ~listening)

\* "The lifetime of the connection between the eudaq::DataCollector and
\* eudaq::Producer is a data-taking run": doc/manual/src/DataCollector.tex:26.
\* About m_vt_con: when a server opens no connection of an earlier one is left.
ConnectionEndsWithRun ==
  [][session' # session => known = {}]_vars
=============================================================================
