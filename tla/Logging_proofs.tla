--------------------------- MODULE Logging_proofs ---------------------------
(***************************************************************************)
(* The log is complete and the log server outlives its clients, for every  *)
(* number of processes, every size of the sockets and every circumstance.  *)
(***************************************************************************)
EXTENDS Logging, TLAPS

USE LoggingAssumption DEF clientVars, serverVars, vars, Ident

EventType == [t : {"CONNECT", "RECEIVE", "DISCONNECT"}, c : Clients, p : Nat]

LEMMA EventsAre ==
  ASSUME Types
  PROVE  /\ events \in Seq(EventType) /\ DOMAIN events = 1 .. Len(events) /\ Len(events) \in Nat
         /\ \A i \in 1 .. Len(events) : events[i] \in EventType
<1>1. events \in Seq(EventType) BY DEF Types, EventType
<1> HIDE DEF EventType
<1> QED BY <1>1

LEMMA UpIs ==
  ASSUME Types, NEW c \in Clients
  PROVE  /\ up[c] \in Seq(Nat) /\ DOMAIN up[c] = 1 .. Len(up[c]) /\ Len(up[c]) \in Nat
         /\ \A i \in 1 .. Len(up[c]) : up[c][i] \in Nat
BY DEF Types

\* What a step does not touch of a client stays true, although events of
\* others come to the queue and leave it.
LEMMA Untouched ==
  ASSUME Types, NEW d \in Clients, ClientInv(d), Up' => Up,
         pc'[d] = pc[d], tried'[d] = tried[d], sock'[d] = sock[d], sent'[d] = sent[d],
         up'[d] = up[d], down'[d] = down[d], con'[d] = con[d], known'[d] = known[d],
         name'[d] = name[d], lines'[d] = lines[d],
         DOMAIN events' \subseteq Nat,
         NEW k \in Nat,
         \A i \in Nat : Of(d, i)' <=> Of(d, i + k),
         \A i \in Nat : Of(d, i) => i > k,
         \A i \in Nat : Of(d, i)' => events'[i] = events[i + k]
  PROVE  ClientInv(d)'
<1>1. DOMAIN events \subseteq Nat /\ \A i : Of(d, i) => i \in DOMAIN events
  BY EventsAre DEF Of
<1>2. \A i : Of(d, i)' => i \in DOMAIN events' BY DEF Of
<1>3. \A i \in Nat : Of(d, i) => i - k \in Nat /\ Of(d, i - k)' /\ (i - k) + k = i
  OBVIOUS
<1>4. \A i \in Nat : \A t : From(d, t, i)' <=> From(d, t, i + k) BY DEF From
<1>5. \A n : Coming(d, n)' <=> Coming(d, n)
  <2> SUFFICES ASSUME NEW n PROVE Coming(d, n)' <=> Coming(d, n) OBVIOUS
  <2>1. ASSUME NEW i \in DOMAIN events, From(d, "RECEIVE", i) /\ events[i].p = n
        PROVE  \E j \in DOMAIN events' : From(d, "RECEIVE", j)' /\ events'[j].p = n
    <3>1. /\ i - k \in DOMAIN events' /\ Of(d, i - k)' /\ (i - k) + k = i
          /\ i - k \in Nat
      BY <1>1, <1>2, <1>3, <2>1 DEF From
    <3>2. From(d, "RECEIVE", i - k)' /\ events'[i - k] = events[i]
      BY <1>4, <2>1, <3>1
    <3> QED BY <2>1, <3>1, <3>2
  <2>2. ASSUME NEW i \in DOMAIN events', From(d, "RECEIVE", i)' /\ events'[i].p = n
        PROVE  \E j \in DOMAIN events : From(d, "RECEIVE", j) /\ events[j].p = n
    <3>1. i \in Nat /\ Of(d, i)' BY <2>2 DEF From
    <3>2. From(d, "RECEIVE", i + k) /\ events'[i] = events[i + k] BY <1>4, <2>2, <3>1
    <3> QED BY <1>1, <2>2, <3>2 DEF From
  <2> QED BY <2>1, <2>2 DEF Coming
<1>6. Begins(d)'
  <2>1. ASSUME NEW i \in DOMAIN events', From(d, "CONNECT", i)'
        PROVE  /\ ~known[d] /\ down[d] = <<>> /\ pc[d] # "ok"
               /\ \A j \in DOMAIN events' : Of(d, j)' => i <= j
    <3>1. i + k \in DOMAIN events /\ From(d, "CONNECT", i + k)
      BY <1>1, <1>4, <2>1 DEF From
    <3>2. \A j \in DOMAIN events' : Of(d, j)' => j + k \in DOMAIN events /\ Of(d, j + k)
      BY <1>1
    <3>3. \A j \in DOMAIN events : Of(d, j) => i + k <= j BY <3>1 DEF ClientInv, Begins
    <3> QED BY <3>1, <3>2, <3>3 DEF ClientInv, Begins
  <2>2. (\A i \in DOMAIN events : ~Of(d, i)) => \A i \in DOMAIN events' : ~Of(d, i)'
    BY <1>1
  <2> QED BY <2>1, <2>2 DEF ClientInv, Begins, Connecting
<1>7. Shakes(d)'
  <2>1. (\A i \in DOMAIN events : ~From(d, "RECEIVE", i))
          => \A i \in DOMAIN events' : ~From(d, "RECEIVE", i)'
    BY <1>1, <1>4 DEF From
  <2> QED BY <1>5, <2>1 DEF ClientInv, Shakes, Connecting, Mistaken
<1>8. Numbered(d)' BY <1>5 DEF ClientInv, Numbered, Mistaken, Handled
<1>9. Ordered(d)'
  <2>1. \A i \in DOMAIN events' : From(d, "RECEIVE", i)' =>
           /\ i \in Nat /\ i + k \in DOMAIN events
           /\ From(d, "RECEIVE", i + k) /\ events'[i] = events[i + k]
    BY <1>1, <1>4 DEF From
  <2> DEFINE R(i) == i \in DOMAIN events' /\ From(d, "RECEIVE", i)'
  <2>2. ASSUME Up, NEW i, NEW j, R(i), R(j), i < j PROVE events'[i].p < events'[j].p
    <3>1. i + k < j + k BY <2>1, <2>2
    <3> QED BY <2>1, <2>2, <3>1 DEF ClientInv, Ordered
  <2>3. ASSUME Up, NEW i, R(i), NEW j \in DOMAIN up[d] PROVE events'[i].p < up[d][j]
    BY <2>1, <2>3 DEF ClientInv, Ordered
  <2> QED BY <2>2, <2>3 DEF ClientInv, Ordered
<1> QED BY <1>6, <1>7, <1>8, <1>9 DEF ClientInv

\* The same for a step that leaves the queue alone.
LEMMA Quiet ==
  ASSUME Types, NEW d \in Clients, ClientInv(d), Up' => Up, events' = events,
         pc'[d] = pc[d], tried'[d] = tried[d], sock'[d] = sock[d], sent'[d] = sent[d],
         up'[d] = up[d], down'[d] = down[d], con'[d] = con[d], known'[d] = known[d],
         name'[d] = name[d], lines'[d] = lines[d]
  PROVE  ClientInv(d)'
<1>1. DOMAIN events' \subseteq Nat BY EventsAre
<1>2. \A i \in Nat : i + 0 = i OBVIOUS
<1>3. \A i \in Nat : Of(d, i) => i > 0 BY EventsAre DEF Of
<1>4. \A i \in Nat : Of(d, i)' <=> Of(d, i + 0) BY <1>2 DEF Of
<1>5. \A i \in Nat : Of(d, i)' => events'[i] = events[i + 0] BY <1>2
<1> QED BY <1>1, <1>3, <1>4, <1>5, Untouched

LEMMA InitInv == Init => IInv
<1> SUFFICES ASSUME Init PROVE IInv OBVIOUS
<1>1. Types BY DEF Init, Types, TypeOK
<1>2. ServerSurvives BY <1>1 DEF Init, Types, ServerSurvives
<1>3. ASSUME NEW c \in Clients PROVE Excludes(c) /\ ClientInv(c)
  <2>1. ~Connecting(c) /\ ~known[c] /\ pc[c] = "idle" /\ call[c] = "none"
    BY DEF Init, Connecting
  <2>2. \A n : ~Coming(c, n) BY DEF Init, Coming
  <2>3. \A i : ~Of(c, i) BY DEF Init, Of
  <2>4. Numbered(c)
    <3>1. Handled(c) = 0 /\ sent[c] = 0 /\ lines[c] = <<>> BY <2>1 DEF Init, Handled, Mistaken
    <3>2. \A n \in Nat : n \notin Handled(c) + 1 .. sent[c] BY <3>1
    <3> QED BY <2>1, <2>2, <3>1, <3>2 DEF Numbered
  <2>5. Begins(c) BY <2>1, <2>3 DEF Init, Begins, From
  <2>6. Shakes(c) BY <2>1 DEF Init, Shakes, Mistaken
  <2>7. Ordered(c) BY <2>3 DEF Init, Ordered, From
  <2> QED BY <2>1, <2>4, <2>5, <2>6, <2>7 DEF Excludes, ClientInv
<1> QED BY <1>1, <1>2, <1>3 DEF IInv

\* What a message is, when it is sent: the next number, at the end.
LEMMA SendsType ==
  ASSUME Types, NEW c \in Clients, Sends(c)
  PROVE  /\ sock' \in [Clients -> BOOLEAN] /\ sent' \in [Clients -> Nat]
         /\ up' \in [Clients -> Seq(Nat)] /\ \A d \in Clients : Len(up'[d]) <= MaxSocket
         /\ \A d \in Clients \ {c} : sock'[d] = sock[d] /\ sent'[d] = sent[d] /\ up'[d] = up[d]
         /\ sock'[c] => sock[c]
         /\ \/ up'[c] = up[c] /\ sent'[c] = sent[c]
            \/ sock[c] /\ ServerThere /\ sent'[c] = sent[c] + 1 /\ up'[c] = Append(up[c], sent[c] + 1)
<1>1. CASE ~sock[c] /\ UNCHANGED <<sock, up, sent>> BY <1>1 DEF Types, TypeOK
<1>2. CASE sock[c] /\ ~ServerThere /\ sock' \in {sock, [sock EXCEPT ![c] = FALSE]}
           /\ UNCHANGED <<up, sent>>
  BY <1>2 DEF Types, TypeOK
<1>3. CASE sock[c] /\ ServerThere /\ up' = [up EXCEPT ![c] = Append(@, sent[c] + 1)]
           /\ sent' = [sent EXCEPT ![c] = @ + 1] /\ UNCHANGED sock
  <2>1. up[c] \in Seq(Nat) /\ sent[c] + 1 \in Nat BY DEF Types
  <2>2. Append(up[c], sent[c] + 1) \in Seq(Nat)
        /\ Len(Append(up[c], sent[c] + 1)) = Len(up[c]) + 1 BY <2>1
  <2>3. Len(up[c]) + 1 <= MaxSocket
    <3>1. Len(up[c]) \in Nat BY <2>1
    <3> QED BY <1>3, <3>1 DEF Sends, Full
  <2> QED BY <1>3, <2>1, <2>2, <2>3 DEF Types, TypeOK
<1> QED BY <1>1, <1>2, <1>3 DEF Sends

\* A message takes the next number of its connection, and no thread but the
\* one in the handshake sends before that is over.
LEMMA Spoken ==
  ASSUME IInv, NEW c \in Clients, Sends(c), Up' <=> Up,
         UNCHANGED <<tried, down, con, known, name, events, lines>>,
         \/ ~Connecting(c) /\ pc' = pc
         \/ pc[c] = "throw" /\ pc' = [pc EXCEPT ![c] = "dead"]
  PROVE  \A d \in Clients : ClientInv(d)'
<1>0. Types /\ ClientInv(c) /\ pc \in [Clients -> {"idle", "hello", "ok", "throw", "dead", "closing"}]
  BY DEF IInv, Types, TypeOK
<1>1. /\ \A d \in Clients \ {c} : sock'[d] = sock[d] /\ sent'[d] = sent[d] /\ up'[d] = up[d]
      /\ sock'[c] => sock[c]
  BY <1>0, SendsType
<1>2. ASSUME NEW d \in Clients, d # c PROVE ClientInv(d)'
  BY <1>0, <1>1, <1>2, Quiet DEF IInv
<1>3. pc'[c] # "ok" /\ pc'[c] # "hello" /\ pc'[c] # "throw"
      /\ (pc'[c] = "dead" \/ (pc'[c] = pc[c] /\ pc[c] \in {"idle", "dead", "closing"}))
  BY <1>0 DEF Connecting
<1>4. ASSUME up'[c] = up[c], sent'[c] = sent[c] PROVE ClientInv(c)'
  <2>1. \A n : Coming(c, n)' <=> Coming(c, n) BY <1>4 DEF Coming, From, Of
  <2>2. Begins(c)' BY <1>0, <1>1, <1>3, <1>4 DEF ClientInv, Begins, Connecting, From, Of
  <2>3. Shakes(c)' BY <1>0, <1>1, <1>3, <1>4 DEF ClientInv, Shakes, Connecting, Mistaken
  <2>4. Numbered(c)' BY <1>0, <1>3, <1>4, <2>1 DEF ClientInv, Numbered, Mistaken, Handled
  <2>5. Ordered(c)' BY <1>0, <1>4 DEF ClientInv, Ordered, From, Of
  <2> QED BY <2>2, <2>3, <2>4, <2>5 DEF ClientInv
<1>5. ASSUME sock[c], ServerThere, sent'[c] = sent[c] + 1, up'[c] = Append(up[c], sent[c] + 1)
      PROVE  ClientInv(c)'
  <2>0. /\ sent[c] \in Nat /\ up[c] \in Seq(Nat)
        /\ DOMAIN up[c] = 1 .. Len(up[c]) /\ Len(up[c]) \in Nat
        /\ \A i \in 1 .. Len(up[c]) : up[c][i] \in Nat
    <3>1. sent[c] \in Nat BY <1>0 DEF Types
    <3> QED BY <3>1, <1>0, UpIs
  <2>9. /\ DOMAIN up'[c] = 1 .. Len(up[c]) + 1
        /\ \A i \in 1 .. Len(up[c]) : up'[c][i] = up[c][i]
        /\ up'[c][Len(up[c]) + 1] = sent[c] + 1
    <3> DEFINE s == up[c]
    <3>1. s \in Seq(Nat) /\ sent[c] + 1 \in Nat BY <2>0
    <3> HIDE DEF s
    <3>2. /\ DOMAIN Append(s, sent[c] + 1) = 1 .. Len(s) + 1
          /\ \A i \in 1 .. Len(s) : Append(s, sent[c] + 1)[i] = s[i]
          /\ Append(s, sent[c] + 1)[Len(s) + 1] = sent[c] + 1
      BY <3>1
    <3> QED BY <3>2, <1>5 DEF s
  <2>1. \A n : Coming(c, n)' <=> Coming(c, n) \/ n = sent[c] + 1
    <3>1. \A n : (\E i \in DOMAIN up'[c] : up'[c][i] = n)
                   <=> (\E i \in DOMAIN up[c] : up[c][i] = n) \/ n = sent[c] + 1
      <4>1. \A i \in 1 .. Len(up[c]) + 1 : i \in 1 .. Len(up[c]) \/ i = Len(up[c]) + 1
        BY <2>0
      <4>2. Len(up[c]) + 1 \in 1 .. Len(up[c]) + 1
            /\ \A i \in 1 .. Len(up[c]) : i \in 1 .. Len(up[c]) + 1 BY <2>0
      <4> QED BY <2>0, <2>9, <4>1, <4>2
    <3> QED BY <3>1 DEF Coming, From, Of
  <2>2. /\ tried[c] /\ con[c] # "none" /\ con[c] \in {"backlog", "open", "closed"}
        /\ (pc'[c] = "dead" \/ (known[c] /\ name[c]))
    BY <1>0, <1>3, <1>5 DEF ClientInv, Begins, Shakes, Types, TypeOK
  <2>3. Begins(c)' BY <1>0, <1>1, <1>3, <2>2 DEF ClientInv, Begins, Connecting, From, Of
  <2>4. Shakes(c)' BY <1>0, <1>1, <1>3, <2>2 DEF ClientInv, Shakes, Connecting, Mistaken
  <2>5. Numbered(c)'
    <3>1. Handled(c)' = Handled(c) /\ Handled(c) \in Nat /\ Mistaken(c)' = Mistaken(c)
      <4>1. lines[c] \in Seq(Nat) BY <1>0 DEF Types
      <4>2. Len(lines[c]) \in Nat BY <4>1
      <4>3. Mistaken(c)' = Mistaken(c) /\ Mistaken(c) \in Nat BY DEF Mistaken
      <4> QED BY <4>2, <4>3 DEF Handled
    <3>2. Handled(c) <= sent[c] BY <1>0 DEF ClientInv, Numbered
    <3>3. ASSUME Up, NEW n \in Nat, n # Ident
          PROVE  Coming(c, n)' <=> n \in Handled(c) + 1 .. sent[c] + 1
      <4>1. Coming(c, n) <=> n \in Handled(c) + 1 .. sent[c] BY <1>0, <3>3 DEF ClientInv, Numbered
      <4>2. n \in Handled(c) + 1 .. sent[c] \/ n = sent[c] + 1
              <=> n \in Handled(c) + 1 .. sent[c] + 1 BY <2>0, <3>1, <3>2
      <4> QED BY <2>1, <4>1, <4>2
    <3>4. Handled(c) <= sent[c] + 1 BY <2>0, <3>1, <3>2
    <3>5. Coming(c, Ident)' <=> Coming(c, Ident) BY <2>0, <2>1
    <3>6. ~known[c] => lines[c] = <<>> BY <1>0 DEF ClientInv, Numbered
    <3>7. \A i \in DOMAIN lines[c] : lines[c][i] = i + Mistaken(c) BY <1>0 DEF ClientInv, Numbered
    <3>8. Up /\ known[c] => ~Coming(c, Ident) BY <1>0 DEF ClientInv, Numbered
    <3> QED BY <1>5, <2>2, <3>1, <3>3, <3>4, <3>5, <3>6, <3>7, <3>8 DEF Numbered
  <2>6. Ordered(c)'
    <3> SUFFICES ASSUME Up PROVE Ordered(c)' BY DEF Ordered
    <3>1. \A n \in Nat : Coming(c, n) => n < sent[c] + 1
      <4>1. \A n \in Nat : Coming(c, n) => n = Ident \/ n \in Handled(c) + 1 .. sent[c]
        BY <1>0 DEF ClientInv, Numbered
      <4> QED BY <2>0, <4>1
    <3>2. \A i \in DOMAIN up[c] : up[c][i] < sent[c] + 1
      BY <2>0, <3>1 DEF Coming
    <3>3. \A i \in DOMAIN events : From(c, "RECEIVE", i) => events[i].p < sent[c] + 1
      <4>1. \A i \in DOMAIN events : events[i].p \in Nat BY <1>0, EventsAre DEF EventType
      <4> QED BY <3>1, <4>1 DEF Coming
    <3>4. \A i, j \in DOMAIN up'[c] : i < j => up'[c][i] < up'[c][j]
      <4> SUFFICES ASSUME NEW i \in DOMAIN up'[c], NEW j \in DOMAIN up'[c], i < j
                   PROVE  up'[c][i] < up'[c][j] OBVIOUS
      <4>1. i \in DOMAIN up[c] /\ up'[c][i] = up[c][i] BY <2>0, <2>9, SMTT(20)
      <4>2. CASE j \in DOMAIN up[c]
        <5>1. up'[c][j] = up[c][j] BY <2>0, <2>9, <4>2
        <5> QED BY <1>0, <4>1, <4>2, <5>1 DEF ClientInv, Ordered
      <4>3. CASE j = Len(up[c]) + 1 BY <2>9, <3>2, <4>1, <4>3
      <4> QED BY <2>0, <2>9, <4>2, <4>3
    <3>5. \A i \in DOMAIN events : \A j \in DOMAIN up'[c] :
             From(c, "RECEIVE", i) => events[i].p < up'[c][j]
      <4> SUFFICES ASSUME NEW i \in DOMAIN events, NEW j \in DOMAIN up'[c], From(c, "RECEIVE", i)
                   PROVE  events[i].p < up'[c][j] OBVIOUS
      <4>2. CASE j \in DOMAIN up[c]
        <5>1. up'[c][j] = up[c][j] BY <2>0, <2>9, <4>2
        <5> QED BY <1>0, <4>2, <5>1 DEF ClientInv, Ordered
      <4>3. CASE j = Len(up[c]) + 1 BY <2>9, <3>3, <4>3
      <4> QED BY <2>0, <2>9, <4>2, <4>3
    <3>6. \A i, j \in DOMAIN events : (i < j /\ From(c, "RECEIVE", i) /\ From(c, "RECEIVE", j))
             => events[i].p < events[j].p
      BY <1>0 DEF ClientInv, Ordered
    <3> QED BY <3>4, <3>5, <3>6 DEF Ordered, From, Of
  <2> QED BY <2>3, <2>4, <2>5, <2>6 DEF ClientInv
<1>6. ClientInv(c)' BY <1>0, <1>4, <1>5, SendsType
<1> QED BY <1>2, <1>6
-----------------------------------------------------------------------------
(***************************************************************************)
(* Every step keeps the types.                                             *)
(***************************************************************************)
LEMMA HeldIs ==
  ASSUME Types, NEW c \in Clients, SendsOrSpins(c)
  PROVE  /\ call' \in [Clients -> {"none", "waiting", "sending"}]
         /\ \/ Sends(c) \/ (UNCHANGED <<sock, up, sent>> /\ Full(c))
BY DEF SendsOrSpins, Types, TypeOK

LEMMA TypesClient ==
  ASSUME IInv, NEW c \in Clients, Logs(c) \/ Dies(c) \/ Client(c)
  PROVE  Types'
<1>0. Types /\ ClientInv(c) BY DEF IInv
<1>s. ASSUME Sends(c), UNCHANGED <<tried, gone, down, con, known, name, events, logpc, file, lines>>,
             pc' \in [Clients -> {"idle", "hello", "ok", "throw", "dead", "closing"}],
             call' \in [Clients -> {"none", "waiting", "sending"}]
      PROVE  Types'
  BY <1>0, <1>s, SendsType DEF Types, TypeOK
<1>1. CASE Logs(c)
  <2>1. CASE SendsOrSpins(c)
    BY <1>0, <1>1, <1>s, <2>1, HeldIs DEF Logs, Types, TypeOK
  <2>2. CASE call' = [call EXCEPT ![c] = "waiting"] /\ UNCHANGED <<sock, up, sent>>
    BY <1>0, <1>1, <2>2 DEF Logs, Types, TypeOK
  <2> QED BY <1>1, <2>1, <2>2 DEF Logs
<1>2. CASE Dies(c) BY <1>0, <1>2 DEF Dies, Types, TypeOK
<1>3. CASE Locks(c) BY <1>0, <1>3, <1>s, HeldIs DEF Locks, Types, TypeOK
<1>4. CASE Spins(c) BY <1>0, <1>4, <1>s DEF Spins, Types, TypeOK
<1>5. CASE Connect(c) BY <1>0, <1>5 DEF Connect, Goto, Types, TypeOK
<1>6. CASE Greeted(c)
  <2>1. up[c] = <<>> BY <1>0, <1>6 DEF Greeted, ClientInv, Shakes
  <2>2. Append(up[c], Ident) \in Seq(Nat) /\ Len(Append(up[c], Ident)) = 1 BY <2>1
  <2>3. Tail(down[c]) \in Seq({"hello", "ok"}) BY <1>0, <1>6 DEF Greeted, Types
  <2> QED BY <1>0, <1>6, <2>2, <2>3 DEF Greeted, Goto, Types, TypeOK
<1>7. CASE Confirmed(c)
  <2>3. Tail(down[c]) \in Seq({"hello", "ok"}) BY <1>0, <1>7 DEF Confirmed, Types
  <2> QED BY <1>0, <1>7, <2>3 DEF Confirmed, Goto, Types, TypeOK
<1>8. CASE TimesOut(c) BY <1>0, <1>8 DEF TimesOut, Goto, Types, TypeOK
<1>9. CASE Throws(c) BY <1>0, <1>9, <1>s DEF Throws, Goto, Types, TypeOK
<1>10. CASE SeesEnd(c) BY <1>0, <1>10 DEF SeesEnd, Goto, Types, TypeOK
<1> QED BY <1>1, <1>2, <1>3, <1>4, <1>5, <1>6, <1>7, <1>8, <1>9, <1>10 DEF Client

LEMMA TypesServer ==
  ASSUME IInv, Forwarding \/ LogThread
  PROVE  Types'
<1>0. Types BY DEF IInv
<1>1. CASE Initialise BY <1>0, <1>1 DEF Initialise, Types, TypeOK
<1>2. CASE Reset BY <1>0, <1>2 DEF Reset, Types, TypeOK
<1>3. CASE Terminate BY <1>0, <1>3 DEF Terminate, Goto, Types, TypeOK
<1>4. CASE Exits BY <1>0, <1>4 DEF Exits, Types, TypeOK
<1>5. CASE SelectReturns BY <1>0, <1>5 DEF SelectReturns, Types, TypeOK
<1>6. CASE ProcessReturns BY <1>0, <1>6 DEF ProcessReturns, Types, TypeOK
<1>7. CASE LogThreadLogs
  <2>1. CASE Sends(Own) /\ logpc' = "handle"
    BY <1>0, <1>7, <2>1, SendsType DEF LogThreadLogs, Types, TypeOK
  <2>2. CASE logpc' = "logging" /\ UNCHANGED <<sock, up, sent>>
    BY <1>0, <1>7, <2>2 DEF LogThreadLogs, Types, TypeOK
  <2> QED BY <1>7, <2>1, <2>2 DEF LogThreadLogs
<1>8. ASSUME NEW c \in Clients, Accept(c) PROVE Types'
  <2>1. Event("CONNECT", c, 0) \in EventType BY DEF Event, EventType
  <2>2. events' \in Seq(EventType) BY <1>0, <1>8, <2>1, EventsAre DEF Accept
  <2>3. events' \in Seq([t : {"CONNECT", "RECEIVE", "DISCONNECT"}, c : Clients, p : Nat])
    BY <2>2 DEF EventType
  <2> QED BY <1>0, <1>8, <2>3 DEF Accept, Types, TypeOK
<1>9. ASSUME NEW c \in Clients, Recv(c) PROVE Types'
  <2>1. CASE /\ events' = events \o [i \in DOMAIN up[c] |-> Event("RECEIVE", c, up[c][i])]
             /\ up' = [up EXCEPT ![c] = <<>>] /\ UNCHANGED con
    <3> DEFINE new == [i \in DOMAIN up[c] |-> Event("RECEIVE", c, up[c][i])]
    <3>1. \A i \in DOMAIN up[c] : Event("RECEIVE", c, up[c][i]) \in EventType
      BY <1>0, UpIs DEF Event, EventType
    <3>2. new \in Seq(EventType)
      <4>1. Len(up[c]) \in Nat /\ DOMAIN up[c] = 1 .. Len(up[c]) BY <1>0, UpIs
      <4>2. new \in [1 .. Len(up[c]) -> EventType] BY <3>1, <4>1
      <4> HIDE DEF new
      <4> QED BY <4>1, <4>2
    <3> HIDE DEF new
    <3>3. events' \in Seq(EventType) BY <1>0, <2>1, <3>2, EventsAre DEF new
    <3>4. events' \in Seq([t : {"CONNECT", "RECEIVE", "DISCONNECT"}, c : Clients, p : Nat])
      BY <3>3 DEF EventType
    <3>5. up' \in [Clients -> Seq(Nat)] /\ \A d \in Clients : Len(up'[d]) <= MaxSocket
      BY <1>0, <2>1 DEF Types, TypeOK
    <3> QED BY <1>0, <1>9, <2>1, <3>4, <3>5 DEF Recv, Types, TypeOK
  <2>2. CASE /\ events' = Append(events, Event("DISCONNECT", c, 0))
             /\ con' = [con EXCEPT ![c] = "closed"] /\ UNCHANGED up
    <3>1. Event("DISCONNECT", c, 0) \in EventType BY DEF Event, EventType
    <3>2. events' \in Seq(EventType) BY <1>0, <2>2, <3>1, EventsAre
    <3>3. events' \in Seq([t : {"CONNECT", "RECEIVE", "DISCONNECT"}, c : Clients, p : Nat])
      BY <3>2 DEF EventType
    <3> QED BY <1>0, <1>9, <2>2, <3>3 DEF Recv, Types, TypeOK
  <2> QED BY <1>9, <2>1, <2>2 DEF Recv
<1>10. ASSUME Handle PROVE Types'
  <2> DEFINE e == Head(events)
  <2>1. /\ e \in EventType /\ Tail(events) \in Seq(EventType)
    BY <1>0, <1>10, EventsAre DEF Handle
  <2>2. e.c \in Clients /\ e.p \in Nat BY <2>1 DEF EventType
  <2>3. events' \in Seq([t : {"CONNECT", "RECEIVE", "DISCONNECT"}, c : Clients, p : Nat])
    BY <1>10, <2>1 DEF Handle, EventType
  <2> HIDE DEF e
  <2>4. ASSUME NEW p \in {"hello", "ok"}, NEW then \in {"handle", "log"}, Answers(e.c, p, then)
        PROVE  down' \in [Clients -> Seq({"hello", "ok"})] /\ logpc' \in {"handle", "log", "dead"}
    <3>1. down[e.c] \in Seq({"hello", "ok"}) BY <1>0, <2>2 DEF Types
    <3>2. Append(down[e.c], p) \in Seq({"hello", "ok"}) BY <3>1
    <3> QED BY <1>0, <2>2, <2>4, <3>2 DEF Answers, Types
  <2>5. /\ known' \in [Clients -> BOOLEAN] /\ name' \in [Clients -> BOOLEAN]
        /\ lines' \in [Clients -> Seq(Nat)] /\ logpc' \in {"handle", "log", "dead"}
        /\ down' \in [Clients -> Seq({"hello", "ok"})]
    <3>1. CASE HandleConnect(e.c) BY <1>0, <2>4, <3>1 DEF HandleConnect, Types
    <3>2. CASE HandleIdentification(e.c, e.p)
      BY <1>0, <2>4, <3>2 DEF HandleIdentification, Types
    <3>3. CASE HandleMessage(e.c, e.p)
      <4>1. Append(lines[e.c], e.p) \in Seq(Nat) BY <1>0, <2>2 DEF Types
      <4> QED BY <1>0, <3>3, <4>1 DEF HandleMessage, Types
    <3>4. CASE HandleDisconnect BY <1>0, <3>4 DEF HandleDisconnect, Types
    <3> QED BY <1>10, <3>1, <3>2, <3>3, <3>4 DEF Handle, e
  <2> QED BY <1>0, <1>10, <2>3, <2>5 DEF Handle, Types, TypeOK
<1> QED BY <1>1, <1>2, <1>3, <1>4, <1>5, <1>6, <1>7, <1>8, <1>9, <1>10 DEF Forwarding, LogThread
-----------------------------------------------------------------------------
(***************************************************************************)
(* The mutex, and the end of the LogThread.                                *)
(***************************************************************************)
LEMMA ExcludesNext ==
  ASSUME IInv, Next, NEW d \in Clients
  PROVE  Excludes(d)'
<1>0. Types /\ (\A c \in Clients : Excludes(c)) /\ Excludes(d) BY DEF IInv
<1> USE DEF Excludes, Connecting, Held
<1>1. ASSUME NEW c \in Clients, Logs(c) PROVE Excludes(d)'
  BY <1>0, <1>1 DEF Logs, SendsOrSpins, Types, TypeOK
<1>2. ASSUME NEW c \in Clients, Dies(c) PROVE Excludes(d)' BY <1>0, <1>2 DEF Dies
<1>3. ASSUME NEW c \in Clients, Locks(c) PROVE Excludes(d)'
  BY <1>0, <1>3 DEF Locks, SendsOrSpins, Types, TypeOK
<1>4. ASSUME NEW c \in Clients, Spins(c) PROVE Excludes(d)'
  BY <1>0, <1>4 DEF Spins, Types, TypeOK
<1>5. ASSUME NEW c \in Clients, Connect(c) PROVE Excludes(d)'
  BY <1>0, <1>5 DEF Connect, Goto, Types, TypeOK
<1>6. ASSUME NEW c \in Clients, Greeted(c) PROVE Excludes(d)'
  BY <1>0, <1>6 DEF Greeted, Goto, Types, TypeOK
<1>7. ASSUME NEW c \in Clients, Confirmed(c) PROVE Excludes(d)'
  BY <1>0, <1>7 DEF Confirmed, Goto, Types, TypeOK
<1>8. ASSUME NEW c \in Clients, TimesOut(c) PROVE Excludes(d)'
  BY <1>0, <1>8 DEF TimesOut, Goto, Types, TypeOK
<1>9. ASSUME NEW c \in Clients, Throws(c) PROVE Excludes(d)'
  BY <1>0, <1>9 DEF Throws, Goto, Types, TypeOK
<1>10. ASSUME NEW c \in Clients, SeesEnd(c) PROVE Excludes(d)'
  BY <1>0, <1>10 DEF SeesEnd, Goto, Types, TypeOK
<1>11. CASE Forwarding
  BY <1>0, <1>11 DEF Forwarding, Initialise, Reset, Terminate, Exits, Goto, Types, TypeOK
<1>12. ASSUME NEW c \in Clients, Accept(c) \/ Recv(c) PROVE Excludes(d)'
  BY <1>0, <1>12 DEF Accept, Recv
<1>13. CASE SelectReturns \/ ProcessReturns BY <1>0, <1>13 DEF SelectReturns, ProcessReturns
<1>14. CASE LogThreadLogs BY <1>0, <1>14 DEF LogThreadLogs
<1>15. CASE Handle
  BY <1>0, <1>15 DEF Handle, HandleConnect, HandleIdentification, HandleMessage, HandleDisconnect,
     Answers
<1> QED BY <1>1, <1>2, <1>3, <1>4, <1>5, <1>6, <1>7, <1>8, <1>9, <1>10, <1>11, <1>12, <1>13,
           <1>14, <1>15 DEF Next, Client, LogThread

\* The one step that ends the LogThread over a client, and it did not know it.
LEMMA HandleSurvives ==
  ASSUME IInv, Handle, logpc' = "dead"
  PROVE  \E c \in Clients : gone'[c] /\ ~known'[c]
<1> DEFINE e == Head(events)
<1>1. e \in EventType /\ 1 \in DOMAIN events /\ e = events[1] /\ Types
  BY EventsAre DEF IInv, Handle
<1>2. e.c \in Clients /\ ClientInv(e.c) BY <1>1 DEF EventType, IInv
<1>3. gone' = gone /\ logpc = "handle" BY DEF Handle
<1>4. e.t = "CONNECT" => ~known[e.c]
  BY <1>1, <1>2 DEF ClientInv, Begins, From, Of
<1> HIDE DEF e
<1>5. CASE e.t = "CONNECT" /\ HandleConnect(e.c)
  BY <1>2, <1>3, <1>4, <1>5 DEF HandleConnect, Answers
<1>6. CASE HandleIdentification(e.c, e.p)
  BY <1>1, <1>2, <1>3, <1>6 DEF HandleIdentification, Answers, Types
<1>7. CASE HandleMessage(e.c, e.p) BY <1>7 DEF HandleMessage
<1>8. CASE HandleDisconnect BY <1>8 DEF HandleDisconnect
<1> QED BY <1>5, <1>6, <1>7, <1>8 DEF Handle, e

LEMMA SurvivesNext ==
  ASSUME IInv, Next, Types'
  PROVE  ServerSurvives'
<1>0. Types /\ (logpc = "dead" => \E c \in Clients : gone[c] /\ ~known[c])
  BY DEF IInv, ServerSurvives
<1>1. TypeOK' BY DEF Types
<1>2. CASE logpc = "dead"
  <2>1. PICK c \in Clients : gone[c] /\ ~known[c] BY <1>0, <1>2
  <2>2. (gone'[c] /\ ~known'[c]) \/ logpc' = "gone"
    <3>1. ASSUME NEW d \in Clients, Logs(d) \/ Dies(d) \/ Client(d) PROVE gone'[c] /\ ~known'[c]
      BY <1>0, <2>1, <3>1 DEF Logs, Dies, Client, Locks, Spins, Connect, Greeted, Confirmed,
         TimesOut, Throws, SeesEnd, Types
    <3>2. CASE Forwarding
      BY <1>0, <2>1, <3>2 DEF Forwarding, Initialise, Reset, Terminate, Exits, Types
    <3>3. ~LogThread
      BY <1>2 DEF LogThread, Accept, Recv, SelectReturns, Handle, ProcessReturns, LogThreadLogs
    <3> QED BY <3>1, <3>2, <3>3 DEF Next
  <2> QED BY <1>1, <2>2 DEF ServerSurvives
<1>3. CASE logpc # "dead" /\ logpc' = "dead"
  <2>1. Handle
    <3>1. ASSUME NEW d \in Clients, Logs(d) \/ Dies(d) \/ Client(d) PROVE FALSE
      BY <1>3, <3>1 DEF Logs, Dies, Client, Locks, Spins, Connect, Greeted, Confirmed,
         TimesOut, Throws, SeesEnd
    <3>2. ~Forwarding BY <1>3 DEF Forwarding, Initialise, Reset, Terminate, Exits
    <3> QED BY <1>3, <3>1, <3>2 DEF Next, LogThread, Accept, Recv, SelectReturns,
               ProcessReturns, LogThreadLogs
  <2> QED BY <1>1, <2>1, HandleSurvives DEF ServerSurvives
<1>4. CASE logpc' # "dead" BY <1>1, <1>4 DEF ServerSurvives
<1> QED BY <1>2, <1>3, <1>4
-----------------------------------------------------------------------------
(***************************************************************************)
(* Every step of a client keeps what holds of each connection.             *)
(***************************************************************************)
LEMMA ClientNext ==
  ASSUME IInv, NEW c \in Clients, Logs(c) \/ Dies(c) \/ Client(c), NEW d \in Clients
  PROVE  ClientInv(d)'
<1>0. Types /\ ClientInv(c) /\ ClientInv(d) /\ Excludes(c) BY DEF IInv
<1>1. (Up' <=> Up) /\ events' = events /\ logpc' = logpc
      /\ UNCHANGED <<known, name, lines>>
  BY DEF Logs, Dies, Client, Locks, Spins, Connect, Greeted, Confirmed,
     TimesOut, Throws, SeesEnd, Up
<1>2. CASE Logs(c) \/ Locks(c) \/ Spins(c) \/ Throws(c)
  <2>1. CASE UNCHANGED <<pc, sock, up, sent>>
    BY <1>0, <1>1, <1>2, <2>1, Quiet DEF Logs, Locks, Spins, Throws
  <2>2. CASE Throws(c)
    <3>1. pc[c] = "throw" /\ pc' = [pc EXCEPT ![c] = "dead"] /\ Sends(c) /\ UNCHANGED <<tried, down, con>>
      BY <2>2 DEF Throws, Goto
    <3> QED BY <1>1, <3>1, Spoken
  <2>3. CASE Sends(c) /\ ~Throws(c) /\ ~UNCHANGED <<sock, up, sent>>
    <3>1. ~Connecting(c) /\ pc' = pc /\ UNCHANGED <<tried, down, con>>
      <4>1. CASE Logs(c)
        BY <4>1, <2>3 DEF Logs, Held
      <4>2. CASE Locks(c) BY <4>2 DEF Locks, Held
      <4>3. CASE Spins(c) BY <4>3, <1>0 DEF Spins, Excludes
      <4> QED BY <1>2, <2>3, <4>1, <4>2, <4>3
    <3> QED BY <1>1, <2>3, <3>1, Spoken
  <2> QED BY <1>2, <2>1, <2>2, <2>3 DEF Logs, Locks, Spins, SendsOrSpins
<1>3. CASE Dies(c) BY <1>0, <1>1, <1>3, Quiet DEF Dies
<1>4. CASE d # c /\ Client(c) /\ ~Locks(c) /\ ~Spins(c) /\ ~Throws(c)
  <2>1. pc'[d] = pc[d] /\ tried'[d] = tried[d] /\ sock'[d] = sock[d] /\ sent'[d] = sent[d]
        /\ up'[d] = up[d] /\ down'[d] = down[d] /\ con'[d] = con[d]
    BY <1>0, <1>4, SMTT(20) DEF Client, Connect, Greeted, Confirmed, TimesOut, SeesEnd, Goto, Types, TypeOK
  <2> QED BY <1>0, <1>1, <2>1, Quiet
<1>5. CASE d = c /\ Client(c) /\ ~Locks(c) /\ ~Spins(c) /\ ~Throws(c)
  <2>0. /\ pc \in [Clients -> {"idle", "hello", "ok", "throw", "dead", "closing"}]
        /\ tried \in [Clients -> BOOLEAN] /\ sock \in [Clients -> BOOLEAN]
        /\ con \in [Clients -> {"none", "backlog", "open", "closed"}]
        /\ up \in [Clients -> Seq(Nat)] /\ down \in [Clients -> Seq({"hello", "ok"})]
        /\ sent[c] \in Nat
    BY <1>0 DEF Types, TypeOK
  <2>q. /\ Begins(c) /\ Shakes(c) /\ Numbered(c) /\ Ordered(c) BY <1>0 DEF ClientInv
  <2>s. ASSUME up'[c] = up[c]
        PROVE  \A n : Coming(c, n)' <=> Coming(c, n)
    BY <1>1, <2>s DEF Coming, From, Of
  <2>o. ASSUME up'[c] = up[c]
        PROVE  Ordered(c)'
    BY <1>1, <2>q, <2>o DEF Ordered, From, Of
  <2>n. ASSUME up'[c] = up[c], sent'[c] = sent[c],
               sent[c] > 0 => pc'[c] = "dead" \/ pc'[c] = pc[c]
        PROVE  Numbered(c)'
    BY <1>1, <2>0, <2>q, <2>n, <2>s DEF Numbered, Mistaken, Handled
  <2>1. CASE Connect(c) /\ tried[c]
    <3>1. UNCHANGED <<pc, sock, con, sent, up, down>> /\ tried' = tried
      BY <2>0, <2>1 DEF Connect
    <3> QED BY <1>0, <1>1, <1>5, <3>1, Quiet
  <2>2. CASE Connect(c) /\ ~tried[c] /\ ServerThere
    <3>1. /\ pc[c] = "idle" /\ pc'[c] = "hello" /\ tried'[c] /\ sock'[c] /\ con'[c] = "backlog"
          /\ UNCHANGED <<sent, up, down>>
      BY <2>0, <2>2 DEF Connect, Goto
    <3>2. /\ con[c] = "none" /\ sent[c] = 0 /\ up[c] = <<>> /\ ~known[c] /\ down[c] = <<>>
          /\ \A i \in DOMAIN events : ~Of(c, i)
      BY <2>2, <2>q DEF Begins
    <3>3. Begins(c)' BY <1>1, <3>1, <3>2 DEF Begins, From, Of
    <3>4. Shakes(c)' BY <1>1, <3>1, <3>2 DEF Shakes, Connecting, From, Of, Mistaken
    <3>5. Numbered(c)' BY <2>0, <2>n, <3>1, <3>2
    <3> QED BY <1>5, <2>o, <3>1, <3>3, <3>4, <3>5 DEF ClientInv
  <2>3. CASE Connect(c) /\ ~tried[c] /\ ~ServerThere
    <3>1. /\ pc[c] = "idle" /\ pc'[c] = "dead" /\ tried'[c]
          /\ UNCHANGED <<sock, con, sent, up, down>>
      BY <2>0, <2>3 DEF Connect, Goto
    <3>3. Begins(c)' BY <1>1, <2>q, <3>1 DEF Begins, From, Of, Connecting
    <3>4. Shakes(c)' BY <1>1, <2>q, <3>1 DEF Shakes, Connecting, Mistaken
    <3>5. Numbered(c)' BY <2>n, <3>1
    <3> QED BY <1>5, <2>o, <3>1, <3>3, <3>4, <3>5 DEF ClientInv
  <2>4. CASE Greeted(c)
    <3>1. /\ pc[c] = "hello" /\ down[c] # <<>> /\ down'[c] = Tail(down[c])
          /\ up'[c] = Append(up[c], Ident) /\ pc'[c] = "ok"
          /\ UNCHANGED <<tried, sock, sent, con>>
      BY <2>0, <2>4 DEF Greeted, Goto
    <3>2. /\ up[c] = <<>> /\ ~known[c] /\ Len(down[c]) <= 1 /\ sent[c] = 0 /\ Mistaken(c) = 0
          /\ \A i \in DOMAIN events : ~From(c, "RECEIVE", i)
      BY <2>q, <3>1 DEF Shakes, Connecting, Mistaken
    <3>3. down'[c] = <<>>
      <4>1. down[c] \in Seq({"hello", "ok"}) BY <2>0
      <4> QED BY <3>1, <3>2, <4>1
    <3>4. DOMAIN up'[c] = {1} /\ up'[c][1] = Ident BY <3>1, <3>2
    <3>5. Coming(c, Ident)' BY <3>4 DEF Coming
    <3>6. \A n : n # Ident => (Coming(c, n)' <=> Coming(c, n))
      <4>1. \A n : Coming(c, n) <=> \E i \in DOMAIN events : From(c, "RECEIVE", i) /\ events[i].p = n
        BY <3>2 DEF Coming
      <4>2. \A n : n # Ident => (Coming(c, n)' <=>
               \E i \in DOMAIN events : From(c, "RECEIVE", i) /\ events[i].p = n)
        BY <1>1, <3>4 DEF Coming, From, Of
      <4> QED BY <4>1, <4>2
    <3>7. Begins(c)'
      <4>1. con[c] \notin {"none", "backlog"} /\ tried[c] BY <2>q, <3>1 DEF Begins
      <4>2. \A i \in DOMAIN events : ~From(c, "CONNECT", i) BY <2>q, <3>1 DEF Begins
      <4> QED BY <1>1, <3>1, <4>1, <4>2 DEF Begins, From, Of
    <3>8. Shakes(c)' BY <1>1, <2>q, <3>1, <3>2, <3>3, <3>5 DEF Shakes, Connecting, Mistaken
    <3>9. Numbered(c)' BY <1>1, <2>q, <3>1, <3>2, <3>5, <3>6 DEF Numbered, Mistaken, Handled
    <3>10. Ordered(c)' BY <1>1, <3>2, <3>4 DEF Ordered, From, Of
    <3> QED BY <1>5, <3>7, <3>8, <3>9, <3>10 DEF ClientInv
  <2>5. CASE Confirmed(c)
    <3>1. /\ pc[c] = "ok" /\ down[c] # <<>> /\ pc'[c] = "idle"
          /\ UNCHANGED <<tried, sock, sent, con, up>>
      BY <2>0, <2>5 DEF Confirmed, Goto
    <3>2. known[c] /\ name[c] /\ sent[c] = 0 BY <2>q, <3>1 DEF Shakes, Connecting
    <3>3. Begins(c)' BY <1>1, <2>q, <3>1, <3>2 DEF Begins, From, Of, Connecting
    <3>4. Shakes(c)' BY <1>1, <2>q, <3>1, <3>2 DEF Shakes, Connecting, Mistaken
    <3>5. Numbered(c)' BY <2>0, <2>n, <3>1, <3>2
    <3> QED BY <1>5, <2>o, <3>1, <3>3, <3>4, <3>5 DEF ClientInv
  <2>6. CASE TimesOut(c) \/ SeesEnd(c)
    <3>1. /\ pc[c] \in {"hello", "ok"} /\ pc'[c] \in {"throw", "dead"}
          /\ UNCHANGED <<tried, sock, sent, con, up, down>>
      BY <2>0, <2>6 DEF TimesOut, SeesEnd, Goto
    <3>2. sent[c] = 0 /\ Mistaken(c) # 1 BY <2>q, <3>1 DEF Shakes, Connecting
    <3>3. Begins(c)' BY <1>1, <2>q, <3>1, <3>2 DEF Begins, From, Of, Connecting
    <3>4. Shakes(c)' BY <1>1, <2>q, <3>1, <3>2 DEF Shakes, Connecting, Mistaken
    <3>5. Numbered(c)' BY <2>0, <2>n, <3>1, <3>2
    <3> QED BY <1>5, <2>o, <3>1, <3>3, <3>4, <3>5 DEF ClientInv
  <2> QED BY <1>5, <2>1, <2>2, <2>3, <2>4, <2>5, <2>6 DEF Client
<1> QED BY <1>2, <1>3, <1>4, <1>5

LEMMA ForwardingNext ==
  ASSUME IInv, Forwarding, NEW d \in Clients
  PROVE  ClientInv(d)'
<1>0. Types /\ ClientInv(d) /\ Own \in Clients BY DEF IInv
<1>1. CASE Initialise \/ Reset BY <1>0, <1>1, Quiet DEF Initialise, Reset, Up
<1>2. CASE Exits BY <1>0, <1>2, Quiet DEF Exits, Up
<1>3. CASE Terminate
  <2>1. /\ \A c \in Clients \ {Own} : pc'[c] = pc[c]
        /\ pc[Own] = "idle" /\ pc'[Own] = "closing"
        /\ UNCHANGED <<tried, sock, sent, up, down, con, known, name, events, logpc, lines>>
    BY <1>0, <1>3 DEF Terminate, Obeys, Goto, Types, TypeOK
  <2>2. CASE d # Own BY <1>0, <2>1, <2>2, Quiet DEF Up
  <2>3. CASE d = Own
    <3>1. \A n : Coming(d, n)' <=> Coming(d, n) BY <2>1 DEF Coming, From, Of
    <3>2. Begins(d)' BY <1>0, <2>1, <2>3 DEF ClientInv, Begins, From, Of, Connecting
    <3>3. Shakes(d)' BY <1>0, <2>1, <2>3 DEF ClientInv, Shakes, Connecting, Mistaken
    <3>4. Numbered(d)' BY <1>0, <2>1, <2>3, <3>1 DEF ClientInv, Numbered, Mistaken, Handled, Up
    <3>5. Ordered(d)' BY <1>0, <2>1 DEF ClientInv, Ordered, From, Of, Up
    <3> QED BY <3>2, <3>3, <3>4, <3>5 DEF ClientInv
  <2> QED BY <2>2, <2>3
<1> QED BY <1>1, <1>2, <1>3 DEF Forwarding
-----------------------------------------------------------------------------
(***************************************************************************)
(* Every step of the LogThread does.                                       *)
(***************************************************************************)
LEMMA AppendEvent ==
  ASSUME Types, NEW c \in Clients, NEW t \in {"CONNECT", "DISCONNECT"},
         events' = Append(events, Event(t, c, 0))
  PROVE  /\ Len(events) \in Nat /\ DOMAIN events = 1 .. Len(events)
         /\ DOMAIN events' = 1 .. Len(events) + 1
         /\ \A i \in DOMAIN events : i \in DOMAIN events' /\ events'[i] = events[i]
         /\ events'[Len(events) + 1] = Event(t, c, 0)
         /\ \A d \in Clients \ {c} : /\ \A i \in Nat : Of(d, i)' <=> Of(d, i + 0)
                                     /\ \A i \in Nat : Of(d, i) => i > 0
                                     /\ \A i \in Nat : Of(d, i)' => events'[i] = events[i + 0]
<1>1. events \in Seq(EventType) /\ Event(t, c, 0) \in EventType
  BY EventsAre DEF Event, EventType
<1> HIDE DEF EventType
<1>2. /\ Len(events) \in Nat /\ DOMAIN events = 1 .. Len(events)
      /\ DOMAIN events' = 1 .. Len(events) + 1
      /\ \A i \in DOMAIN events : i \in DOMAIN events' /\ events'[i] = events[i]
      /\ events'[Len(events) + 1] = Event(t, c, 0)
  BY <1>1
<1>3. ASSUME NEW d \in Clients \ {c}
      PROVE  /\ \A i \in Nat : Of(d, i)' <=> Of(d, i + 0)
             /\ \A i \in Nat : Of(d, i) => i > 0
             /\ \A i \in Nat : Of(d, i)' => events'[i] = events[i + 0]
  <2>1. \A i \in Nat : i + 0 = i OBVIOUS
  <2>2. events'[Len(events) + 1].c # d BY <1>2, <1>3 DEF Event
  <2>3. \A i \in DOMAIN events' : i \in DOMAIN events \/ i = Len(events) + 1 BY <1>2
  <2> QED BY <1>2, <2>1, <2>2, <2>3 DEF Of
<1> QED BY <1>2, <1>3

LEMMA AcceptNext ==
  ASSUME IInv, NEW c \in Clients, Accept(c), NEW d \in Clients
  PROVE  ClientInv(d)'
<1>0. Types /\ ClientInv(d) BY DEF IInv
<1>1. /\ con[c] = "backlog" /\ con' = [con EXCEPT ![c] = "open"]
      /\ events' = Append(events, Event("CONNECT", c, 0))
      /\ (Up' <=> Up) /\ UNCHANGED <<pc, tried, sock, sent, up, down, known, name, lines>>
  BY DEF Accept, Up
<1>2. con \in [Clients -> {"none", "backlog", "open", "closed"}] BY <1>0 DEF Types, TypeOK
<1> DEFINE n == Len(events) + 1
<1>3. /\ Len(events) \in Nat /\ DOMAIN events = 1 .. Len(events) /\ DOMAIN events' = 1 .. n
      /\ \A i \in DOMAIN events : i \in DOMAIN events' /\ events'[i] = events[i]
      /\ events'[n] = Event("CONNECT", c, 0)
  BY <1>0, <1>1, AppendEvent
<1>4. CASE d # c
  <2>1. DOMAIN events' \subseteq Nat BY <1>3
  <2>2. con'[d] = con[d] BY <1>1, <1>2, <1>4
  <2>3. /\ \A i \in Nat : Of(d, i)' <=> Of(d, i + 0)
        /\ \A i \in Nat : Of(d, i) => i > 0
        /\ \A i \in Nat : Of(d, i)' => events'[i] = events[i + 0]
    BY <1>0, <1>1, <1>4, AppendEvent
  <2> QED BY <1>0, <1>1, <2>1, <2>2, <2>3, Untouched
<1>5. CASE d = c
  <2>1. /\ con'[c] = "open" /\ ~known[c] /\ down[c] = <<>> /\ pc[c] # "ok" /\ tried[c]
        /\ \A i \in DOMAIN events : ~Of(c, i)
    BY <1>0, <1>1, <1>2, <1>5 DEF ClientInv, Begins
  <2>2. \A i \in DOMAIN events' : i \in DOMAIN events \/ i = n BY <1>3
  <2>3. \A i \in DOMAIN events' : Of(c, i)' => i = n BY <1>3, <2>1, <2>2 DEF Of
  <2>4. \A i \in DOMAIN events' : ~From(c, "RECEIVE", i)' BY <1>3, <2>3 DEF From, Event
  <2>5. \A i \in DOMAIN events : ~From(c, "RECEIVE", i) BY <2>1 DEF From
  <2>6. \A k : Coming(c, k)' <=> Coming(c, k) BY <1>1, <2>4, <2>5 DEF Coming
  <2>7. Begins(c)' BY <1>0, <1>1, <1>3, <1>5, <2>1, <2>3 DEF ClientInv, Begins, Connecting
  <2>8. Shakes(c)' BY <1>0, <1>1, <1>5, <2>1, <2>4, <2>6 DEF ClientInv, Shakes, Connecting, Mistaken
  <2>9. Numbered(c)' BY <1>0, <1>1, <1>5, <2>6 DEF ClientInv, Numbered, Mistaken, Handled
  <2>10. Ordered(c)' BY <1>0, <1>1, <1>5, <2>4 DEF ClientInv, Ordered
  <2> QED BY <1>5, <2>7, <2>8, <2>9, <2>10 DEF ClientInv
<1> QED BY <1>4, <1>5

\* What a read adds to the queue: the packets of the connection, in order.
LEMMA ConcatEvents ==
  ASSUME Types, NEW c \in Clients,
         events' = events \o [i \in DOMAIN up[c] |-> Event("RECEIVE", c, up[c][i])]
  PROVE  /\ Len(events) \in Nat /\ DOMAIN events = 1 .. Len(events)
         /\ Len(up[c]) \in Nat /\ DOMAIN up[c] = 1 .. Len(up[c])
         /\ DOMAIN events' = 1 .. Len(events) + Len(up[c])
         /\ \A i \in DOMAIN events : i \in DOMAIN events' /\ events'[i] = events[i]
         /\ \A j \in DOMAIN up[c] : /\ Len(events) + j \in DOMAIN events'
                                    /\ events'[Len(events) + j] = Event("RECEIVE", c, up[c][j])
         /\ \A i \in DOMAIN events' : \/ i \in DOMAIN events
                                      \/ /\ i - Len(events) \in DOMAIN up[c]
                                         /\ Len(events) + (i - Len(events)) = i
<1> DEFINE new == [i \in DOMAIN up[c] |-> Event("RECEIVE", c, up[c][i])]
<1>1. /\ Len(up[c]) \in Nat /\ DOMAIN up[c] = 1 .. Len(up[c]) /\ events \in Seq(EventType)
  BY UpIs, EventsAre
<1>2. \A i \in DOMAIN up[c] : Event("RECEIVE", c, up[c][i]) \in EventType
  BY UpIs DEF Event, EventType
<1> HIDE DEF EventType
<1>3. new \in [1 .. Len(up[c]) -> EventType] BY <1>1, <1>2
<1>4. \A i \in DOMAIN up[c] : new[i] = Event("RECEIVE", c, up[c][i]) OBVIOUS
<1>5. events' = events \o new OBVIOUS
<1> HIDE DEF new
<1>6. new \in Seq(EventType) /\ Len(new) = Len(up[c])
  <2> DEFINE m == Len(up[c])
  <2>1. m \in Nat /\ new \in [1 .. m -> EventType] BY <1>1, <1>3
  <2> HIDE DEF m
  <2>2. new \in Seq(EventType) /\ DOMAIN new = 1 .. m BY <2>1
  <2> QED BY <2>1, <2>2 DEF m
<1>7. /\ DOMAIN events' = 1 .. Len(events) + Len(up[c]) /\ Len(events) \in Nat
      /\ DOMAIN events = 1 .. Len(events)
      /\ \A i \in 1 .. Len(events) : events'[i] = events[i]
      /\ \A j \in 1 .. Len(up[c]) : events'[Len(events) + j] = new[j]
  BY <1>1, <1>5, <1>6
<1>8. \A i \in 1 .. Len(events) + Len(up[c]) :
         \/ i \in 1 .. Len(events)
         \/ i - Len(events) \in 1 .. Len(up[c]) /\ Len(events) + (i - Len(events)) = i
  BY <1>1, <1>7
<1>9. \A j \in 1 .. Len(up[c]) : Len(events) + j \in 1 .. Len(events) + Len(up[c])
  BY <1>1, <1>7
<1> QED BY <1>1, <1>4, <1>7, <1>8, <1>9

LEMMA RecvNext ==
  ASSUME IInv, NEW c \in Clients, Recv(c), NEW d \in Clients
  PROVE  ClientInv(d)'
<1>0. Types /\ ClientInv(d) BY DEF IInv
<1>1. /\ con[c] = "open" /\ (Up' <=> Up)
      /\ UNCHANGED <<pc, tried, sock, sent, down, known, name, lines>>
  BY DEF Recv, Up
<1>2. /\ con \in [Clients -> {"none", "backlog", "open", "closed"}] /\ up \in [Clients -> Seq(Nat)]
  BY <1>0 DEF Types, TypeOK
<1>3. CASE /\ up[c] # <<>> /\ up' = [up EXCEPT ![c] = <<>>] /\ UNCHANGED con
           /\ events' = events \o [i \in DOMAIN up[c] |-> Event("RECEIVE", c, up[c][i])]
  <2>0. PICK n : n = Len(events) OBVIOUS
  <2>1. /\ n \in Nat /\ DOMAIN events = 1 .. n
        /\ Len(up[c]) \in Nat /\ DOMAIN up[c] = 1 .. Len(up[c])
        /\ DOMAIN events' = 1 .. n + Len(up[c])
        /\ \A i \in DOMAIN events : i \in DOMAIN events' /\ events'[i] = events[i]
        /\ \A j \in DOMAIN up[c] : /\ n + j \in DOMAIN events'
                                   /\ events'[n + j] = Event("RECEIVE", c, up[c][j])
        /\ \A i \in DOMAIN events' : \/ i \in DOMAIN events
                                     \/ i - n \in DOMAIN up[c] /\ n + (i - n) = i
    BY <1>0, <1>3, <2>0, ConcatEvents
  <2>2. CASE d # c
    <3>1. DOMAIN events' \subseteq Nat BY <2>1
    <3>2. con'[d] = con[d] /\ up'[d] = up[d] BY <1>2, <1>3, <2>2
    <3>3. \A i \in Nat : i + 0 = i OBVIOUS
    <3>4. \A i \in DOMAIN events' : i \in DOMAIN events \/ events'[i].c # d
      <4>1. \A p : Event("RECEIVE", c, p).c = c BY DEF Event
      <4>2. \A j \in DOMAIN up[c] : events'[n + j].c = c BY <2>1, <4>1
      <4> QED BY <2>1, <2>2, <4>2
    <3>5. /\ \A i \in Nat : Of(d, i)' <=> Of(d, i + 0)
          /\ \A i \in Nat : Of(d, i) => i > 0
          /\ \A i \in Nat : Of(d, i)' => events'[i] = events[i + 0]
      BY <2>1, <3>3, <3>4 DEF Of
    <3> QED BY <1>0, <1>1, <3>1, <3>2, <3>5, Untouched
  <2>3. CASE d = c
    <3>0. up'[c] = <<>> /\ DOMAIN up'[c] = {} BY <1>2, <1>3
    <3>a. \A j \in DOMAIN up[c] : /\ n + j \in DOMAIN events' /\ events'[n + j].c = c
                                  /\ events'[n + j].t = "RECEIVE" /\ events'[n + j].p = up[c][j]
      <4>1. \A p : Event("RECEIVE", c, p).c = c /\ Event("RECEIVE", c, p).t = "RECEIVE"
                   /\ Event("RECEIVE", c, p).p = p
        BY DEF Event
      <4> QED BY <2>1, <4>1
    <3>1. \A i \in DOMAIN events' : i \in DOMAIN events \/ From(c, "RECEIVE", i)'
      <4>1. \A i \in DOMAIN events' : i \in DOMAIN events
              \/ (events'[i].c = c /\ events'[i].t = "RECEIVE")
        BY <2>1, <3>a
      <4> QED BY <4>1 DEF From, Of
    <3>2. \A i \in DOMAIN events : \A t : From(c, t, i)' <=> From(c, t, i)
      BY <2>1 DEF From, Of
    <3>3. \A j \in DOMAIN up[c] : n + j \in DOMAIN events' /\ From(c, "RECEIVE", n + j)'
                                  /\ events'[n + j].p = up[c][j]
      BY <3>a DEF From, Of
    <3>4. \A i \in DOMAIN events' : i \in DOMAIN events
            \/ (i - n \in DOMAIN up[c] /\ events'[i].p = up[c][i - n])
      BY <2>1, <3>3
    <3>5. \A k : Coming(c, k)' <=> Coming(c, k)
      <4> SUFFICES ASSUME NEW k PROVE Coming(c, k)' <=> Coming(c, k) OBVIOUS
      <4>1. Coming(c, k)' => Coming(c, k)
        BY <2>1, <3>0, <3>2, <3>4 DEF Coming
      <4>2. Coming(c, k) => Coming(c, k)'
        <5>1. ASSUME NEW i \in DOMAIN events, From(c, "RECEIVE", i), events[i].p = k
              PROVE  i \in DOMAIN events' /\ From(c, "RECEIVE", i)' /\ events'[i].p = k
          BY <2>1, <3>2, <5>1
        <5>2. ASSUME NEW j \in DOMAIN up[c], up[c][j] = k
              PROVE  n + j \in DOMAIN events' /\ From(c, "RECEIVE", n + j)' /\ events'[n + j].p = k
          BY <3>3, <5>2
        <5> QED BY <5>1, <5>2 DEF Coming
      <4> QED BY <4>1, <4>2
    <3>6. pc[c] # "hello" BY <1>0, <1>3, <2>3 DEF ClientInv, Shakes
    <3>7. \A i \in DOMAIN events' : From(c, "CONNECT", i)' =>
             i \in DOMAIN events /\ From(c, "CONNECT", i)
      BY <3>1, <3>2 DEF From
    <3>8. Begins(c)'
      <4>1. ASSUME NEW i \in DOMAIN events', From(c, "CONNECT", i)'
            PROVE  /\ ~known[c] /\ down[c] = <<>> /\ pc[c] # "ok"
                   /\ \A j \in DOMAIN events' : Of(c, j)' => i <= j
        <5>1. /\ ~known[c] /\ down[c] = <<>> /\ pc[c] # "ok" /\ i \in DOMAIN events
              /\ \A j \in DOMAIN events : Of(c, j) => i <= j
          BY <1>0, <2>3, <3>7, <4>1 DEF ClientInv, Begins
        <5>2. \A j \in DOMAIN events' : j \in DOMAIN events \/ j > n BY <2>1
        <5>3. \A j \in DOMAIN events : Of(c, j)' => Of(c, j) BY <2>1 DEF Of
        <5> QED BY <2>1, <5>1, <5>2, <5>3
      <4>2. con'[c] = "open" /\ tried[c] BY <1>0, <1>1, <1>3, <2>3 DEF ClientInv, Begins
      <4> QED BY <1>1, <4>1, <4>2 DEF Begins
    <3>9. Shakes(c)' BY <1>0, <1>1, <2>3, <3>5, <3>6 DEF ClientInv, Shakes, Connecting, Mistaken
    <3>10. Numbered(c)' BY <1>0, <1>1, <2>3, <3>5 DEF ClientInv, Numbered, Mistaken, Handled
    <3>11. Ordered(c)'
      <4> SUFFICES ASSUME Up PROVE Ordered(c)' BY <1>1 DEF Ordered
      <4>1. ASSUME NEW i \in DOMAIN events', NEW j \in DOMAIN events', i < j,
                   From(c, "RECEIVE", i)', From(c, "RECEIVE", j)'
            PROVE  events'[i].p < events'[j].p
        <5>1. CASE j \in DOMAIN events
          <6>1. i \in DOMAIN events BY <2>1, <4>1, <5>1
          <6> QED BY <1>0, <2>1, <2>3, <3>2, <4>1, <5>1, <6>1 DEF ClientInv, Ordered
        <5>2. CASE i \in DOMAIN events /\ j \notin DOMAIN events
          <6>1. j - n \in DOMAIN up[c] /\ events'[j].p = up[c][j - n] BY <3>4, <5>2
          <6>2. events'[i].p = events[i].p /\ From(c, "RECEIVE", i) BY <2>1, <3>2, <4>1, <5>2
          <6> QED BY <1>0, <2>3, <5>2, <6>1, <6>2 DEF ClientInv, Ordered
        <5>3. CASE i \notin DOMAIN events /\ j \notin DOMAIN events
          <6>1. j - n \in DOMAIN up[c] /\ events'[j].p = up[c][j - n] BY <3>4, <5>3
          <6>2. i - n \in DOMAIN up[c] /\ events'[i].p = up[c][i - n] BY <3>4, <5>3
          <6>3. i - n < j - n BY <2>1, <4>1
          <6> QED BY <1>0, <2>3, <6>1, <6>2, <6>3 DEF ClientInv, Ordered
        <5> QED BY <5>1, <5>2, <5>3
      <4> QED BY <3>0, <4>1 DEF Ordered
    <3> QED BY <2>3, <3>8, <3>9, <3>10, <3>11 DEF ClientInv
  <2> QED BY <2>2, <2>3
<1>4. CASE /\ up[c] = <<>> /\ UNCHANGED up /\ con' = [con EXCEPT ![c] = "closed"]
           /\ events' = Append(events, Event("DISCONNECT", c, 0))
  <2> DEFINE n == Len(events) + 1
  <2>1. /\ Len(events) \in Nat /\ DOMAIN events = 1 .. Len(events) /\ DOMAIN events' = 1 .. n
        /\ \A i \in DOMAIN events : i \in DOMAIN events' /\ events'[i] = events[i]
        /\ events'[n] = Event("DISCONNECT", c, 0)
    BY <1>0, <1>4, AppendEvent
  <2>2. CASE d # c
    <3>1. DOMAIN events' \subseteq Nat BY <2>1
    <3>2. con'[d] = con[d] BY <1>2, <1>4, <2>2
    <3>3. /\ \A i \in Nat : Of(d, i)' <=> Of(d, i + 0)
          /\ \A i \in Nat : Of(d, i) => i > 0
          /\ \A i \in Nat : Of(d, i)' => events'[i] = events[i + 0]
      BY <1>0, <1>4, <2>2, AppendEvent
    <3> QED BY <1>0, <1>1, <1>4, <3>1, <3>2, <3>3, Untouched
  <2>3. CASE d = c
    <3>1. \A i \in DOMAIN events' : i \in DOMAIN events \/ i = n BY <2>1
    <3>2. \A t \in {"CONNECT", "RECEIVE"} : \A i \in DOMAIN events' :
             From(c, t, i)' => i \in DOMAIN events /\ From(c, t, i)
      BY <2>1, <3>1 DEF From, Of, Event
    <3>3. \A t : \A i \in DOMAIN events : From(c, t, i)' <=> From(c, t, i)
      BY <2>1 DEF From, Of
    <3>4. \A k : Coming(c, k)' <=> Coming(c, k)
      BY <1>4, <2>1, <3>2, <3>3 DEF Coming
    <3>5. Begins(c)'
      <4>1. ASSUME NEW i \in DOMAIN events', From(c, "CONNECT", i)'
            PROVE  /\ ~known[c] /\ down[c] = <<>> /\ pc[c] # "ok"
                   /\ \A j \in DOMAIN events' : Of(c, j)' => i <= j
        <5>1. i \in DOMAIN events /\ From(c, "CONNECT", i) BY <3>2, <4>1
        <5>2. /\ ~known[c] /\ down[c] = <<>> /\ pc[c] # "ok"
              /\ \A j \in DOMAIN events : Of(c, j) => i <= j
          BY <1>0, <2>3, <5>1 DEF ClientInv, Begins
        <5>3. \A j \in DOMAIN events : Of(c, j)' => Of(c, j) BY <2>1 DEF Of
        <5>4. i <= n BY <2>1
        <5> QED BY <3>1, <5>2, <5>3, <5>4
      <4>2. con'[c] = "closed" /\ tried[c] BY <1>0, <1>1, <1>2, <1>4, <2>3 DEF ClientInv, Begins
      <4> QED BY <1>1, <4>1, <4>2 DEF Begins
    <3>6. Shakes(c)'
      BY <1>0, <1>1, <1>4, <2>3, <3>2, <3>4 DEF ClientInv, Shakes, Connecting, Mistaken
    <3>7. Numbered(c)' BY <1>0, <1>1, <2>3, <3>4 DEF ClientInv, Numbered, Mistaken, Handled
    <3>8. Ordered(c)' BY <1>0, <1>1, <1>4, <2>1, <2>3, <3>2 DEF ClientInv, Ordered
    <3> QED BY <2>3, <3>5, <3>6, <3>7, <3>8 DEF ClientInv
  <2> QED BY <2>2, <2>3
<1> QED BY <1>3, <1>4 DEF Recv

\* The event at the head of the queue goes.
LEMMA TailEvents ==
  ASSUME Types, events # <<>>, events' = Tail(events)
  PROVE  /\ Len(events) \in Nat /\ DOMAIN events = 1 .. Len(events) /\ 1 \in DOMAIN events
         /\ Head(events) = events[1] /\ events[1] \in EventType /\ DOMAIN events' \subseteq Nat
         /\ \A i \in Nat : i \in DOMAIN events' <=> i + 1 \in DOMAIN events /\ i # 0
         /\ \A i \in DOMAIN events' : events'[i] = events[i + 1]
         /\ \A i \in DOMAIN events : i # 1 => i - 1 \in DOMAIN events' /\ (i - 1) + 1 = i
<1>1. events \in Seq(EventType) BY EventsAre
<1> HIDE DEF EventType
<1>2. /\ Len(events) \in Nat \ {0} /\ DOMAIN events = 1 .. Len(events)
      /\ DOMAIN events' = 1 .. Len(events) - 1 /\ Head(events) = events[1]
      /\ events[1] \in EventType
      /\ \A i \in 1 .. Len(events) - 1 : events'[i] = events[i + 1]
  BY <1>1
<1>3. \A i \in Nat : i \in 1 .. Len(events) - 1 <=> i + 1 \in 1 .. Len(events) /\ i # 0
  BY <1>2
<1>4. \A i \in 1 .. Len(events) : i # 1 => i - 1 \in 1 .. Len(events) - 1 /\ (i - 1) + 1 = i
  BY <1>2
<1> QED BY <1>2, <1>3, <1>4

\* What that means for its client: nothing of the connection is before it.
LEMMA HeadOf ==
  ASSUME IInv, Up, NEW c \in Clients, events # <<>>, events' = Tail(events), up' = up,
         Head(events).c = c
  PROVE  /\ con[c] \in {"open", "closed"} /\ tried[c]
         /\ \A i \in DOMAIN events' : ~From(c, "CONNECT", i)'
         /\ (\A i \in DOMAIN events : ~From(c, "RECEIVE", i))
               => \A i \in DOMAIN events' : ~From(c, "RECEIVE", i)'
         /\ Ordered(c)'
         /\ Head(events).t = "CONNECT" =>
              ~known[c] /\ down[c] = <<>> /\ pc[c] # "ok"
         /\ Head(events).t # "RECEIVE" => \A n : Coming(c, n)' <=> Coming(c, n)
         /\ Head(events).t = "RECEIVE" =>
              /\ pc[c] # "hello" /\ Coming(c, Head(events).p)
              /\ \A n : Coming(c, n)' <=> Coming(c, n) /\ n # Head(events).p
              /\ \A n : Coming(c, n) /\ n # Head(events).p => Head(events).p < n
<1>0. /\ Types /\ Begins(c) /\ Shakes(c) /\ Ordered(c) BY DEF IInv, ClientInv
<1>1. /\ DOMAIN events \subseteq Nat /\ 1 \in DOMAIN events
      /\ Head(events) = events[1] /\ events[1] \in EventType /\ DOMAIN events' \subseteq Nat
      /\ \A i \in DOMAIN events' : i + 1 \in DOMAIN events /\ i + 1 > 1 /\ events'[i] = events[i + 1]
      /\ \A i \in DOMAIN events : i >= 1
      /\ \A i \in DOMAIN events : i # 1 => i - 1 \in DOMAIN events' /\ (i - 1) + 1 = i
  BY <1>0, TailEvents
<1>2. Of(c, 1) /\ \A t : Head(events).t = t => From(c, t, 1) BY <1>1 DEF Of, From
<1>3. \A t : \A i \in DOMAIN events' : From(c, t, i)' <=> From(c, t, i + 1)
  BY <1>1 DEF From, Of
<1>4. con[c] \in {"open", "closed"} /\ tried[c]
  BY <1>0, <1>1, <1>2 DEF Begins, Types, TypeOK
<1>5. \A i \in DOMAIN events' : ~From(c, "CONNECT", i)'
  <2> SUFFICES ASSUME NEW i \in DOMAIN events', From(c, "CONNECT", i)' PROVE FALSE OBVIOUS
  <2>1. From(c, "CONNECT", i + 1) /\ i + 1 \in DOMAIN events BY <1>1, <1>3
  <2>2. i + 1 <= 1 BY <1>0, <1>1, <1>2, <2>1 DEF Begins
  <2> QED BY <1>1, <2>2
<1>6. (\A i \in DOMAIN events : ~From(c, "RECEIVE", i))
         => \A i \in DOMAIN events' : ~From(c, "RECEIVE", i)'
  BY <1>1, <1>3
<1>7. Ordered(c)'
  <2> SUFFICES ASSUME Up PROVE Ordered(c)' BY DEF Ordered
  <2>1. ASSUME NEW i \in DOMAIN events', NEW j \in DOMAIN events', i < j,
               From(c, "RECEIVE", i)', From(c, "RECEIVE", j)'
        PROVE  events'[i].p < events'[j].p
    <3>1. i + 1 < j + 1 BY <1>1, <2>1
    <3> QED BY <1>0, <1>1, <1>3, <2>1, <3>1 DEF Ordered
  <2>2. ASSUME NEW i \in DOMAIN events', NEW j \in DOMAIN up[c], From(c, "RECEIVE", i)'
        PROVE  events'[i].p < up[c][j]
    BY <1>0, <1>1, <1>3, <2>2 DEF Ordered
  <2>3. \A i, j \in DOMAIN up[c] : i < j => up[c][i] < up[c][j] BY <1>0 DEF Ordered
  <2> QED BY <2>1, <2>2, <2>3 DEF Ordered
<1>8. Head(events).t = "CONNECT" => ~known[c] /\ down[c] = <<>> /\ pc[c] # "ok"
  BY <1>0, <1>1, <1>2 DEF Begins
<1>9. ASSUME NEW n, Coming(c, n)' PROVE Coming(c, n)
  <2>1. ASSUME NEW i \in DOMAIN events', From(c, "RECEIVE", i)', events'[i].p = n
        PROVE  Coming(c, n)
    BY <1>1, <1>3, <2>1 DEF Coming
  <2> QED BY <1>9, <2>1 DEF Coming
<1>10. ASSUME NEW n, Coming(c, n), ~(From(c, "RECEIVE", 1) /\ events[1].p = n)
       PROVE  Coming(c, n)'
  <2>1. ASSUME NEW i \in DOMAIN events, From(c, "RECEIVE", i), events[i].p = n
        PROVE  Coming(c, n)'
    <3>1. i - 1 \in DOMAIN events' /\ (i - 1) + 1 = i BY <1>1, <1>10, <2>1
    <3>2. From(c, "RECEIVE", i - 1)' /\ events'[i - 1].p = n BY <1>1, <1>3, <2>1, <3>1
    <3> QED BY <3>1, <3>2 DEF Coming
  <2> QED BY <1>10, <2>1 DEF Coming
<1>11. Head(events).t # "RECEIVE" => \A n : Coming(c, n)' <=> Coming(c, n)
  BY <1>1, <1>9, <1>10 DEF From
<1>12. ASSUME Head(events).t = "RECEIVE"
       PROVE  /\ pc[c] # "hello" /\ Coming(c, Head(events).p)
              /\ \A n : Coming(c, n)' <=> Coming(c, n) /\ n # Head(events).p
              /\ \A n : Coming(c, n) /\ n # Head(events).p => Head(events).p < n
  <2>1. From(c, "RECEIVE", 1) BY <1>2, <1>12
  <2>2. pc[c] # "hello" /\ Coming(c, Head(events).p) BY <1>0, <1>1, <2>1 DEF Shakes, Coming
  <2>3. ASSUME NEW n, Coming(c, n), n # Head(events).p PROVE Head(events).p < n
    <3>1. ASSUME NEW i \in DOMAIN events, From(c, "RECEIVE", i), events[i].p = n
          PROVE  events[1].p < n
      <4>1. 1 < i BY <1>1, <2>3, <3>1
      <4> QED BY <1>0, <1>1, <2>1, <3>1, <4>1 DEF Ordered
    <3>2. ASSUME NEW j \in DOMAIN up[c], up[c][j] = n PROVE events[1].p < n
      BY <1>0, <1>1, <2>1, <3>2 DEF Ordered
    <3> QED BY <1>1, <2>3, <3>1, <3>2 DEF Coming
  <2>4. ASSUME NEW n, n = Head(events).p PROVE ~Coming(c, n)'
    <3>1. ASSUME NEW i \in DOMAIN events', From(c, "RECEIVE", i)', events'[i].p = events[1].p
          PROVE  FALSE
      <4>1. events[1].p < events[i + 1].p
        BY <1>0, <1>1, <1>3, <2>1, <3>1 DEF Ordered
      <4>2. events[1].p \in Nat BY <1>1 DEF EventType
      <4> QED BY <1>1, <3>1, <4>1, <4>2
    <3>2. ASSUME NEW j \in DOMAIN up[c], up[c][j] = events[1].p PROVE FALSE
      <4>1. events[1].p < up[c][j] BY <1>0, <1>1, <2>1, <3>2 DEF Ordered
      <4>2. events[1].p \in Nat BY <1>1 DEF EventType
      <4> QED BY <3>2, <4>1, <4>2
    <3> QED BY <1>1, <2>4, <3>1, <3>2 DEF Coming
  <2> QED BY <1>1, <1>9, <1>10, <2>2, <2>3, <2>4
<1> QED BY <1>4, <1>5, <1>6, <1>7, <1>8, <1>11, <1>12

\* What an event does to its own client.
LEMMA HandleOwn ==
  ASSUME IInv, Handle, NEW c \in Clients, Head(events).c = c
  PROVE  ClientInv(c)'
<1>0. /\ Types /\ Begins(c) /\ Shakes(c) /\ Numbered(c) BY DEF IInv, ClientInv
<1>1. /\ logpc = "handle" /\ events # <<>> /\ events' = Tail(events)
      /\ UNCHANGED <<pc, tried, sock, sent, up, con>>
  BY DEF Handle
<1>2. Up /\ Head(events) \in EventType BY <1>0, <1>1, EventsAre DEF Up
<1> DEFINE e == Head(events)
<1>3. /\ con[c] \in {"open", "closed"} /\ tried[c]
      /\ \A i \in DOMAIN events' : ~From(c, "CONNECT", i)'
      /\ (\A i \in DOMAIN events : ~From(c, "RECEIVE", i))
            => \A i \in DOMAIN events' : ~From(c, "RECEIVE", i)'
      /\ Ordered(c)'
      /\ e.t = "CONNECT" => ~known[c] /\ down[c] = <<>> /\ pc[c] # "ok"
      /\ e.t # "RECEIVE" => \A n : Coming(c, n)' <=> Coming(c, n)
      /\ e.t = "RECEIVE" =>
           /\ pc[c] # "hello" /\ Coming(c, e.p)
           /\ \A n : Coming(c, n)' <=> Coming(c, n) /\ n # e.p
           /\ \A n : Coming(c, n) /\ n # e.p => e.p < n
  BY <1>1, <1>2, HeadOf
<1>4. e.c = c /\ e.p \in Nat BY <1>2 DEF EventType
<1> HIDE DEF e
<1>t. /\ lines[c] \in Seq(Nat) /\ Len(lines[c]) \in Nat /\ DOMAIN lines[c] = 1 .. Len(lines[c])
      /\ sent[c] \in Nat /\ down[c] \in Seq({"hello", "ok"})
      /\ known \in [Clients -> BOOLEAN] /\ name \in [Clients -> BOOLEAN]
      /\ lines \in [Clients -> Seq(Nat)] /\ down \in [Clients -> Seq({"hello", "ok"})]
      /\ pc[c] \in {"idle", "hello", "ok", "throw", "dead", "closing"}
  BY <1>0, SMTT(20) DEF Types, TypeOK
<1>5. Begins(c)'
  BY <1>0, <1>1, <1>3 DEF Begins
\* While nothing but the answer changes.
<1>6. ASSUME UNCHANGED <<known, name, lines>>, e.t # "RECEIVE",
             \/ down'[c] = down[c]
             \/ down'[c] = Append(down[c], "hello") /\ e.t = "CONNECT"
      PROVE  ClientInv(c)'
  <2>1. Numbered(c)' BY <1>0, <1>1, <1>2, <1>3, <1>6 DEF Numbered, Handled, Mistaken
  <2>2. pc[c] = "hello" => Len(down'[c]) <= 1 /\ \A i \in DOMAIN events' : ~From(c, "RECEIVE", i)'
    <3>1. CASE down'[c] = down[c] BY <1>0, <1>3, <3>1 DEF Shakes
    <3>2. CASE down'[c] = Append(down[c], "hello") /\ e.t = "CONNECT"
      <4>1. Len(down'[c]) = 1 BY <1>3, <3>2
      <4> QED BY <1>0, <1>3, <4>1 DEF Shakes
    <3> QED BY <1>6, <3>1, <3>2
  <2>3. pc[c] = "ok" => down'[c] = down[c] BY <1>3, <1>6
  <2>4. Shakes(c)'
    BY <1>0, <1>1, <1>2, <1>3, <1>6, <2>2, <2>3 DEF Shakes, Connecting, Mistaken
  <2> QED BY <1>3, <1>5, <2>1, <2>4 DEF ClientInv
<1>7. CASE e.t = "CONNECT" /\ HandleConnect(c)
  BY <1>3, <1>6, <1>7, <1>t DEF HandleConnect, Answers
<1>8. CASE e.t = "DISCONNECT" /\ HandleDisconnect
  BY <1>6, <1>8 DEF HandleDisconnect
<1>9. CASE e.t = "RECEIVE" /\ ~known[c] /\ HandleIdentification(c, e.p)
  <2>1. /\ lines[c] = <<>> /\ Mistaken(c) = 0 /\ Handled(c) = 0 /\ lines'[c] = <<>>
    BY <1>0, <1>9 DEF Numbered, Mistaken, Handled, HandleIdentification
  <2>2. pc[c] \notin {"idle", "closing", "hello"} BY <1>0, <1>3, <1>9 DEF Shakes
  <2>3. CASE logpc' = "dead"
    <3>1. ~known'[c] /\ ~Up' BY <1>9, <1>t, <2>3 DEF HandleIdentification, Up
    <3>2. down'[c] = down[c] BY <1>9, <2>3 DEF HandleIdentification, Answers
    <3>3. Numbered(c)' BY <1>0, <1>1, <2>1, <3>1 DEF Numbered, Handled, Mistaken
    <3>4. Shakes(c)'
      BY <1>0, <1>1, <1>9, <2>2, <3>1, <3>2 DEF Shakes, Connecting, Mistaken
    <3> QED BY <1>3, <1>5, <3>3, <3>4 DEF ClientInv
  <2>4. CASE logpc' # "dead"
    <3>1. known'[c] /\ (name'[c] <=> e.p = Ident)
      BY <1>9, <1>t, <2>4 DEF HandleIdentification
    <3>2. CASE e.p = Ident
      <4>1. Mistaken(c)' = 0 /\ Handled(c)' = 0 BY <2>1, <3>1, <3>2 DEF Mistaken, Handled
      <4>2. ~Coming(c, Ident)' BY <1>3, <1>9, <3>2
      <4>3. \A n \in Nat : n # Ident => (Coming(c, n)' <=> n \in 0 + 1 .. sent[c])
        BY <1>0, <1>2, <1>3, <1>9, <2>1, <3>2 DEF Numbered
      <4>4. Numbered(c)' BY <1>0, <1>1, <1>t, <2>1, <3>1, <4>1, <4>2, <4>3 DEF Numbered
      <4>5. Shakes(c)' BY <1>0, <1>1, <2>2, <3>1, <3>2, <4>1 DEF Shakes, Connecting
      <4> QED BY <1>3, <1>5, <4>4, <4>5 DEF ClientInv
    <3>3. CASE e.p # Ident
      <4>1. Mistaken(c)' = 1 /\ Handled(c)' = 1 BY <2>1, <3>1, <3>3 DEF Mistaken, Handled
      <4>2. ~Coming(c, Ident) BY <1>3, <1>4, <1>9, <3>3
      <4>3. e.p \in 1 .. sent[c] BY <1>0, <1>2, <1>3, <1>4, <1>9, <2>1, <3>3 DEF Numbered
      <4>4. pc[c] = "dead" BY <1>0, <1>2, <1>9, <1>t, <4>2, <4>3 DEF Numbered
      <4>5. e.p = 1
        <5>0. 1 \in Nat /\ 1 # Ident /\ 1 \in 0 + 1 .. sent[c] BY <1>t, <4>3
        <5>1. Coming(c, 1) BY <1>0, <1>2, <2>1, <5>0 DEF Numbered
        <5> QED BY <1>3, <1>9, <1>t, <4>3, <5>1
      <4>6. \A n \in Nat : n # Ident => (Coming(c, n)' <=> n \in 1 + 1 .. sent[c])
        <5>1. \A n \in Nat : n # Ident => (Coming(c, n) <=> n \in 0 + 1 .. sent[c])
          BY <1>0, <1>2, <2>1 DEF Numbered
        <5>2. \A n \in Nat : n \in 0 + 1 .. sent[c] /\ n # 1 <=> n \in 1 + 1 .. sent[c] BY <1>t
        <5>3. \A n : Coming(c, n)' <=> Coming(c, n) /\ n # 1 BY <1>3, <1>9, <4>5
        <5> QED BY <5>1, <5>2, <5>3
      <4>7. ~Coming(c, Ident)' BY <1>3, <1>9, <4>2
      <4>8. Numbered(c)'
        BY <1>0, <1>1, <1>t, <2>1, <3>1, <4>1, <4>3, <4>6, <4>7 DEF Numbered
      <4>9. Shakes(c)' BY <1>0, <1>1, <3>1, <4>1, <4>4 DEF Shakes, Connecting
      <4> QED BY <1>3, <1>5, <4>8, <4>9 DEF ClientInv
    <3> QED BY <3>2, <3>3
  <2> QED BY <2>3, <2>4
<1>10. CASE e.t = "RECEIVE" /\ known[c] /\ HandleMessage(c, e.p)
  <2>1. /\ UNCHANGED <<known, name, down>> /\ Up' /\ lines'[c] = Append(lines[c], e.p)
    BY <1>10, <1>t DEF HandleMessage, Up
  <2>2. ~Coming(c, Ident) /\ e.p # Ident BY <1>0, <1>2, <1>3, <1>10 DEF Numbered
  <2>3. /\ Mistaken(c) \in Nat /\ Mistaken(c)' = Mistaken(c) /\ Handled(c) \in Nat
        /\ Handled(c) = Mistaken(c) + Len(lines[c]) /\ Handled(c)' = Handled(c) + 1
    <3>1. Mistaken(c)' = Mistaken(c) /\ Mistaken(c) \in Nat BY <2>1 DEF Mistaken
    <3>2. Len(lines'[c]) = Len(lines[c]) + 1 BY <1>4, <1>t, <2>1
    <3>3. Handled(c) = Mistaken(c) + Len(lines[c])
          /\ Handled(c)' = Mistaken(c)' + Len(lines'[c]) BY DEF Handled
    <3> QED BY <1>t, <3>1, <3>2, <3>3
  <2>4. \A n \in Nat : n # Ident => (Coming(c, n) <=> n \in Handled(c) + 1 .. sent[c])
    BY <1>0, <1>2 DEF Numbered
  <2>5. e.p \in Handled(c) + 1 .. sent[c] BY <1>3, <1>4, <1>10, <2>2, <2>4
  <2>6. e.p = Handled(c) + 1
    <3>1. Handled(c) + 1 \in Nat /\ Handled(c) + 1 # Ident
          /\ Handled(c) + 1 \in Handled(c) + 1 .. sent[c] BY <1>t, <2>3, <2>5
    <3>2. Coming(c, Handled(c) + 1) BY <2>4, <3>1
    <3> QED BY <1>3, <1>10, <1>t, <2>3, <2>5, <3>2
  <2>7. \A n \in Nat : n # Ident => (Coming(c, n)' <=> n \in (Handled(c) + 1) + 1 .. sent[c])
    BY <1>3, <1>10, <1>t, <2>3, <2>4, <2>6, SMTT(20)
  <2>8. \A i \in DOMAIN lines'[c] : lines'[c][i] = i + Mistaken(c)
    <3>1. \A i \in DOMAIN lines[c] : lines[c][i] = i + Mistaken(c) BY <1>0 DEF Numbered
    <3> DEFINE s == lines[c]
    <3>2. s \in Seq(Nat) BY <1>t
    <3> HIDE DEF s
    <3>3. /\ DOMAIN Append(s, e.p) = 1 .. Len(s) + 1 /\ DOMAIN s = 1 .. Len(s) /\ Len(s) \in Nat
          /\ \A i \in 1 .. Len(s) : Append(s, e.p)[i] = s[i]
          /\ Append(s, e.p)[Len(s) + 1] = e.p
      BY <1>4, <3>2
    <3>4. \A i \in 1 .. Len(s) + 1 : i \in 1 .. Len(s) \/ i = Len(s) + 1 BY <3>3
    <3>5. e.p = (Len(s) + 1) + Mistaken(c) BY <1>t, <2>3, <2>6 DEF s
    <3>6. lines'[c] = Append(s, e.p) BY <2>1 DEF s
    <3>7. \A i \in 1 .. Len(s) : s[i] = i + Mistaken(c) BY <1>t, <3>1 DEF s
    <3> QED BY <3>3, <3>4, <3>5, <3>6, <3>7
  <2>9. ~Coming(c, Ident)' BY <1>3, <1>10, <2>2
  <2>10. known'[c] /\ Handled(c) + 1 <= sent[c] BY <1>10, <1>t, <2>1, <2>3, <2>5
  <2>11. Numbered(c)'
    BY <1>1, <2>3, <2>7, <2>8, <2>9, <2>10 DEF Numbered
  <2>12. Shakes(c)' BY <1>0, <1>1, <1>3, <1>10, <2>1, <2>10 DEF Shakes, Connecting, Mistaken
  <2> QED BY <1>3, <1>5, <2>11, <2>12 DEF ClientInv
<1>11. \/ e.t = "CONNECT" /\ HandleConnect(c)
       \/ e.t = "RECEIVE" /\ ~known[c] /\ HandleIdentification(c, e.p)
       \/ e.t = "RECEIVE" /\ known[c] /\ HandleMessage(c, e.p)
       \/ e.t = "DISCONNECT" /\ HandleDisconnect
  BY <1>4 DEF Handle, e
<1> QED BY <1>7, <1>8, <1>9, <1>10, <1>11

LEMMA HandleNext ==
  ASSUME IInv, Handle, NEW d \in Clients
  PROVE  ClientInv(d)'
<1>0. Types /\ ClientInv(d) BY DEF IInv
<1>1. CASE Head(events).c = d BY <1>1, HandleOwn
<1>2. CASE Head(events).c # d
  <2> DEFINE e == Head(events)
  <2>1. /\ logpc = "handle" /\ events # <<>> /\ events' = Tail(events)
        /\ UNCHANGED <<pc, tried, sock, sent, up, con>>
        /\ \/ HandleConnect(e.c) \/ HandleIdentification(e.c, e.p)
           \/ HandleMessage(e.c, e.p) \/ HandleDisconnect
    BY DEF Handle
  <2>2. /\ DOMAIN events' \subseteq Nat /\ e = events[1] /\ 1 \in DOMAIN events
        /\ DOMAIN events = 1 .. Len(events)
        /\ \A i \in Nat : i \in DOMAIN events' <=> i + 1 \in DOMAIN events /\ i # 0
        /\ \A i \in DOMAIN events' : events'[i] = events[i + 1]
    BY <1>0, <2>1, TailEvents
  <2>3. down'[d] = down[d] /\ known'[d] = known[d] /\ name'[d] = name[d] /\ lines'[d] = lines[d]
    <3> HIDE DEF e
    <3>1. e.c # d BY <1>2 DEF e
    <3> QED BY <1>0, <2>1, <3>1 DEF HandleConnect, HandleIdentification, HandleMessage,
               HandleDisconnect, Answers, Types
  <2>4. Up BY <2>1 DEF Up
  <2>5. /\ \A i \in Nat : Of(d, i)' <=> Of(d, i + 1)
        /\ \A i \in Nat : Of(d, i) => i > 1
        /\ \A i \in Nat : Of(d, i)' => events'[i] = events[i + 1]
    <3>1. \A i \in Nat : Of(d, i)' <=> Of(d, i + 1)
      <4> SUFFICES ASSUME NEW i \in Nat PROVE Of(d, i)' <=> Of(d, i + 1) OBVIOUS
      <4>1. CASE i = 0 BY <1>2, <2>2, <4>1 DEF Of
      <4>2. CASE i # 0 BY <2>2, <4>2 DEF Of
      <4> QED BY <4>1, <4>2
    <3>2. \A i \in Nat : Of(d, i) => i > 1
      <4>1. ~Of(d, 1) BY <1>2, <2>2 DEF Of
      <4>2. Len(events) \in Nat BY <1>0, EventsAre
      <4> QED BY <2>2, <4>1, <4>2 DEF Of
    <3>3. \A i \in Nat : Of(d, i)' => events'[i] = events[i + 1] BY <2>2 DEF Of
    <3> QED BY <3>1, <3>2, <3>3
  <2> QED BY <1>0, <2>1, <2>2, <2>3, <2>4, <2>5, Untouched
<1> QED BY <1>1, <1>2

LEMMA LogThreadNext ==
  ASSUME IInv, LogThread, NEW d \in Clients
  PROVE  ClientInv(d)'
<1>0. Types /\ ClientInv(d) /\ Own \in Clients /\ Excludes(Own) BY DEF IInv
<1>1. CASE SelectReturns \/ ProcessReturns
  BY <1>0, <1>1, Quiet DEF SelectReturns, ProcessReturns, Up
<1>2. CASE LogThreadLogs
  <2>1. /\ (Up' <=> Up) /\ ~Connecting(Own)
        /\ UNCHANGED <<pc, tried, down, con, known, name, events, lines>>
    BY <1>0, <1>2 DEF LogThreadLogs, Up, Held, Excludes
  <2>2. CASE Sends(Own) BY <2>1, <2>2, Spoken
  <2>3. CASE UNCHANGED <<sock, up, sent>> BY <1>0, <2>1, <2>3, Quiet
  <2> QED BY <1>2, <2>2, <2>3 DEF LogThreadLogs
<1> QED BY <1>1, <1>2, AcceptNext, RecvNext, HandleNext DEF LogThread

LEMMA NextInv == IInv /\ [Next]_vars => IInv'
<1> SUFFICES ASSUME IInv, [Next]_vars PROVE IInv' OBVIOUS
<1>1. CASE Next
  <2>1. Types' BY <1>1, TypesClient, TypesServer DEF Next
  <2>2. ServerSurvives' BY <1>1, <2>1, SurvivesNext
  <2>3. \A c \in Clients : Excludes(c)' BY <1>1, ExcludesNext
  <2>4. \A c \in Clients : ClientInv(c)'
    BY <1>1, ClientNext, ForwardingNext, LogThreadNext DEF Next
  <2> QED BY <2>1, <2>2, <2>3, <2>4 DEF IInv
<1>2. CASE UNCHANGED vars
  <2>1. Types' BY <1>2 DEF IInv, Types, TypeOK
  <2>2. ServerSurvives' BY <1>2 DEF IInv, ServerSurvives, TypeOK
  <2>3. ASSUME NEW c \in Clients PROVE ClientInv(c)'
    BY <1>2, Quiet DEF IInv, Up
  <2>4. ASSUME NEW c \in Clients PROVE Excludes(c)'
    BY <1>2 DEF IInv, Excludes, Connecting
  <2> QED BY <2>1, <2>2, <2>3, <2>4 DEF IInv
<1> QED BY <1>1, <1>2

\* The invariant says what the property does.
LEMMA InvComplete == IInv => LogComplete
<1> SUFFICES ASSUME IInv, NEW c \in Clients PROVE Shown(c) /\ Named(c)
  BY DEF LogComplete
<1>0. Types /\ Shakes(c) /\ Numbered(c) BY DEF IInv, ClientInv
<1>1. OnTheWay(c) = {n \in Nat : Coming(c, n)}
  <2>1. /\ events \in Seq(EventType) /\ \A i \in DOMAIN events : events[i].p \in Nat
        /\ \A i \in DOMAIN up[c] : up[c][i] \in Nat
    BY <1>0, EventsAre, UpIs DEF EventType
  <2>2. Range(up[c]) = {up[c][i] : i \in DOMAIN up[c]} BY DEF Range
  <2>3. Range(events) = {events[i] : i \in DOMAIN events} BY DEF Range
  <2> HIDE DEF EventType
  <2>4. ASSUME NEW n PROVE n \in OnTheWay(c) <=> Coming(c, n)
    BY <2>2, <2>3 DEF OnTheWay, Coming, From, Of
  <2>5. ASSUME NEW n, Coming(c, n) PROVE n \in Nat BY <2>1, <2>5 DEF Coming
  <2> QED BY <2>4, <2>5
<1>2. Shown(c)
  <2>1. ASSUME Up PROVE OnTheWay(c) \ {Ident} = Handled(c) + 1 .. sent[c]
    <3>1. \A n \in Nat : n # Ident => (Coming(c, n) <=> n \in Handled(c) + 1 .. sent[c])
      BY <1>0, <2>1 DEF Numbered
    <3>2. Handled(c) \in Nat
      <4>1. lines[c] \in Seq(Nat) BY <1>0 DEF Types
      <4>2. Len(lines[c]) \in Nat BY <4>1
      <4>3. Mistaken(c) \in Nat BY DEF Mistaken
      <4> QED BY <4>2, <4>3 DEF Handled
    <3>3. sent[c] \in Nat BY <1>0 DEF Types
    <3>4. \A n \in Handled(c) + 1 .. sent[c] : n \in Nat /\ n # Ident BY <3>2, <3>3
    <3> QED BY <1>1, <3>1, <3>4
  <2> QED BY <1>0, <2>1 DEF Shown, Numbered, Up
<1>3. Named(c) BY <1>0 DEF Named, Shakes
<1> QED BY <1>2, <1>3

\* The invariant holds in every reachable state.
THEOREM Inductive == Spec => []IInv
BY InitInv, NextInv, PTL DEF Spec

\* The log server outlives its clients: it ends by itself only over a process
\* that died in its handshake.  The types are part of it.
THEOREM Survives == Spec => []ServerSurvives
<1>1. IInv => ServerSurvives BY DEF IInv
<1> QED BY <1>1, Inductive, PTL

\* What the connection of a client took is shown once each, in order and with
\* the name of that client, and nothing between the two is lost.
THEOREM Complete == Spec => []LogComplete
BY InvComplete, Inductive, PTL
=============================================================================
