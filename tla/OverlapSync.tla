----------------------------- MODULE OverlapSync -----------------------------
(***************************************************************************)
(* The DataCollectors that merge the AHCAL and its BIF by overlap in time: *)
(* CaliceTsDataCollector (kind "calts") and CaliceTelDataCollector (kind   *)
(* "caltel"), which adds the telescope's event of the same trigger.  An    *)
(* event is <<begin, end, trigger>> as its producer sends it: its times in *)
(* the producer's clock, its trigger before any shift.                     *)
(***************************************************************************)
EXTENDS Streams, Integers, Functions, SequencesExt

CONSTANTS
  Bif, Cal, Tel,   \* the producers of the BIF, the AHCAL and the telescope
  FirstROC,        \* FirstROCStartTS of the BIF and of the AHCAL, run by run
  Delays,          \* how long after that their events may begin or end
  Shift,           \* SHIFT_TGN_CAL
  Misfits,         \* the producers of which unfit events are explored
  TriggerNs,       \* the trigger numbers of the AHCAL and of the telescope
  MaxQue           \* where a queue is "full"

VARIABLES
  que,         \* m_que_bif, m_que_cal, m_que_tel
  last,        \* the event of each producer that was used last: m_ev_last_*
  offsetDone,  \* m_offset_ts_done
  offset,      \* m_ts_offset_cal2bif
  accept,      \* m_accept_ev; always on in CaliceTsDataCollector
  out          \* the events written in this run, by their sub-events

clockVars == <<offsetDone, offset>>
vars == <<streamVars, que, last, clockVars, accept, out>>

WithTel == kind = "caltel"
Timed   == {Bif, Cal}
Sources == IF WithTel THEN Timed \cup {Tel} ELSE Timed

\* The names that DoReceive compares with have the type in front:
\* "Producer.Calice1", "Producer.caliceahcalbifProducer", "Producer.ni".
Known(c) == c \in Sources /\ GetName(c) = <<"Producer", c>>
-----------------------------------------------------------------------------
(***************************************************************************)
(* The two clocks, and the shift of the triggers.                          *)
(***************************************************************************)
Start(c) == IF run \in DOMAIN FirstROC[c] THEN FirstROC[c][run] ELSE 0

\* Mutant: the clocks are taken to start together.
MutOffset(cal, bif) == 32 * cal - bif

\* 32 ticks of the BIF are one of the AHCAL.
Offset(cal, bif) == 32 * cal - bif - 120

\* The times of an event in the clock of the BIF, as the round computes them.
Beg(c, e) == IF c = Cal THEN 32 * e[1] - offset ELSE e[1]
End(c, e) == IF c = Cal THEN 32 * e[2] - offset ELSE e[2]

\* Mutant: the telescope's numbers are shifted down.
MutTrg(c, e) ==
  e[3] + (CASE c = Cal /\ Shift > 0 -> Shift [] c = Tel /\ Shift < 0 -> Shift [] OTHER -> 0)

\* A positive shift is added to the triggers of the AHCAL as they come in, a
\* negative one is taken from the numbers of the telescope.
Trg(c, e) ==
  e[3] + (CASE c = Cal /\ Shift > 0 -> Shift [] c = Tel /\ Shift < 0 -> -Shift [] OTHER -> 0)

None   == <<0, 0, 0>>
Lesser(m, n) == IF m < n THEN m ELSE n

\* m_ts_end_last_*: 0 before an event of c was used.
LastEnd(c) == IF last[c] = None THEN 0 ELSE End(c, last[c])

Empty == [c \in Timed \cup {Tel} |-> <<>>]
Unused == [c \in Timed \cup {Tel} |-> None]

Init ==
  /\ \E k \in {"calts", "caltel"} : StreamsInit(k)
  /\ que = Empty /\ last = Unused
  /\ offsetDone = FALSE /\ offset = 0 /\ accept = TRUE /\ out = <<>>

\* The condition of the loop that merges.
Mergeable(q) ==
  /\ \A c \in Sources : q[c] # <<>>
  /\ WithTel => Trg(Tel, Last(q[Tel])) >= Trg(Cal, Head(q[Cal]))

AtRest == thrown \/ ~Mergeable(que)

Connect(c)    == AtRest /\ Joins(c) /\ UNCHANGED <<que, last, clockVars, accept, out, thrown>>
Disconnect(c) == AtRest /\ Leaves(c) /\ UNCHANGED <<que, last, clockVars, accept, out, thrown>>
-----------------------------------------------------------------------------
Full(c) == WithTel /\ "full" \in env /\ Len(que[c]) >= MaxQue

\* An unfit event has no times (kind "calts") or is of another run ("caltel").
Dropped(c, unfit) == ~accept \/ unfit \/ ~Known(c)

\* The order in which c sends: neighbours may overlap.  The telescope has no
\* times that matter, the BIF and kind "calts" no triggers.
Before(c, x, y) ==
  /\ c \in Timed => x[1] < y[1] /\ x[2] < y[2]
  /\ x[3] # 0 => x[3] < y[3]

\* The first event of a producer in a run is its BORE, and has the tag.
IsBORE(c, q) == \A e \in got'[c] : e = Head(q[c]) \/ Before(c, Head(q[c]), e)
Tag(c, q)    == IF IsBORE(c, q) THEN Start(c) ELSE 0

\* CaliceTsDataCollector asks m_que_cal twice.
BORESeen(q) == \A c \in Sources \ (IF WithTel THEN {} ELSE {Bif}) : IsBORE(c, q)

\* A queue at its limit is cleared, and the event dropped, too.  With the
\* first events of all the offset of the clocks is computed.
Receive(c, e, unfit) ==
  /\ AtRest /\ Sends(c, e)
  /\ IF Dropped(c, unfit)
     THEN UNCHANGED <<que, clockVars, thrown>>
     ELSE LET q == [que EXCEPT ![c] = IF Full(c) THEN <<>> ELSE Append(@, e)]
              starts == ~Full(c) /\ ~offsetDone /\ \A s \in Sources : q[s] # <<>>
          IN /\ que' = q
             /\ thrown' = (starts /\ ~BORESeen(q))
             /\ offsetDone' = (offsetDone \/ (starts /\ BORESeen(q)))
             /\ offset' = IF starts /\ BORESeen(q) THEN Offset(Tag(Cal, q), Tag(Bif, q)) ELSE offset
  /\ UNCHANGED <<last, accept, out>>
-----------------------------------------------------------------------------
(***************************************************************************)
(* One round of the loop.                                                  *)
(***************************************************************************)
First(c) == Head(que[c])
RoundBeg == Lesser(Beg(Bif, First(Bif)), Beg(Cal, First(Cal)))
RoundEnd == Lesser(End(Bif, First(Bif)), End(Cal, First(Cal)))

\* Mutant: an event that begins where the round ends is taken into it.
MutTaken == {c \in Timed : Beg(c, First(c)) <= RoundEnd}

\* The events at the front that lie in the round, and the producers whose last
\* event reaches into it.
Taken == {c \in Timed : Beg(c, First(c)) < RoundEnd}

\* Mutant: the last event is used again whenever there is one.
MutAgain == {c \in Timed \ Taken : LastEnd(c) > 0}
Again == {c \in Timed \ Taken : LastEnd(c) > RoundBeg}

Sub == [c \in Taken \cup Again |-> IF c \in Taken THEN First(c) ELSE last[c]]

\* The trigger of the AHCAL is set last.
Triggered == Cal \in Taken \/ Again # {}
Trigger   == IF Cal \in DOMAIN Sub THEN Trg(Cal, Sub[Cal]) ELSE Trg(Bif, Sub[Bif])

\* The telescope's events before the trigger are written alone; the one that
\* goes with it is the next, or the one that was used last.
NotBefore   == SelectInSeq(que[Tel], LAMBDA e : Trg(Tel, e) >= Trigger)
Earlier     == IF NotBefore = 0 THEN que[Tel] ELSE SubSeq(que[Tel], 1, NotBefore - 1)
Later       == SubSeq(que[Tel], Len(Earlier) + 1, Len(que[Tel]))
NextMatches == Later # <<>> /\ Trg(Tel, Head(Later)) = Trigger
LastTel     == IF Earlier # <<>> THEN Last(Earlier) ELSE last[Tel]

\* Mutant: a telescope event serves one event of the AHCAL.
MutPartner == IF NextMatches THEN <<Head(Later)>> ELSE <<>>

Partner ==
  IF NextMatches THEN <<Head(Later)>>
  ELSE IF LastTel # None /\ Trg(Tel, LastTel) = Trigger THEN <<LastTel>> ELSE <<>>

Alone(c, e) == [d \in {c} |-> e]
Joined ==
  [c \in DOMAIN Sub \cup (IF Partner = <<>> THEN {} ELSE {Tel}) |-> IF c = Tel THEN Partner[1] ELSE Sub[c]]

\* Without a trigger the round of a CaliceTelDataCollector is not written.
Written ==
  CASE ~WithTel              -> <<Sub>>
    [] WithTel /\ ~Triggered -> <<>>
    [] WithTel /\ Triggered  -> [i \in DOMAIN Earlier |-> Alone(Tel, Earlier[i])] \o <<Joined>>

Round ==
  /\ ~AtRest
  /\ LET tel == WithTel /\ Triggered
     IN /\ que' = [c \in DOMAIN que |->
                     IF c \in Taken THEN Tail(que[c])
                     ELSE IF c = Tel /\ tel THEN (IF NextMatches THEN Tail(Later) ELSE Later)
                     ELSE que[c]]
        /\ last' = [c \in DOMAIN last |->
                      IF c \in Taken THEN First(c)
                      ELSE IF c = Tel /\ tel THEN (IF NextMatches THEN Head(Later) ELSE LastTel)
                      ELSE last[c]]
  /\ out' = out \o Written
  /\ UNCHANGED <<streamVars, clockVars, accept>>
-----------------------------------------------------------------------------
\* Mutant: the ends of the last events are kept for the next run.
MutCleared == que' = Empty /\ offsetDone' = FALSE /\ offset' = 0 /\ UNCHANGED last

\* Mutant: the offset of the clocks is kept for the next run.
MutKeptOffset == que' = Empty /\ UNCHANGED clockVars /\ last' = Unused

\* CaliceTsDataCollector keeps its last events, but not where they end.
Cleared == que' = Empty /\ offsetDone' = FALSE /\ offset' = 0 /\ last' = Unused

\* DoStopRun is called before StopListen: events still come, and are ignored.
\* It runs on another thread than DoReceive, and takes effect between rounds.
StopRun ==
  /\ WithTel /\ accept
  /\ accept' = FALSE
  /\ Cleared
  /\ UNCHANGED <<streamVars, out>>

StartRun ==
  /\ AtRest /\ Restarts
  /\ accept' = TRUE
  /\ Cleared
  /\ out' = <<>>

Times(c) == {Start(c) + t : t \in Delays[c]}

\* The events that c may send next: those of one producer are in order.
Candidates(c) ==
  IF c \notin Timed THEN {<<0, 1, t>> : t \in TriggerNs[c]}
  ELSE {e \in Times(c) \X Times(c) \X (IF WithTel /\ c = Cal THEN TriggerNs[c] ELSE {0}) : e[1] < e[2]}

Sendable(c) == {e \in Candidates(c) : \A o \in got[c] : Before(c, o, e)}

\* The AHCAL has events without times; of the BIF all have times or none.
Unfit(c) == {FALSE} \cup {"bad" \in env /\ c \in Misfits /\ (WithTel \/ c = Cal)}

Next ==
  \/ \E c \in Conns : Connect(c) \/ Disconnect(c)
  \/ \E c \in Conns : \E e \in Sendable(c), unfit \in Unfit(c) : Receive(c, e, unfit)
  \/ Round
  \/ StopRun
  \/ StartRun

Spec == Init /\ [][Next]_vars
-----------------------------------------------------------------------------
(***************************************************************************)
(* Properties.  They are about when the events were taken, in ticks of the *)
(* BIF since the clocks of this run were started, which for the BIF is 120 *)
(* of them earlier.                                                        *)
(***************************************************************************)
At(c, t) == IF c = Cal THEN 32 * (t - Start(c)) ELSE t - Start(c) - 120

\* Event x of c and event y of d.
Overlap(c, x, d, y) == At(c, x[1]) < At(d, y[2]) /\ At(d, y[1]) < At(c, x[2])

Here == kind \in {"calts", "caltel"}
Packets(c) == {i \in DOMAIN out : c \in DOMAIN out[i]}
Orderly == env \cap {"bad", "full"} = {}

\* Events of the AHCAL and the BIF that are written together overlap in time,
\* whenever their clocks were started, and are of this run; those of one
\* producer come in the order of their times.
TogetherOverlap ==
  Here =>
    /\ \A i \in Packets(Bif) \cap Packets(Cal) : Overlap(Bif, out[i][Bif], Cal, out[i][Cal])
    /\ \A c \in Timed : \A i \in Packets(c) :
         /\ out[i][c] \in got[c]
         /\ \A j \in Packets(c) : i < j => out[i][c][1] <= out[j][c][1]

\* An event that is written without the other detector overlaps nothing that
\* the other delivered.
AloneIsAlone ==
  (Here /\ Orderly) =>
    \A c \in Timed : \A i \in Packets(c) : \A d \in Timed \ DOMAIN out[i] :
      \A e \in got[d] : ~Overlap(c, out[i][c], d, e)

\* Of producers with the names that are asked for no event is lost: it waits
\* or is written, unless no event of the AHCAL overlaps it and there is a
\* trigger to wait for.  Of producers with plain names none is used.
EachUsed ==
  (Here /\ accept /\ AtRest /\ ~thrown /\ Orderly) =>
    \A c \in Sources : \A e \in got[c] :
      LET used == (\E i \in DOMAIN que[c] : que[c][i] = e) \/ \E i \in Packets(c) : out[i][c] = e
      IN IF Known(c)
         THEN used \/ (WithTel /\ c = Bif /\ \A d \in got[Cal] : ~Overlap(Cal, d, Bif, e))
         ELSE ~used

\* An event of the AHCAL is written with the telescope's event whose number is
\* its trigger and the shift, if the telescope has one, however often the event
\* is written.
TelescopeMatches ==
  (Here /\ WithTel) =>
    \A i \in Packets(Cal) :
      /\ Tel \in DOMAIN out[i] => out[i][Tel][3] = out[i][Cal][3] + Shift
      /\ ~Orderly \/ Tel \in DOMAIN out[i] \/ \A e \in got[Tel] : e[3] # out[i][Cal][3] + Shift
=============================================================================
