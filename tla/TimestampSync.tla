--------------------------- MODULE TimestampSync ---------------------------
(***************************************************************************)
(* The DataCollectors that merge events by time: Ex0TsDataCollector        *)
(* (kind "ts") and its older relative TimestampSyncDataCollector (kind     *)
(* "timestamp").  An event is the interval <<begin, end>> it covers.  Time *)
(* is cut into slices [curr_beg, curr_end), and each event written holds   *)
(* at most one event of each source.                                       *)
(***************************************************************************)
EXTENDS Streams, Functions, SequencesExt

CONSTANTS
  MaxTime,    \* bound on the timestamps
  MaxSlices   \* bound on the slices written in a run

VARIABLES
  que,       \* m_que_event_ts, m_que_event
  ready,     \* m_event_ready_ts, or where m_event_ready is true
  lastEnd,   \* m_ts_last_end
  curr,      \* <<m_ts_curr_beg, m_ts_curr_end>>
  building,  \* the loop that writes events is running
  out        \* the events written in this run: slice and sub-events

sliceVars == <<que, ready, lastEnd, curr, building>>
vars == <<streamVars, sliceVars, out>>

\* The last two values of uint64_t, which no event has.
NoBeg == MaxTime + 1
NoEnd == MaxTime + 2

\* Mutant: one too many.
MutNever == <<NoEnd, NoEnd + 1>>

Never == <<NoBeg, NoEnd>>
Beg(e) == e[1]
End(e) == e[2]
Events == {e \in (0 .. MaxTime) \X (0 .. MaxTime) : Beg(e) < End(e)}

ByName == kind = "timestamp"    \* keyed by name, and with a DoStartRun

TypeOK ==
  /\ DOMAIN que \subseteq Conns
  /\ \A c \in DOMAIN que : que[c] \in Seq(Events)
  /\ ready \subseteq Conns
  /\ lastEnd \in 0 .. NoEnd
  /\ curr \in (0 .. NoEnd) \X (0 .. NoEnd)
  /\ building \in BOOLEAN

Init ==
  /\ \E k \in {"ts", "timestamp"} : StreamsInit(k)
  /\ que = <<>> /\ ready = {} /\ lastEnd = 0 /\ curr = Never
  /\ building = FALSE /\ out = <<>>

Put(m, c, v) == [d \in DOMAIN m \cup {c} |-> IF d = c THEN v ELSE m[d]]
Queue(c) == IF c \in DOMAIN que THEN que[c] ELSE <<>>
-----------------------------------------------------------------------------
\* Mutant: the slice of the last run is kept.
MutConnect(c) ==
  /\ ~building /\ Joins(c)
  /\ \/ ByName /\ c \in DOMAIN que /\ thrown' = TRUE
          /\ UNCHANGED <<que, ready, lastEnd, curr>>
     \/ /\ ~(ByName /\ c \in DOMAIN que)
        /\ que' = Put(que, c, <<>>)
        /\ UNCHANGED <<ready, lastEnd, curr, thrown>>
  /\ UNCHANGED <<building, out>>

\* The first connection of an Ex0TsDataCollector starts time anew.
Connect(c) ==
  /\ ~building /\ Joins(c)
  /\ \/ ByName /\ c \in DOMAIN que /\ thrown' = TRUE
          /\ UNCHANGED <<que, ready, lastEnd, curr>>
     \/ /\ ~(ByName /\ c \in DOMAIN que)
        /\ que' = Put(que, c, <<>>)
        /\ IF ~ByName /\ que = <<>>
           THEN ready' = {} /\ lastEnd' = 0 /\ curr' = Never
           ELSE UNCHANGED <<ready, lastEnd, curr>>
        /\ UNCHANGED thrown
  /\ UNCHANGED <<building, out>>

\* An Ex0TsDataCollector keeps the queue of a source that has left events,
\* and makes an entry for a source it never saw.
Disconnect(c) ==
  /\ ~building /\ Leaves(c)
  /\ \/ /\ ByName /\ c \in DOMAIN que
        /\ que' = Restrict(que, DOMAIN que \ {c})
        /\ ready' = ready \ {c}
        /\ UNCHANGED thrown
     \/ ByName /\ c \notin DOMAIN que /\ thrown' = TRUE /\ UNCHANGED <<que, ready>>
     \/ /\ ~ByName
        /\ que' = IF Queue(c) = <<>> THEN Restrict(que, DOMAIN que \ {c}) ELSE que
        /\ UNCHANGED <<ready, thrown>>
  /\ UNCHANGED <<lastEnd, curr, building, out>>

\* The sources that have delivered enough for slice s.
Covers(q, s) ==
  {c \in DOMAIN q : /\ q[c] # <<>>
                    /\ End(s) <= End(Last(q[c]))
                    /\ ByName => Beg(s) >= Beg(Head(q[c]))}

\* Mutant: an event may only shorten the slice.
MutShrink(s, e) == <<Beg(s), IF End(e) < End(s) THEN End(e) ELSE End(s)>>

Shrink(s, e) == << IF Beg(e) < Beg(s) THEN Beg(e) ELSE Beg(s),
                   IF End(e) < End(s) THEN End(e) ELSE End(s) >>

\* A source without an entry is refused by one and gets one by the other.
Receive(c, e) ==
  /\ ~building /\ Sends(c, e)
  /\ LET q == Put(que, c, Append(Queue(c), e))
         s == Shrink(curr, e)
     IN \/ /\ ~ByName /\ c \notin DOMAIN que
           /\ thrown' = TRUE
           /\ UNCHANGED sliceVars
        \/ /\ ByName \/ c \in DOMAIN que
           /\ que' = q
           /\ IF Beg(e) < lastEnd \/ (ByName /\ (Beg(e) >= End(e) \/ lastEnd = NoEnd))
              THEN thrown' = TRUE /\ UNCHANGED <<ready, curr, building>>
              ELSE /\ curr' = s
                   /\ ready' = IF s = curr THEN ready \cup {c} ELSE Covers(q, s)
                   /\ building' = TRUE
                   /\ UNCHANGED thrown
           /\ UNCHANGED lastEnd
  /\ UNCHANGED out

ReceiveUntimed(c) ==
  /\ ~building /\ ~ByName /\ ~thrown /\ "bad" \in env
  /\ c \in Peers /\ link[c] = "on"
  /\ thrown' = TRUE
  /\ UNCHANGED <<kind, env, run, link, got, sliceVars, out>>
-----------------------------------------------------------------------------
(***************************************************************************)
(* One round of the loop.  Each queue is read up to its first event that   *)
(* reaches beyond the slice; the last event that overlaps the slice is the *)
(* sub-event of that source.                                               *)
(***************************************************************************)
Beyond(e, s) == End(e) > Beg(s) /\ (Beg(e) >= End(s) \/ End(e) > End(s))
Stop(q, s)   == SelectInSeq(q, LAMBDA e : Beyond(e, s))    \* 0: there is none
Rest(q, s)   == IF Stop(q, s) = 0 THEN <<>> ELSE SubSeq(q, Stop(q, s), Len(q))

\* The event at which the reading stopped lies in the slice, too.
Long(q, s) == Stop(q, s) # 0 /\ Beg(q[Stop(q, s)]) < End(s)

\* The places of the events that overlap the slice.
Used(q, s) ==
  {i \in DOMAIN q : \/ (Stop(q, s) = 0 \/ i < Stop(q, s)) /\ End(q[i]) > Beg(s)
                    \/ Long(q, s) /\ i = Stop(q, s)}

\* Mutant: the event at which the reading stopped, used or not.
MutProposal(q, s) == Rest(q, s)

\* What the source proposes for the next slice: nothing, or its next event.
Proposal(q, s) ==
  IF Long(q, s) THEN Tail(Rest(q, s)) ELSE Rest(q, s)

\* An exhausted queue is not ready; in TimestampSyncDataCollector it stays.
ReadyAfter(q, s) ==
  {c \in DOMAIN q :
     \/ Proposal(q[c], s) # <<>>
     \/ /\ c \in ready /\ Rest(q[c], s) = <<>>
        /\ ByName \/ q[c] = <<>> \/ End(Last(q[c])) # End(s)}

\* "There should be more data!"
RunsDry(q, s) ==
  ByName /\ \E c \in DOMAIN q :
    q[c] # <<>> /\ Rest(q[c], s) = <<>> /\ End(Last(q[c])) # End(s)

NextSlice(q, s) ==
  LET next == {Head(Proposal(q[c], s)) : c \in {d \in DOMAIN q : Proposal(q[d], s) # <<>>}}
  IN << CHOOSE b \in {Beg(e) : e \in next} \cup {NoBeg} : \A e \in next : b <= Beg(e),
        CHOOSE b \in {End(e) : e \in next} \cup {NoEnd} : \A e \in next : b <= End(e) >>

BuildEvent ==
  /\ building /\ (ready # {} \/ ByName) /\ Len(out) < MaxSlices
  /\ Cardinality(ready) = Cardinality(DOMAIN que)
  /\ \/ RunsDry(que, curr) /\ thrown' = TRUE /\ building' = FALSE
          /\ UNCHANGED <<que, ready, lastEnd, curr, out>>
     \/ /\ ~RunsDry(que, curr)
        /\ out' = Append(out, [at  |-> curr,
                               sub |-> [c \in {d \in DOMAIN que : Used(que[d], curr) # {}}
                                          |-> que[c][Max(Used(que[c], curr))]]])
        /\ que' = [c \in DOMAIN que |-> Rest(que[c], curr)]
        /\ ready' = ReadyAfter(que, curr) \cup (ready \ DOMAIN que)
        /\ lastEnd' = End(curr)
        /\ curr' = NextSlice(que, curr)
        /\ UNCHANGED <<thrown, building>>
  /\ UNCHANGED <<kind, env, run, link, got>>

BuildEnds ==
  /\ building
  /\ (ready = {} /\ ~ByName) \/ Cardinality(ready) # Cardinality(DOMAIN que)
  /\ building' = FALSE
  /\ UNCHANGED <<streamVars, que, ready, lastEnd, curr, out>>

\* Only TimestampSyncDataCollector has a DoStartRun.
StartRun ==
  /\ ~building /\ Restarts
  /\ IF ByName
     THEN /\ que' = [c \in DOMAIN que |-> <<>>]
          /\ ready' = {} /\ lastEnd' = 0 /\ curr' = Never
     ELSE UNCHANGED <<que, ready, lastEnd, curr>>
  /\ out' = <<>>
  /\ UNCHANGED building

\* The events that c may send next: after its last, at once without gaps;
\* an unexpected one begins with the last and is over before.
Intervals(c) ==
  {e \in Events :
     \/ /\ \A o \in got[c] : End(o) <= Beg(e)
        /\ "gaps" \in env \/ Beg(e) = 0 \/ \E o \in got[c] : End(o) = Beg(e)
     \/ /\ "bad" \in env
        /\ \E o \in got[c] : Beg(o) = Beg(e) /\ End(e) < End(o)
        /\ \A o \in got[c] : Beg(o) <= Beg(e) /\ End(e) # End(o)}

Next ==
  \/ \E c \in Conns : Connect(c) \/ Disconnect(c) \/ ReceiveUntimed(c)
  \/ \E c \in Conns : \E e \in Intervals(c) : Receive(c, e)
  \/ BuildEvent
  \/ BuildEnds
  \/ StartRun

Spec == Init /\ [][Next]_vars
-----------------------------------------------------------------------------
(***************************************************************************)
(* Properties.                                                             *)
(***************************************************************************)
Queued(c, e)  == \E i \in 1 .. Len(Queue(c)) : Queue(c)[i] = e
Written(c, e) == \E i \in DOMAIN out : c \in DOMAIN out[i].sub /\ out[i].sub[c] = e

\* Slices follow each other in time, and each sub-event overlaps its slice.
SlicesOrdered ==
  (kind = "ts" /\ env \subseteq {"gaps"}) =>
    \A i \in DOMAIN out :
      /\ Beg(out[i].at) < End(out[i].at)
      /\ i < Len(out) => End(out[i].at) <= Beg(out[i + 1].at)
      /\ \A c \in DOMAIN out[i].sub :
           /\ Beg(out[i].sub[c]) < End(out[i].at)
           /\ Beg(out[i].at) < End(out[i].sub[c])

\* No event of an orderly stream is dropped between its queue and the file,
\* and none is refused because its time was already written: as long as, for
\* the one, the connections of an earlier run are gone from the map, and, for
\* the other, all producers are there and have had a part in each slice.
\* (TimestampSyncDataCollector counts a producer whose queue is exhausted as
\* ready: the others' slices are written without it, and its next event is
\* too late.)
Orderly ==
  /\ env \subseteq {"gaps"}
  /\ kind = "ts" => DOMAIN que \subseteq Peers
  /\ kind = "timestamp" => /\ \A c \in Peers : link[c] = "on"
                           /\ \A i \in DOMAIN out : DOMAIN out[i].sub = Peers

NothingSkipped ==
  (kind \in {"ts", "timestamp"} /\ Orderly) =>
    /\ thrown => \A c \in Peers : got[c] = {}
    /\ \A c \in Peers : \A e \in got[c] : Queued(c, e) \/ Written(c, e)

\* The loop that writes events ends: each slice that is written uses up an
\* event, so no empty event is written and there are at most as many slices
\* as events.
EachSliceUsesOne ==
  (kind = "ts" /\ env \subseteq {"gaps"}) =>
    \A i \in DOMAIN out :
      \E c \in DOMAIN out[i].sub : End(out[i].sub[c]) = End(out[i].at)
=============================================================================
