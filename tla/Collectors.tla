----------------------------- MODULE Collectors -----------------------------
(***************************************************************************)
(* All the synchronising DataCollectors, each fed by the same streams, and *)
(* the programs that merge recorded files: "kind" is chosen at the         *)
(* beginning and says which of them it is.                                 *)
(***************************************************************************)
EXTENDS TriggerSync, Integers

CONSTANTS
  MaxTime, MaxSlices, Bif, Cal, Tel, FirstROC, Delays, Shift, Misfits, TriggerNs, MaxQue,
  MaxRecord   \* bound on the triggers in a file

\* The names that the collectors of the AHCAL know are different names.
ASSUME NamesAssumption == Bif # Cal /\ Tel \notin {Bif, Cal} /\ {Bif, Cal, Tel} \subseteq Conns

\* The clocks of the AHCAL and the BIF start anew in each run, and their events
\* are later than that.
ASSUME ClockAssumption ==
  /\ \A c \in {Bif, Cal} : FirstROC[c] \in Seq(Nat) /\ \A t \in Delays[c] : t \in Nat
  /\ \A c \in Conns : TriggerNs[c] \subseteq Nat \ {0}
  /\ Shift \in Int

ASSUME RecordAssumption == MaxRecord \in Nat

\* As for TriggerSync, a connection of an Ex0TsDataCollector is of one run.
ASSUME SliceAssumption ==
  /\ MaxTime \in Nat
  /\ "ts" \in Kinds =>
       \A i, j \in DOMAIN Runs["ts"] : i # j => Runs["ts"][i] \cap Runs["ts"][j] = {}

VARIABLES
  lastEnd, curr, building,    \* of the collectors that merge by time
  last, offsetDone, offset, accept,   \* of the collectors that merge by overlap
  todo, files, pc             \* of the mergers of files

sliceVars == <<lastEnd, curr, building>>
roundVars == <<last, offsetDone, offset, accept>>
fileVars  == <<todo, files, pc>>

Position == INSTANCE EventIDSync WITH que <- evque, MaxEventN <- MaxTrigger
Time     == INSTANCE TimestampSync WITH que <- evque, ready <- inactive
Pairs    == INSTANCE PairSync WITH que <- evque
Overlaps == INSTANCE OverlapSync WITH que <- evque

Merge    == INSTANCE Mergers WITH MaxTrigger <- MaxRecord

NoSlices == lastEnd = 0 /\ curr = <<>> /\ building = FALSE
NoRounds == last = <<>> /\ offsetDone = FALSE /\ offset = 0 /\ accept = FALSE
NoFiles  == todo = <<>> /\ files = <<>> /\ pc = "off"

CollectorsInit ==
  /\ kind \in Kinds
  /\ \/ Init /\ NoSlices /\ NoRounds /\ NoFiles
     \/ Position!Init /\ inactive = {} /\ NoSlices /\ NoRounds /\ NoFiles
     \/ Time!Init /\ NoRounds /\ NoFiles
     \/ Pairs!Init /\ inactive = {} /\ NoSlices /\ NoRounds /\ NoFiles
     \/ Overlaps!Init /\ inactive = {} /\ NoSlices /\ NoFiles
     \/ /\ \E k \in Merge!Programs : StreamsInit(k)
        /\ Merge!Init /\ evque = <<>> /\ inactive = {} /\ NoSlices /\ NoRounds

CollectorsNext ==
  \/ kind = "trigger" /\ Next /\ UNCHANGED <<sliceVars, roundVars, fileVars>>
  \/ kind = "eventid" /\ Position!Next /\ UNCHANGED <<inactive, sliceVars, roundVars, fileVars>>
  \/ kind \in {"ts", "timestamp"} /\ Time!Next /\ UNCHANGED <<roundVars, fileVars>>
  \/ kind = "pair" /\ Pairs!Next /\ UNCHANGED <<inactive, sliceVars, roundVars, fileVars>>
  \/ kind \in {"calts", "caltel"} /\ Overlaps!Next /\ UNCHANGED <<inactive, sliceVars, fileVars>>
  \/ /\ kind \in Merge!Programs /\ Merge!Next
     /\ UNCHANGED <<streamVars, evque, inactive, sliceVars, roundVars>>

CollectorsSpec ==
  CollectorsInit /\ [][CollectorsNext]_<<vars, sliceVars, roundVars, fileVars>>

\* TriggerSync: of each connection the events are written in order, all of
\* them up to the last trigger written, whatever triggers are missed; nothing
\* waits without need, and nothing of a run is left for the next.
TriggersMerged ==
  kind = "trigger" => TypeOK /\ PrefixWritten /\ SourceOrder /\ RunsSeparate /\ Prompt

\* EventIDSync: with gaps in the numbers, and after a producer has left, what
\* is merged is at the same position in every stream, and in a later run no
\* producer is refused for a name that an earlier one left behind.
PositionsMerged ==
  kind = "eventid" => Position!TypeOK /\ Position!SamePosition /\ Position!NamesFollow

\* TimestampSync: slices follow each other and overlap all that is in them;
\* no event of an orderly stream is lost between its queue and the file, and
\* the loop that writes slices cannot go on without events.
TimesMerged ==
  kind \in {"ts", "timestamp"} =>
    Time!TypeOK /\ Time!SlicesOrdered /\ Time!NothingSkipped /\ Time!EachSliceUsesOne

\* PairSync: the triggers that both producers delivered are written, in order.
\* OverlapSync: what is written together overlaps, what is written alone
\* overlaps nothing, of producers with the names it asks for all is used and of
\* others nothing, and the telescope's event is the one of the same trigger.
PairsMerged ==
  /\ Pairs!PairsComplete
  /\ Overlaps!TogetherOverlap /\ Overlaps!AloneIsAlone
  /\ Overlaps!EachUsed /\ Overlaps!TelescopeMatches

\* Mergers: the triggers that are in all three files are written, in order;
\* or each with its partner and the last frame before it, and from the first
\* frame on none is left out or written twice.
FilesMerged ==
  Merge!EachCommonTrigger /\ Merge!FrameOfTrigger /\ Merge!NoneLeftOut
=============================================================================
