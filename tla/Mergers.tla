------------------------------ MODULE Mergers ------------------------------
(***************************************************************************)
(* The programs that merge the recorded files of a TLU, of the Mimosa      *)
(* telescope ("ni") and of another detector ("dut"), one event for each    *)
(* trigger ("standard"), one for each frame of the telescope ("combined")  *)
(* or with the last frame in each ("duplicate").  An event is its trigger  *)
(* number or, for the programs called ...EvtID, its event number.          *)
(***************************************************************************)
EXTENDS Naturals, Sequences, FiniteSets, SequencesExt

CONSTANT MaxTrigger   \* bound on the trigger number

VARIABLES
  kind,   \* the program
  todo,   \* file -> its event at hand, ev_..., and those not read yet
  files,  \* file -> all its triggers
  pc,     \* where the program is
  out     \* the events written: its trigger and those of its sub-events

mergerVars == <<todo, files, pc, out>>
vars == <<kind, mergerVars>>

Programs == {"standard", "combined", "duplicate"}
Sources  == {"tlu", "ni", "dut"}

\* A file is in the order of its triggers.
InOrder(S) ==
  CHOOSE q \in [1 .. Cardinality(S) -> S] : \A i, j \in DOMAIN q : i < j => q[i] < q[j]

Init ==
  /\ kind \in Programs
  /\ files \in [Sources -> SUBSET (1 .. MaxTrigger)]
  /\ todo = [s \in Sources |-> InOrder(files[s])]
  /\ pc = IF kind = "standard" THEN "sync" ELSE "align_ni"
  /\ out = <<>>

\* GetNextEvent returns a null pointer at the end of the file.
Null(q) == q = <<>>
Next1(q) == IF Null(q) THEN <<>> ELSE Tail(q)

\* Mutant: the event with the trigger itself is passed over.
MutFrom(q, t) ==
  LET i == SelectInSeq(q, LAMBDA u : u > t) IN IF i = 0 THEN <<>> ELSE SubSeq(q, i, Len(q))

\* The file from the first event on whose trigger is not smaller.
From(q, t) ==
  LET i == SelectInSeq(q, LAMBDA u : u >= t) IN IF i = 0 THEN <<>> ELSE SubSeq(q, i, Len(q))
-----------------------------------------------------------------------------
(***************************************************************************)
(* One event of the TLU with its partners, if both are there.              *)
(***************************************************************************)
Standard ==
  /\ kind = "standard" /\ pc = "sync"
  /\ IF Null(todo["tlu"])
     THEN pc' = "crashed" /\ UNCHANGED <<todo, out>>
     ELSE LET t   == Head(todo["tlu"])
              ni  == From(todo["ni"], t)
              dut == IF Null(ni) THEN todo["dut"] ELSE From(todo["dut"], t)
          IN IF Null(ni) \/ Null(dut)
             THEN /\ todo' = [todo EXCEPT !["ni"] = ni, !["dut"] = dut]
                  /\ pc' = "done" /\ UNCHANGED out
             ELSE /\ todo' = [tlu |-> Tail(todo["tlu"]), ni |-> ni, dut |-> dut]
                  /\ out' = IF Head(ni) = t /\ Head(dut) = t
                            THEN Append(out, [tg |-> t, tlu |-> {t}, ni |-> t, dut |-> {t}])
                            ELSE out
                  /\ pc' = IF Null(Tail(todo["tlu"])) THEN "done" ELSE "sync"
  /\ UNCHANGED <<kind, files>>
-----------------------------------------------------------------------------
(***************************************************************************)
(* The beginning of the two others: the files are read up to a common      *)
(* trigger.  A file that is exhausted before makes them dereference a null *)
(* pointer, here or in the line after.                                     *)
(***************************************************************************)
AlignNi ==
  /\ pc = "align_ni"
  /\ LET ni == IF Null(todo["tlu"]) THEN todo["ni"] ELSE From(todo["ni"], Head(todo["tlu"]))
     IN /\ todo' = [todo EXCEPT !["ni"] = ni]
        /\ pc' = IF Null(todo["tlu"]) \/ Null(ni) \/ (kind = "duplicate" /\ Null(todo["dut"]))
                 THEN "crashed" ELSE "align_tlu"
  /\ UNCHANGED <<kind, files, out>>

AlignTlu ==
  /\ pc = "align_tlu"
  /\ IF Head(todo["tlu"]) < Head(todo["ni"])
     THEN LET tlu == Tail(todo["tlu"])
              dut == Next1(todo["dut"])
          IN /\ todo' = [todo EXCEPT !["tlu"] = tlu, !["dut"] = dut]
             /\ pc' = IF Null(tlu) THEN "crashed" ELSE IF Null(dut) THEN "sync" ELSE pc
     ELSE pc' = "sync" /\ UNCHANGED todo
  /\ UNCHANGED <<kind, files, out>>
-----------------------------------------------------------------------------
(***************************************************************************)
(* A frame of the telescope with all events of the other two up to the     *)
(* next frame.  It is not written if there is no next frame.               *)
(***************************************************************************)
\* Mutant: the first event of the next frame is taken, too.
MutLast(q, n) == SelectInSeq(q, LAMBDA t : n <= t)

\* The last event before frame n; 0: the file ends first.
Last1(q, n) == SelectInSeq(q, LAMBDA t : n <= t + 1)

\* Mutant: the event after the group was read ahead and is lost.
MutRest(q, k) == SubSeq(q, k + 2, Len(q))

Rest(q, k) == SubSeq(q, k + 1, Len(q))

Combined ==
  /\ kind = "combined" /\ pc = "sync"
  /\ LET tlu == todo["tlu"]
         dut == todo["dut"]
         ni  == Tail(todo["ni"])
         k   == IF Null(ni) THEN 0 ELSE Last1(tlu, Head(ni))
     IN \/ /\ Null(ni)
           /\ pc' = "done"
           /\ todo' = [todo EXCEPT !["ni"] = ni]
           /\ UNCHANGED out
        \/ /\ ~Null(ni) /\ k = 0
           /\ pc' = "crashed"
           /\ UNCHANGED <<todo, out>>
        \/ /\ ~Null(ni) /\ k > 0
           /\ out' = Append(out, [tg |-> Head(tlu), tlu |-> {tlu[i] : i \in 1 .. k},
                                  ni |-> Head(todo["ni"]),
                                  dut |-> {dut[i] : i \in 1 .. k \cap DOMAIN dut}])
           /\ todo' = [tlu |-> Rest(tlu, k), ni |-> ni, dut |-> Rest(dut, k)]
           /\ pc' = IF Len(tlu) <= k \/ Len(dut) <= k THEN "done" ELSE "sync"
  /\ UNCHANGED <<kind, files>>
-----------------------------------------------------------------------------
(***************************************************************************)
(* Each pair of the other two with the frame at hand.  ev_ni_next is the   *)
(* second of todo["ni"]; its trigger and that of ev_tlu are read before    *)
(* the end of the files is looked for.                                     *)
(***************************************************************************)
Duplicate ==
  /\ kind = "duplicate" /\ pc = "sync"
  /\ LET tlu  == Tail(todo["tlu"])
         dut  == Next1(todo["dut"])
         next == Tail(todo["ni"])
         same == ~Null(tlu) /\ ~Null(next) /\ Head(next) = Head(tlu)
         ni   == IF same THEN next ELSE todo["ni"]
     IN IF Null(todo["dut"])
        THEN pc' = "crashed" /\ UNCHANGED <<todo, out>>
        ELSE /\ out' = Append(out, [tg |-> Head(todo["tlu"]), tlu |-> {Head(todo["tlu"])},
                                    ni |-> Head(todo["ni"]), dut |-> {Head(todo["dut"])}])
             /\ todo' = [tlu |-> tlu, dut |-> dut, ni |-> ni]
             /\ pc' = IF Null(tlu) \/ Null(next) THEN "crashed"
                      ELSE IF Len(ni) = 1 \/ Null(dut) THEN "done" ELSE "sync"
  /\ UNCHANGED <<kind, files>>

Next == Standard \/ AlignNi \/ AlignTlu \/ Combined \/ Duplicate

Spec == Init /\ [][Next]_vars
-----------------------------------------------------------------------------
(***************************************************************************)
(* Properties.                                                             *)
(***************************************************************************)
Common == files["tlu"] \cap files["ni"] \cap files["dut"]

\* "one trigger = one read-out from each device"
\* (euCliMergerStandardTrigID.cxx:12): whatever each detector misses and
\* wherever its file begins and ends, exactly the triggers that are in all
\* three files are written, in order, and the program comes to its end.
EachCommonTrigger ==
  kind = "standard" =>
    /\ \A i, j \in DOMAIN out : i < j => out[i].tg < out[j].tg
    /\ {out[i].tg : i \in DOMAIN out} \subseteq Common
    /\ pc = "done" => {out[i].tg : i \in DOMAIN out} = Common
    /\ pc = "crashed" => files["tlu"] = {}

\* The TLU has an event for each trigger, the telescope sees none that it
\* does not, and the other detector sees them all.
InSync ==
  /\ files["dut"] = files["tlu"] /\ files["ni"] \subseteq files["tlu"]
  /\ \A t, u \in files["tlu"] : t .. u \subseteq files["tlu"]

Frames(t) == {n \in files["ni"] : n <= t}

\* "attach all events of tlu and dut within one ni event"
\* (euCliMergerMixedCombinedTrigID.cxx:12) and "duplicates corresponding
\* Mimosa read-out to each event of tlu and dut"
\* (euCliMergerMixedDuplicateMimosaTrigID.cxx:12): with detectors in sync
\* each event of the TLU is written with the partner of the same trigger and
\* with the last frame of the telescope that is not later.
FrameOfTrigger ==
  (kind \in {"combined", "duplicate"} /\ InSync) =>
    \A i \in DOMAIN out :
      /\ out[i].dut = out[i].tlu
      /\ \A t \in out[i].tlu : out[i].ni \in Frames(t) /\ \A n \in Frames(t) : n <= out[i].ni

\* Between the first frame and the last event that is written none of the TLU
\* is left out and none is written twice.
NoneLeftOut ==
  (kind \in {"combined", "duplicate"} /\ InSync) =>
    /\ \A i \in DOMAIN out : \A t \in out[i].tlu : \A u \in files["tlu"] :
         (u <= t /\ Frames(u) # {}) => \E j \in 1 .. i : u \in out[j].tlu
    /\ \A i, j \in DOMAIN out : i # j => out[i].tlu \cap out[j].tlu = {}
=============================================================================
