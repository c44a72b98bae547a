---------------------------- MODULE MCCollectors ----------------------------
(***************************************************************************)
(* The instance of Collectors that TLC checks: two runs of two producers   *)
(* for each collector, three producers where a third makes a difference.   *)
(* A connection object is new in each run, a name is not.  The mergers get *)
(* all files with triggers up to the bound.                                *)
(***************************************************************************)
EXTENDS Collectors

MCMergers == {"standard", "combined", "duplicate"}
MCKinds == {"trigger", "eventid", "ts", "timestamp", "pair", "calts", "caltel"} \cup MCMergers
MCConns == {"a", "b", "c", "d"}
MCRuns ==
  [k \in MCKinds |->
     CASE k = "timestamp" -> << {"a", "b", "c"}, {"a", "b"} >>
       [] k \in {"trigger", "ts"} -> << {"a", "b"}, {"c", "d"} >>
       [] k = "eventid"           -> << {"a", "b", "c"}, {"a", "b"} >>
       [] k = "caltel"            -> << {"a", "b", "c"}, {"a", "b", "c"} >>
       [] k \in MCMergers         -> << {} >>
       [] OTHER                   -> << {"a", "b"}, {"a", "b"} >>]
\* With plain names nothing gets far, so most is done with prefixed ones.
MCPrefixed(S) == {s \cup {"prefixed"} : s \in S}
MCEnvs ==
  [k \in MCKinds |->
     CASE k = "trigger" -> { {}, {"gaps"}, {"gaps", "late"}, {"ghost"}, {"lost"}, {"reset"}, {"bad"} }
       [] k = "eventid" -> { {}, {"gaps"}, {"late"}, {"ghost"}, {"lost"} }
       [] k = "pair"    -> { {"gaps", "late", "ghost"}, {"gaps", "lost"}, {"prefixed"} }
       [] k = "calts"   -> { {} } \cup MCPrefixed({ {"late"}, {"ghost"}, {"lost"}, {"bad"} })
       [] k = "caltel"  -> { {} } \cup MCPrefixed({ {"late"}, {"lost"}, {"full"}, {"bad"} })
       [] k \in MCMergers -> { {} }
       [] OTHER         -> { {"gaps"}, {"late"}, {"ghost"}, {"bad"} }]

\* The clocks start at other times in each run, and the one of the BIF 120 of
\* its ticks before the first event; one tick of the AHCAL is 32 of the BIF.
MCFirstROC == [c \in {"a", "b"} |-> IF c = "a" THEN <<0, 64>> ELSE <<5, 3>>]
MCDelays   == [c \in {"a", "b"} |-> IF c = "a" THEN {120, 152, 184, 216} ELSE 0 .. 3]
MCShift    == -1
MCNumbers  == [c \in MCConns |-> IF c = "b" THEN {2, 3} ELSE {1, 2}]
MCMisfits  == {"b"}
=============================================================================
