------------------------------ MODULE MCAnalyses ---------------------------
(***************************************************************************)
(* Two things that are computed beside the running graph: the analysis of a   *)
(* static graph (four nodes and two types; no edge, one, or eight or nine of nine *)
(* are made first), and the figures of the dot file (a group of three threads  *)
(* and a task of one that starts automatically).  A behaviour takes steps of   *)
(* one of them only.                                                          *)
(***************************************************************************)
EXTENDS StaticAnalysis, NodeStatistics

CONSTANTS n1, n2, n3, n4, t1, t2, good, poor, absent,
  a, b, x1, x2, x3, y1, i1, i2

TheIns == (n1 :> {t1}) @@ (n2 :> {t1}) @@ (n3 :> {t1, t2}) @@ (n4 :> {t1})
TheOuts == (n1 :> {t1, t2}) @@ (n2 :> {t1, t2}) @@ (n3 :> {t1}) @@ (n4 :> {t1})
TheReadOnly == (n1 :> {}) @@ (n2 :> {t1}) @@ (n3 :> {t1}) @@ (n4 :> {})
TheSize == (n1 :> 1) @@ (n2 :> 3) @@ (n3 :> 2) @@ (n4 :> 2) @@ (t1 :> 1) @@ (t2 :> 2)

TheEdges ==
  << <<n1, n2, t1>>, <<n2, n1, t1>>, <<n1, n3, t1>>, <<n3, n1, t1>>, <<n2, n3, t1>>,
     <<n3, n4, t1>>, <<n4, n2, t1>>, <<n3, n2, t1>>, <<n4, n4, t1>> >>
TheEnds ==
  << <<"input", n1, n1, t1>>, <<"output", n3, n3, t1>>, <<"output", n1, n1, t1>>, <<"output", n1, n1, t2>> >>
TheWirings ==
  LET edges(chosen) == SelectSeq([i \in DOMAIN TheEdges |-> <<"edge">> \o TheEdges[i]],
                                 LAMBDA c : Tail(c) \in chosen)
  IN {edges(chosen) : chosen \in {s \in SUBSET Range(TheEdges) : Cardinality(s) = 8}}
     \cup {edges({})} \cup {edges({<<n1, n2, t1>>}) \o TheEnds} \cup {edges(Range(TheEdges)) \o TheEnds}

\* A dynamic node with all the types, and one that lacks an output.
TheDynIns == (good :> Type) @@ (poor :> {t1})
TheDynOuts == (good :> Type) @@ (poor :> {t1, t2})

TheArguments ==
  LET names == {<<n1, n2>>, <<n2, n1, n3>>, <<n3, n2, n1, n4>>, <<n1, n2, n1>>, <<n1, absent>>}
      pairs(list, lacking) == [i \in DOMAIN list |-> <<list[i], IF list[i] = lacking THEN poor ELSE good>>]
  IN {pairs(list, absent) : list \in names} \cup {pairs(<<n3, n2, n1, n4>>, n3)}

TheMembers == (a :> <<x1, x2, x3>>) @@ (b :> <<y1>>)
TheRounds == (x1 :> 2) @@ (x2 :> 1) @@ (x3 :> 0) @@ (y1 :> 0)

\* The task of one thread runs first, or not at all.
OneTaskAtATime ==
  IF pc'[y1] = pc[y1] THEN pc[y1].at \in {"new", "done"}
                     ELSE \A t \in {x1, x2, x3} : pc[t].at = "new"

AnalysesInit == StaticInit /\ StatInit
AnalysesNext ==
  \/ StatInit /\ StaticNext /\ UNCHANGED statVars
  \/ graph = NewGraph /\ StaticInit /\ StatNext /\ OneTaskAtATime /\ UNCHANGED staticVars
==============================================================================
