----------------------------- MODULE DataRaceTest -----------------------------
(***************************************************************************)
(* hh_cx::DataRaceTest: the types a node sends to several receivers, one of   *)
(* which may write the data.                                                 *)
(***************************************************************************)
EXTENDS StaticGraph

\* What a node sends: for each type, the receivers in the order of their registration.
Receivers(g, sender) ==
  LET insertAll(map, n) ==
        FoldLeft(LAMBDA known, t : Insert(known, t, n), map,
                 AdjacentNodesTypes(g, sender)[NodeId(g, n)])
  IN FoldLeft(insertAll, EmptyMap, g.nodes)

IsOutputSafe(g, sender, receivers, t) ==
  \A n \in Range(receivers) : IsROLinked(g, sender, n, t) \/ IsConstLinked(g, sender, n, t)

\* The edges that the test reports.
RacesReported(g) ==
  UNION {LET receivers == NodesOf(Receivers(g, m), t) IN
         IF Len(receivers) > 1 /\ ~IsOutputSafe(g, m, receivers, t)
           THEN {<<m, n, t>> : n \in Range(receivers)} ELSE {} : <<m, t>> \in Range(g.nodes) \X Type}
-----------------------------------------------------------------------------
(* What a race is, whatever the test does.                                    *)

MayWrite(n, t) == t \notin ReadOnly[n] /\ t \notin Const

SentTo(m, t) == {n \in Node : <<"edge", m, n, t>> \in made}

\* The edges of the types that several nodes receive.
Shared ==
  {<<m, n, t>> \in Node \X Node \X Type :
     n \in SentTo(m, t) /\ Cardinality(SentTo(m, t)) > 1}

\* A writer races with any other receiver.
Races == {<<m, n, t>> \in Shared : \E r \in SentTo(m, t) : MayWrite(r, t)}

\* The races that the documentation of the test announces: no receiver only reads.
DocumentedRaces == {<<m, n, t>> \in Shared : \A r \in SentTo(m, t) : MayWrite(r, t)}

\* An edge made twice counts as two receivers.
Doubled(m, n, t) == Len(SelectSeq(AdjacentNodesTypes(graph, m)[NodeId(graph, n)], LAMBDA u : u = t)) > 1
==============================================================================
