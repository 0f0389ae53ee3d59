----------------------------- MODULE MCTaskGraph -----------------------------
(***************************************************************************)
(* Small graphs for the model checking of TaskGraph.  The configurations    *)
(* choose one wiring each.                                                  *)
(***************************************************************************)
EXTENDS TaskGraphRefinement, TLC

CONSTANTS A, B, a1, a2, b1, d1, d2, d3

\* Exchanging the threads of a group changes nothing.
GroupSymmetry == Permutations({a1, a2})

Forward(tasks) ==
  [x \in tasks \X (Data \cup {Nullptr}) |->
     IF x[2] = Nullptr THEN <<>> ELSE <<x[2]>>]

\* Source -> A (two threads) -> Sink.
PairGroupOf == (a1 :> A) @@ (a2 :> A)
PairSucc == (Source :> {A}) @@ (A :> {Sink})
PairEmit == Forward({A})

\* Source -> A and B, A -> B, B -> Sink; A starts by itself and then produces a
\* value, and another one when it is sent data; B sends these two on only.
MeshGroupOf == (a1 :> A) @@ (b1 :> B)
MeshSucc == (Source :> {A, B}) @@ (A :> {B}) @@ (B :> {Sink})
MeshEmit ==
  [x \in {A, B} \X (Data \cup {Nullptr}) |->
     CASE x = <<A, Nullptr>> -> <<d2>>
       [] x = <<A, d1>> -> <<d3>>
       [] x[1] = B /\ x[2] \in {d2, d3} -> <<x[2]>>
       [] OTHER -> <<>>]

OneInput == <<d1>>
TwoInputs == <<d1, d2>>
-----------------------------------------------------------------------------
\* A chain of single-threaded tasks keeps the order of what runs through its queues,
\* whatever else arrives there: what A produces second does not overtake what it
\* produced first.
OrderPreserved == results # <<>> => PendingBar[B][d2] = 0
=============================================================================
