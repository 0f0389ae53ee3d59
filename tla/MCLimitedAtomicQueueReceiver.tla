---------------------- MODULE MCLimitedAtomicQueueReceiver ---------------------
(***************************************************************************)
(* Producers and consumers of a ring, and threads that watch it.             *)
(***************************************************************************)
EXTENDS LimitedAtomicQueueReceiver, TLC

CONSTANTS p1, p2, c2, v1, v2, v3

\* More values than the ring has slots, from one producer or from two.
OneProducer ==
  [offer |-> (p1 :> <<v1, v2, v3>>) @@ (p2 :> <<>>), away |-> {p2, c2}]
TwoProducers ==
  [offer |-> (p1 :> <<v1, v2>>) @@ (p2 :> <<v3>>), away |-> Observer]

BothStarts == {OneProducer, TwoProducers}

ThreadSymmetry == Permutations(Consumer)
=============================================================================
