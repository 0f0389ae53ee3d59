-------------------------- MODULE MCAtomicQueueReceiver ------------------------
(***************************************************************************)
(* Two threads that add values and two that take them out.                   *)
(***************************************************************************)
EXTENDS AtomicQueueReceiver, TLC

CONSTANTS p1, p2, v1, v2, v3

\* One producer adds two values, the other one adds one.
ThreeValues == (p1 :> <<v1, v2>>) @@ (p2 :> <<v3>>)

\* Each of them adds one value.
TwoValues == (p1 :> <<v1>>) @@ (p2 :> <<v2>>)

\* Consumers, and addresses, are interchangeable.
Symmetry == Permutations(Consumer) \cup Permutations(Address)
=============================================================================
