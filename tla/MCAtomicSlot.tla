------------------------------ MODULE MCAtomicSlot -----------------------------
(***************************************************************************)
(* Groups of two and of three threads and one or two notifiers.              *)
(***************************************************************************)
EXTENDS AtomicSlot, TLC

CONSTANTS n1, n2

TwoNotifiers == (n1 :> 2) @@ (n2 :> 1)
OneNotifier  == n1 :> 2

ThreadSymmetry == Permutations(Thread)
=============================================================================
