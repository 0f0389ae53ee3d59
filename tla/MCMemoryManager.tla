---------------------------- MODULE MCMemoryManager ----------------------------
(***************************************************************************)
(* Groups of threads that share fewer pieces of memory than they need.       *)
(***************************************************************************)
EXTENDS MemoryManager, TLC

Symmetry ==
  Permutations(Getter) \cup Permutations(Returner) \cup Permutations(Data)
=============================================================================
