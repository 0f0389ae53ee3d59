------------------------------ MODULE ManagedPool ------------------------------
(***************************************************************************)
(* What a memory manager promises: a piece of memory has one user at a time, *)
(* and is available again after it was given back as often as its user       *)
(* decided.                                                                  *)
(***************************************************************************)
EXTENDS Naturals

CONSTANTS
  Data,  \* the pieces of memory
  Uses   \* how often a piece is given back before it can be recycled

VARIABLES
  free,   \* free[d]: how often d can be obtained
  inUse,  \* the pieces somebody obtained
  uses    \* uses[d]: the returns d awaits

vars == <<free, inUse, uses>>

Init ==
  /\ free = [d \in Data |-> 1]
  /\ inUse = {}
  /\ uses = [d \in Data |-> 0]

Get(d) ==
  /\ free[d] > 0
  /\ d \notin inUse
  /\ free' = [free EXCEPT ![d] = @ - 1]
  /\ inUse' = inUse \cup {d}
  /\ UNCHANGED uses

Use(d) ==
  /\ d \in inUse
  /\ uses[d] = 0
  /\ uses' = [uses EXCEPT ![d] = Uses]
  /\ UNCHANGED <<free, inUse>>

Return(d) ==
  /\ uses[d] > 0
  /\ uses' = [uses EXCEPT ![d] = @ - 1]
  /\ UNCHANGED <<free, inUse>>

Recycle(d) ==
  /\ d \in inUse
  /\ uses[d] = 0
  /\ free' = [free EXCEPT ![d] = @ + 1]
  /\ inUse' = inUse \ {d}
  /\ UNCHANGED uses

Next == \E d \in Data : Get(d) \/ Use(d) \/ Return(d) \/ Recycle(d)

Spec == Init /\ [][Next]_vars
=============================================================================
