-------------------------------- MODULE Router --------------------------------
(***************************************************************************)
(* What an execution pipeline promises: every value that reaches it is      *)
(* handed, once and in the order of arrival, to every input node of every   *)
(* inner graph that the switch rule chooses for it, and an input node is    *)
(* told that nothing more will come only after it was handed everything.    *)
(***************************************************************************)
EXTENDS Naturals, Sequences, SequencesExt

CONSTANTS
  Arrival,  \* the values a pipeline can receive
  Entry,    \* the input nodes of the inner graphs
  Chosen    \* the pairs <<d, e>> for which the switch sends d to the graph of e

VARIABLES
  arrived,   \* the values that reached the pipeline, in order
  handed,    \* what each input node was handed, in order
  closed     \* the input nodes told that nothing more will come

vars == <<arrived, handed, closed>>

Init == arrived = <<>> /\ handed = [e \in Entry |-> <<>>] /\ closed = {}

\* What e is to be given when d arrives, and for all that arrived.
Share(d, e) == IF <<d, e>> \in Chosen THEN <<d>> ELSE <<>>
For(e) == FlattenSeq([i \in DOMAIN arrived |-> Share(arrived[i], e)])

Arrive(d) ==
  /\ closed = {}
  /\ arrived' = Append(arrived, d)
  /\ UNCHANGED <<handed, closed>>

Hand(e) ==
  /\ Len(handed[e]) < Len(For(e))
  /\ handed' = [handed EXCEPT ![e] = Append(@, For(e)[Len(@) + 1])]
  /\ UNCHANGED <<arrived, closed>>

Close(e) ==
  /\ \A f \in Entry : Len(handed[f]) = Len(For(f))
  /\ closed' = closed \cup {e}
  /\ UNCHANGED <<arrived, handed>>

Next ==
  \/ \E d \in Arrival : Arrive(d)
  \/ \E e \in Entry : Hand(e) \/ Close(e)


Spec == Init /\ [][Next]_vars
==============================================================================
