----------------------------- MODULE Computation -----------------------------
(***************************************************************************)
(* What executing a graph promises, without threads, slots or locks: every  *)
(* value is executed exactly once by every node it is sent to, its results  *)
(* go to all the successors of the node, and a node terminates only when    *)
(* all that feeds it has terminated and all that was sent to it has been    *)
(* executed.  What a single thread sends to a node is executed in the order *)
(* in which it was sent; where several threads send to one node, only how   *)
(* many copies of a value are pending matters.                              *)
(***************************************************************************)
EXTENDS Naturals, Sequences, FiniteSets

CONSTANTS Task, Source, Sink, Data, Nullptr, Succ, Emit,
          Starts,   \* Starts[g]: how many automatic starts task g makes
          Ordered,  \* the nodes that a single thread, or the source, sends to
          Input

Node == Task \cup {Sink}

\* How often value d occurs in a sequence.
Count(s, d) == Cardinality({i \in DOMAIN s : s[i] = d})

VARIABLES
  pending,     \* pending[n][d]: the copies of d sent to n and not executed
  line,        \* line[n]: what was sent to ordered node n and not executed, in order
  started,     \* started[g]: the automatic starts of g already made
  terminated,  \* the source and nodes that will do nothing any more
  input,       \* what is yet to be pushed
  collected    \* the results returned to the user, in order

vars == <<pending, line, started, terminated, input, collected>>

Init ==
  /\ pending = [n \in Node |-> [d \in Data |-> 0]]
  /\ line = [n \in Ordered |-> <<>>]
  /\ started = [g \in Task |-> 0]
  /\ terminated = {}
  /\ input = Input
  /\ collected = <<>>

\* The bag of pending copies after g sent the values of s to its successors.
Sent(bag, g, s) ==
  [n \in Node |-> [d \in Data |->
     bag[n][d] + (IF n \in Succ[g] THEN Count(s, d) ELSE 0)]]

\* The lines after g sent the values of s, and after node n took the first of its own.
Lengthened(lines, g, s) ==
  [n \in Ordered |-> IF n \in Succ[g] THEN lines[n] \o s ELSE lines[n]]
Shortened(lines, n) == [m \in Ordered |-> IF m = n THEN Tail(lines[m]) ELSE lines[m]]

\* Node n may execute d now.
Due(n, d) ==
  /\ pending[n][d] > 0
  /\ n \in Ordered => line[n] # <<>> /\ d = Head(line[n])

Push ==
  /\ input # <<>>
  /\ Source \notin terminated
  /\ input' = Tail(input)
  /\ UNCHANGED <<started, terminated, collected>>
  /\ line' = Lengthened(line, Source, <<Head(input)>>)
  /\ pending' = Sent(pending, Source, <<Head(input)>>)

FinishPushing ==
  /\ input = <<>>
  /\ Source \notin terminated
  /\ terminated' = terminated \cup {Source}
  /\ UNCHANGED <<pending, line, started, input, collected>>

AutomaticStart(g) ==
  /\ g \notin terminated
  /\ started[g] < Starts[g]
  /\ started' = [started EXCEPT ![g] = @ + 1]
  /\ UNCHANGED <<terminated, input, collected>>
  /\ line' = Lengthened(line, g, Emit[<<g, Nullptr>>])
  /\ pending' = Sent(pending, g, Emit[<<g, Nullptr>>])

Execute(g, d) ==
  /\ g \notin terminated
  /\ Due(g, d)
  /\ UNCHANGED <<started, terminated, input, collected>>
  /\ line' = Lengthened(Shortened(line, g), g, Emit[<<g, d>>])
  /\ pending' = Sent([pending EXCEPT ![g][d] = @ - 1], g, Emit[<<g, d>>])

Collect(d) ==
  /\ Sink \notin terminated
  /\ Due(Sink, d)
  /\ collected' = Append(collected, d)
  /\ UNCHANGED <<started, terminated, input>>
  /\ line' = Shortened(line, Sink)
  /\ pending' = [pending EXCEPT ![Sink][d] = @ - 1]

Feeders(n) == {g \in Task \cup {Source} : n \in Succ[g]}

Terminate(n) ==
  /\ n \notin terminated
  /\ Feeders(n) \subseteq terminated
  /\ n \in Task => started[n] = Starts[n]
  /\ \A d \in Data : pending[n][d] = 0
  /\ terminated' = terminated \cup {n}
  /\ UNCHANGED <<pending, line, started, input, collected>>

Next ==
  \/ Push \/ FinishPushing
  \/ \E g \in Task : AutomaticStart(g) \/ \E d \in Data : Execute(g, d)
  \/ \E d \in Data : Collect(d)
  \/ \E n \in Node : Terminate(n)

Spec == Init /\ [][Next]_vars
=============================================================================
