------------------------- MODULE TaskGraphRefinement -------------------------
(***************************************************************************)
(* TaskGraph implements Computation.  A value is pending for a node from    *)
(* the moment the step that produced it begins until a thread of the node   *)
(* takes it out of the queue; sending and notifying move it but change      *)
(* nothing that Computation sees.  The values for a node that one process   *)
(* alone sends to are in line: first its queue, then what the sender holds. *)
(***************************************************************************)
EXTENDS TaskGraph

Places(s, d) == {i \in DOMAIN s : s[i] = d}

\* Process p has given node n the value it is sending.
Given(p, n) == pc[p] = "notify" \/ (pc[p] = "send" /\ n \notin todo[p])

\* The results of process p that node n has yet to receive.
Unsent(p, n) ==
  IF n \notin Succ[From(p)] THEN <<>>
  ELSE IF Given(p, n) THEN Tail(outbox[p]) ELSE outbox[p]

PendingBar ==
  [n \in Node |-> [d \in Data |->
     Cardinality(Places(queue[n], d))
       + Cardinality(UNION {{p} \X Places(Unsent(p, n), d) : p \in Sender})]]

\* The nodes that one process alone sends to.  With several consumers the ring of a
\* limited queue does not promise the order that its sequence here has.
OrderedBar ==
  {n \in Node : /\ \E p \in Sender : Preds(n) = {p}
                /\ n \in Limited => \E t \in Thread : Group(n) = {t}}

\* The one process that sends to ordered node n.
Feeder == [n \in OrderedBar |-> CHOOSE p \in Sender : Preds(n) = {p}]

InLine(n) == queue[n] \o Unsent(Feeder[n], n)
LineBar == [n \in OrderedBar |-> InLine(n)]

Begun(t) == pc[t] \notin {"idle", "start"}

StartsBar == [g \in Task |-> IF g \in AutoStart THEN Cardinality(Group(g)) ELSE 0]

StartedBar ==
  [g \in Task |-> IF g \in AutoStart
                    THEN Cardinality({t \in Group(g) : Begun(t)}) ELSE 0]

\* A task has terminated when all the threads of its group have so decided.
TerminatedBar ==
  {g \in Task : \A t \in Group(g) : pc[t] \in Ended}
    \cup {n \in {Sink} : pc[Reader] \in Ended}
    \cup {n \in {Source} : pc[Source] \in Ended}

C == INSTANCE Computation WITH
  Starts <- StartsBar,
  Ordered <- OrderedBar,
  pending <- PendingBar,
  line <- LineBar,
  started <- StartedBar,
  terminated <- TerminatedBar,
  collected <- results

\* Every value pushed is executed exactly once by every node it reaches, in the
\* order in which it was sent if one thread alone sends to the node; every
\* automatic start is made once per thread, and a node terminates only after
\* its feeders terminated and its last value was executed.
ImplementsComputation == C!Spec
=============================================================================
