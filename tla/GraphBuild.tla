------------------------------ MODULE GraphBuild ------------------------------
(***************************************************************************)
(* The construction of graphs: what inputs, input, outputs, output, edges   *)
(* and edge do to the cores, how a graph put inside another one or inside   *)
(* an execution pipeline loses its source and its sink, and how a pipeline  *)
(* clones its graph.                                                        *)
(*                                                                          *)
(* The user makes the calls of a menu, each once; a call that throws leaves *)
(* what it changed before.  The whole construction is one record, and every *)
(* member function of the cores maps a construction to the next.            *)
(*                                                                          *)
(* The links are those that the calls make: a thread that ends removes its   *)
(* own (TaskGraph), which is left out here.                                  *)
(*                                                                          *)
(* Bounds: a graph cloned by a pipeline may contain graphs of tasks, and no  *)
(* pipeline; a graph that a pipeline holds is not finished by the user.      *)
(***************************************************************************)
EXTENDS Naturals, Sequences, FiniteSets, FiniteSetsExt

CONSTANTS
  Task, Graph, Pipeline,  \* the nodes that the user makes
  Type,                   \* the types of data
  Ins, Outs,              \* the input and output types of each node
  NumberGraphs,           \* the number of graphs of each pipeline
  Call,                   \* the calls the user makes
  Later,                  \* pairs of calls: the first one is made first
  None                    \* no graph

Copy == 0 .. Max({NumberGraphs[p] : p \in Pipeline} \cup {1}) - 1

\* A core: the one of a node, or the source, the sink or the switch in it; the
\* copies other than 0 are clones.
Core(n) == <<n, 0, "node">>
Source(g) == <<g[1], g[2], "source">>
Sink(g) == <<g[1], g[2], "sink">>
Switch(p) == <<p[1], p[2], "switch">>
CloneOf(x, k) == <<x[1], k, x[3]>>

GraphCore == Graph \X Copy \X {"node"}
NodeCore == (Task \cup Graph \cup Pipeline) \X Copy \X {"node"}
IsTask(x) == x[1] \in Task
IsGraph(x) == x[1] \in Graph

\* The types that two lists of types have in common.
Common(types, others) == {t \in types : t \in others}

\* The types of the two sides that a connection joins.
CommonTypes(c) ==
  CASE c.op \in {"input", "inputs"}   -> Common(Ins[c.to], Ins[c.g])
    [] c.op \in {"output", "outputs"} -> Common(Outs[c.from], Outs[c.g])
    [] c.op \in {"edge", "edges"}     -> Common(Outs[c.from], Ins[c.to])

\* A connection compiles if its sides share a type, and the one that it names if it
\* names one.
Compiles(c) ==
  CASE c.op \in {"inputs", "outputs", "edges"} -> CommonTypes(c) # {}
    [] c.op \in {"input", "output", "edge"}    -> c.type \in CommonTypes(c)
    [] OTHER -> TRUE

ASSUME CallAssumption ==
  /\ Ins \in [Task \cup Graph \cup Pipeline -> SUBSET Type]
  /\ Outs \in [Task \cup Graph \cup Pipeline -> SUBSET Type]
  /\ NumberGraphs \in [Pipeline -> Nat \ {0}]
  /\ Later \subseteq Call \X Call
  /\ \A c \in Call : Compiles(c)

VARIABLES
  cores,  \* the construction, see Empty
  left,   \* the calls to make
  made    \* the calls that returned without an exception

vars == <<cores, left, made>>

NoFace == [receivers |-> {}, slots |-> {}, senders |-> {}, notifiers |-> {}]

\* status, belongingGraph_, insideNodesAndGroups_; ends: the sources and sinks
\* that exist; graphs: coreGraphs_ of a pipeline; face: the sets behind GraphReceiver, GraphSlot, GraphSender and
\* GraphNotifier; links: the connections as each of the four sides stores them;
\* cleaned: the cores whose clean was called.
Empty ==
  [status |-> [g \in GraphCore |-> "INIT"],
   belonging |-> [x \in NodeCore |-> None],
   inside |-> [g \in GraphCore |-> {}],
   ends |-> {Source(Core(g)) : g \in Graph} \cup {Sink(Core(g)) : g \in Graph},
   graphs |-> [p \in Pipeline |-> {}],
   face |-> [x \in NodeCore |-> NoFace],
   links |-> NoFace,
   cleaned |-> {}]
-----------------------------------------------------------------------------
(* The nodes behind a core: itself, or what a graph or pipeline stands for.   *)

Of(typed, t) == {x[2] : x \in {y \in typed : y[1] = t}}

Receivers(s, x, t) == IF IsGraph(x) /\ x[3] = "node"
                        THEN Of(s.face[x].receivers, t) ELSE {x}
Slots(s, x) == IF IsGraph(x) /\ x[3] = "node" THEN s.face[x].slots ELSE {x}
Senders(s, x, t) == IF x[3] = "node" /\ ~IsTask(x)
                      THEN Of(s.face[x].senders, t) ELSE {x}
Notifiers(s, x) == IF x[3] = "node" /\ ~IsTask(x)
                     THEN s.face[x].notifiers ELSE {x}

\* Both ends of a link store it.
AddReceivers(s, links) ==
  [s EXCEPT !.links.receivers = @ \cup links, !.links.senders = @ \cup links]
RemoveReceivers(s, links) ==
  [s EXCEPT !.links.receivers = @ \ links, !.links.senders = @ \ links]
AddSlots(s, links) ==
  [s EXCEPT !.links.slots = @ \cup links, !.links.notifiers = @ \cup links]
RemoveSlots(s, links) ==
  [s EXCEPT !.links.slots = @ \ links, !.links.notifiers = @ \ links]

DrawEdge(s, a, b, t) ==
  AddReceivers(s, Senders(s, a, t) \X {t} \X Receivers(s, b, t))

DrawEdges(s, a, b, types) ==
  FoldSet(LAMBDA t, u : DrawEdge(u, a, b, t), s, types)

ConnectNotifierToSlot(s, a, b) == AddSlots(s, Notifiers(s, a) \X Slots(s, b))

Connect(s, a, b, types) ==
  DrawEdges(ConnectNotifierToSlot(s, a, b), a, b, types)

DisconnectSourceFromReceiver(s, g) ==
  LET of == {l \in s.links.receivers : l[1] = Source(g)}
  IN RemoveReceivers([s EXCEPT !.face[g].receivers = @ \cup {<<l[2], l[3]>> : l \in of}], of)

\* The source hands its connections to the graph, and is destroyed.
DisconnectSource(s, g) ==
  LET of == {l \in s.links.slots : l[1] = Source(g)} IN
  IF Source(g) \notin s.ends THEN s
  ELSE DisconnectSourceFromReceiver(
         RemoveSlots([s EXCEPT !.ends = @ \ {Source(g)},
                               !.face[g].slots = @ \cup {l[2] : l \in of}], of), g)

DisconnectSinkFromSender(s, g) ==
  LET of == {l \in s.links.senders : l[3] = Sink(g)}
  IN RemoveReceivers([s EXCEPT !.face[g].senders = @ \cup {<<l[2], l[1]>> : l \in of}], of)

\* Mutant of DisconnectSink: the outputs keep the sink as a slot.
DisconnectSinkHalf(s, g) ==
  LET of == {l \in s.links.notifiers : l[2] = Sink(g)} IN
  IF Sink(g) \notin s.ends THEN s
  ELSE DisconnectSinkFromSender(
         [s EXCEPT !.ends = @ \ {Sink(g)},
                   !.face[g].notifiers = @ \cup {l[1] : l \in of}], g)

DisconnectSink(s, g) ==
  LET of == {l \in s.links.notifiers : l[2] = Sink(g)} IN
  IF Sink(g) \notin s.ends THEN s
  ELSE DisconnectSinkFromSender(
         RemoveSlots([s EXCEPT !.ends = @ \ {Sink(g)},
                               !.face[g].notifiers = @ \cup {l[1] : l \in of}], of), g)

SetInside(s, g) ==
  DisconnectSink(DisconnectSource([s EXCEPT !.status[g] = "INS"], g), g)
-----------------------------------------------------------------------------
(* Registration.                                                             *)

IsRegistered(s, x) == s.belonging[x] # None

\* Mutant of Registrable: a graph is taken as a node of itself.
RegistrableItself(s, g, x) == s.belonging[x] \in {None, g}

\* registerNodeInsideGraph throws otherwise.
Registrable(s, g, x) == x # g /\ s.belonging[x] \in {None, g}

\* The graphs that change with x: itself, or those of a pipeline.
RegisteredWith(s, x) == CASE IsGraph(x) -> {x}
                          [] IsTask(x) -> {}
                          [] OTHER -> s.graphs[x[1]]

RegisterNodeInsideGraph(s, g, x) ==
  IF IsRegistered(s, x) THEN s
  ELSE LET named == [s EXCEPT !.inside[g] = @ \cup {x},
                              !.belonging = [y \in NodeCore |->
                                IF y \in {x} \cup RegisteredWith(s, x) THEN g
                                                                  ELSE @[y]]]
       IN FoldSet(LAMBDA h, u : SetInside(u, h), named, RegisteredWith(s, x))

-----------------------------------------------------------------------------
(* The clones of a graph.                                                     *)

Within(s, g) == s.inside[g] \cup UNION {s.inside[h] : h \in {x \in s.inside[g] : IsGraph(x)}}

\* The node of g that x is or is inside of.
Container(s, g, x) == CHOOSE y \in s.inside[g] : x = y \/ (IsGraph(y) /\ x \in s.inside[y])

Original(y) == CloneOf(y, 0)
NestedIn(s, g, x) == x \notin s.inside[g]
Inner(links, nodes) == {l \in links : {l[1], l[Len(l)]} \subseteq nodes}

\* What a task of a nested graph has to duplicate when that graph is cloned: its
\* edges to nodes that are cloned already.
DuplicatedBefore(s, g, links, before) ==
  {l \in links : NestedIn(s, g, l[1]) /\ Container(s, g, l[1]) # Container(s, g, l[Len(l)]) =>
     <<Container(s, g, l[Len(l)]), Container(s, g, l[1])>> \in before}

\* A nested graph duplicates the edges of all its output tasks, in its own name.
OfOutputs(s, g, links) ==
  {l \in links : NestedIn(s, g, l[1]) /\
     IF Len(l) = 3 THEN <<l[2], l[1]>> \in s.face[Container(s, g, l[1])].senders
                   ELSE l[1] \in s.face[Container(s, g, l[1])].notifiers}

InItsName(s, g, links) ==
  {[l EXCEPT ![1] = Container(s, g, l[1])] : l \in OfOutputs(s, g, links)}

CloneLink(l, k) == [l EXCEPT ![1] = CloneOf(@, k), ![Len(l)] = CloneOf(@, k)]

\* The duplicated edges, each with the name of the node or graph that made it.
DuplicateEdge(s, g, links, k, before) ==
  {CloneLink(l, k) : l \in DuplicatedBefore(s, g, links, before) \cup InItsName(s, g, links)}

\* A receiver knows who duplicated the edge, and every sender behind that one gets
\* the receiver.
DuplicateEdgeSender(s, edges) ==
  UNION {Senders(s, l[1], l[2]) \X {l[2]} \X {l[3]} : l \in edges}

DuplicateEdgeNotifier(s, edges) ==
  UNION {Notifiers(s, l[1]) \X {l[2]} : l \in edges}

DuplicateSourceEdge(face, k) ==
  [face EXCEPT !.receivers = {<<y[1], CloneOf(y[2], k)>> : y \in @},
               !.slots = {CloneOf(y, k) : y \in @}]

DuplicateSinkEdge(face, k) ==
  [face EXCEPT !.senders = {<<y[1], CloneOf(y[2], k)>> : y \in @},
               !.notifiers = {CloneOf(y, k) : y \in @}]

\* duplicateInsideNodes for the graph of a pipeline: the nodes and what the graphs
\* stand for, then the edges.
CloneNodes(s, g, k) ==
  LET nodes == Within(s, g)
      IsNew(y) == y[2] = k /\ Original(y) \in nodes \cup {g}
  IN [s EXCEPT
        !.belonging = [y \in NodeCore |-> IF IsNew(y) /\ Original(y) # g
                         THEN CloneOf(s.belonging[Original(y)], k) ELSE @[y]],
        !.inside = [h \in GraphCore |->
          IF IsNew(h) THEN {CloneOf(y, k) : y \in s.inside[Original(h)]} ELSE @[h]],
        !.status = [h \in GraphCore |-> IF IsNew(h) THEN "INS" ELSE @[h]],
        !.face = [y \in NodeCore |-> IF IsNew(y)
          THEN DuplicateSinkEdge(DuplicateSourceEdge(s.face[Original(y)], k), k) ELSE @[y]]]

Clone(s, g, k, before) ==
  LET cloned == CloneNodes(s, g, k)
      edges == DuplicateEdge(s, g, Inner(s.links.receivers, Within(s, g)), k, before)
      ends == DuplicateEdge(s, g, Inner(s.links.slots, Within(s, g)), k, before)
  IN [cloned EXCEPT
        !.links.senders = @ \cup edges,
        !.links.receivers = @ \cup DuplicateEdgeSender(cloned, edges),
        !.links.notifiers = @ \cup DuplicateEdgeNotifier(cloned, ends),
        !.links.slots = @ \cup DuplicateEdgeNotifier(cloned, ends)]

ConnectGraphToSwitch(s, p, g) ==
  Connect(s, Switch(p), g, Ins[p[1]])

RegisterGraphOutputNodes(s, p, g) ==
  [s EXCEPT !.face[p].senders = @ \cup s.face[g].senders,
            !.face[p].notifiers = @ \cup s.face[g].notifiers]

RegisterAndDuplicateGraph(s, p, g, before) ==
  LET ids == 1 .. NumberGraphs[p[1]] - 1
      based == [SetInside(s, g) EXCEPT
                  !.graphs[p[1]] = {g} \cup {CloneOf(g, k) : k \in ids}]
  IN FoldSet(LAMBDA k, u : Clone(u, g, k, before), based, ids)

\* Each copy is connected to the switch and to the outputs of the pipeline.
ConnectCoreGraphs(s, p) ==
  FoldSet(LAMBDA h, u : RegisterGraphOutputNodes(ConnectGraphToSwitch(u, p, h), p, h),
          s, s.graphs[p[1]])
-----------------------------------------------------------------------------
(* The calls.  A call is a record: op, the graph g, and the nodes.            *)

Returns(c, s) == /\ cores' = s /\ made' = made \cup {c}
Throws(s) == cores' = s /\ UNCHANGED made

AddInputNodeToGraph(s, g, x, types) ==
  IF Source(g) \in s.ends THEN Connect(s, Source(g), x, types) ELSE s

SetInputForACommonType(c, types) ==
  LET g == Core(c.g)
      node == Core(c.to)
  IN IF IsRegistered(cores, g) \/ ~Registrable(cores, g, node) THEN Throws(cores)
     ELSE Returns(c, AddInputNodeToGraph(RegisterNodeInsideGraph(cores, g, node), g, node, types))

SetInputForAllCommonTypes(c) == SetInputForACommonType(c, CommonTypes(c))

Input(c) == c.op = "input" /\ SetInputForACommonType(c, {c.type})

Inputs(c) == c.op = "inputs" /\ SetInputForAllCommonTypes(c)

AddOutputNodeToGraph(s, g, x, types) ==
  IF Sink(g) \in s.ends THEN Connect(s, x, Sink(g), types) ELSE s

SetOutputForACommonType(c, types) ==
  LET g == Core(c.g)
      node == Core(c.from)
  IN IF IsRegistered(cores, g) \/ ~Registrable(cores, g, node) THEN Throws(cores)
     ELSE Returns(c, AddOutputNodeToGraph(RegisterNodeInsideGraph(cores, g, node), g, node, types))

SetOutputForAllCommonTypes(c) == SetOutputForACommonType(c, CommonTypes(c))

Output(c) == c.op = "output" /\ SetOutputForACommonType(c, {c.type})

Outputs(c) == c.op = "outputs" /\ SetOutputForAllCommonTypes(c)

\* Mutant of AddEdgeForACommonType: connected before the nodes are registered.
AddEdgeUnregistered(c, types) ==
  LET g == Core(c.g)
      sender == Core(c.from)
      receiver == Core(c.to)
      s == RegisterNodeInsideGraph(Connect(cores, sender, receiver, types), g, sender)
  IN IF IsRegistered(cores, g) \/ ~Registrable(cores, g, sender) THEN Throws(cores)
     ELSE IF ~Registrable(s, g, receiver) THEN Throws(s)
     ELSE Returns(c, RegisterNodeInsideGraph(s, g, receiver))

\* A receiver that is refused leaves the sender registered.
AddEdgeForACommonType(c, types) ==
  LET g == Core(c.g)
      sender == Core(c.from)
      receiver == Core(c.to)
      s == RegisterNodeInsideGraph(cores, g, sender)
  IN IF IsRegistered(cores, g) \/ ~Registrable(cores, g, sender) THEN Throws(cores)
     ELSE IF ~Registrable(s, g, receiver) THEN Throws(s)
     ELSE Returns(c, Connect(RegisterNodeInsideGraph(s, g, receiver), sender, receiver, types))

AddEdgeForAllCommonTypes(c) == AddEdgeForACommonType(c, CommonTypes(c))

Edge(c) == c.op = "edge" /\ AddEdgeForACommonType(c, {c.type})

Edges(c) == c.op = "edges" /\ AddEdgeForAllCommonTypes(c)

\* The constructor of a pipeline; the nodes of the graph are cloned in some order.
NewPipeline(c) ==
  /\ c.op = "pipeline"
  /\ LET g == Core(c.g) IN
     IF cores.status[g] # "INIT" THEN Throws(cores)
     ELSE \E before \in SUBSET (cores.inside[g] \X {x \in cores.inside[g] : IsGraph(x)}) :
            Returns(c, ConnectCoreGraphs(
              RegisterAndDuplicateGraph(cores, Core(c.p), g, before), Core(c.p)))

ExecuteGraph(c) ==
  /\ c.op = "execute"
  /\ IF IsRegistered(cores, Core(c.g)) THEN Throws(cores)
     ELSE Returns(c, [cores EXCEPT !.status[Core(c.g)] = "EXEC"])

\* notifyAllTerminated of the source: no slot waits for it any more.
TerminateSource(s, g) == RemoveSlots(s, {l \in s.links.slots : l[1] = Source(g)})

\* The status changes before the test that throws.
FinishPushingData(c) ==
  /\ c.op = "finish"
  /\ LET s == [cores EXCEPT !.status[Core(c.g)] = "TERM"]
     IN IF IsRegistered(cores, Core(c.g)) THEN Throws(s)
                                          ELSE Returns(c, TerminateSource(s, Core(c.g)))

\* A pipeline is not cleanable: what is inside it is not reached.
RECURSIVE GatherCleanable(_, _)
GatherCleanable(s, g) ==
  {x \in s.inside[g] : IsTask(x)}
    \cup UNION {GatherCleanable(s, h) : h \in {x \in s.inside[g] : IsGraph(x)}}

CleanGraph(c) ==
  /\ c.op = "clean"
  /\ IF IsRegistered(cores, Core(c.g)) \/ cores.status[Core(c.g)] = "TERM"
       THEN Throws(cores)
     ELSE Returns(c, [cores EXCEPT !.cleaned = @ \cup GatherCleanable(cores, Core(c.g))])

Do(c) ==
  /\ c \in left
  /\ \A d \in left : <<d, c>> \notin Later
  /\ left' = left \ {c}
  /\ \/ Input(c) \/ Inputs(c) \/ Output(c) \/ Outputs(c) \/ Edge(c) \/ Edges(c)
     \/ NewPipeline(c) \/ ExecuteGraph(c) \/ FinishPushingData(c) \/ CleanGraph(c)

Init == cores = Empty /\ left = Call /\ made = {}
Next == \E c \in Call : Do(c)
Spec == Init /\ [][Next]_vars
-----------------------------------------------------------------------------
(* What the calls mean: the tasks that a node stands for, by the calls alone. *)

CallsOf(ops, n) == {c \in made : c.op \in ops /\ c.g = n}

\* All the types that the two sides have in common, or the one that is named.
TypesOf(c) ==
  CASE c.op = "inputs"  -> Ins[c.g] \cap Ins[c.to]
    [] c.op = "outputs" -> Outs[c.g] \cap Outs[c.from]
    [] c.op = "edges"   -> Outs[c.from] \cap Ins[c.to]
    [] c.op = "pipeline" -> Ins[c.p]
    [] OTHER -> {c.type}

RECURSIVE InTasks(_, _)
InTasks(n, t) ==
  IF n \notin Graph THEN {Core(n)}
  ELSE UNION {InTasks(c.to, t) : c \in {d \in CallsOf({"input", "inputs"}, n) : t \in TypesOf(d)}}

RECURSIVE OutTasks(_, _)
OutTasks(n, t) ==
  CASE n \in Task -> {Core(n)}
    [] n \in Graph -> UNION {OutTasks(c.from, t) :
                         c \in {d \in CallsOf({"output", "outputs"}, n) : t \in TypesOf(d)}}
    [] n \in Pipeline -> UNION {{CloneOf(x, k) : x \in OutTasks(c.g, t), k \in 0 .. NumberGraphs[n] - 1} :
                                 c \in {d \in made : d.op = "pipeline" /\ d.p = n}}

WiredBy(c, t) ==
  CASE c.op \in {"input", "inputs"}  -> {Source(Core(c.g))} \X {t} \X InTasks(c.to, t)
    [] c.op \in {"output", "outputs"} -> OutTasks(c.from, t) \X {t} \X {Sink(Core(c.g))}
    [] c.op \in {"edge", "edges"} -> OutTasks(c.from, t) \X {t} \X InTasks(c.to, t)
    [] c.op = "pipeline" ->
         {Switch(Core(c.p))} \X {t}
           \X {CloneOf(x, k) : x \in InTasks(c.g, t), k \in 0 .. NumberGraphs[c.p] - 1}

Wiring == {c \in made : c.op \notin {"execute", "finish", "clean"}}

RECURSIVE NodesIn(_)
NodesIn(g) ==
  LET from(ops) == CallsOf(ops, g)
      ins == from({"input", "inputs"})
      outs == from({"output", "outputs"})
      both == from({"edge", "edges"})
      named == {c.to : c \in ins \cup both} \cup {c.from : c \in outs \cup both}
  IN named \cup UNION {NodesIn(h) : h \in named \cap Graph}

Exists(x) == x[3] \in {"source", "sink"} => x \in cores.ends

Wires ==
  LET plain == UNION {UNION {WiredBy(c, t) : t \in TypesOf(c)} : c \in Wiring}
      within(c) == {w \in plain : {w[1][1], w[3][1]} \subseteq NodesIn(c.g)}
      cloned == UNION {{<<CloneOf(w[1], k), w[2], CloneOf(w[3], k)>> :
                          w \in within(c), k \in 0 .. NumberGraphs[c.p] - 1} :
                        c \in {d \in Wiring : d.op = "pipeline"}}
  IN {w \in plain \cup cloned : Exists(w[1]) /\ Exists(w[3])}
-----------------------------------------------------------------------------
\* Whatever the order of the calls, the calls refused in between and the cloning,
\* data flows exactly where the calls say: from every output task to every input
\* task of the two nodes of an edge, through any nesting; from the source of a
\* graph that is not inside another one; from the switch to every copy.  The
\* receiver knows the sender too, or the graph that sends in its name.
WiringIsFlat ==
  /\ cores.links.receivers = Wires
  /\ \A w \in Wires : \E l \in cores.links.senders :
       l[2] = w[2] /\ l[3] = w[3] /\ w[1] \in Senders(cores, l[1], w[2])

\* A source that said that no more data will come.
Finished(x) == x[3] = "source" /\ cores.status[Core(x[1])] = "TERM"

\* Who can still be sent data waits for the end of the one who sends it, nobody
\* waits for a source after finishPushingData, both sides of every link agree, and
\* none leads to a source or sink that is gone.
EndIsAwaited ==
  /\ cores.links.slots = cores.links.notifiers
  /\ \A w \in cores.links.receivers :
       ~Finished(w[1]) => <<w[1], w[3]>> \in cores.links.notifiers
  /\ \A l \in cores.links.notifiers : Exists(l[1]) /\ Exists(l[2]) /\ ~Finished(l[1])

\* A node is in at most one graph, the graph it says it is in, no graph is inside
\* itself however deep, cleanGraph reaches all the tasks that the calls put into the
\* graph however deep, and a graph has its own source and sink exactly as long as
\* it is not inside another one or a pipeline.
NestingIsATree ==
  /\ \A g, h \in GraphCore : g # h => cores.inside[g] \cap cores.inside[h] = {}
  /\ \A g \in GraphCore : \A x \in cores.inside[g] : cores.belonging[x] = g
  /\ LET within == {h \in GraphCore : IsRegistered(cores, h)} IN
     ~ \E ring \in SUBSET within \ {{}} : \A h \in ring : cores.belonging[h] \in ring
  /\ \A g \in Graph : {Core(n) : n \in NodesIn(g) \cap Task} \subseteq GatherCleanable(cores, Core(g))
  /\ \A g \in {Core(n) : n \in Graph} :
       /\ (Source(g) \in cores.ends) = (cores.status[g] # "INS")
       /\ (Sink(g) \in cores.ends) = (cores.status[g] # "INS")
       /\ IsRegistered(cores, g) => cores.status[g] = "INS"

\* Every copy of the graph of a pipeline has the edges of the original, and no
\* other, between its nodes and those of the graphs in it.
CopiesAreAlike ==
  \A p \in Pipeline : \A h \in cores.graphs[p] :
    Inner(cores.links.receivers, Within(cores, h))
      = {CloneLink(l, h[2]) : l \in Inner(cores.links.receivers, Within(cores, Original(h)))}
==============================================================================
