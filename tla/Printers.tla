------------------------------- MODULE Printers -------------------------------
(***************************************************************************)
(* What createDotFile and generateHedgehogExportFile show of a construction: *)
(* the visit of the nodes, as the sequence of the calls it makes to the      *)
(* printer, and what each of the two printers makes of these calls.  Of the  *)
(* labels only the type of an edge is kept, of the groups only their members. *)
(***************************************************************************)
EXTENDS GraphBuild, SequencesExt

CONSTANT Threads  \* the number of threads of each task

ASSUME ThreadsAssumption == Threads \in [Task -> Nat \ {0}]

\* A printed node: a core, and its number in its group.
Node(x) == <<x, 0>>
IsLaunched(s, g) == s.status[g] \in {"EXEC", "TERM"}

\* The group of a task has its other members once the graph is executed.
Group(launched, x) ==
  IF IsTask(x) /\ x[3] = "node" /\ launched
    THEN {<<x, i>> : i \in 0 .. Threads[x[1]] - 1} ELSE {Node(x)}

\* A pipeline shares the id of its switch.
Id(n) == IF n[1][1] \in Pipeline THEN <<Switch(n[1]), n[2]>> ELSE n

\* The belongingGraph_ of a core: a switch is registered with its pipeline.
BelongingGraph(s, x) ==
  IF x[3] \in {"source", "sink"} THEN Core(x[1]) ELSE s.belonging[<<x[1], x[2], "node">>]

\* The graphs of a pipeline are numbered, a graph inside them is not.
GraphId(s, g) == IF \E p \in Pipeline : g \in s.graphs[p] THEN g[2] ELSE 0
-----------------------------------------------------------------------------
(* The visit.                                                                *)

Registered(calls, n) == \E i \in DOMAIN calls : calls[i].visit = n

Say(op, n) == <<[op |-> op, visit |-> n]>>

\* A call for every sender behind every one that the receiver knows: a sender that
\* the receiver knows by its graph too is said twice.
PrintEdgeInformation(s, n) ==
  LET connectedSenders == {l \in s.links.senders : l[3] = n[1]}
      said == SetToSeq(UNION {{l} \X Senders(s, l[1], l[2]) : l \in connectedSenders})
  IN [i \in DOMAIN said |-> [op |-> "edge", visit |-> None, from |-> Node(said[i][2]),
                             to |-> n, type |-> said[i][1][2]]]

PrintSource(s, g) == IF Source(g) \in s.ends THEN Say("source", Node(Source(g))) ELSE <<>>

PrintSink(s, g) ==
  IF Sink(g) \notin s.ends THEN <<>>
  ELSE Say("sink", Node(Sink(g))) \o PrintEdgeInformation(s, Node(Sink(g)))

VisitTask(s, calls, n) ==
  IF Registered(calls, n) THEN calls
  ELSE calls \o Say("node", n) \o PrintEdgeInformation(s, n)

\* Only a printer that shows all the members visits the others.
PrintGroup(s, all, calls, x) ==
  IF ~all THEN VisitTask(s, calls, Node(x))
  ELSE FoldSet(LAMBDA n, seq : VisitTask(s, seq, n), calls \o Say("group", x), Group(TRUE, x))
         \o Say("end", x)

RECURSIVE Visit(_, _, _, _, _)

VisitGraph(s, launched, all, calls, g) ==
  LET inside(x, seq) ==
        IF Cardinality(Group(launched, x)) = 1 THEN Visit(s, launched, all, seq, x)
                                               ELSE PrintGroup(s, all, seq, x)
  IN FoldSet(inside, calls \o Say("graph", Node(g)) \o PrintSource(s, g) \o PrintSink(s, g),
             s.inside[g])
       \o Say("footer", g)

VisitPipeline(s, launched, all, calls, p) ==
  FoldSet(LAMBDA g, seq : Visit(s, launched, all, seq, g),
          calls \o Say("pipeline", Node(p)) \o PrintEdgeInformation(s, Node(p)),
          s.graphs[p[1]])
    \o Say("end", p)

Visit(s, launched, all, calls, x) ==
  CASE Registered(calls, Node(x)) -> calls
    [] IsTask(x)  -> VisitTask(s, calls, Node(x))
    [] IsGraph(x) -> VisitGraph(s, launched, all, calls, x)
    [] OTHER      -> VisitPipeline(s, launched, all, calls, x)

Calls(s, all, g) == Visit(s, IsLaunched(s, g), all, <<>>, g)
-----------------------------------------------------------------------------
(* The dot file: the open subgraphs, the nodes and the boxes of the edges with *)
(* the subgraph each one is declared in, and the arrows.                       *)

NoDot == [open |-> <<>>, nodes |-> <<>>, edges |-> <<>>, declared |-> <<>>, arrows |-> {}]

DeclareNode(dot, n) == [dot EXCEPT !.nodes = Append(@, <<n, Head(dot.open)>>)]
OpenCluster(dot, x) == [dot EXCEPT !.open = <<x>> \o @]
CloseCluster(dot) == [dot EXCEPT !.open = Tail(@)]

PrintExecutionPipelineHeader(dot, p) == DeclareNode(OpenCluster(dot, p), Id(Node(p)))

\* An edge is a box per group of receivers and type.
Box(c) == <<Id(Node(c.to[1])), c.type>>

NewEdge(graph) == [graph |-> graph, arrivals |-> {}, exits |-> {}]

GetOrCreateEdge(s, edges, c) ==
  edges @@ (Box(c) :> NewEdge(BelongingGraph(s, c.to[1])))

\* Mutant of PrintEdge: the box leads to the representative of the group.
PrintEdgeToGroup(s, launched, all, dot, c) ==
  LET senders == IF all THEN Group(launched, c.from[1]) ELSE {}
  IN [dot EXCEPT !.edges = [GetOrCreateEdge(s, @, c) EXCEPT
        ![Box(c)].arrivals = @ \cup {Id(c.from)} \cup senders,
        ![Box(c)].exits = @ \cup {Id(Node(c.to[1]))}]]

PrintEdge(s, launched, all, dot, c) ==
  LET senders == IF all THEN Group(launched, c.from[1]) ELSE {}
  IN [dot EXCEPT !.edges = [GetOrCreateEdge(s, @, c) EXCEPT
        ![Box(c)].arrivals = @ \cup {Id(c.from)} \cup senders,
        ![Box(c)].exits = @ \cup {Id(c.to)}]]

PrintDeclaration(dot, b) ==
  IF b \in Range(dot.declared) THEN dot ELSE [dot EXCEPT !.declared = Append(@, b)]

PrintDeclarations(dot, g) ==
  FoldSet(LAMBDA b, d : PrintDeclaration(d, b), dot, {b \in DOMAIN dot.edges : dot.edges[b].graph = g})

EdgeArrows(edges) ==
  UNION {(edges[b].arrivals \X {b}) \cup ({b} \X edges[b].exits) : b \in DOMAIN edges}

\* The outermost graph draws all the arrows.
PrintGraphFooter(s, dot, g) ==
  LET drawn == PrintDeclarations(dot, g)
  IN CloseCluster(IF IsRegistered(s, g) THEN drawn
                  ELSE [drawn EXCEPT !.arrows = EdgeArrows(drawn.edges)])

PrintDot(s, launched, all, dot, c) ==
  CASE c.op \in {"node", "source", "sink"} -> DeclareNode(dot, c.visit)
    [] c.op = "edge"     -> PrintEdge(s, launched, all, dot, c)
    [] c.op = "graph"    -> OpenCluster(dot, c.visit[1])
    [] c.op = "group"    -> OpenCluster(dot, c.visit)
    [] c.op = "pipeline" -> PrintExecutionPipelineHeader(dot, c.visit[1])
    [] c.op = "end"      -> CloseCluster(dot)
    [] c.op = "footer"   -> PrintGraphFooter(s, dot, c.visit)

Dot(s, all, g) ==
  FoldLeft(LAMBDA dot, c : PrintDot(s, IsLaunched(s, g), all, dot, c), NoDot, Calls(s, all, g))
-----------------------------------------------------------------------------
(* The export file: its nodes, and the list of types of each pair of nodes;   *)
(* the file names a node by its name and the number of its graph.             *)

NoExport == [nodes |-> <<>>, edges |-> <<>>]

\* All the nodes of the user have different names, and clones the name of the
\* original; a pipeline and its switch have the same alias.
Name(x) == <<IF x[3] \in {"source", "sink"} THEN None ELSE x[1],
             IF x[1] \in Pipeline THEN "switch" ELSE x[3]>>

Alias(s, n) == <<Name(n[1]), GraphId(s, BelongingGraph(s, n[1]))>>

ExportEdge(file, c) ==
  LET pair == <<c.from, c.to>>
      edges == file.edges @@ (pair :> <<>>)
  IN [file EXCEPT !.edges = [edges EXCEPT ![pair] = Append(@, c.type)]]

ExportCall(s, file, c) ==
  CASE c.op = "edge" -> ExportEdge(file, c)
    [] c.op \in {"node", "source", "sink", "pipeline"} ->
         [file EXCEPT !.nodes = Append(@, Alias(s, c.visit))]
    [] OTHER -> file

\* Two pairs of nodes with the same aliases are two edges of the file.
Export(s, g) ==
  LET file == FoldLeft(LAMBDA f, c : ExportCall(s, f, c), NoExport, Calls(s, FALSE, g))
  IN [file EXCEPT !.edges = [k \in DOMAIN @ |->
       [from |-> Alias(s, k[1]), to |-> Alias(s, k[2]), types |-> @[k]]]]
-----------------------------------------------------------------------------
RECURSIVE Content(_, _)
Content(s, g) ==
  LET inner == {x \in s.inside[g] : IsGraph(x)}
                 \cup UNION {s.graphs[p[1]] : p \in {x \in s.inside[g] : x[1] \in Pipeline}}
  IN s.inside[g] \cup inner \cup UNION {Content(s, h) : h \in inner}

\* What is drawn of a graph: its own source and sink, and all it holds.
Shown(g) == {Source(g), Sink(g)} \cup {x \in Content(cores, g) : ~IsGraph(x)}

\* The wires of a graph that is not inside another one, pipelines by their switch.
WiresOf(g) ==
  {w \in Wires : w[3] \in Shown(g)}

\* The subgraph a node is drawn in: its pipeline, its group or its graph.
Cluster(all, g, x) ==
  CASE x[3] = "switch" -> Core(x[1])
    [] all /\ Cardinality(Group(IsLaunched(cores, g), x)) > 1 -> x
    [] OTHER -> BelongingGraph(cores, x)

DotShows(all, g) ==
  LET dot == Dot(cores, all, g)
      members(x) == IF all THEN {Id(n) : n \in Group(IsLaunched(cores, g), x)} ELSE {Id(Node(x))}
      drawn == UNION {{<<arrow[1], arrow[2][2], next[2]>> :
                 next \in {n \in dot.arrows : n[1] = arrow[2]}} :
                 arrow \in {n \in dot.arrows : n[2] \in DOMAIN dot.edges}}
  IN /\ dot.open = <<>>
     /\ {n[1] : n \in Range(dot.nodes)} = UNION {members(x) : x \in Shown(g)}
     /\ Cardinality({n[1] : n \in Range(dot.nodes)}) = Len(dot.nodes)
     /\ \A n \in Range(dot.nodes) : n[2] = Cluster(all, g, n[1][1])
     /\ IsInjective(dot.declared)
     /\ Range(dot.declared) = DOMAIN dot.edges
     /\ drawn = UNION {members(w[1]) \X {w[2]} \X members(w[3]) : w \in WiresOf(g)}

Times(seq, e) == Cardinality({i \in DOMAIN seq : seq[i] = e})

\* A clone in a graph that is nested in a graph of a pipeline.
NestedClone(x) ==
  \E p \in Pipeline : \E h \in cores.graphs[p] : x \in Within(cores, h) /\ NestedIn(cores, h, x)

\* The edges of the file that stand for a wire, by the aliases of its ends.
Standing(file, w) ==
  {k \in DOMAIN file.edges : file.edges[k].from = Alias(cores, Node(w[1]))
                             /\ file.edges[k].to = Alias(cores, Node(w[3]))
                             /\ w[2] \in Range(file.edges[k].types)}

ExportShows(g) ==
  LET file == Export(cores, g)
      alias(x) == Alias(cores, Node(x))
      twins(w) == {v \in WiresOf(g) : alias(v[1]) = alias(w[1]) /\ v[2] = w[2] /\ alias(v[3]) = alias(w[3])}
  IN /\ \A x \in Shown(g) :
          Times(file.nodes, alias(x)) = Cardinality({y \in Shown(g) : alias(y) = alias(x)})
     /\ \A x, y \in Shown(g) :
          alias(x) = alias(y) /\ x # y => x[1] = y[1] /\ NestedClone(x) /\ NestedClone(y)
     /\ \A w \in WiresOf(g) : Cardinality(Standing(file, w)) = Cardinality(twins(w))
     /\ \A k \in DOMAIN file.edges : \A i \in DOMAIN file.edges[k].types :
          LET w == <<k[1][1], file.edges[k].types[i], k[2][1]>> IN
          /\ w \in WiresOf(g)
          /\ Times(file.edges[k].types, w[2]) \in
                 IF NestedClone(w[1]) /\ w[1][2] > 0 THEN {1, 2} ELSE {1}

\* However a graph was built, its dot file, with a box per thread or per group,
\* shows every wire of the graph and no other, each node once and in the subgraph of
\* its graph, pipeline or group, every box of an edge once, and closes every
\* subgraph.  The export file names each node and each wire once, by name and number
\* of the graph, and no other; two nodes share that alias only when they are clones
\* of one node in a graph nested in the copies of a pipeline, and a type is listed
\* twice for one edge only when its sender is a clone in such a nested graph, whose
\* graph made the same edge in its own name.
PicturesShowTheWiring ==
  \A g \in {Core(n) : n \in Graph} :
    ~IsRegistered(cores, g) /\ cores.status[g] # "INS" =>
      /\ \A all \in BOOLEAN : DotShows(all, g)
      /\ ExportShows(g)
==============================================================================
