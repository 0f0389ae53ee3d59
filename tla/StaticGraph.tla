------------------------------ MODULE StaticGraph ------------------------------
(***************************************************************************)
(* hh_cx::Graph, the graph of the static analysis: nodes are registered in   *)
(* the order of the calls that name them, edges are kept by type in a matrix *)
(* indexed by this order, and the tests that are added run on the graph as   *)
(* it is then.                                                               *)
(*                                                                           *)
(* A call that does not compile (no common type, two nodes of one name) is    *)
(* not a call.  Bounds: some connections are made first, a list of Wirings,  *)
(* then MaxCalls calls.                                                      *)
(***************************************************************************)
EXTENDS Naturals, Sequences, FiniteSets, SequencesExt

CONSTANTS
  Node, Type,          \* the static nodes, by name, and the types of data
  Ins, Outs,           \* the input and output types of each node
  ReadOnly,            \* the inputs each node declares read only
  Const,               \* the types that are const
  GraphIns, GraphOuts, \* the types of the graph
  Wirings,             \* the lists of connections that are made first
  MaxCalls             \* a bound on the calls after them

ASSUME StaticGraphAssumption ==
  /\ Ins \in [Node -> SUBSET Type] /\ Outs \in [Node -> SUBSET Type]
  /\ \A n \in Node : ReadOnly[n] \subseteq Ins[n]
  /\ Const \subseteq Type
  /\ \A w \in Wirings : \A i \in DOMAIN w :
       w[i][1] = "edge" => w[i][4] \in Outs[w[i][2]] \cap Ins[w[i][3]]

VARIABLES
  graph,  \* the graph, see NewGraph
  made,   \* the edges, inputs and outputs asked for
  calls   \* the number of calls made

graphVars == <<graph, made, calls>>
-----------------------------------------------------------------------------
(* TypesNodesMap: from types to lists of nodes, both in the order of insertion. *)

EmptyMap == [types |-> <<>>, nodes |-> <<>>]

NodesOf(map, t) ==
  IF t \in Range(map.types) THEN map.nodes[SelectInSeq(map.types, LAMBDA u : u = t)] ELSE <<>>

Insert(map, t, n) ==
  IF t \in Range(map.types)
    THEN [map EXCEPT !.nodes[SelectInSeq(map.types, LAMBDA u : u = t)] = Append(@, n)]
    ELSE [types |-> Append(map.types, t), nodes |-> Append(map.nodes, <<n>>)]
-----------------------------------------------------------------------------
NewGraph ==
  [nodes |-> <<>>, adjacency |-> <<>>, ro |-> <<>>, const |-> <<>>,
   inputs |-> EmptyMap, outputs |-> EmptyMap]

NumberNodesRegistered(g) == Len(g.nodes)
NodeId(g, n) == SelectInSeq(g.nodes, LAMBDA m : m = n)

TypesBetween(g, matrix, m, n) == Range(matrix[NodeId(g, m)][NodeId(g, n)])
IsLinked(g, m, n) == g.adjacency[NodeId(g, m)][NodeId(g, n)] # <<>>
IsROLinked(g, m, n, t) == t \in TypesBetween(g, g.ro, m, n)
IsConstLinked(g, m, n, t) == t \in TypesBetween(g, g.const, m, n)
AdjacentNodesTypes(g, m) == g.adjacency[NodeId(g, m)]

\* A row and a column more.
Resize(matrix, size) ==
  [i \in 1 .. size |-> [j \in 1 .. size |->
     IF i \in DOMAIN matrix /\ j \in DOMAIN matrix THEN matrix[i][j] ELSE <<>>]]

RegisterNode(g, n) ==
  LET size == NumberNodesRegistered(g) + 1 IN
  IF n \in Range(g.nodes) THEN g
  ELSE [g EXCEPT !.nodes = Append(@, n),
                 !.adjacency = Resize(@, size),
                 !.ro = Resize(@, size),
                 !.const = Resize(@, size)]

SetInput(g, n, t) ==
  LET h == RegisterNode(g, n) IN [h EXCEPT !.inputs = Insert(@, t, n)]

SetOutput(g, n, t) ==
  LET h == RegisterNode(g, n) IN [h EXCEPT !.outputs = Insert(@, t, n)]

\* Mutant of SetEdge: an edge is read only when the sender says so.
SetEdgeOfSender(g, m, n, t) ==
  LET h == RegisterNode(RegisterNode(g, m), n)
      i == NodeId(h, m)
      j == NodeId(h, n)
      add(list, when) == IF when THEN Append(list, t) ELSE list
  IN [h EXCEPT !.adjacency[i][j] = Append(@, t),
               !.ro[i][j] = add(@, t \in ReadOnly[m]),
               !.const[i][j] = add(@, t \in Const)]

SetEdge(g, m, n, t) ==
  LET h == RegisterNode(RegisterNode(g, m), n)
      i == NodeId(h, m)
      j == NodeId(h, n)
      add(list, when) == IF when THEN Append(list, t) ELSE list
  IN [h EXCEPT !.adjacency[i][j] = Append(@, t),
               !.ro[i][j] = add(@, t \in ReadOnly[n]),
               !.const[i][j] = add(@, t \in Const)]
-----------------------------------------------------------------------------
(* The calls; those that name no type are made for each common type.           *)

Set(g, c) ==
  CASE c[1] = "input" -> SetInput(g, c[2], c[4])
    [] c[1] = "output" -> SetOutput(g, c[2], c[4])
    [] c[1] = "edge" -> SetEdge(g, c[2], c[3], c[4])

Connect(kind, m, n, types) ==
  LET new == {<<kind, m, n, t>> : t \in types} IN
  /\ types # {}
  /\ graph' = FoldLeft(Set, graph, SetToSeq(new))
  /\ made' = made \cup new

Inputs(n) == Connect("input", n, n, Ins[n] \cap GraphIns)
Input(n, t) == t \in Ins[n] \cap GraphIns /\ Connect("input", n, n, {t})

Outputs(n) == Connect("output", n, n, Outs[n] \cap GraphOuts)
Output(n, t) == t \in Outs[n] \cap GraphOuts /\ Connect("output", n, n, {t})

Edges(m, n) == Connect("edge", m, n, Outs[m] \cap Ins[n])
Edge(m, n, t) == t \in Outs[m] \cap Ins[n] /\ Connect("edge", m, n, {t})

Init ==
  \E w \in Wirings :
    graph = FoldLeft(Set, NewGraph, w) /\ made = Range(w) /\ calls = 0

Next ==
  /\ calls < MaxCalls
  /\ calls' = calls + 1
  /\ \E m \in Node :
       \/ Inputs(m) \/ Outputs(m)
       \/ \E t \in Type : Input(m, t) \/ Output(m, t)
       \/ \E n \in Node : Edges(m, n) \/ \E t \in Type : Edge(m, n, t)
==============================================================================
