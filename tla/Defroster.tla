------------------------------- MODULE Defroster -------------------------------
(***************************************************************************)
(* hh_cx::Defroster: the static graph is frozen into arrays whose sizes are   *)
(* those of its longest names and lists, and the dynamic graph is made from   *)
(* the arrays and the dynamic nodes that the caller names.                   *)
(***************************************************************************)
EXTENDS StaticGraph

CONSTANTS
  Size,              \* the number of characters of the name of a node or a type
  Dynamic,           \* the dynamic nodes
  DynIns, DynOuts,   \* their input and output types
  Empty,             \* the string of a place of an array that nothing is copied to
  Overrun            \* a string copied past the end of its place

Most(S) == IF S = {} THEN 0 ELSE Max(S)
Longest(names) == Most({Size[x] : x \in names})

\* A string and its terminator in a place of this many characters.
Copied(x, room) == IF Size[x] < room THEN x ELSE Overrun
CopiedList(list, room, width) ==
  [i \in 1 .. width |-> IF i \in DOMAIN list THEN Copied(list[i], room) ELSE Empty]

MaxNodeNameSize(g) == Longest(Range(g.nodes))
MaxNumberEdges(g) == Most({Len(g.adjacency[i][j]) : i, j \in DOMAIN g.nodes})
MaxEdgeTypeSize(g) ==
  Most({Size[t] + 1 : t \in UNION {Range(g.adjacency[i][j]) : i, j \in DOMAIN g.nodes}})

MaxTypeSize(map) == Longest(Range(map.types))
MaxNumberNodes(map) == Most({Len(list) : list \in Range(map.nodes)})
MaxSizeName(map) == Longest(UNION {Range(list) : list \in Range(map.nodes)})

TypeNodesMapArray(map) ==
  [types |-> CopiedList(map.types, MaxTypeSize(map) + 1, Len(map.types)),
   nodes |-> [i \in DOMAIN map.nodes |->
                CopiedList(map.nodes[i], MaxSizeName(map) + 1, MaxNumberNodes(map))]]

\* Mutant of CreateDefroster: no place for the end of a node's name.
CreateDefrosterShort(g) ==
  [names |-> CopiedList(g.nodes, MaxNodeNameSize(g), Len(g.nodes)),
   adjacency |-> [i, j \in DOMAIN g.nodes |->
                    CopiedList(g.adjacency[i][j], MaxEdgeTypeSize(g), MaxNumberEdges(g))],
   inputs |-> TypeNodesMapArray(g.inputs),
   outputs |-> TypeNodesMapArray(g.outputs)]

CreateDefroster(g) ==
  [names |-> CopiedList(g.nodes, MaxNodeNameSize(g) + 1, Len(g.nodes)),
   adjacency |-> [i, j \in DOMAIN g.nodes |->
                    CopiedList(g.adjacency[i][j], MaxEdgeTypeSize(g), MaxNumberEdges(g))],
   inputs |-> TypeNodesMapArray(g.inputs),
   outputs |-> TypeNodesMapArray(g.outputs)]
-----------------------------------------------------------------------------
(* The arguments of map are pairs of a name and a dynamic node.                *)

NamesOf(args) == {args[i][1] : i \in DOMAIN args}

\* Each name is one of the static nodes, given once, and every static node is named.
ValidateAndSplit(f, args) ==
  /\ NamesOf(args) \subseteq Range(f.names)
  /\ Cardinality(NamesOf(args)) = Len(args)
  /\ Len(f.names) = Len(args)

DynamicNode(args, n) == args[SelectInSeq(args, LAMBDA a : a[1] = n)][2]

\* From the nodes to their types, for the places that are not empty.
MapNodeNameToTypeNames(array) ==
  LET lists(n) == {i \in DOMAIN array.types : n \in Range(array.nodes[i])}
  IN [n \in UNION {Range(list) : list \in Range(array.nodes)} \ {Empty} |->
        {array.types[i] : i \in lists(n)}]

\* The connections asked of the dynamic graph, in order.
SetNodes(kind, array, args) ==
  LET types == MapNodeNameToTypeNames(array)
      ofNode(n) == LET d == DynamicNode(args, n)
                   IN SetToSeq({<<kind, d, d, t>> : t \in types[n]})
  IN FlattenSeq([i \in 1 .. Cardinality(DOMAIN types) |-> ofNode(SetToSeq(DOMAIN types)[i])])

SetInputNodes(f, args) == SetNodes("input", f.inputs, args)
SetOutputNodes(f, args) == SetNodes("output", f.outputs, args)

EdgeBetween(f, args, i, j, t) ==
  <<"edge", DynamicNode(args, f.names[i]), DynamicNode(args, f.names[j]), t>>

SetEdges(f, args) ==
  LET list(i, j) ==
        LET types == SelectSeq(f.adjacency[i, j], LAMBDA t : t # Empty) IN
        [k \in DOMAIN types |-> EdgeBetween(f, args, i, j, types[k])]
      ofSender(i) == FlattenSeq([j \in DOMAIN f.names |-> list(i, j)])
  IN FlattenSeq([i \in DOMAIN f.names |-> ofSender(i)])

\* The types that the two ends of a connection share.
CommonTypes(kind, m, n) ==
  CASE kind = "input" -> DynIns[n] \cap GraphIns
    [] kind = "output" -> DynOuts[m] \cap GraphOuts
    [] kind = "edge" -> DynOuts[m] \cap DynIns[n]

IsTypeNameInTuple(c) == c[4] \in CommonTypes(c[1], c[2], c[3])

\* The first connection of a type that the ends do not share throws.
GenerateGraph(f, args) ==
  LET set(graphMade, c) ==
        CASE graphMade.thrown -> graphMade
          [] ~graphMade.thrown /\ IsTypeNameInTuple(c) -> [graphMade EXCEPT !.made = @ \cup {c}]
          [] OTHER -> [graphMade EXCEPT !.thrown = TRUE]
  IN FoldLeft(set, [thrown |-> FALSE, made |-> {}],
              SetInputNodes(f, args) \o SetOutputNodes(f, args) \o SetEdges(f, args))

MapNodes(f, args) ==
  IF ValidateAndSplit(f, args) THEN GenerateGraph(f, args) ELSE [thrown |-> TRUE, made |-> {}]
==============================================================================
