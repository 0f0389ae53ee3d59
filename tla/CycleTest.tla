------------------------------- MODULE CycleTest -------------------------------
(***************************************************************************)
(* hh_cx::CycleTest: Johnson's search for the elementary cycles of a graph,   *)
(* in the strongly connected components that Tarjan's algorithm finds.        *)
(***************************************************************************)
EXTENDS StaticGraph

CONSTANT CanTerminate  \* the nodes that redefine canTerminate

-----------------------------------------------------------------------------
(* SimpleSubGraph.                                                            *)

EmptySubGraph == [nodes |-> <<>>, links |-> {}]

RegisterIn(nodes, n) == IF n \in Range(nodes) THEN nodes ELSE Append(nodes, n)

AddEdge(sub, link) ==
  [nodes |-> RegisterIn(RegisterIn(sub.nodes, link[1]), link[2]),
   links |-> sub.links \cup {link}]

\* The pairs of the nodes of a sequence, row by row.
Pairs(nodes) ==
  LET size == Len(nodes)
  IN [k \in 1 .. size * size |-> <<nodes[((k - 1) \div size) + 1], nodes[((k - 1) % size) + 1]>>]

\* The edges between the nodes from the one of this number on.
SimpleSubGraph(g, minNodeId) ==
  LET last == SubSeq(g.nodes, minNodeId, Len(g.nodes))
      linked(link) == IsLinked(g, link[1], link[2])
  IN FoldLeft(AddEdge, EmptySubGraph, SelectSeq(Pairs(last), linked))

SubId(sub, n) == SelectInSeq(sub.nodes, LAMBDA m : m = n)
Neighbors(sub, n) == SelectSeq(sub.nodes, LAMBDA m : <<n, m>> \in sub.links)
-----------------------------------------------------------------------------
(* Tarjan's algorithm.                                                        *)

InitTarjan ==
  [num |-> 1, number |-> [n \in Node |-> 0], low |-> [n \in Node |-> 0],
   stack |-> <<>>, components |-> <<>>]

Least(i, j) == IF i < j THEN i ELSE j

\* The nodes above n on the stack, and n, are a component.
PopComponent(t, n) ==
  LET at == SelectInSeq(t.stack, LAMBDA m : m = n)
  IN [t EXCEPT !.stack = SubSeq(@, 1, at - 1),
               !.components = Append(@, Reverse(SubSeq(t.stack, at, Len(t.stack))))]

RECURSIVE StrongConnect(_, _, _)
StrongConnect(tarjan, n, sub) ==
  LET visit(t, m) ==
        LET deeper == StrongConnect(t, m, sub) IN
        CASE t.number[m] = 0 -> [deeper EXCEPT !.low[n] = Least(@, deeper.low[m])]
          [] t.number[m] # 0 /\ m \in Range(t.stack) -> [t EXCEPT !.low[n] = Least(@, t.number[m])]
          [] OTHER -> t
      here == [tarjan EXCEPT !.num = @ + 1, !.number[n] = tarjan.num, !.low[n] = tarjan.num,
                             !.stack = Append(@, n)]
      done == FoldLeft(visit, here, Neighbors(sub, n))
  IN IF done.low[n] = done.number[n] THEN PopComponent(done, n) ELSE done

AllStrongConnect(sub) ==
  FoldLeft(LAMBDA t, n : IF t.number[n] = 0 THEN StrongConnect(t, n, sub) ELSE t,
           InitTarjan, sub.nodes).components
-----------------------------------------------------------------------------
(* Johnson's algorithm.                                                       *)

SelfLoops(sub, components) ==
  SelectSeq(components, LAMBDA c : Len(c) = 1 /\ <<c[1], c[1]>> \in sub.links)

\* The first node, if any, that is in a component with another one.
LeastIndex(sub, components) ==
  LET large == UNION {Range(c) : c \in {d \in Range(components) : Len(d) > 1}}
  IN SelectInSeq(sub.nodes, LAMBDA n : n \in large)

\* The subgraph of its component.
LeastComponent(sub, components) ==
  LET first == sub.nodes[LeastIndex(sub, components)]
      scc == CHOOSE c \in Range(components) : first \in Range(c)
      within(link) == link \in sub.links /\ {link[1], link[2]} \subseteq Range(scc)
  IN FoldLeft(AddEdge, EmptySubGraph, SelectSeq(Pairs(sub.nodes), within))

\* The lists of blocked nodes outlive a search, by the number of the node in it.
InitJohnson(j) == [j EXCEPT !.stack = <<>>, !.blocked = {}, !.found = FALSE]

\* Mutant of Unblock: the nodes that wait for this one stay blocked.
UnblockOne(johnson, n, sub) == [johnson EXCEPT !.blocked = @ \ {n}, !.lists[SubId(sub, n)] = <<>>]

RECURSIVE Unblock(_, _, _)
Unblock(johnson, n, sub) ==
  LET id == SubId(sub, n)
      visit(j, m) == IF m \in j.blocked THEN Unblock(j, m, sub) ELSE j
      done == FoldLeft(visit, [johnson EXCEPT !.blocked = @ \ {n}], johnson.lists[id])
  IN [done EXCEPT !.lists[id] = <<>>]

\* A node without a cycle waits for one of its neighbors to be unblocked.
BlockedBy(johnson, n, sub) ==
  LET neighbors == Range(Neighbors(sub, n))
      list(id) == johnson.lists[id]
      add(id) == id <= Len(sub.nodes) /\ sub.nodes[id] \in neighbors /\ n \notin Range(list(id))
  IN [johnson EXCEPT !.lists = [id \in DOMAIN @ |-> IF add(id) THEN Append(list(id), n) ELSE list(id)]]

RECURSIVE FindCyclesInSCC(_, _, _, _)
FindCyclesInSCC(johnson, start, n, sub) ==
  LET visit(j, m) ==
        LET deeper == FindCyclesInSCC(j, start, m, sub) IN
        CASE m = start -> [j EXCEPT !.found = TRUE,
                                    !.cycles = RegisterIn(@, j.stack)]
          [] m # start /\ m \notin j.blocked -> [deeper EXCEPT !.found = @ \/ j.found]
          [] OTHER -> j
      here == [johnson EXCEPT !.stack = Append(@, n), !.blocked = @ \cup {n}, !.found = FALSE]
      seen == FoldLeft(visit, here, Neighbors(sub, n))
      done == IF seen.found THEN Unblock(seen, n, sub) ELSE BlockedBy(seen, n, sub)
  IN [done EXCEPT !.stack = Front(@)]

RECURSIVE FindAllCycles(_, _, _)
FindAllCycles(g, johnson, startIndex) ==
  LET sub == SimpleSubGraph(g, startIndex)
      components == AllStrongConnect(sub)
      least == LeastIndex(sub, components)
      looped == [johnson EXCEPT !.cycles = @ \o SelfLoops(sub, components)]
      node == sub.nodes[least]
      searched == FindCyclesInSCC(InitJohnson(looped), node, node, LeastComponent(sub, components))
  IN IF startIndex > Len(g.nodes) THEN johnson
     ELSE IF least = 0 THEN looped
     ELSE FindAllCycles(g, searched, startIndex + 1)

Johnson(g) ==
  FindAllCycles(g, [stack |-> <<>>, blocked |-> {}, found |-> FALSE, cycles |-> <<>>,
                    lists |-> [id \in 1 .. Len(g.nodes) |-> <<>>]], 1)

\* The type of a node tells whether it has a canTerminate of its own.
IsCanTerminateOverloaded(n) == n \in CanTerminate

RemoveCyclesWhereNodesRedefineCanTerminate(cycles) ==
  SelectSeq(cycles, LAMBDA c : ~ \E n \in Range(c) : IsCanTerminateOverloaded(n))

CyclesReported(g) == RemoveCyclesWhereNodesRedefineCanTerminate(Johnson(g).cycles)
-----------------------------------------------------------------------------
(* What a cycle is, whatever the search does.                                 *)

Links(c) == {<<c[i], c[(i % Len(c)) + 1]>> : i \in DOMAIN c}

ElementaryCycles(g) ==
  {c \in UNION {[1 .. k -> Range(g.nodes)] : k \in 1 .. Len(g.nodes)} :
     IsInjective(c) /\ \A l \in Links(c) : IsLinked(g, l[1], l[2])}

EndlessCycles(g) == {c \in ElementaryCycles(g) : Range(c) \cap CanTerminate = {}}
==============================================================================
