---------------------------- MODULE StaticAnalysis ----------------------------
(***************************************************************************)
(* A static graph as its author uses it: nodes and edges are added, tests are *)
(* added on the way, each run once, on the graph as it is then, and at the    *)
(* end the dynamic graph is made from it.                                    *)
(*                                                                           *)
(* Bound: Arguments, the lists of names and dynamic nodes given to map.       *)
(***************************************************************************)
EXTENDS CycleTest, DataRaceTest, Defroster

CONSTANTS Arguments, NotAdded, NotMapped

VARIABLES
  tests,    \* for each test, what it reported and the number of calls before it
  dynamic   \* what map made of which arguments

staticVars == <<graph, made, calls, tests, dynamic>>

StaticInit ==
  /\ Init
  /\ tests = [test \in {"cycle", "race"} |-> NotAdded]
  /\ dynamic = NotMapped

Extend == Next /\ dynamic = NotMapped /\ UNCHANGED <<tests, dynamic>>

Report(test) == IF test = "cycle" THEN Range(CyclesReported(graph)) ELSE RacesReported(graph)

AddTest(test) ==
  /\ dynamic = NotMapped /\ tests[test] = NotAdded
  /\ tests' = [tests EXCEPT ![test] = [report |-> Report(test), at |-> calls]]
  /\ UNCHANGED <<graph, made, calls, dynamic>>

MapArguments(args) ==
  /\ dynamic = NotMapped
  /\ dynamic' = [result |-> MapNodes(CreateDefroster(graph), args), args |-> args]
  /\ UNCHANGED <<graph, made, calls, tests>>

StaticNext ==
  \/ Extend
  \/ \E test \in DOMAIN tests : AddTest(test)
  \/ \E args \in Arguments : MapArguments(args)
-----------------------------------------------------------------------------
\* When CycleTest is added, what it reports are the elementary cycles of the graph
\* that no node leaves by redefining canTerminate, all of them and nothing else, up to
\* the node each starts at; later calls add cycles but none of those reported goes.
CyclesFound ==
  tests["cycle"] # NotAdded =>
    LET reported == tests["cycle"].report
        links(cycles) == {Links(c) : c \in cycles}
    IN /\ reported \subseteq EndlessCycles(graph)
       /\ tests["cycle"].at = calls => links(reported) = links(EndlessCycles(graph))

\* When DataRaceTest is added, it reports the edges of every type that one node sends to
\* several others, one of which may write the data.  That is more than its documentation
\* announces ("All receivers use the data with a read-write policy"): beyond the documented
\* races it reports those of a writer with nodes that only read, where a reader may see
\* the data change, and edges made twice to a node that may write, and nothing else.
RacesFound ==
  tests["race"] # NotAdded =>
    LET reported == tests["race"].report
        undocumented == reported \ DocumentedRaces
        withReaders == {e \in undocumented : \E r \in SentTo(e[1], e[3]) : ~MayWrite(r, e[3])}
    IN /\ tests["race"].at = calls => Races \subseteq reported
       /\ \A e \in withReaders : \E r \in SentTo(e[1], e[3]) : MayWrite(r, e[3])
       /\ \A e \in undocumented \ withReaders :
            MayWrite(e[2], e[3]) /\ Doubled(e[1], e[2], e[3])

\* The dynamic graph has the connections of the static graph, between the nodes given
\* for its nodes: map makes all of them if every node is named once and the dynamic nodes
\* have the types, and throws otherwise, after some of them at most.
DefrostedAsFrozen ==
  dynamic # NotMapped =>
    LET args == dynamic.args
        named == IsInjective([i \in DOMAIN args |-> args[i][1]]) /\ NamesOf(args) = Range(graph.nodes)
        expected == {<<c[1], DynamicNode(args, c[2]), DynamicNode(args, c[3]), c[4]>> : c \in made}
        possible == \A c \in expected : IsTypeNameInTuple(c)
    IN /\ dynamic.result.thrown = ~(named /\ possible)
       /\ named => dynamic.result.made \subseteq expected
       /\ ~named => dynamic.result.made = {}
       /\ ~dynamic.result.thrown => dynamic.result.made = expected
==============================================================================
