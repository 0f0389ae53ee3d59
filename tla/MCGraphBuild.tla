----------------------------- MODULE MCGraphBuild -----------------------------
(***************************************************************************)
(* Menus of calls for the model checking of GraphBuild, and a lambda task      *)
(* with two inputs whose graph has a clone.  A behaviour takes steps of one of  *)
(* the two only.                                                             *)
(***************************************************************************)
EXTENDS Printers, LambdaTask

CONSTANTS a, t, c, d,          \* tasks
          outer, base, nested, \* graphs
          pipe,                \* a pipeline
          x, y,                \* types
          f1, f2, i1, i2       \* functions and input types of the lambda task

In(g, n) == [op |-> "inputs", g |-> g, to |-> n]
In1(g, n, type) == [op |-> "input", g |-> g, to |-> n, type |-> type]
Out(g, n) == [op |-> "outputs", g |-> g, from |-> n]
Out1(g, n, type) == [op |-> "output", g |-> g, from |-> n, type |-> type]
Join(g, m, n) == [op |-> "edges", g |-> g, from |-> m, to |-> n]
Join1(g, m, n, type) == [op |-> "edge", g |-> g, from |-> m, to |-> n, type |-> type]
Pipe(p, g) == [op |-> "pipeline", p |-> p, g |-> g]
Life(op, g) == [op |-> op, g |-> g]

\* base holds a -> nested(t) -> c and has two copies in the pipeline, which outer
\* feeds and which feeds d; t and c use the type y between them too.
BaseCalls ==
  {In1(base, a, x), Join1(base, a, nested, x), Join(base, nested, c), Out(base, c)}
NestedCalls == {In(nested, t), Out(nested, t)}
OuterCalls == {In(outer, pipe), Join(outer, pipe, d), Out1(outer, d, x), Life("execute", outer)}

\* Calls that are refused in some orders: a node of another graph, a graph in
\* itself, a graph in a graph inside it.
OddCalls == {In(outer, c), In(base, base), Out(nested, base)}

MenuCall == BaseCalls \cup NestedCalls \cup OuterCalls \cup OddCalls
              \cup {Pipe(pipe, base), Life("finish", outer), Life("clean", outer)}

\* The program makes the pipeline before it uses it and after it built its graph,
\* and finishes the outer graph after it executed it and made its connections.
MenuLater ==
  ((BaseCalls \cup {In(base, base), Out(nested, base)})
     \X {Pipe(pipe, base)})
    \cup ({Pipe(pipe, base)} \X (OuterCalls \ {Out1(outer, d, x)}))
    \cup ((OuterCalls \cup {In(outer, c)}) \X {Life("finish", outer)})
    \cup {<<Life("execute", outer), Life("clean", outer)>>}

\* base is nested(t -> d) alone, and both tasks are outputs of nested.
ChainCall == {In(nested, t), Join(nested, t, d), Out(nested, t), Out(nested, d),
              In(base, nested), Out(base, nested), Pipe(pipe, base)}
ChainLater == (ChainCall \ {Pipe(pipe, base)}) \X {Pipe(pipe, base)}

MenuIns == [n \in Task \cup Graph \cup Pipeline |-> IF n \in {c} THEN {x, y} ELSE {x}]
MenuOuts == [n \in Task \cup Graph \cup Pipeline |-> IF n \in {t, nested} THEN {x, y} ELSE {x}]
TwoThreads == [n \in Task |-> IF n = t THEN 2 ELSE 1]
TwoGraphs == [p \in Pipeline |-> 2]

TwoInputs == <<i1, i2>>
OneGiven == <<f1, Unset>>

BuildInit == Init /\ LambdaInit
BuildNext ==
  \/ LambdaInit /\ Next /\ UNCHANGED lambdaVars
  \/ Init /\ LambdaNext /\ UNCHANGED vars
==============================================================================
