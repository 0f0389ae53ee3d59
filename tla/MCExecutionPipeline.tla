------------------------- MODULE MCExecutionPipeline -------------------------
(***************************************************************************)
(* Two nestings of graphs for the model checking of ExecutionPipeline and   *)
(* PipelineRouting.                                                         *)
(***************************************************************************)
EXTENDS PipelineRouting

CONSTANTS
  main, left, right, nested,        \* the graphs
  l, r, c,                          \* the tasks
  d1, d2                            \* the data

\* main holds a pipeline with the copies left and right, one task each, and a
\* nested graph with the task c that all the copies feed.
RoutedInside ==
  [g \in Graph |-> CASE g = main -> {pipe, nested} [] g = left -> {l}
                     [] g = right -> {r} [] g = nested -> {c}]
RoutedCopies == [p \in Pipeline |-> <<left, right>>]
RoutedInputs == [g \in Graph |-> CASE g = left -> {l} [] g = right -> {r}
                                   [] OTHER -> {}]
RoutedSucc == [x \in Task \cup {User} |->
                 CASE x = User -> {pipe} [] x = c -> {} [] OTHER -> {c}]
RoutedThreads == [t \in Task |-> IF t = r THEN 2 ELSE 1]
RoutedRules == {<<d1, left>>, <<d1, right>>, <<d2, right>>}
RoutedInput == <<d1, d2>>
NothingGenerated == [t \in Task |-> <<>>]

\* main holds the task c, with two threads, and a nested graph whose task l
\* starts by itself, sends one value to c and has no predecessor.
GeneratorInside ==
  [g \in Graph |-> CASE g = main -> {nested, c} [] g = nested -> {l}]
GeneratorSucc == [x \in Task \cup {User} |->
                    CASE x = User -> {} [] x = c -> {Sink} [] x = l -> {c}]
GeneratorThreads == [t \in Task |-> IF t = c THEN 2 ELSE 1]
GeneratorGenerated == [t \in Task |-> IF t = l THEN <<d1>> ELSE <<>>]
NoPipeline == [p \in {} |-> <<>>]
NoInput == <<>>
NoInputs == [g \in Graph |-> {}]
==============================================================================
