--------------------------- MODULE PipelineRouting ---------------------------
(***************************************************************************)
(* A pipeline with its copies implements Router: what it receives goes to   *)
(* the input tasks of the copies that the switch chooses.                   *)
(***************************************************************************)
EXTENDS ExecutionPipeline

CONSTANT pipe  \* a pipeline

\* The pairs <<d, e>> of which the switch sends d to the copy with input task e.
RoutedTo ==
  {de \in Data \X Fed(pipe) : \E i \in DOMAIN Copies[pipe] :
     /\ de[2] \in Inputs[Copies[pipe][i]]
     /\ <<de[1], Copies[pipe][i]>> \in SendToGraph}

\* A value stays arrived when the pipeline takes it, and handed when the task
\* that got it takes it.
PipelineRouter ==
  INSTANCE Router WITH
    Arrival <- Data, Entry <- Fed(pipe), Chosen <- RoutedTo,
    arrived <- executed[pipe] \o queue[pipe],
    handed <- [e \in Fed(pipe) |-> executed[e] \o queue[e]],
    closed <- {e \in Fed(pipe) : <<pipe, 0>> \notin notifiers[e]}

\* The pipeline with its copies implements the Router: nothing that is chosen
\* for a copy is lost, doubled, sent elsewhere or overtaken while the threads of
\* the copies take values and leave, and no copy is told the end too early.
ImplementsRouter == PipelineRouter!Spec
=============================================================================
