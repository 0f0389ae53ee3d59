---------------------------- MODULE NodeStatistics ----------------------------
(***************************************************************************)
(* What the threads of a graph count, and what the dot printer shows of it    *)
(* when no counter moves while it reads them, be the graph done or stuck.     *)
(*                                                                           *)
(* A task is a sequence of threads, in the order of the set of its group.  A   *)
(* thread that wakes up for nothing counts its wait only and is left out.      *)
(* Bounds: the durations of execute, numbers here, the one duration of a wait    *)
(* (Wait) and the data of each thread (Rounds).                               *)
(***************************************************************************)
EXTENDS Naturals, Sequences, FiniteSets, SequencesExt

CONSTANTS
  Thread, InputType,
  Task,              \* the tasks
  Members,           \* the threads of each task, the representative first
  AutomaticStart,    \* the tasks that call execute with nullptr first
  MemoryAttached,    \* the tasks that have a memory manager
  Durations, Wait, Rounds

ASSUME NodeStatisticsAssumption ==
  /\ Members \in [Task -> Seq(Thread)]
  /\ Durations \subseteq Nat /\ Wait \in Nat /\ Rounds \in [Thread -> Nat]

VARIABLES
  count,   \* the counters of each thread
  pc       \* what each thread does

statVars == <<count, pc>>

Zero == [i \in InputType |-> 0]
TaskOf(t) == CHOOSE n \in Task : t \in Range(Members[n])
GroupOf(n) == Range(Members[n])
-----------------------------------------------------------------------------
(* The threads.                                                               *)

InputOrder == SetToSeq(InputType)

Run(t) ==
  /\ pc[t] = [at |-> "new"]
  /\ pc' = [pc EXCEPT ![t] = IF TaskOf(t) \in AutomaticStart
                               THEN [at |-> "starting", left |-> InputOrder] ELSE [at |-> "idle"]]
  /\ UNCHANGED count

CallExecuteForATypeWithNullptr(t) ==
  /\ pc[t].at = "starting"
  /\ pc' = [pc EXCEPT ![t] = [at |-> "executing", left |-> pc[t].left, data |-> FALSE]]
  /\ UNCHANGED count

\* The wait for the end or for data, on some inputs.
Sleep(t) ==
  LET left == Rounds[t] - count[t].received
      awake == {[at |-> "awake", left |-> SelectSeq(InputOrder, LAMBDA i : i \in ready)] :
                  ready \in {s \in SUBSET InputType : Cardinality(s) \in 1 .. left}}
  IN /\ pc[t] = [at |-> "idle"]
     /\ count' = [count EXCEPT ![t].wait = @ + Wait]
     /\ \E next \in IF left = 0 THEN {[at |-> "done"]} ELSE awake : pc' = [pc EXCEPT ![t] = next]

OperateReceiver(t) ==
  /\ pc[t].at = "awake"
  /\ count' = [count EXCEPT ![t].received = @ + 1]
  /\ pc' = [pc EXCEPT ![t] = [at |-> "executing", left |-> pc[t].left, data |-> TRUE]]

\* execute returns after d, some of it spent waiting for the memory manager.
CallExecuteForAType(t, d) ==
  LET i == Head(pc[t].left) IN
  /\ pc[t].at = "executing"
  /\ \E m \in IF TaskOf(t) \in MemoryAttached THEN {0, d} ELSE {0} :
       count' = [count EXCEPT ![t].exec = @ + d,
                              ![t].memory = @ + m,
                              ![t].execIn[i] = @ + d,
                              ![t].elements[i] = @ + 1]
  /\ pc' = [pc EXCEPT ![t] = [at |-> "executed", left |-> pc[t].left, data |-> pc[t].data, took |-> d]]

\* The next input, if any is left.
IncrementDequeueExecution(t) ==
  LET left == Tail(pc[t].left) IN
  /\ pc[t].at = "executed"
  /\ count' = [count EXCEPT ![t].dequeue = @ + pc[t].took,
                            ![t].dequeueIn[Head(pc[t].left)] = @ + pc[t].took]
  /\ pc' = [pc EXCEPT ![t] = IF left = <<>> THEN [at |-> "idle"]
                             ELSE [at |-> IF pc[t].data THEN "awake" ELSE "starting", left |-> left]]

IsActive(t) == pc[t].at \notin {"new", "done"}
-----------------------------------------------------------------------------
(* The figures of a thread and of a group.                                    *)

Quotient(sum, number) == IF number = 0 THEN 0 ELSE sum \div number
AverageExecutionDurationPerElement(t) == Quotient(count[t].exec, count[t].received)
AverageExecutionDurationPerInputType(t) ==
  [i \in InputType |-> Quotient(count[t].execIn[i], count[t].elements[i])]

Sum(values) == FoldLeft(+, 0, values)
MinMax(values) == [min |-> Min(Range(values)), max |-> Max(Range(values))]
MeanSD(values) ==
  LET size == Len(values)
      mean == Sum(values) \div size
      Square(v) == IF v > mean THEN (v - mean) * (v - mean) ELSE (mean - v) * (mean - v)
      squares == Sum([k \in DOMAIN values |-> Square(values[k])])
  IN [mean |-> mean, sd |-> Max({k \in 0 .. squares : k * k * size <= squares})]

\* The values of a group, in its order.
OfGroup(n, value) == [k \in DOMAIN Members[n] |-> value[Members[n][k]]]

\* For each input, the values of the group: the iterator of the loop over the other members
\* is not the one that is read, so that the second stands for all of them.
OfGroupPerInput(n, value) ==
  [i \in InputType |-> [k \in DOMAIN Members[n] |-> value[Members[n][IF k = 1 THEN 1 ELSE 2]][i]]]
PerInput(figure(_), values) == [i \in InputType |-> figure(values[i])]

NumberActiveThreadInGroup(n) == Cardinality({t \in GroupOf(n) : IsActive(t)})

MinmaxWaitDurationGroup(n) == MinMax(OfGroup(n, [t \in Thread |-> count[t].wait]))
MeanSDWaitDurationGroup(n) == MeanSD(OfGroup(n, [t \in Thread |-> count[t].wait]))
MinmaxDequeueExecutionDurationGroup(n) == MinMax(OfGroup(n, [t \in Thread |-> count[t].dequeue]))
MeanSDDequeueExecutionDurationGroup(n) == MeanSD(OfGroup(n, [t \in Thread |-> count[t].dequeue]))
MinmaxExecTimePerElementGroup(n) == MinMax(OfGroup(n, [t \in Thread |-> AverageExecutionDurationPerElement(t)]))
MeanSDExecTimePerElementGroup(n) == MeanSD(OfGroup(n, [t \in Thread |-> AverageExecutionDurationPerElement(t)]))
MinmaxMemoryWaitTimeGroup(n) == MinMax(OfGroup(n, [t \in Thread |-> count[t].memory]))
MeanSDMemoryWaitTimePerElementGroup(n) == MeanSD(OfGroup(n, [t \in Thread |-> count[t].memory]))
MinmaxNumberElementsReceivedGroup(n) == MinMax(OfGroup(n, [t \in Thread |-> count[t].received]))
MeanSDNumberElementsReceivedGroup(n) == MeanSD(OfGroup(n, [t \in Thread |-> count[t].received]))

MinmaxNumberElementsReceivedGroupPerInput(n) ==
  PerInput(MinMax, OfGroupPerInput(n, [t \in Thread |-> count[t].elements]))
MeanSDNumberElementsReceivedGroupPerInput(n) ==
  PerInput(MeanSD, OfGroupPerInput(n, [t \in Thread |-> count[t].elements]))

\* Mutant of MinmaxDequeueExecutionDurationGroupPerInput: the representative stands for all.
MinmaxDequeueOfRepresentative(n) ==
  PerInput(MinMax, [i \in InputType |-> <<count[Members[n][1]].dequeueIn[i]>>])

MinmaxDequeueExecutionDurationGroupPerInput(n) ==
  PerInput(MinMax, OfGroupPerInput(n, [t \in Thread |-> count[t].dequeueIn]))
MeanSDDequeueExecutionDurationGroupPerInput(n) ==
  PerInput(MeanSD, OfGroupPerInput(n, [t \in Thread |-> count[t].dequeueIn]))
MinmaxExecTimePerElementGroupPerInput(n) ==
  PerInput(MinMax, OfGroupPerInput(n, [t \in Thread |-> count[t].execIn]))
MeanSDExecTimePerElementGroupPerInput(n) ==
  PerInput(MeanSD, OfGroupPerInput(n, [t \in Thread |-> count[t].execIn]))
-----------------------------------------------------------------------------
(* The range of the durations of a graph; a graph nested inside it has a duration of its *)
(* own, 0, and hides the waits.                                               *)

Values(value(_)) == {value(t) : t \in UNION {GroupOf(n) : n \in Task}}
Extremes(values) == [min |-> Min(values), max |-> Max(values)]

\* Mutant of MinMaxExecutionDuration: the other threads of a group are left out.
MinMaxExecutionOfRepresentatives(nested) ==
  Extremes({count[Members[n][1]].dequeue : n \in Task} \cup (IF nested THEN {0} ELSE {}))

MinMaxExecutionDuration(nested) ==
  Extremes(Values(LAMBDA t : count[t].dequeue) \cup (IF nested THEN {0} ELSE {}))

MinMaxWaitDuration(nested) ==
  IF nested THEN Extremes({0}) ELSE Extremes(Values(LAMBDA t : count[t].wait))

RangeOf(minMax) == IF minMax.max = minMax.min THEN 1 ELSE minMax.max - minMax.min

\* The red of a box, out of 255 (BlueToRedColor).
Red(value, minMax) ==
  LET exact == (value - minMax.min) * 255 * 2 + RangeOf(minMax)
  IN Min({exact \div (2 * RangeOf(minMax)), 255})

GetExecRGB(t, execution) == Red(count[t].dequeue, execution)
GetWaitRGB(t, wait) == Red(count[t].wait, wait)
-----------------------------------------------------------------------------
(* The figures in the box of a thread, of a task of one thread and of a group.  *)

ThreadFigures(t, byInput) ==
  IF byInput
    THEN [active |-> IsActive(t), elements |-> count[t].elements, dequeue |-> count[t].dequeueIn,
          exec |-> AverageExecutionDurationPerInputType(t),
          wait |-> count[t].wait, memory |-> count[t].memory]
    ELSE [active |-> IsActive(t), elements |-> count[t].received, dequeue |-> count[t].dequeue,
          exec |-> AverageExecutionDurationPerElement(t),
          wait |-> count[t].wait, memory |-> count[t].memory]

\* By input, the time in execute of a single thread is a sum, not an average.
SingleFigures(t, byInput) ==
  IF byInput THEN [ThreadFigures(t, TRUE) EXCEPT !.exec = count[t].execIn] ELSE ThreadFigures(t, FALSE)

GroupFigures(n, byInput) ==
  [active |-> NumberActiveThreadInGroup(n),
   elements |-> IF byInput THEN <<MinmaxNumberElementsReceivedGroupPerInput(n),
                                  MeanSDNumberElementsReceivedGroupPerInput(n)>>
                ELSE <<MinmaxNumberElementsReceivedGroup(n), MeanSDNumberElementsReceivedGroup(n)>>,
   dequeue |-> IF byInput THEN <<MinmaxDequeueExecutionDurationGroupPerInput(n),
                                 MeanSDDequeueExecutionDurationGroupPerInput(n)>>
               ELSE <<MinmaxDequeueExecutionDurationGroup(n), MeanSDDequeueExecutionDurationGroup(n)>>,
   exec |-> IF byInput THEN <<MinmaxExecTimePerElementGroupPerInput(n),
                              MeanSDExecTimePerElementGroupPerInput(n)>>
            ELSE <<MinmaxExecTimePerElementGroup(n), MeanSDExecTimePerElementGroup(n)>>,
   wait |-> <<MinmaxWaitDurationGroup(n), MeanSDWaitDurationGroup(n)>>,
   memory |-> <<MinmaxMemoryWaitTimeGroup(n), MeanSDMemoryWaitTimePerElementGroup(n)>>]

GetTaskInformation(n, all, byInput) ==
  CASE all -> [t \in GroupOf(n) |-> ThreadFigures(t, byInput)]
    [] ~all /\ Len(Members[n]) > 1 -> GroupFigures(n, byInput)
    [] OTHER -> SingleFigures(Members[n][1], byInput)
-----------------------------------------------------------------------------
StatInit ==
  /\ count = [t \in Thread |-> [received |-> 0, wait |-> 0, memory |-> 0, exec |-> 0, dequeue |-> 0,
                                elements |-> Zero, execIn |-> Zero, dequeueIn |-> Zero]]
  /\ pc = [t \in Thread |-> [at |-> "new"]]

StatNext == \E t \in Thread :
  \/ Run(t)
  \/ CallExecuteForATypeWithNullptr(t)
  \/ OperateReceiver(t)
  \/ IncrementDequeueExecution(t)
  \/ Sleep(t)
  \/ \E d \in Durations : CallExecuteForAType(t, d)
-----------------------------------------------------------------------------
Total(f) == Sum([k \in DOMAIN InputOrder |-> f[InputOrder[k]]])

InOrder(figure) ==
  /\ figure[1].min <= figure[2].mean /\ figure[2].mean <= figure[1].max
  /\ figure[2].sd <= figure[1].max - figure[1].min

\* The boxes of a task agree with one another: the figures of a group are in order and
\* span those of all its threads in total; by input they span those of the first two
\* threads of the group only (a third one may lie outside, although the figures are
\* documented as those of the nodes in the group), and for the executions they span
\* the sums of the durations (documented as durations per element, which is what the box
\* of a thread shows).  What a thread shows by input adds up to what it shows in total,
\* but for the calls of the automatic start, which are no elements received and counted
\* in its durations.
FiguresAgree == \A n \in Task :
  LET shown == GetTaskInformation(n, TRUE, FALSE)
      byInput == GetTaskInformation(n, TRUE, TRUE)
      group == GetTaskInformation(n, FALSE, FALSE)
      groupByInput == GetTaskInformation(n, FALSE, TRUE)
      shownOf(t, name) == IF name = "exec" THEN count[t].execIn ELSE byInput[t][name]
      idle(t) == pc[t].at \in {"idle", "awake", "done"}
      automatic == IF n \in AutomaticStart THEN Cardinality(InputType) ELSE 0
  IN /\ \A t \in GroupOf(n) : idle(t) =>
          /\ Total(byInput[t].elements) = shown[t].elements + automatic
          /\ Total(byInput[t].dequeue) = shown[t].dequeue
          /\ byInput[t].memory <= shown[t].dequeue
     /\ Len(Members[n]) > 1 =>
          /\ group.active = Cardinality({t \in GroupOf(n) : shown[t].active})
          /\ \A name \in {"elements", "dequeue", "exec", "wait", "memory"} :
               /\ InOrder(group[name])
               /\ \A t \in GroupOf(n) : shown[t][name] \in group[name][1].min .. group[name][1].max
          /\ \A name \in {"elements", "dequeue", "exec"} :
               LET figure == groupByInput[name] IN
               \A i \in InputType :
                 /\ InOrder(<<figure[1][i], figure[2][i]>>)
                 /\ \A k \in {1, 2} : shownOf(Members[n][k], name)[i] \in figure[1][i].min .. figure[1][i].max

\* The colour of every box is one of the scale: no duration is under the least of the
\* range, whether a graph is nested in the graph or not, a longer duration is not less red,
\* and without a nested graph the fastest thread is all blue and the slowest all red,
\* unless they are equal.
ShadesInRange == \A nested \in BOOLEAN :
  LET execution == MinMaxExecutionDuration(nested)
      wait == MinMaxWaitDuration(nested)
      red == [t \in Thread |-> GetExecRGB(t, execution)]
  IN /\ \A t \in Thread :
          /\ count[t].dequeue >= execution.min /\ red[t] \in 0 .. 255
          /\ count[t].wait >= wait.min /\ GetWaitRGB(t, wait) \in 0 .. 255
          /\ \A u \in Thread : count[t].dequeue <= count[u].dequeue => red[t] <= red[u]
     /\ ~nested =>
          /\ \E t \in Thread : red[t] = 0
          /\ execution.min = execution.max \/ \E t \in Thread : red[t] = 255
==============================================================================
