-------------------------- MODULE ExecutionPipeline --------------------------
(***************************************************************************)
(* Graphs inside graphs: the launch of a graph with its nested graphs and   *)
(* its execution pipelines, the routing of data by a switch to the copies   *)
(* of a graph, and the end, handed from the outside to the inside and       *)
(* joined from the inside to the outside.                                   *)
(*                                                                          *)
(* One step is one operation on one slot, receiver or notifier; what a      *)
(* thread has yet to do, in order, is its agenda.  An entry of the agenda   *)
(* stands for a loop over the set in its field "on".  The tests that        *)
(* DefaultSlot::sleep makes under mutexSleep_ and the wait are one step:    *)
(* TaskGraph opens that step up.                                            *)
(***************************************************************************)
EXTENDS Naturals, Sequences, FiniteSets, SequencesExt, FiniteSetsExt

CONSTANTS
  Task,           \* the tasks of all the graphs, without their copies
  Pipeline,       \* the execution pipelines
  Graph,          \* the outer graph, the nested graphs and the pipeline copies
  Outer,          \* the graph that the user executes
  User,           \* the user thread and the GraphSource it drives
  Sink,           \* the GraphSink
  Inside,         \* Inside[g] is the set of tasks, pipelines and graphs in g
  Copies,         \* Copies[p] is the sequence of the graphs of pipeline p
  Inputs,         \* Inputs[g] is the set of input tasks of graph g
  Succ,           \* the wiring between tasks, pipelines, User and Sink
  NumberThreads,  \* the number of threads of each task
  Generated,      \* what an automatic start makes each task send
  SendToGraph,    \* the pairs <<d, g>> for which the switch sends d to graph g
  Limited,        \* the tasks whose queue holds one value
  Input           \* what the user pushes, in order

Node == Task \cup Pipeline \cup {Sink}
Data == Range(Input) \cup UNION {Range(Generated[t]) : t \in Task}

\* <<n, i>> is the i-th thread of node n.  The thread of a pipeline also stands
\* for its switch where a notifier is meant.
ThreadsOf(n) == IF n \in Task THEN {n} \X (0 .. NumberThreads[n] - 1)
                              ELSE {n} \X {0}
Thread == UNION {ThreadsOf(n) : n \in Task \cup Pipeline}
Representative == (Task \cup Pipeline) \X {0}
Process == Thread \cup {<<User, 0>>}

\* The tasks that the switch of pipeline p feeds.
Fed(p) == UNION {Inputs[Copies[p][i]] : i \in DOMAIN Copies[p]}

\* What is directly in a graph, and the copies of a pipeline.
Item == Task \cup Pipeline \cup Graph
Parts(x) == CASE x \in Graph -> Inside[x]
              [] x \in Pipeline -> Range(Copies[x])
              [] OTHER -> {}

\* All that is in x, however deep, and x: the least set closed under Parts.
Under ==
  [x \in Item |-> {y \in Item :
     \A S \in SUBSET Item :
       x \in S /\ (\A z \in S : Parts(z) \subseteq S) => y \in S}]

ASSUME GraphAssumption ==
  /\ Inside \in [Graph -> SUBSET Item]
  /\ Copies \in [Pipeline -> Seq(Graph)]
  /\ Inputs \in [Graph -> SUBSET Task]
  /\ Succ \in [Task \cup {User} -> SUBSET Node]
  /\ NumberThreads \in [Task -> Nat \ {0}]
  /\ Limited \subseteq Task
  /\ SendToGraph \subseteq Data \X Graph
  /\ Generated \in [Task -> Seq(Data)] /\ Input \in Seq(Data)
  /\ Outer \in Graph

\* Every node knows the one graph that it belongs to, a pipeline owns its copies,
\* no graph is inside itself, and its input tasks are.
ASSUME NestingAssumption ==
  /\ Task \cap Pipeline = {} /\ Graph \cap (Task \cup Pipeline) = {}
  /\ User \notin Task \cup Pipeline
  /\ \A x, y \in Item : x # y => Parts(x) \cap Parts(y) = {}
  /\ \A p \in Pipeline : \A i, j \in DOMAIN Copies[p] :
       Copies[p][i] = Copies[p][j] => i = j
  /\ \A x \in Item : \A y \in Parts(x) : x \notin Under[y]
  /\ \A g \in Graph : Inputs[g] \subseteq Under[g]

VARIABLES
  notifiers,  \* DefaultSlot::notifiers_ of each node
  slots,      \* DefaultNotifier::slots_ of each thread
  queue,      \* the receiver of each node
  pc,         \* idle, run, wait (on the condition variable of the slot), done
  agenda,     \* what each thread has yet to do before it tests its loop again
  executed    \* the values each node took from its queue, in order

vars == <<notifiers, slots, queue, pc, agenda, executed>>

\* A loop over the set "on"; over the empty set it is nothing to do.
LoopOn(op, on, d) ==
  IF on = {} THEN <<>> ELSE <<[op |-> op, on |-> on, data |-> d]>>
Loop(op, on) == LoopOn(op, on, {})

\* DefaultSender::send and then notify, towards the nodes in "to".
SendAndNotify(to, d) == LoopOn("receive", to, d) \o Loop("wakeUp", to)

\* CoreGraph::createInnerGroupsAndLaunchThreads: the groups and the graphs
\* inside, in the order of their addresses, and then the threads.
Launch(g) == Loop("create", Inside[g]) \o Loop("spawn", {g})

Feeders(n) == {x \in Task \cup {User} : n \in Succ[x]}
                \cup {p \in Pipeline : n \in Fed(p)}

\* DefaultNotifier::notifyAllTerminated: leave every slot, then wake them up.
NotifyAllTerminated(connected) ==
  Loop("remove", connected) \o Loop("wakeUp", connected)

\* What the user thread does with the graph.
UserAgenda ==
  Launch(Outer)
    \o FlattenSeq([i \in DOMAIN Input |-> SendAndNotify(Succ[User], Input[i])])
    \o NotifyAllTerminated(Succ[User])
    \o Loop("join", {Outer}) \o Loop("return", {User})

\* What a thread does once it left the loop of run.
EndAgenda(t) ==
  LET n == t[1] IN
  (IF n \in Pipeline
     THEN Loop("leave", slots[t])
            \o FlattenSeq([i \in DOMAIN Copies[n] |-> Loop("join", {Copies[n][i]})])
     ELSE NotifyAllTerminated(slots[t]))
    \o Loop("wakeUp", {n}) \o Loop("return", {n})


\* Before the launch only the representatives are wired.
Init ==
  /\ notifiers = [n \in Node |-> Feeders(n) \X {0}]
  /\ slots = [t \in Process |-> IF t[2] # 0 THEN {}
                                ELSE {n \in Node : t[1] \in Feeders(n)}]
  /\ queue = [n \in Node |-> <<>>]
  /\ pc = [t \in Process |-> IF t[1] = User THEN "run" ELSE "idle"]
  /\ agenda = [t \in Process |-> IF t[1] = User THEN UserAgenda ELSE <<>>]
  /\ executed = [n \in Node |-> <<>>]
-----------------------------------------------------------------------------
(* One entry of an agenda.  At(t, op, n): thread t is in the loop op and      *)
(* handles n next; After(t, n, more): it does more and goes on with the loop. *)

At(t, op, n) == /\ agenda[t] # <<>>
                /\ Head(agenda[t]).op = op
                /\ n \in Head(agenda[t]).on

Rest(t, n) == LET rest == Head(agenda[t]).on \ {n}
              IN IF rest = {} THEN Tail(agenda[t])
                 ELSE <<[Head(agenda[t]) EXCEPT !.on = rest]>>
                        \o Tail(agenda[t])

After(t, n, more) == agenda' = [agenda EXCEPT ![t] = more \o Rest(t, n)]

HasRoom(n) == n \in Limited => Len(queue[n]) < 1

\* ReceiverAbstraction::receive, retried by the sender until there is room.
Receive(t, n) ==
  /\ At(t, "receive", n)
  /\ HasRoom(n)
  /\ queue' = [queue EXCEPT ![n] = Append(@, Head(agenda[t]).data)]
  /\ After(t, n, <<>>)
  /\ UNCHANGED <<notifiers, slots, pc, executed>>

\* notify_one on the condition variable of n: one of the waiting threads.
NotifyOne(n) ==
  LET asleep == {s \in ThreadsOf(n) \cap Thread : pc[s] = "wait"} IN
  IF asleep = {} THEN UNCHANGED pc
  ELSE \E s \in asleep : pc' = [pc EXCEPT ![s] = "run"]

WakeUp(t, n) ==
  /\ At(t, "wakeUp", n)
  /\ NotifyOne(n)
  /\ After(t, n, <<>>)
  /\ UNCHANGED <<notifiers, slots, queue, executed>>

RemoveNotifier(t, n) ==
  /\ At(t, "remove", n)
  /\ notifiers' = [notifiers EXCEPT ![n] = @ \ {t}]
  /\ After(t, n, <<>>)
  /\ UNCHANGED <<slots, queue, pc, executed>>

\* Mutant of DisconnectSwitch: the tasks of a copy are not woken up.
DisconnectSwitchSilent(t, n) ==
  /\ At(t, "leave", n)
  /\ notifiers' = [notifiers EXCEPT ![n] = @ \ {t}]
  /\ After(t, n, <<>>)
  /\ UNCHANGED <<slots, queue, pc, executed>>

\* disconnectSwitch leaves the slots one at a time and wakes each up at once.
DisconnectSwitch(t, n) ==
  /\ At(t, "leave", n)
  /\ notifiers' = [notifiers EXCEPT ![n] = @ \ {t}]
  /\ After(t, n, Loop("wakeUp", {n}))
  /\ UNCHANGED <<slots, queue, pc, executed>>

\* Mutant of Join: the threads of the nested graphs are not joined.
JoinOwn(t, g) ==
  /\ At(t, "join", g)
  /\ \A n \in Inside[g] \ Graph : \A s \in ThreadsOf(n) : pc[s] = "done"
  /\ After(t, g, <<>>)
  /\ UNCHANGED <<notifiers, slots, queue, pc, executed>>

\* DefaultScheduler::joinAll: the threads of the graph, then the graphs inside.
Join(t, g) ==
  /\ At(t, "join", g)
  /\ \A n \in Inside[g] \ Graph : \A s \in ThreadsOf(n) : pc[s] = "done"
  /\ After(t, g, Loop("join", Inside[g] \cap Graph))
  /\ UNCHANGED <<notifiers, slots, queue, pc, executed>>

Return(t, n) ==
  /\ At(t, "return", n)
  /\ pc' = [pc EXCEPT ![t] = "done"]
  /\ After(t, n, <<>>)
  /\ UNCHANGED <<notifiers, slots, queue, executed>>
-----------------------------------------------------------------------------
(* The launch.                                                               *)

CreateInner(t, n) ==
  /\ At(t, "create", n)
  /\ After(t, n,
       CASE n \in Graph -> Launch(n)
         [] n \in Pipeline ->
              FlattenSeq([i \in DOMAIN Copies[n] |-> Launch(Copies[n][i])])
         [] n \in Task ->
              FlattenSeq([i \in 1 .. NumberThreads[n] - 1 |->
                            Loop("copy", {<<n, i>>})]))
  /\ UNCHANGED <<notifiers, slots, queue, pc, executed>>

\* CoreTask::createGroup connects a copy: first the notifiers that the shared
\* slot has, read one after the other while the threads of the graphs launched
\* before may remove theirs, ...
ReadNotifier(t, c) ==
  /\ At(t, "copy", c)
  /\ \E q \in notifiers[c[1]] \ Head(agenda[t]).data :
       agenda' = [agenda EXCEPT ![t] =
                    LoopOn("reconnect", {c}, {q})
                      \o LoopOn("copy", {c}, Head(@).data \cup {q})
                      \o Tail(@)]
  /\ UNCHANGED <<notifiers, slots, queue, pc, executed>>

\* ... each added to the slot, where it is already, ...
Reconnect(t, c) ==
  /\ At(t, "reconnect", c)
  /\ \E q \in Head(agenda[t]).data :
       /\ notifiers' = [notifiers EXCEPT ![c[1]] = @ \cup {q}]
       /\ slots' = [slots EXCEPT ![q] = @ \cup {c[1]}]
  /\ After(t, c, <<>>)
  /\ UNCHANGED <<queue, pc, executed>>

\* Mutant of ConnectSuccessors: the copy does not learn of the slots.
ConnectSuccessorsUnaware(t, c) ==
  /\ At(t, "copy", c)
  /\ notifiers[c[1]] \subseteq Head(agenda[t]).data
  /\ notifiers' = [n \in Node |-> IF n \in slots[<<c[1], 0>>]
                                    THEN notifiers[n] \cup {c}
                                    ELSE notifiers[n]]
  /\ After(t, c, <<>>)
  /\ UNCHANGED <<slots, queue, pc, executed>>

\* ... and then the copy as a notifier to the slots of the representative.
ConnectSuccessors(t, c) ==
  /\ At(t, "copy", c)
  /\ notifiers[c[1]] \subseteq Head(agenda[t]).data
  /\ slots' = [slots EXCEPT ![c] = slots[<<c[1], 0>>]]
  /\ notifiers' = [n \in Node |-> IF n \in slots[<<c[1], 0>>]
                                    THEN notifiers[n] \cup {c}
                                    ELSE notifiers[n]]
  /\ After(t, c, <<>>)
  /\ UNCHANGED <<queue, pc, executed>>

\* DefaultScheduler::spawnThreads: a thread for every task, copy and pipeline
\* of g; the graphs inside have started theirs.  An automatic start sends first.
SpawnThreads(t, g) ==
  /\ At(t, "spawn", g)
  /\ LET started == UNION {ThreadsOf(n) : n \in Inside[g] \ Graph} IN
       /\ pc' = [s \in Process |-> IF s \in started THEN "run" ELSE pc[s]]
       /\ agenda' = [s \in Process |->
            IF s = t THEN Rest(t, g)
            ELSE IF s \in started /\ s[1] \in Task
                   THEN FlattenSeq([i \in DOMAIN Generated[s[1]] |->
                          SendAndNotify(Succ[s[1]], Generated[s[1]][i])])
                   ELSE agenda[s]]
  /\ UNCHANGED <<notifiers, slots, queue, executed>>
-----------------------------------------------------------------------------
(* The loop of CoreTask::run and of CoreExecutionPipeline::run.              *)

Testing(t) == t \in Thread /\ pc[t] = "run" /\ agenda[t] = <<>>

\* Neither data nor the end: sleep waits.
Sleep(t) ==
  /\ Testing(t)
  /\ queue[t[1]] = <<>> /\ notifiers[t[1]] # {}
  /\ pc' = [pc EXCEPT ![t] = "wait"]
  /\ UNCHANGED <<notifiers, slots, queue, agenda, executed>>

LeaveLoop(t) ==
  /\ Testing(t)
  /\ queue[t[1]] = <<>> /\ notifiers[t[1]] = {}
  /\ agenda' = [agenda EXCEPT ![t] = EndAgenda(t)]
  /\ UNCHANGED <<notifiers, slots, queue, pc, executed>>

Take(t) ==
  /\ queue[t[1]] # <<>>
  /\ queue' = [queue EXCEPT ![t[1]] = Tail(@)]
  /\ executed' = [executed EXCEPT ![t[1]] = Append(@, Head(queue[t[1]]))]

\* execute forwards the value.
Execute(t) ==
  /\ Testing(t) /\ t[1] \in Task
  /\ Take(t)
  /\ agenda' = [agenda EXCEPT ![t] =
                  SendAndNotify(Succ[t[1]], Head(queue[t[1]]))]
  /\ UNCHANGED <<notifiers, slots, pc>>

\* Mutant of OperateReceiver: the first graph that is chosen gets the value.
OperateReceiverFirst(t) ==
  /\ Testing(t) /\ t[1] \in Pipeline
  /\ Take(t)
  /\ LET d == Head(queue[t[1]])
         chosen == SelectSeq(Copies[t[1]],
                             LAMBDA g : <<d, g>> \in SendToGraph)
     IN agenda' = [agenda EXCEPT ![t] =
                     SendAndNotify(Inputs[chosen[1]], d)]
  /\ UNCHANGED <<notifiers, slots, pc>>

\* What the pipeline does with d for the copy g, if the switch chooses it.
OperateCopy(g, d) ==
  IF <<d, g>> \in SendToGraph THEN SendAndNotify(Inputs[g], d) ELSE <<>>

\* The pipeline asks the switch for every copy in turn; the receiver of a copy
\* passes the value to the input tasks, its slot wakes them up.
OperateReceiver(t) ==
  /\ Testing(t) /\ t[1] \in Pipeline
  /\ Take(t)
  /\ agenda' = [agenda EXCEPT ![t] =
       FlattenSeq([i \in DOMAIN Copies[t[1]] |->
                     OperateCopy(Copies[t[1]][i], Head(queue[t[1]]))])]
  /\ UNCHANGED <<notifiers, slots, pc>>

Handle(t, n) ==
  \/ Receive(t, n) \/ WakeUp(t, n) \/ RemoveNotifier(t, n)
  \/ DisconnectSwitch(t, n) \/ Join(t, n) \/ Return(t, n)
  \/ CreateInner(t, n) \/ SpawnThreads(t, n)
  \/ ReadNotifier(t, n) \/ Reconnect(t, n) \/ ConnectSuccessors(t, n)

Step(t) ==
  \/ Sleep(t) \/ LeaveLoop(t) \/ Execute(t) \/ OperateReceiver(t)
  \/ agenda[t] # <<>> /\ \E n \in Head(agenda[t]).on : Handle(t, n)

Terminated == /\ \A t \in Process : pc[t] = "done"
              /\ UNCHANGED vars

Next == (\E t \in Process : Step(t)) \/ Terminated

\* Some thread that can take a step takes one: no thread computes forever.
Fairness == WF_vars(\E t \in Process : Step(t))

Spec == Init /\ [][Next]_vars
FairSpec == Spec /\ Fairness
-----------------------------------------------------------------------------
\* A pipeline and the user join graphs: when the thread that joins is done, no
\* thread runs and no value is left in any graph it joined, however deep.
JoinedInside ==
  \A t \in Process \ (Task \X Nat) : pc[t] = "done" =>
    \A g \in IF t[1] = User THEN {Outer} ELSE Range(Copies[t[1]]) :
      \A n \in Under[g] \ Graph : /\ queue[n] = <<>>
                                /\ \A s \in ThreadsOf(n) : pc[s] = "done"

\* "When a task terminates, ... disconnect the task to successor nodes"
\* (core_task.h): a thread that returned is no notifier of any slot, or the
\* node behind that slot would wait for it forever.
TerminatedIsDisconnected ==
  \A t \in Process : pc[t] = "done" => \A n \in Node : t \notin notifiers[n]

\* Whatever the interleaving of launch, routing and termination, the user's
\* waitForTermination returns.
Termination == <>(pc[<<User, 0>>] = "done")
==============================================================================
