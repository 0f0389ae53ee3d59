------------------------------ MODULE LambdaTask ------------------------------
(***************************************************************************)
(* A task made of stored functions, one per input type: setLambda, the       *)
(* clones that an execution pipeline takes of the task, the copies that       *)
(* createGroup makes of each clone, and the run of their threads over several *)
(* inputs.  A copy takes the functions by value, so that the order of setting *)
(* and copying matters.                                                      *)
(*                                                                          *)
(* Sleeping and waking are TaskGraph's: here a thread waits for its           *)
(* condition.  The predecessor leaves all the threads of a group in one step. *)
(* Bounds: MaxSets calls of setLambda, MaxValues values per input and graph;   *)
(* one group is followed from its creation on: groups share no state.         *)
(***************************************************************************)
EXTENDS Naturals, Sequences, FiniteSets

CONSTANTS
  InputTypes,         \* the sequence of the input types
  Lambda,         \* the functions that the user stores
  Unset,          \* the empty function
  Given,          \* the functions given to the constructor
  Null,           \* the data of the automatic start
  GroupSize,      \* the number of threads of the task
  Clones,         \* the number of graphs that hold the task or a clone of it
  StartsItself,   \* the flag for the automatic start
  MaxSets, MaxValues

ASSUME LambdaAssumption ==
  /\ InputTypes \in Seq({InputTypes[n] : n \in DOMAIN InputTypes})
  /\ GroupSize \in Nat \ {0} /\ Clones \in Nat \ {0}
  /\ MaxSets \in Nat /\ MaxValues \in Nat /\ Null \notin 1 .. MaxValues
  /\ StartsItself \in BOOLEAN
  /\ Unset \notin Lambda
  /\ Given \in [DOMAIN InputTypes -> Lambda \cup {Unset}]

Position == DOMAIN InputTypes
CloneId == 0 .. Clones - 1
Instance == CloneId \X (0 .. GroupSize - 1)
User == <<0, 0>>        \* the task that the user made
Members(k) == {k} \X (0 .. GroupSize - 1)

VARIABLES
  tasks,    \* the task objects that exist
  threads,  \* where the thread of each task is
  queues,   \* the receivers that a group shares, one per input
  fed,      \* the number of values pushed to each input of each graph
  linked,   \* the tasks that still have a notifier
  results,  \* what the functions added, and through which task
  calls,    \* the calls of setLambda and clone, in order
  broken    \* an empty function was called: the program ends

lambdaVars == <<tasks, threads, queues, fed, linked, results, calls, broken>>

Idle == [at |-> "none", input |-> 1]

\* The functions of LambdaMultiExecute and the task that its TaskInterface names.
Execute(lambdas, self) == [p \in Position |-> [lambda |-> lambdas[p], task |-> self]]

NewTask(self, lambdas, memory) ==
  [lambdas |-> lambdas, execute |-> Execute(lambdas, self), memory |-> memory]

LambdaInit ==
  /\ tasks = [i \in {User} |-> NewTask(User, Given, 0)]
  /\ threads = [i \in Instance |-> Idle]
  /\ queues = [k \in CloneId |-> [p \in Position |-> <<>>]]
  /\ fed = [k \in CloneId |-> [p \in Position |-> 0]]
  /\ linked = {}
  /\ results = {}
  /\ calls = <<>>
  /\ broken = FALSE

Made == DOMAIN tasks
Launched(k) == Members(k) \subseteq linked \cup {i \in Instance : threads[i].at # "none"}
-----------------------------------------------------------------------------
(* Before the execution.                                                     *)

\* Mutant of Reinitialize: the functions that run are not replaced.
ReinitializeNothing(task, self) == task

\* LambdaMultiExecute takes all the functions again.
Reinitialize(task, self) == [task EXCEPT !.execute = Execute(task.lambdas, self)]

SetLambda(p, f) ==
  /\ Cardinality({n \in DOMAIN calls : calls[n].op = "set"}) < MaxSets
  /\ \A k \in CloneId : ~Launched(k)
  /\ tasks' = [tasks EXCEPT ![User] = Reinitialize([@ EXCEPT !.lambdas[p] = f], User)]
  /\ calls' = Append(calls, [op |-> "set", input |-> p, to |-> f])
  /\ UNCHANGED <<threads, queues, fed, linked, results, broken>>

\* copy(): a task with the stored functions and its own address.
CopyOf(i, self, memory) == NewTask(self, tasks[i].lambdas, memory)

\* The pipeline clones the task; the clone has its own memory manager.
CloneTask(k) ==
  /\ <<k, 0>> \notin Made
  /\ \A j \in CloneId : ~Launched(j)
  /\ tasks' = [i \in Made \cup {<<k, 0>>} |->
                 IF i \in Made THEN tasks[i] ELSE CopyOf(User, i, k)]
  /\ calls' = Append(calls, [op |-> "clone", clone |-> k])
  /\ UNCHANGED <<threads, queues, fed, linked, results, broken>>

\* The group shares the memory manager, the receivers and the neighbours of its
\* representative; its threads are then created.
CreateGroup(k) ==
  /\ \A j \in CloneId : <<j, 0>> \in Made /\ ~Launched(j)
  /\ tasks' = [i \in Made \cup Members(k) |->
                 IF i \in Made THEN tasks[i] ELSE CopyOf(<<k, 0>>, i, tasks[<<k, 0>>].memory)]
  /\ linked' = linked \cup Members(k)
  /\ threads' = [i \in Instance |-> IF i[1] = k THEN [Idle EXCEPT !.at = "created"] ELSE threads[i]]
  /\ UNCHANGED <<queues, fed, results, calls, broken>>
-----------------------------------------------------------------------------
(* The predecessor.                                                          *)

Feed(k, p) ==
  /\ Launched(k)
  /\ fed[k][p] < MaxValues
  /\ fed' = [fed EXCEPT ![k][p] = @ + 1]
  /\ queues' = [queues EXCEPT ![k][p] = Append(@, fed[k][p] + 1)]
  /\ UNCHANGED <<tasks, threads, linked, results, calls, broken>>

Leave(k) ==
  /\ Launched(k) /\ Members(k) \subseteq linked
  /\ \A p \in Position : fed[k][p] = MaxValues
  /\ linked' = linked \ Members(k)
  /\ UNCHANGED <<tasks, threads, queues, fed, results, calls, broken>>
-----------------------------------------------------------------------------
(* The run of a thread.                                                      *)

ReceiversEmpty(i) == \A p \in Position : queues[i[1]][p] = <<>>
CanTerminate(i) == i \notin linked /\ ReceiversEmpty(i)
Goto(i, at, p) == threads' = [threads EXCEPT ![i] = [at |-> at, input |-> p]]

\* What a function that executes v adds, through the task that its interface names.
AddResult(i, p, v, function) ==
  [by |-> i, input |-> p, value |-> v, lambda |-> function.lambda,
   through |-> function.task, memory |-> tasks[function.task].memory]

\* execute with the value v of some inputs: an empty function throws in the thread.
CallExecute(i, inputs, v) ==
  LET functions == tasks[i].execute
      sound == {p \in inputs : functions[p].lambda # Unset} IN
  /\ broken' = (sound # inputs)
  /\ results' = results \cup {AddResult(i, p, v, functions[p]) : p \in sound}

\* preRun and callAllExecuteWithNullptr.
Run(i) ==
  /\ threads[i].at = "created"
  /\ Goto(i, "loop", 1)
  /\ IF StartsItself THEN CallExecute(i, Position, Null) ELSE UNCHANGED <<results, broken>>
  /\ UNCHANGED <<tasks, queues, fed, linked, calls>>

\* The loop ends before the sleep or after it; else the sleep ends with data.
Loop(i) ==
  /\ threads[i].at = "loop"
  /\ IF CanTerminate(i) THEN Goto(i, "left", 1)
     ELSE ~ReceiversEmpty(i) /\ Goto(i, "operate", 1)
  /\ UNCHANGED <<tasks, queues, fed, linked, results, calls, broken>>

\* One input of operateReceivers: another thread may have emptied its queue.
OperateReceiver(i) ==
  LET p == threads[i].input
      queue == queues[i[1]][p] IN
  /\ threads[i].at = "operate"
  /\ IF queue = <<>> THEN UNCHANGED <<queues, results, broken>>
     ELSE /\ queues' = [queues EXCEPT ![i[1]][p] = Tail(@)]
          /\ CallExecute(i, {p}, Head(queue))
  /\ IF p = Len(InputTypes) THEN Goto(i, "loop", 1) ELSE Goto(i, "operate", p + 1)
  /\ UNCHANGED <<tasks, fed, linked, calls>>

LambdaNext ==
  /\ ~broken
  /\ \/ \E p \in Position, f \in Lambda : SetLambda(p, f)
     \/ \E k \in CloneId : CloneTask(k) \/ CreateGroup(k) \/ Leave(k)
     \/ \E k \in CloneId, p \in Position : Feed(k, p)
     \/ \E i \in Instance : Run(i) \/ Loop(i) \/ OperateReceiver(i)

LambdaSpec == LambdaInit /\ [][LambdaNext]_lambdaVars
-----------------------------------------------------------------------------
\* The function for an input that was set last when the clone was taken.
SetBefore(k, p) ==
  LET cloned == {n \in DOMAIN calls : calls[n].op = "clone" /\ calls[n].clone = k}
      sets == {n \in DOMAIN calls : /\ calls[n].op = "set" /\ calls[n].input = p
                                    /\ \A c \in cloned : n < c}
  IN IF sets = {} THEN Given[p]
     ELSE calls[CHOOSE n \in sets : \A m \in sets : m <= n].to

\* Every thread of every clone runs, for each input, the function that was given or
\* set last before the clone was taken, whatever was set afterwards and for whatever other
\* input; what the function adds leaves through the task of its own thread, with the
\* memory of its own clone.  Only a call of a function that was never set ends the
\* program, and when the threads of a group have left, each value was executed by
\* exactly one of them and each thread executed its nulls.
ResultsOfTheLambdas ==
  /\ \A r \in results :
       /\ r.lambda = SetBefore(r.by[1], r.input)
       /\ r.through = r.by
       /\ r.memory = r.by[1]
  /\ broken => \E k \in CloneId, p \in Position : SetBefore(k, p) = Unset
  /\ \A k \in CloneId :
       (\A i \in Members(k) : threads[i].at = "left") =>
         /\ \A p \in Position, v \in 1 .. MaxValues :
              Cardinality({r \in results : r.by[1] = k /\ r.input = p /\ r.value = v}) = 1
         /\ \A i \in Members(k), p \in Position :
              StartsItself = (\E r \in results : r.by = i /\ r.input = p /\ r.value = Null)
==============================================================================
