# Hedgehog: a verification development

Hedgehog is a header-only C++ library that runs a data-flow graph: tasks connected by typed edges, each task
a group of threads, data passed as shared pointers through queues. This directory holds TLA+ modules that
model the run time of the library, the configurations with which TLC checks them, and proofs that TLAPS
checks. Paths below are relative to `src/hedgehog/src` unless they say otherwise.

Section 1 is the inventory of the system, 2 the correspondence of modules and code, 3 the runs, 4 the
fairness, 5 the proofs, 6 the disagreements found, 7 what is left out, 8 the plan.

## 1. Inventory

| component | state | operations | what makes it correct |
|---|---|---|---|
| **Task node** `core/nodes/core_task.h`, `core/abstractions/node/task_*` | thread, `canTerminate`, group of copies | `run`, `preRun`, `postRun`, `createGroup`, `operateReceivers` | each value of the queue is executed once by one thread; it leaves `run` only when nobody can send to it any more and its queue is empty; every thread of its group leaves |
| **DefaultSlot** `core/implementors/.../slot/default_slot.h` | `notifiers_`, `mutexSleep_`, condition variable | `sleep`, `wakeUp`, `addNotifier`, `removeNotifier` | no wake-up is lost; a notifier that left never comes back |
| **AtomicSlot** `.../slot/atomic_slot.h` | `notifiers_` behind a spin flag, an atomic flag | the same | the same, for a whole group that shares the flag |
| **DefaultNotifier, DefaultSender** | connected slots, connected receivers, the sender's mutex | `notify`, `notifyAllTerminated`, `send` | every successor gets every value, retried until it is received, and is notified after it has it |
| **QueueReceiver** | `std::queue`, mutex | `receive`, `getInputData`, `empty` | first in, first out |
| **AtomicQueueReceiver** | linked list with a dummy node, two spin flags, a counter | the same | first in, first out with one lock per end; no deleted node is touched; `empty` is never a lie |
| **LimitedAtomicQueueReceiver** | ring of pointers, two counters | the same, `receive` may fail | nothing lost or overwritten although threads overtake each other; never above the capacity |
| **Graph source and sink** `core/parts` | as a sender and notifier; as a receiver and slot | `pushData`, `finishPushingData`, `getBlockingResult` | the reader gets every result and is told the end once |
| **Memory manager and pool** `api/memory_manager` | the pool's deque, two mutexes, a condition variable, the uses of each memory | `initialize`, `getManagedMemory`, `recycleMemory` | one user of a piece at a time, a piece comes back when its uses are spent, every waiting thread is served |
| **State manager and state** `core/nodes/core_state_manager.h`, `api/state_manager` | the state's mutex, its ready lists, its current manager | `run`, `emptyReadyLists` | results leave in order through the manager that produced them; no deadlock of state and slot |
| **Execution pipeline** `core/nodes/core_execution_pipeline.h`, `core/parts/core_switch.h` | copies of a graph, the switch | `run`, `sendToGraph`, `disconnectSwitch`, `clone` | a value reaches exactly the graphs the rule names; all copies end, and are joined from the inside out |
| **Graph construction** `core/nodes/core_graph.h`, `core/abstractions/node/graph_*`, `core/implementors/.../graph` | status, inside nodes, edges, and what a graph inside another one stands for | `inputs`, `edges`, `outputs`, `setInside`, `clone`, `executeGraph`, `cleanGraph` | no node in two graphs; the wiring of nested and cloned graphs is that of the flat graph |
| **Launch and scheduler** `api/graph/default_scheduler.h` | threads, inner graphs | `createGroup`, `spawnThreads`, `joinAll` | every copy is wired to every thread of its neighbours before anyone can terminate |
| **Lambda tasks** `core/nodes/core_lambda_task.h`, `api/task/lambda_task.h` | the functions, in the task and as installed | `setLambda`, `copy`, `clone`, `createGroup`, `run` | every copy runs the functions set before it was made, through its own task |
| **Statistics** `core/abstractions/base/any_groupable_abstraction.h`, `.../node/graph_node_abstraction.h` | durations and counters per node | minimum, maximum, mean, deviation over a group, range over a graph | the figures of a task agree with one another; a longer duration is not less red |
| **Printers** `api/printer` | visited nodes, edges, the output so far | the visit, `DotPrinter`, `HedgehogExportFile` | every edge of the graph is shown once, in the right graph, and no other |
| **Static analysis** `src/hedgehog/hedgehog_cx` | a graph as matrices of types, tests, arrays | `CycleTest`, `DataRaceTest`, `createDefroster`, `map` | the tests report exactly what they say; the dynamic graph is the static one |
| CUDA tasks, signal handler, profiler, property map, type tools | | | see section 7 |

How they interact. The user wires nodes into a graph, `executeGraph` creates the copies of each task and one
thread per node. A thread *sends* by calling `receive` on each connected receiver, then *notifies* by calling
`wakeUp` on each connected slot; the successor's threads sleep on that slot until the queue is not empty or
`canTerminate` holds. Managers that share a state
serialise their executions with its mutex, and send what the state gathered before they release it. Termination flows
the same way: a thread that leaves `run` removes its notifier from the slots of its successors and wakes them. A graph
put inside another one loses its source and sink: whoever is connected to it is connected to its input and output
nodes. A pipeline hands what it receives to the input nodes of its copies, chosen by the switch, and its thread joins
the threads of the copies. Threads of one group share slot, receivers and senders (the
copies share the representative's implementors) and have a notifier each, so that a notification wakes one
thread of the group, and the last thing a thread does is to wake another one of its own group
(`core_task.h:212`).

What is hard: the window between testing a sleeper's condition and waiting; several threads woken for one
value; the end, which is one notification for a whole group; senders that hold a mutex while they spin on a
full queue; lock-free counters read one after the other; flags shared by a group; and memory that several
threads give back at once. `PROJECT.json` lists each under `hazards`, at its line, with the properties that
watch it.

## 2. Modules and code

**TaskGraph** is the running graph: `Task` groups of `Thread`s wired by `Succ`, the user thread that
executes the graph and pushes data (`Source`), and the one that collects the results (`Reader`, sleeping on
the sink). What a task's `execute` adds as results is the constant function `Emit`, so that a theorem about
the module holds for every user code that is a function of its input. A step is one access to shared state
under the mutex that guards it; the two mutexes that are held over several accesses, `mutexSleep_` of a slot
and the mutex of a sender, are variables. `pc` follows the code:

| `pc` | code |
|---|---|
| `idle`, `start` | before the thread exists; `run` until the loop, the automatic start included |
| `check`, `checkEmpty` | `while (!canTerminate())`: no notifier, then no data, in that order |
| `lock`, `predEmpty`, `predNotifier`, `predEmptyAgain`, `wait` | `DefaultSlot::sleep`: the lock, `waitTerminationCondition` term by term, the wait set of the condition variable |
| `decide`, `decideEmpty` | `return slot->canTerminate()`, still under the lock |
| `get` | `operateReceivers`: pop, `execute`; the reader's `getBlockingResult` |
| `deliver`, `send`, `notify` | `addResult`: the loops over receivers (under the sender's mutex) and over slots |
| `disconnect`, `wakeAll`, `final` | `notifyAllTerminated` slot by slot, then `run`'s last `wakeUp` |
| `user`, `launch`, `join`, `done` | the calls of the user thread |

`QueueReceiver::empty` takes no lock, so the predicates may miss a value whose notification is still to come
(`SeenEmpty`). Spurious wake-ups are an action.

**Computation** is what the graph promises: a bag of values waiting at each node, each executed once, in the order in
which they were sent where a single thread, or the source, does all the sending (`line`), a node
terminated only when nothing can reach it any more, and the results in the order in which the user gets them. **TaskGraphRefinement**
maps the running graph to it. A task with a limited queue and several threads is left out of the order: in `TaskGraph` its queue is a sequence, but
the ring does not keep the order for several consumers.

**Receiver** is the queue the tasks rely on, first-in first-out or not, bounded or not.
**AtomicQueueReceiver** and **LimitedAtomicQueueReceiver** model the two queues without mutex access by access;
each implements `Receiver`. Nodes of the linked list have addresses that the allocator may reuse after
`delete`. The ring is first-in first-out only with one thread on either side: the claim of an index and the
exchange of the pointer are two steps.

**Mailbox** is what a slot and its queue promise together: what is sent is executed, and every thread of the
group terminates. **AtomicSlot** models the slot without mutex step by step with the loop of the group around
it, and implements `Mailbox`, liveness included. A thread may find the queue empty while a value is being
received and non-empty a moment later, as the queues above allow (`MaySeeEmpty`, `MaySeeData`).

**ManagedPool** is what a memory manager promises. **MemoryManager** models `initialize`, `getManagedMemory`
and `recycleMemory` with both mutexes and the wait set, for memories that need `Uses` returns.

**StateManager** is a graph of single-threaded managers and tasks with several input and output types. A state has a
mutex, the manager it is linked to (`stateManager_`), a content its user defines (`Execute` is what one execution makes of
it and adds to the ready lists) and a ready list for each type, which belongs to the state and not to the manager. The
control of `CoreStateManager::run` is `acquire` (`begin` at an automatic start), `get` (`start`) for each input type,
`empty` for each output type with `send` and `notify` under the state's mutex, then back to `check`. A manager in
`Overrides` has a `canTerminate` that locks its state, asks it and unlocks it, which happens in three places and twice
while `mutexSleep_` is held, as `PartialComputationStateManager` of the matrix multiplication test does; the others have
`StateManager::canTerminate`. Tasks and managers share `check`, the sleep and the sending. What groups of threads add to
these, the mutexes of senders included, is in `TaskGraph`. One graph is known to deadlock and is not instantiated: a
manager with an edge to a second manager of the same state that asks the state in `canTerminate`. The first holds the
state and waits for the slot, the second holds the slot and waits for the state.

**ExecutionPipeline** is graphs inside graphs: the launch of an outer graph with its nested graphs and pipelines in any
order (`Launch`, with `createGroup` read by read, as threads of inner graphs may already run), the pipeline's own loop,
the switch, `disconnectSwitch` slot by slot, and the joins. What a thread has yet to do is its `agenda`, a sequence of
loops over slots or receivers, one element of which is one step. Sleeping is coarser than in `TaskGraph`: test and wait
are one step. **Router** is what a pipeline promises to those who send to it; **PipelineRouting** maps a
pipeline and its copies to it: a value stays arrived when the pipeline takes it, and handed when a task of a copy takes it.

**GraphBuild** is the construction. The state `cores` is one record: statuses, registrations, the sources and sinks
that exist, what each graph stands for (`face`: the sets behind `GraphReceiver`, `GraphSlot`, `GraphSender`,
`GraphNotifier`) and the links as each of the four sides stores them. Each member function maps a record to the next;
each call of the user is an action that returns or throws, and leaves behind what the code leaves behind
(`AddEdgeForACommonType`: a refused receiver leaves the sender registered). Only calls that compile are made (`Compiles`). A pipeline clones its graph with the order
in which nodes come out of a map of pointers as a choice; a nested graph duplicates edges twice, as each of its tasks does and once more in its own name
(`OfOutputs`). `FinishPushingData` takes the source out of the links (`TerminateSource`); the threads that end later remove themselves as well, which is
`TaskGraph` and `ExecutionPipeline`. **Printers** adds the visit of the nodes as a sequence of calls, one of `printEdge` for each connected sender and each sender
behind it, so that an edge may be reported twice, and what the dot file and the export file make of it: the former merges them, the latter does not. A
node has in the export file the alias of its name and graph number, which nodes may share.

**LambdaTask** is a task of stored functions with several inputs. It is about copies: the functions are stored
twice, in the task (`lambdas`) and as installed with the task they name (`execute`), and clones and copies take them by
value. The calls of the user are kept in `calls`, so that the property can say which function each result must come
from.

**StaticGraph** is `hh_cx::Graph`; **CycleTest**, **DataRaceTest** and **Defroster** are pure algorithms over it, and
**StaticAnalysis** the use of all: the graph grows, tests are added on the way and run once, `map` is called. Reference definitions
(elementary cycles, pairs of receivers of which one may write) are by quantifiers over edges. Strings are reduced to their
lengths where the defroster copies them into arrays.

**NodeStatistics** is what threads count as they run (`TaskNodeAbstraction`), the figures of a group in total and by
input, the extremes over a graph and the shades of the dot file.

The `MC...` modules hold the instances: wirings, inputs, menus of calls. Two of them join systems that share nothing, of
which a behaviour runs one: `MCAnalyses` (static analysis, statistics) and `MCGraphBuild` (construction and printers,
lambda task).

## 3. Runs

| run | instance | shows |
|---|---|---|
| `pair` | one group of two threads behind a queue of capacity one, two values | no lost wake-up; the end is handed on; the reader is never told of a result that is not there; a closed node is never fed; every execution ends |
| `mesh` | source to A and B, A to B, A starts by itself, values changed on the way and dropped | types; `Computation` with broadcast, two predecessors and, at the source's and the sink's side, order; a node terminates drained and after its predecessors; what a single-threaded task received first leaves first |
| `atomic_queue` | two producers, two consumers, three values, three addresses | first-in first-out, no dangling access, `empty` reliable; all taken |
| `limited_queue` | two producers, two consumers and a ring of two slots; and, as a second start, one producer, one consumer and one observer | nothing lost or overwritten, first-in first-out for a pair; `empty` reliable; spins end |
| `atomic_slot` | three threads, two notifiers | no notification swallowed; `Mailbox` with its liveness |
| `memory` | two getters, two returners, two memories of two uses | one user at a time; every call served, so that no wake-up is lost |
| `state_manager` | the cycle of the matrix multiplication test, two managers of one state and a task, four types | results leave through the manager that made them, under its lock; every interleaving ends with the same results |
| `execution_pipeline` | a pipeline of two copies, one with two threads behind a queue of capacity one; all feed a nested graph; one value for both copies, one for the second | `Router`; whoever joins a graph finds it drained and its threads gone; a thread that returned is nobody's notifier; the user's wait returns |
| `launch_generator` | a nested graph whose task starts by itself and has no predecessor, a group of two that it feeds | a thread that ended is connected again (section 6) |
| `construction` | 15 calls that build an outer graph with a pipeline of two copies of a graph with a nested graph, in every allowed order, with refused calls in between; a lambda task of two inputs, two threads and one clone, two calls of `setLambda`, two values per input | data flows and ends are awaited exactly where the calls say; nesting is a tree; the two files show the wiring; each thread runs the functions set before its copy was made |
| `clone_chain` | a pipeline of two copies of a graph that holds a nested graph of two chained tasks, both its outputs | a task of the clone is connected to itself (section 6) |
| `analyses` | four nodes, two types, graphs of none, one, eight or nine of nine edges, then one more call; dynamic nodes that fit and that do not; a group of three threads of which the last receives nothing, and a task that starts by itself, before the group or not at all | the two tests report exactly the cycles and races; the dynamic graph is the static one; figures and shades agree |

Why the bounds are enough. The hazards are races of two or three threads on one slot, one queue end or one
pool; each instance has the two competitors and a third party that takes advantage. Two values suffice to
tell order, loss and duplication apart and to have one processed while another is in flight; rings of one
and two slots wrap around within three values, so that a thread is overtaken by a full lap. Address sets are
larger than the list can be at once by what is freed and reused. The construction has every kind of nesting that the
code distinguishes (a graph in a graph, in a pipeline, in a graph of a pipeline) and each kind of refusal; the nested graph has one output task
there and two in `clone_chain`, which is where cloning goes wrong (section 6), and the outer graph is finished once it is wired. The graphs of the analyses
have cycles that share nodes and edges, which is what the shared lists of Johnson's algorithm can get wrong. The group of the statistics has three
threads, because the figures for each input ignore the third (section 6), and the third receives nothing, so that it is outside of what they show.
The theorems of section 5 have no bounds.

Deadlock checking is on for everything that runs in threads; modules that end have a `Finished` step that stutters only
when every process is done. It is off in `construction`, `clone_chain` and `analyses`, where the user stops calling.

## 4. Fairness

The operating system runs every thread that can run: weak fairness of each thread's steps. A mutex or a spin
flag that is released again and again is eventually obtained by a thread that waits for it: strong fairness of
the steps that acquire one (`LockSleep`, `WakeUp`, the locks of the queue and of the pool; in `StateManager` each thread
as a whole, as it waits for one mutex at a time). The C++ standard
does not promise this, the implementations on which the library runs do, and without it no program with a
mutex makes progress. There is no fairness on spurious wake-ups: they may always or never happen, and no
liveness property relies on them. There is none on the choice of the thread a notification wakes.

## 5. Proofs

`TaskGraphProofs` proves, for every set of tasks and threads, every wiring, user function, input and
capacity:

  - `TypeCorrect`: `Spec => []TypeOK`;
  - `NothingLeftBehind`: `Spec => []TerminatedDrained`, a thread that left `run` has an empty queue behind it
    and only terminated predecessors;
  - `ClosedForever`: `Spec => ClosedNodesOnlyDrain`, a node whose last notifier is gone never gets a value or a
    notifier again.

None of these is inductive. The invariant that is, `IInv`, joins to `TypeOK`
  - `OutboxInv`: which process counters may hold unsent results;
  - `SendInv`: a thread in the loop over its receivers sends to its successors only;
  - `NotifierInv`: a thread is in `notifiers[n]` for each of its successors until its disconnect loop has passed
    `n`, so that whoever still has something to send is still registered;
  - `DrainInv`: between the two reads of `canTerminate` the node has no notifier, and after a positive outcome it has
    no data either.

`DrainInv` needs `NotifierInv`: once the set of notifiers of a node is empty, nobody may be about to send to it,
and this is because a thread removes itself only after its last send. The two reads of `canTerminate` (no
notifier, then no data) are separate steps, and their order is what the proof of `DrainInv` uses: data can only
disappear once no notifier is left. Assumptions are those of `TaskGraph`, `ProcessAssumption` and
`WiringAssumption`.

`StateManagerProofs` proves, for every set of managers, states, tasks and types, every wiring in which the managers of a
state have its types, and every user content:

  - `TypeCorrect`: `Spec => []TypeOK`, which includes that the loops over the input types stay within them;
  - `ExecutionsAreSerialised`: `Spec => []ResultsLeaveWithTheirManager`;
  - `NodesEndDrained`: a task, or a manager that does not override `canTerminate`, that has left its loop has no notifier and
    nothing in its receivers (`EndedIsDrained`), and when all threads have ended every ready list is empty as well
    (`NothingRemains`, the last two parts of `OutcomeReached` for these nodes). A manager in `Overrides` ends when its user
    says so, with values waiting if the user is wrong, and the theorem says nothing of its receivers.

The inductive invariant adds `OutboxInv` (who sends holds a value) and `TurnInv`: a manager never sends as a task does, and
a ready list that holds a result is of a type that every manager of the state sends. The last part is why `Release` leaves
nothing behind: `emptyReadyLists` only visits the output types of its own manager, and these are those of the state. It
rests on `WiringAssumption`, which the template parameters of `StateManager` and `AbstractState` guarantee.

`NodesEndDrained` needs `EndInv` as well: a value travels to receivers of its type (`SendInv`, from `ReadyListInv`: a ready
list holds results of its type), a node knows exactly the notifiers that may still send to it (`NotifierInv`), only a
manager of a state locks it or adds to its ready lists (`OwnerInv`), and `DrainInv`. The latter is about the loop of
`receiversEmpty`: it is entered without a notifier, so a queue it has found empty stays empty while it reads the others,
and the answer it gives at the last is true of all of them although they were read one after the other, without a lock.
Nothing else connects the reads: with one notifier left the first queue could be filled again before the last is read.

`TaskGraphProofs` also proves, for every graph and groups of any size:

  - `WakeUpsNotLost`: `Spec => []NoLostWakeUp`;
  - `EndReachesTheGroup`: `Spec => []EndHandedOn`;
  - `ResultsAreThere`: `Spec => []ResultAvailable`.

The invariant `SlotInv` adds what the handshake of `sleep` and `wakeUp` rests on. `MutexInv`: who is inside `sleep` owns
`mutexSleep_`, so that no `wakeUp` falls between its test and its wait. `SeenInv`: what a process saw of its queue is still so, or
whoever put data there since then has yet to notify; after the second look the node still has no notifier. `TargetInv`: the loops over
successors stay among them. `ReaderInv`: the reader leaves the wait for a result, or for the end. `NoLostWakeUp` is then preserved because
a wait begins only with an empty queue or with a notification pending, and every step that adds data or removes the last
notifier leaves a `wakeUp` pending (`WaitBegins`, `PendsStep`); `EndHandedOn` because the process a `wakeUp` reaches is awake
and passes `final` before it is done.

It further proves `GraphsCompute`: `Spec => ImplementsComputation`, step by step, by counting. What
`Computation` has pending for a node is what is in the queue and what is still with the senders (`Unsent`), summed over senders that
are finitely many. A step moves a value from one of these places to another, which is a stutter, or takes one out, which is
`Execute` or `Collect`; the step that produces results adds each once for every successor. Order is the same argument with sequences: the line of a node
with one sender is its queue followed by what that sender still holds for it (`LineBar`), so that `receive` moves the boundary between the two (`MovedOver`), and
what is taken is the first of the line (`TakenFromLine`). A task terminates when the last thread of its
group so decides, and then `NothingLeftBehind` gives the guard of `Terminate`. The proof needs `ThreadAssumption`: threads are finitely many,
as they are counted, and no group is empty (`CoreTask` throws on a group of zero threads), as an empty group would have terminated before it began.

`AtomicSlotProofs` proves, for a group of any size and any number of notifiers, `AtomicWakeUpsNotLost` and
`AtomicEndReachesTheGroup` (`[]NoLostWakeUp`, `[]EndHandedOn`), and `AtomicSlotIsAMailbox`: `Spec => Group!Init /\ [][Group!Next]_(Group!vars)`,
which is `ImplementsMailbox` without its fairness. The flag of the slot is shared, set by every `wakeUp` and cleared by whoever leaves the wait,
so that two wake-ups may be one. `FlagInv` says why this loses none: while there is data or no notifier is left, somebody is about to set the flag,
or it is set, or a thread is still to look for itself (`Alert`), as whoever clears it does. `ConnectedInv` and `EndInv` tie the set
of notifiers to the program counters.

`AtomicQueueProofs` proves, for any number of producers, consumers and addresses and whatever is offered:

  - `NoNodeIsUsedAfterDelete` (`[]NoDanglingAccess`);
  - `CounterHidesNothing` (`[]EmptyIsReliable`);
  - `ListIsAReceiver`: `Spec => ImplementsReceiver`, first-in first-out.

`LockInv` gives each end of the list one thread. A node is with the producer that made it (`PrivateInv`), with the consumer
that took it out (`GarbageInv`), or linked, and `ListInv` says that the linked ones are closed under `next_`, that no two of them point to
the same node and that none points to the dummy. So what a consumer deletes is reached by nobody. `TailInv`: `tail_` is the last node
except between the two assignments of `receive`, which is when a consumer may already have deleted what it points to. That much describes
the list by who points where. What it contains needs its order, which the auxiliary variable `list` records: the nodes that were linked and
not taken out. `ChainInv` says that the pointers agree with it: from `head_` they pass the nodes of `list`, each once and no
others, and end there, so that the node a consumer finds behind the dummy is the one that was linked first. `CountInv` says by how much the
counter is off: one less while a producer has linked a node and not counted it, which is then the last one, and one more while a consumer has
moved the head and not counted. `AddressAssumption` makes the addresses finitely many, as the capacity of the receiver is their number.

`LimitedQueueProofs` proves `SlotsAreNotOverrun`, `LimitedEmptyIsReliable` and `RingIsAReceiver` (`[]NoSlotOverrun`, `[]EmptyIsReliable`,
`Spec => ImplementsReceiver`) for any number of threads, any capacity and whatever is offered. `IndexInv` keeps the two counters within the capacity of each other, and says that what a thread
found when it compared its index still holds when it claims it. Therefore the indices claimed by producers and not yet by consumers are all in
different slots (`Live`; a fact about remainders), and `RingInv` says of each slot: what is in it or on its way there is what is on its way
out, and one more if it is live. `ObserverInv` relates what an observer loaded to the tail, which only grows.
The values of the receiver are those in the slots of `order`, an auxiliary sequence of the slots that hold a value, oldest store
first. `OrderInv` says that it names each of them once, so that there is room when a slot is empty (an injection of the sequence into
the slots) and that the consumer's slot has one place in it. For `Pair`, one thread on either side, `PairInv` gives the sequence itself: the
slots of the indices from the oldest that was not taken to the newest that was stored, so that the consumer's slot is the first.
`StartsAssumption` types the starting states, excludes null pointers, which `receive` asserts, and gives threads that take no part nothing to add.

`MemoryManagerProofs` proves, for any number of threads, pieces of memory, uses and calls:

  - `ManagerIsAPool`: `Spec => ImplementsManagedPool`;
  - `PoolNeverOverflows`: `push_back` never throws, which would leave both mutexes locked, as long as no piece is given back more
    often than its user said.

The invariant says where a piece can be: in the pool once, or with one getter, or counting its returns. `MutexInv` excludes whoever
fills the pool and whoever recycles; `FillInv` and `FilledInv` say that the pool has every piece once before anybody obtains one,
by counting (an injection between finite sets of one size is onto); `UseInv` equates a piece's count with the returns that are
due or under way, which is why only the thread that counts the last of them finds zero; `RecycleInv` says that
the piece it then puts back is nowhere else, so that there is room for it. The count and the test are two steps, and the mutex
around them is what the proof of `RecycleInv` uses. Threads that return are finitely many (`MemoryAssumption`), as they are counted.

`ExecutionPipelineProofs` proves, for every nesting of graphs and pipelines, every wiring, groups of any size, every switch rule and input:

  - `JoinedGraphsHaveEnded`: `Spec => []JoinedInside`;
  - `TerminatedThreadsAreDisconnected`: `Spec => []TerminatedIsDisconnected`, if every task and pipeline has a predecessor
    (`EveryNodeIsFed`). The hypothesis is needed: without it the property is false (`launch_generator`, section 6);
  - `PipelinesRoute`: `Spec => ImplementsRouter`, for a pipeline `pipe` whose copies take data from nobody else
    (`OnlyThePipelineFeeds`). An edge inside a copy that leads back to an input task adds values that the Router does not know of.

The invariant they share, `PipelineInv` (theorem `PipelineInvariant`), is about agendas. `AgendaInv`: an agenda is in the order launch, send, leave,
join, return, and what an entry still has to launch is disjoint from what the later ones have. The latter is where nesting enters: two parts of one
graph hold nothing in common (`PartsApart`), because every node knows one graph and none is inside itself. `LaunchInv`: what is still to be launched is idle. `WiredInv` and `CopyInv`:
a thread that runs knows all its successors, and a copy of a task is either connected or still in somebody's agenda. `RegisteredInv`,
`SendInv`: a thread is a notifier of its successors until it leaves them, and sends only while it is. Therefore a node without notifiers gets nothing more,
which is `DrainInv`; `EndInv`, `JoinInv`: of the graphs a thread has to join, each was joined, or is in an entry of the agenda, or inside one that is.
The induction over the depth of nesting that `JoinedInside` seems to need is the least set `Under[g]`: the graphs that were joined, with all that is
in them, are a set closed under `Parts`, so that `Under[g]` is within it.

The second theorem adds `QuietInv`, nobody ends while the user launches, as the user is still a notifier of its
successors and an end can only start from there, and `GoneInv`, a thread that ends and is still a notifier has the entry that
removes it before it. The third adds `SettledInv`, once a pipeline runs nothing inside it is left to be launched, so that no `createGroup` can reconnect a
pipeline that has left a copy; `ApartInv`, an input task belongs to one copy, so that one entry at most sends to it; and `RouteInv`: what the
switch selects for an input task of all the pipeline took is what the task was handed, followed by the value in the one entry that still sends to it.
A pipeline leaves its copies after its last send (`AgendaInv`) and with an empty queue (`DrainInv`), which is the guard of `Close`. `Arrive` needs that
nothing was closed: whoever sends to a pipeline is one of its notifiers, so that the pipeline has not ended.

`LambdaTaskProofs` proves `ResultsAreOfTheLambdas`: `LambdaSpec => []ResultsOfTheLambdas`, for any number of inputs, functions, clones, threads
and values, and calls of `setLambda` and `clone` in any order. The invariant `LambdaInv` has a part for what was copied and a part
for what is executed. `CallsInv` and `TaskInv`: a task holds, and calls in its own name, the functions that the calls before its clone had set, so
that a later `setLambda` changes the first graph alone; `GroupInv`, `ResultInv`: all copies of a task exist when the first of them starts, and what a
thread has added was added with these functions, because none is set once the group is there. `FlowInv` and `OnceInv` count: of what was fed to an input, the
first values were executed, each once by one thread of the group, and the others wait in the queue in their order. `NullInv` says the same of the
null that an automatic start executes. The alternative, `BrokenInv`, is a call of a function that was never set, which the standard library rejects.

Induction. The library's induction theorems take an operator, which the provers cannot instantiate. Over a set they can: `LeastNat` and `SetInduction`
derive it from the well-foundedness of inclusion on finite sets. With it the lemmas say of every length what `FlattenSeq`, a recursive
function, computes (`FlattenFacts`, `FlattenAppend`, `SelectedConcat`). Operators declared `RECURSIVE` remain out of reach.

What proving changed in the models. Four things that no run had shown were wrong, all in what surrounds the code: the variable
`away` was missing from `vars` of `LimitedAtomicQueueReceiver`, so that a stuttering step could change it; `ManagedPool` was
implemented under a mapping that failed for a group without threads (`Filled` is now explicit); `order` of `LimitedAtomicQueueReceiver`
kept values and removed a taken one by its value, which is not the one taken when a value is offered twice (it now keeps slots); and `Unsent` of `TaskGraphRefinement` was a
`CASE` with overlapping guards, for which a theorem could not be stated (it is now an `IF`). The contents of the linked list were
a recursive function of its pointers; `AtomicQueueReceiver` now carries their order as an auxiliary variable. Sets of threads that the runs kept disjoint
or finite, and sequences, are now assumed to be so (`ThreadAssumption` of `TaskGraph` and of the two lock-free queues, `LambdaAssumption`). What is inside a graph was a recursive operator
of `ExecutionPipeline` and is now the least closed set `Under`; that nesting is a tree, and that the input tasks of a graph are in it, are named (`NestingAssumption`).
`Router` selected with `SelectSeq`, whose definition nothing can be proved of, and now flattens what each value contributes.

Only model-checked: the values that leave a graph of state managers (the first part of `OutcomeReached`, a count for one
state of one user), the order of what one task sends to a node that others feed as well (`OrderPreserved`), and the modules of
construction, printing, analysis and statistics, whose invariants use recursive operators over the nesting or compare with a reference
definition. Liveness under fairness, `Termination` of `ExecutionPipeline` and that of `Mailbox` included, is beyond the prover and stays with TLC.

## 6. Disagreements between code and documentation

  - `abstract_execution_pipeline.h:31`: "Duplicate a graph with the same input and output types". When a graph that
    holds a nested graph is cloned, the nested graph duplicates the edges of its output tasks once more in its own name, and
    `mappedSender->addReceiver` (`sender_abstraction.h:118`, `graph_sender.h:54`) then gives each receiver to all output tasks of the
    clone. Are two output tasks chained, the clone of the second sends to itself and waits for itself, and never ends (`clone_chain`).
  - `core_task.h:215`: "When a task terminates, ... disconnect the task to successor nodes". `createGroup` reads the
    notifiers of a slot and adds them again while threads of inner graphs may run: a thread that ended in between is a notifier for
    good, and its successor waits for it for ever (`launch_generator`). It takes a task of a nested graph that ends by
    itself, without waiting for the outer graph's data.

Seen while modelling, with no run of their own:
  - `LimitedAtomicQueueReceiver` documents `maxNumberElementsReceived` as the maximum filling size over the queue's
    lifetime. `receive` records the size before its own value (`limited_atomic_queue_receiver.h:130`), and reads and writes the maximum in
    two steps. A queue of capacity one always reports 0.
  - `any_groupable_abstraction.h:482`: the extremes for each input are documented to be those of the group. The loop over the group reads
    its second member in every turn, so that from three threads on some are left out. `FiguresAgree` therefore asserts of the figures by
    input that they span those of the first two threads, and only of the totals that they span those of all three.
  - `any_groupable_abstraction.h:585`, `:609`: the group's figures of execution for each input are documented per element. The code
    takes the sums of the durations, while the box of a single thread shows durations per element. `FiguresAgree` compares the group's
    figures with the sums.
  - `data_race_test.h:28-31` (in `src/hedgehog/hedgehog_cx/api/test`) documents a race if "All receivers use the data with a
    read-write policy". The code reports one as soon as any of the receivers may write (lines 57-64). `RacesFound` says what the code
    does: beyond `DocumentedRaces`, those of a writer with nodes that only read.
  - The export file adds a type to an edge each time it is reported (`hedgehog_export_file.h:182`), so that a type is listed twice where
    `printEdgeInformation` reports it twice: at the clones inside a nested graph, whose receivers know both the task and its graph as senders. Its edges name nodes by
    name and graph number (lines 90-94), which the clones of one node in nested graphs share, as a nested graph does not get the
    number of its pipeline's copy. `PicturesShowTheWiring` allows these two cases and no other.
  - `hedgehog_cx/api/property_map.h:87`: `erase` removes the last element in every turn of the loop that shifts the others.
  - `DataRaceTest` counts edges, not receivers: an edge that was made twice is reported as a race (`RacesFound` says so).
    The nodes to which the graph sends its inputs are not examined.
  - `cleanGraph` does not reach the nodes inside an execution pipeline, which is not cleanable.
  - The footer of a pipeline in the export file drops the last two characters, a brace included when the graph before it
    ended with one; this is text that `Printers` abstracts from.
  - `finishPushingData` sets the status before it tests whether the call is allowed.
  - `hh_cx::Node` registers as many of its input types as it has read-only types (`api/node.h:63`), so that
    `isTypeAConstType` misses the others; the library itself asks the type of the edge instead, which the model follows.

## 7. Not modelled

  - Several input or output types of one node of a group of threads in `TaskGraph`, which has one queue for each node; nodes
    of several types are in `StateManager`, groups of them in `LambdaTask`, where waiting is one step.
  - The construction of a pipeline directly inside the graph of another pipeline. Its launch, data flow and end are within
    `ExecutionPipeline` and its theorems, without a run.
  - User code other than a function of the value (in `TaskGraph`) or of the functions set (in `LambdaTask`); exceptions
    thrown by user code, which end the program. Tasks specialised by inheritance from `SpecializedLambdaTask`: their `copy` is user code.
  - Cores that the user makes (the constructors that take one).
  - Relaxed memory orders of the lock-free receivers: their accesses interleave sequentially consistently.
  - Reading `empty()` of a `std::queue` during a push as anything but the old or the new emptiness.
  - Reading statistics while threads count.
  - CUDA tasks, which add an external run time; the signal handler and the profiler annotations, which are output; the
    text, fonts and file handling of the printers; the property map, which only tests of users keep; traits, concepts
    and meta-functions, which the compiler resolves, but for the concepts that decide which connections compile
    (`Compiles` in `GraphBuild`).

## 8. Plan

1. Proofs: the first two conjuncts of `NestingIsATree`; `ShadesInRange` of
   `NodeStatistics`; order along one edge of several that lead to a node (`OrderPreserved`), for which the queue has to remember who sent
   its values.
2. Models: the property map; a pipeline in the graph of a pipeline.
