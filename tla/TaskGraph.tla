------------------------------ MODULE TaskGraph ------------------------------
(***************************************************************************)
(* A running Hedgehog graph: task groups connected by queues, the user      *)
(* thread that executes the graph, pushes data and waits for it, and the    *)
(* user thread that collects the results.                                   *)
(*                                                                          *)
(* Every thread of a group runs CoreTask::run.  The threads of a group      *)
(* share one DefaultSlot (notifiers, mutexSleep), one receiver (queue) and  *)
(* one DefaultSender (sendMutex), and each has a DefaultNotifier of its     *)
(* own.  One step of this module is one access to the shared state made     *)
(* under the mutex that protects it; mutexSleep_ and the mutex of the       *)
(* sender are held across several accesses and are variables.               *)
(***************************************************************************)
EXTENDS Naturals, Sequences, FiniteSets

CONSTANTS
  Task,         \* the task groups (one CoreTask and its copies)
  Thread,       \* the threads of all the groups
  GroupOf,      \* GroupOf[t] is the group thread t belongs to
  Source,       \* the GraphSource, and the user thread that drives it
  Sink,         \* the GraphSink
  Reader,       \* the user thread calling getBlockingResult
  Succ,         \* Succ[g] is the set of nodes the outputs of g are wired to
  Data,         \* the values that travel in the graph
  Nullptr,      \* what an automatic start executes
  Emit,         \* Emit[<<g, d>>] is what execute(d) of task g adds as results
  AutoStart,    \* the tasks built with automaticStart
  Limited,      \* the tasks whose receiver is a limited queue
  MaxCapacity,  \* the capacity of a limited queue
  Input,        \* what the user pushes, in order
  PushFirst,    \* whether the user may push before executing the graph
  NoProcess     \* the owner of a free mutex

Node    == Task \cup {Sink}
Sleeper == Thread \cup {Reader}
Sender  == Thread \cup {Source}
Process == Thread \cup {Source, Reader}
Origin  == Task \cup {Source}

ASSUME ProcessAssumption ==
  /\ Source \notin Thread \cup Task \cup {Sink, Reader}
  /\ Reader \notin Thread
  /\ Sink \notin Task
  /\ NoProcess \notin Process

ASSUME WiringAssumption ==
  /\ GroupOf \in [Thread -> Task]
  /\ Succ \in [Origin -> SUBSET Node]
  /\ Nullptr \notin Data
  /\ Emit \in [Task \X (Data \cup {Nullptr}) -> Seq(Data)]
  /\ AutoStart \subseteq Task
  /\ Limited \subseteq Task
  /\ MaxCapacity \in Nat \ {0}
  /\ Input \in Seq(Data)
  /\ PushFirst \in BOOLEAN

\* The node whose slot p sleeps on, and the node p sends for.
Home(p) == IF p = Reader THEN Sink ELSE GroupOf[p]
From(p) == IF p = Source THEN Source ELSE GroupOf[p]

Group(g) == {t \in Thread : GroupOf[t] = g}

\* A graph has finitely many threads, and a task at least one (a CoreTask built
\* with none throws).
ASSUME ThreadAssumption ==
  IsFiniteSet(Thread) /\ \A g \in Task : Group(g) # {}

VARIABLES
  pc,          \* what each process does next
  queue,       \* the receiver of each node
  notifiers,   \* DefaultSlot::notifiers_ of each node
  mutexSleep,  \* the owner of DefaultSlot::mutexSleep_ of each node
  sendMutex,   \* the owner of DefaultSender::mutex_ of each origin
  outbox,      \* the results a process has produced and not finished sending
  todo,        \* the receivers or slots a process has yet to visit in its loop
  input,       \* what the user has yet to push
  results      \* what getBlockingResult returned, nullptr left out

vars == <<pc, queue, notifiers, mutexSleep, sendMutex, outbox, todo, input,
          results>>

\* Before the loop, in the loop, and after the decision to terminate.
Sleeping == {"lock", "predEmpty", "predNotifier", "predEmptyAgain", "wait",
             "decide", "decideEmpty"}
Sending  == {"deliver", "send", "notify"}
Ended    == {"disconnect", "wakeAll", "final", "join", "done"}
PC == {"idle", "start", "check", "checkEmpty", "get", "user", "launch"}
        \cup Sleeping \cup Sending \cup Ended

\* The process counters at which mutexSleep_ of Home(p) is held.
InSleep == {"predEmpty", "predNotifier", "predEmptyAgain", "decide",
            "decideEmpty"}

Init ==
  /\ pc = [p \in Process |-> IF p = Source THEN "user"
                             ELSE IF p = Reader THEN "lock" ELSE "idle"]
  /\ queue = [n \in Node |-> <<>>]
  /\ notifiers = [n \in Node |-> {p \in Sender : n \in Succ[From(p)]}]
  /\ mutexSleep = [n \in Node |-> NoProcess]
  /\ sendMutex = [g \in Origin |-> NoProcess]
  /\ outbox = [p \in Sender |-> <<>>]
  /\ todo = [p \in Sender |-> {}]
  /\ input = Input
  /\ results = <<>>

Goto(p, l) == pc' = [pc EXCEPT ![p] = l]

\* The nodes whose queue p has added a value to and whose slot it must notify.
Unnotified(p) == CASE pc[p] = "send"   -> Succ[From(p)] \ todo[p]
                   [] pc[p] = "notify" -> todo[p]
                   [] OTHER            -> {}

Waiting(n) == {p \in Sleeper : pc[p] = "wait" /\ Home(p) = n}
-----------------------------------------------------------------------------
(* The slot: DefaultSlot::sleep with the predicates of the task and of the   *)
(* sink, and DefaultSlot::wakeUp.                                            *)

\* CoreTask::run tests canTerminate before it sleeps: no notifier, then no data.
Check(p) ==
  /\ pc[p] = "check"
  /\ Goto(p, IF notifiers[Home(p)] # {} THEN "lock" ELSE "checkEmpty")
  /\ UNCHANGED <<queue, notifiers, mutexSleep, sendMutex, outbox, todo, input,
                 results>>

\* Mutant of CheckEmpty: terminate as soon as no notifier is left.
CheckEmptySkipped(p) ==
  /\ pc[p] = "checkEmpty"
  /\ Goto(p, "disconnect")
  /\ todo' = [todo EXCEPT ![p] = Succ[From(p)]]
  /\ UNCHANGED <<queue, notifiers, mutexSleep, sendMutex, outbox, input,
                 results>>

\* Leaving the loop of run is the first step of postRun: the loop of
\* notifyAllTerminated over the connected slots.
CheckEmpty(p) ==
  /\ pc[p] = "checkEmpty"
  /\ IF queue[Home(p)] = <<>>
       THEN /\ Goto(p, "disconnect")
            /\ todo' = [todo EXCEPT ![p] = Succ[From(p)]]
       ELSE Goto(p, "lock") /\ UNCHANGED todo
  /\ UNCHANGED <<queue, notifiers, mutexSleep, sendMutex, outbox, input,
                 results>>

\* sleep takes mutexSleep_, on entry and again when the wait is over.
LockSleep(p) ==
  /\ pc[p] = "lock"
  /\ mutexSleep[Home(p)] = NoProcess
  /\ mutexSleep' = [mutexSleep EXCEPT ![Home(p)] = p]
  /\ Goto(p, "predEmpty")
  /\ UNCHANGED <<queue, notifiers, sendMutex, outbox, todo, input, results>>

\* empty() takes no lock: while a value is being added to the queue it may
\* miss it.  The sender has then not notified the slot, as mutexSleep_ is held.
\* One reader is alone to pop the sink's queue, and reads it as it is.
SeenEmpty(p) ==
  \/ queue[Home(p)] = <<>>
  \/ p # Reader /\ \E s \in Sender : Home(p) \in Unnotified(s)

\* waitTerminationCondition: first receiversEmpty ...
PredEmpty(p) ==
  /\ pc[p] = "predEmpty"
  /\ \/ queue[Home(p)] # <<>> /\ Goto(p, "decide")
     \/ SeenEmpty(p) /\ Goto(p, "predNotifier")
  /\ UNCHANGED <<queue, notifiers, mutexSleep, sendMutex, outbox, todo, input,
                 results>>

\* The wait of the condition variable releases mutexSleep_ and blocks at once.
Wait(p) ==
  /\ Goto(p, "wait")
  /\ mutexSleep' = [mutexSleep EXCEPT ![Home(p)] = NoProcess]

\* ... then hasNotifierConnected, on which alone the sink decides ...
PredNotifier(p) ==
  /\ pc[p] = "predNotifier"
  /\ IF notifiers[Home(p)] # {}
       THEN Wait(p)
       ELSE /\ Goto(p, IF p = Reader THEN "decide" ELSE "predEmptyAgain")
            /\ UNCHANGED mutexSleep
  /\ UNCHANGED <<queue, notifiers, sendMutex, outbox, todo, input, results>>

\* ... and, for a task, receiversEmpty a second time inside canTerminate.
PredEmptyAgain(p) ==
  /\ pc[p] = "predEmptyAgain"
  /\ IF queue[Home(p)] = <<>>
       THEN Goto(p, "decide") /\ UNCHANGED mutexSleep
       ELSE Wait(p)
  /\ UNCHANGED <<queue, notifiers, sendMutex, outbox, todo, input, results>>

\* Mutant of Decide: sleep returns false whatever canTerminate says.
DecideToGoOn(p) ==
  /\ pc[p] = "decide"
  /\ mutexSleep' = [mutexSleep EXCEPT ![Home(p)] = NoProcess]
  /\ Goto(p, "get")
  /\ UNCHANGED <<queue, notifiers, sendMutex, outbox, todo, input, results>>

\* sleep returns canTerminate, evaluated before mutexSleep_ is released.
Decide(p) ==
  /\ pc[p] = "decide"
  /\ IF notifiers[Home(p)] # {}
       THEN /\ mutexSleep' = [mutexSleep EXCEPT ![Home(p)] = NoProcess]
            /\ Goto(p, "get")
       ELSE /\ UNCHANGED mutexSleep
            /\ Goto(p, "decideEmpty")
  /\ UNCHANGED <<queue, notifiers, sendMutex, outbox, todo, input, results>>

\* A task that can terminate leaves run, and getBlockingResult returns nullptr.
DecideEmpty(p) ==
  /\ pc[p] = "decideEmpty"
  /\ mutexSleep' = [mutexSleep EXCEPT ![Home(p)] = NoProcess]
  /\ \/ queue[Home(p)] # <<>> /\ Goto(p, "get") /\ UNCHANGED todo
     \/ /\ queue[Home(p)] = <<>> /\ p = Reader
        /\ Goto(p, "done") /\ UNCHANGED todo
     \/ /\ queue[Home(p)] = <<>> /\ p # Reader
        /\ Goto(p, "disconnect")
        /\ todo' = [todo EXCEPT ![p] = Succ[From(p)]]
  /\ UNCHANGED <<queue, notifiers, sendMutex, outbox, input, results>>

\* A condition variable may return from its wait without a notification.
SpuriousWakeUp(p) ==
  /\ pc[p] = "wait"
  /\ Goto(p, "lock")
  /\ UNCHANGED <<queue, notifiers, mutexSleep, sendMutex, outbox, todo, input,
                 results>>

\* Mutant of NotifyOne: wakeUp does not take mutexSleep_.
NotifyOneUnlocked(n) ==
  IF Waiting(n) = {} THEN UNCHANGED pc
  ELSE \E w \in Waiting(n) : Goto(w, "lock")

\* wakeUp of slot n: notify_one under mutexSleep_ unblocks any one waiter.
NotifyOne(n) ==
  /\ mutexSleep[n] = NoProcess
  /\ IF Waiting(n) = {} THEN UNCHANGED pc
     ELSE \E w \in Waiting(n) : Goto(w, "lock")

WakeUp(p) ==
  /\ pc[p] \in {"notify", "wakeAll", "final"}
  /\ \E n \in todo[p] :
       /\ NotifyOne(n)
       /\ todo' = [todo EXCEPT ![p] = @ \ {n}]
  /\ UNCHANGED <<queue, notifiers, mutexSleep, sendMutex, outbox, input,
                 results>>
-----------------------------------------------------------------------------
(* The data: operateReceivers, execute, and sendAndNotify.                   *)

\* Mutant of Start: an automatic start sends the nullptr on.
StartForwarding(t) ==
  /\ pc[t] = "start"
  /\ IF GroupOf[t] \in AutoStart
       THEN /\ outbox' = [outbox EXCEPT ![t] = <<Nullptr>>]
            /\ Goto(t, "deliver")
       ELSE Goto(t, "check") /\ UNCHANGED outbox
  /\ UNCHANGED <<queue, notifiers, mutexSleep, sendMutex, todo, input, results>>

\* The thread reaches run's loop, after the automatic start if it has one.
Start(t) ==
  /\ pc[t] = "start"
  /\ IF GroupOf[t] \in AutoStart
       THEN /\ outbox' = [outbox EXCEPT ![t] = Emit[<<GroupOf[t], Nullptr>>]]
            /\ Goto(t, "deliver")
       ELSE Goto(t, "check") /\ UNCHANGED outbox
  /\ UNCHANGED <<queue, notifiers, mutexSleep, sendMutex, todo, input, results>>

\* Mutant of GetInputData: the newest value is taken.
GetInputDataNewest(t) ==
  /\ pc[t] = "get"
  /\ IF queue[GroupOf[t]] = <<>>
       THEN Goto(t, "check") /\ UNCHANGED <<queue, outbox>>
       ELSE LET q == queue[GroupOf[t]] IN
            /\ queue' = [queue EXCEPT ![GroupOf[t]] = SubSeq(q, 1, Len(q) - 1)]
            /\ outbox' = [outbox EXCEPT ![t] = Emit[<<GroupOf[t], q[Len(q)]>>]]
            /\ Goto(t, "deliver")
  /\ UNCHANGED <<notifiers, mutexSleep, sendMutex, todo, input, results>>

\* operateReceivers: another thread of the group may have emptied the queue.
GetInputData(t) ==
  /\ pc[t] = "get"
  /\ IF queue[GroupOf[t]] = <<>>
       THEN Goto(t, "check") /\ UNCHANGED <<queue, outbox>>
       ELSE /\ queue' = [queue EXCEPT ![GroupOf[t]] = Tail(@)]
            /\ outbox' = [outbox EXCEPT
                 ![t] = Emit[<<GroupOf[t], Head(queue[GroupOf[t]])>>]]
            /\ Goto(t, "deliver")
  /\ UNCHANGED <<notifiers, mutexSleep, sendMutex, todo, input, results>>

\* getBlockingResult takes one available result; the user calls it again.
GetResult ==
  /\ pc[Reader] = "get"
  /\ queue[Sink] # <<>>
  /\ queue' = [queue EXCEPT ![Sink] = Tail(@)]
  /\ results' = Append(results, Head(queue[Sink]))
  /\ Goto(Reader, "lock")
  /\ UNCHANGED <<notifiers, mutexSleep, sendMutex, outbox, todo, input>>

\* addResult: DefaultSender::send takes its mutex for the whole loop.
BeginSend(p) ==
  /\ pc[p] = "deliver"
  /\ outbox[p] # <<>>
  /\ sendMutex[From(p)] = NoProcess
  /\ sendMutex' = [sendMutex EXCEPT ![From(p)] = p]
  /\ todo' = [todo EXCEPT ![p] = Succ[From(p)]]
  /\ Goto(p, "send")
  /\ UNCHANGED <<queue, notifiers, mutexSleep, outbox, input, results>>

HasRoom(n) == n \in Limited => Len(queue[n]) < MaxCapacity

\* Mutant of Receive: the loop ends with the first receiver that accepts.
ReceiveFirst(p) ==
  /\ pc[p] = "send"
  /\ \E n \in todo[p] :
       /\ HasRoom(n)
       /\ queue' = [queue EXCEPT ![n] = Append(@, Head(outbox[p]))]
       /\ todo' = [todo EXCEPT ![p] = {}]
  /\ UNCHANGED <<pc, notifiers, mutexSleep, sendMutex, outbox, input, results>>

\* receive is retried until the receiver accepts the data.
Receive(p) ==
  /\ pc[p] = "send"
  /\ \E n \in todo[p] :
       /\ HasRoom(n)
       /\ queue' = [queue EXCEPT ![n] = Append(@, Head(outbox[p]))]
       /\ todo' = [todo EXCEPT ![p] = @ \ {n}]
  /\ UNCHANGED <<pc, notifiers, mutexSleep, sendMutex, outbox, input, results>>

\* send is over: its mutex is released and notify visits the slots.
EndSend(p) ==
  /\ pc[p] = "send"
  /\ todo[p] = {}
  /\ sendMutex' = [sendMutex EXCEPT ![From(p)] = NoProcess]
  /\ todo' = [todo EXCEPT ![p] = Succ[From(p)]]
  /\ Goto(p, "notify")
  /\ UNCHANGED <<queue, notifiers, mutexSleep, outbox, input, results>>

EndNotify(p) ==
  /\ pc[p] = "notify"
  /\ todo[p] = {}
  /\ outbox' = [outbox EXCEPT ![p] = Tail(@)]
  /\ Goto(p, "deliver")
  /\ UNCHANGED <<queue, notifiers, mutexSleep, sendMutex, todo, input, results>>

\* execute, or pushData, returns.
EndDeliver(p) ==
  /\ pc[p] = "deliver"
  /\ outbox[p] = <<>>
  /\ Goto(p, IF p = Source THEN "user" ELSE "check")
  /\ UNCHANGED <<queue, notifiers, mutexSleep, sendMutex, outbox, todo, input,
                 results>>
-----------------------------------------------------------------------------
(* Termination: DefaultNotifier::notifyAllTerminated, then the last wakeUp   *)
(* of run on the thread's own slot, which hands the end on to its group.     *)

\* Mutant of RemoveNotifier: a thread disconnects its whole group.
RemoveNotifierGroup(p) ==
  /\ pc[p] = "disconnect"
  /\ \E n \in todo[p] :
       /\ notifiers' = [notifiers EXCEPT ![n] = {q \in @ : From(q) # From(p)}]
       /\ todo' = [todo EXCEPT ![p] = @ \ {n}]
  /\ UNCHANGED <<pc, queue, mutexSleep, sendMutex, outbox, input, results>>

RemoveNotifier(p) ==
  /\ pc[p] = "disconnect"
  /\ \E n \in todo[p] :
       /\ notifiers' = [notifiers EXCEPT ![n] = @ \ {p}]
       /\ todo' = [todo EXCEPT ![p] = @ \ {n}]
  /\ UNCHANGED <<pc, queue, mutexSleep, sendMutex, outbox, input, results>>

EndDisconnect(p) ==
  /\ pc[p] = "disconnect"
  /\ todo[p] = {}
  /\ todo' = [todo EXCEPT ![p] = Succ[From(p)]]
  /\ Goto(p, "wakeAll")
  /\ UNCHANGED <<queue, notifiers, mutexSleep, sendMutex, outbox, input,
                 results>>

\* Mutant of EndWakeAll: run ends without the wakeUp of its own slot.
EndWakeAllSilent(p) ==
  /\ pc[p] = "wakeAll"
  /\ todo[p] = {}
  /\ Goto(p, IF p = Source THEN "join" ELSE "done")
  /\ UNCHANGED <<queue, notifiers, mutexSleep, sendMutex, outbox, todo, input,
                 results>>

EndWakeAll(p) ==
  /\ pc[p] = "wakeAll"
  /\ todo[p] = {}
  /\ IF p = Source
       THEN Goto(p, "join") /\ UNCHANGED todo
       ELSE /\ Goto(p, "final")
            /\ todo' = [todo EXCEPT ![p] = {GroupOf[p]}]
  /\ UNCHANGED <<queue, notifiers, mutexSleep, sendMutex, outbox, input,
                 results>>

EndRun(t) ==
  /\ pc[t] = "final"
  /\ todo[t] = {}
  /\ Goto(t, "done")
  /\ UNCHANGED <<queue, notifiers, mutexSleep, sendMutex, outbox, todo, input,
                 results>>
-----------------------------------------------------------------------------
(* The user: executeGraph, pushData, finishPushingData, waitForTermination.  *)

ExecuteGraph ==
  /\ pc[Source] = "user"
  /\ \A t \in Thread : pc[t] = "idle"
  /\ Goto(Source, "launch")
  /\ UNCHANGED <<queue, notifiers, mutexSleep, sendMutex, outbox, todo, input,
                 results>>

\* spawnThreads creates the threads one after the other, in any order.
SpawnThread ==
  /\ pc[Source] = "launch"
  /\ \E t \in Thread : pc[t] = "idle" /\ Goto(t, "start")
  /\ UNCHANGED <<queue, notifiers, mutexSleep, sendMutex, outbox, todo, input,
                 results>>

EndLaunch ==
  /\ pc[Source] = "launch"
  /\ \A t \in Thread : pc[t] # "idle"
  /\ Goto(Source, "user")
  /\ UNCHANGED <<queue, notifiers, mutexSleep, sendMutex, outbox, todo, input,
                 results>>

\* Data may be pushed before or after the graph is executed; before, nothing
\* empties a limited queue, and a user who fills one there waits forever.
PushData ==
  /\ pc[Source] = "user"
  /\ PushFirst \/ \A t \in Thread : pc[t] # "idle"
  /\ input # <<>>
  /\ input' = Tail(input)
  /\ outbox' = [outbox EXCEPT ![Source] = <<Head(input)>>]
  /\ Goto(Source, "deliver")
  /\ UNCHANGED <<queue, notifiers, mutexSleep, sendMutex, todo, results>>

FinishPushingData ==
  /\ pc[Source] = "user"
  /\ input = <<>>
  /\ \A t \in Thread : pc[t] # "idle"
  /\ Goto(Source, "disconnect")
  /\ todo' = [todo EXCEPT ![Source] = Succ[Source]]
  /\ UNCHANGED <<queue, notifiers, mutexSleep, sendMutex, outbox, input,
                 results>>

WaitForTermination ==
  /\ pc[Source] = "join"
  /\ \A t \in Thread : pc[t] = "done"
  /\ Goto(Source, "done")
  /\ UNCHANGED <<queue, notifiers, mutexSleep, sendMutex, outbox, todo, input,
                 results>>
-----------------------------------------------------------------------------
Sleep(p) ==
  \/ LockSleep(p) \/ PredEmpty(p) \/ PredNotifier(p) \/ PredEmptyAgain(p)
  \/ Decide(p) \/ DecideEmpty(p)

SendAndNotify(p) ==
  BeginSend(p) \/ Receive(p) \/ EndSend(p) \/ EndNotify(p) \/ EndDeliver(p)

NotifyAllTerminated(p) ==
  RemoveNotifier(p) \/ EndDisconnect(p) \/ EndWakeAll(p)

ThreadStep(t) ==
  \/ Start(t) \/ Check(t) \/ CheckEmpty(t) \/ Sleep(t) \/ GetInputData(t)
  \/ SendAndNotify(t) \/ WakeUp(t) \/ NotifyAllTerminated(t) \/ EndRun(t)

SourceStep ==
  \/ ExecuteGraph \/ SpawnThread \/ EndLaunch \/ PushData \/ FinishPushingData
  \/ WaitForTermination
  \/ SendAndNotify(Source) \/ WakeUp(Source) \/ NotifyAllTerminated(Source)

ReaderStep == Sleep(Reader) \/ GetResult

AllDone == \A p \in Process : pc[p] = "done"

\* The program has ended.
Finished == AllDone /\ UNCHANGED vars

Next ==
  \/ \E t \in Thread : ThreadStep(t)
  \/ SourceStep
  \/ ReaderStep
  \/ \E p \in Sleeper : SpuriousWakeUp(p)
  \/ Finished

Spec == Init /\ [][Next]_vars

\* Every thread that can run is eventually scheduled, and a mutex that is
\* released again and again is eventually obtained by each thread that waits
\* for it.  No spurious wake-up is ever owed.
Fairness ==
  /\ \A t \in Thread :
       WF_vars(ThreadStep(t)) /\ SF_vars(LockSleep(t)) /\ SF_vars(WakeUp(t))
  /\ WF_vars(SourceStep) /\ SF_vars(WakeUp(Source))
  /\ WF_vars(ReaderStep) /\ SF_vars(LockSleep(Reader))

FairSpec == Spec /\ Fairness
-----------------------------------------------------------------------------
(* Properties.                                                               *)

TypeOK ==
  /\ pc \in [Process -> PC]
  /\ queue \in [Node -> Seq(Data)]
  /\ notifiers \in [Node -> SUBSET Sender]
  /\ mutexSleep \in [Node -> Sleeper \cup {NoProcess}]
  /\ sendMutex \in [Origin -> Sender \cup {NoProcess}]
  /\ outbox \in [Sender -> Seq(Data)]
  /\ todo \in [Sender -> SUBSET Node]
  /\ input \in Seq(Data)
  /\ results \in Seq(Data)

Preds(n) == {p \in Sender : n \in Succ[From(p)]}

\* A process that has decided to terminate left nothing behind: no data waits
\* in its node, and everything that could still have sent to the node has
\* itself decided to terminate and holds nothing back (the order of the two
\* tests of canTerminate).
TerminatedDrained ==
  \A p \in Sleeper : pc[p] \in Ended =>
    /\ queue[Home(p)] = <<>>
    /\ \A s \in Preds(Home(p)) : pc[s] \in Ended /\ outbox[s] = <<>>

\* Someone is about to wake up slot n.
WakeUpPending(n) ==
  \E p \in Sender :
    /\ n \in Succ[From(p)]
    /\ \/ n \in Unnotified(p)
       \/ pc[p] = "disconnect" /\ n \notin todo[p]
       \/ pc[p] = "wakeAll" /\ n \in todo[p]

\* No lost wake-up: a node whose sleepers have all gone to sleep although it
\* has data to process, or can terminate, is about to be woken up.
NoLostWakeUp ==
  \A n \in Node :
    /\ \E p \in Sleeper : Home(p) = n
    /\ \A p \in Sleeper : Home(p) = n => pc[p] = "wait"
    /\ queue[n] # <<>> \/ notifiers[n] = {}
    => WakeUpPending(n)

\* The end is handed on: one wakeUp reaches a slot when its last notifier goes
\* away, however many threads sleep there, so a thread asleep on a node that
\* nothing can feed any more has an awake member of its group, or a pending
\* wakeUp, to wake it.
EndHandedOn ==
  \A p \in Sleeper :
    pc[p] = "wait" /\ notifiers[Home(p)] = {} =>
      \/ WakeUpPending(Home(p))
      \/ \E q \in Sleeper :
           /\ Home(q) = Home(p)
           /\ pc[q] \notin {"wait", "done"}
           /\ pc[q] = "final" => Home(q) \in todo[q]

\* When getBlockingResult finds no data although sleep returned false, it
\* returns a variant holding a null pointer; this never happens to one reader.
ResultAvailable == pc[Reader] = "get" => queue[Sink] # <<>>

\* Once the last notifier is gone, the queue of a node never grows again and no
\* notifier comes back, on which every termination test relies.
ClosedNodesOnlyDrain ==
  [][\A n \in Node : notifiers[n] = {} =>
        notifiers'[n] = {} /\ Len(queue'[n]) <= Len(queue[n])]_vars

\* Every graph execution ends: all the threads terminate, getBlockingResult
\* returns nullptr and waitForTermination returns.
Termination == <>AllDone
=============================================================================
