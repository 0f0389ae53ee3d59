---------------------------- MODULE StateManager ----------------------------
(***************************************************************************)
(* State managers, the states they share, and the tasks between them.  A    *)
(* manager locks its state, executes one value of each of its input types,  *)
(* sends the results its state has gathered in the ready lists, and unlocks *)
(* the state: the mutex of the state is held while the manager sends and    *)
(* wakes its successors.  A manager may override canTerminate to ask its    *)
(* state, which locks the state while the slot of the manager is locked.    *)
(*                                                                          *)
(* Nodes have one thread each (a state manager cannot have more) and        *)
(* several input and output types.  The groups of threads of a task, its    *)
(* unlocked reads of empty() and the reader are those of TaskGraph; the     *)
(* mutexes of senders and notifiers, and the wakeUp of the thread's own     *)
(* slot that ends run, only concern groups.                                 *)
(***************************************************************************)
EXTENDS Naturals, Sequences, FiniteSets

CONSTANTS
  Manager,    \* the state managers
  Worker,     \* the tasks
  Source,     \* the source, and the user thread that pushes
  Sink,       \* the sink, whose values nobody takes while the graph runs
  State,      \* the states
  StateOf,    \* StateOf[m] is the state of manager m
  Type,       \* the types of the values
  Inputs,     \* Inputs[n] is the sequence of the input types of node n
  Outputs,    \* Outputs[m] is the sequence of the output types of manager m
  Receivers,  \* Receivers[<<p, t>>] is the nodes p sends values of type t to
  Data,
  TypeOf,     \* TypeOf[d] is the type of value d
  Nullptr,    \* what an automatic start executes
  User,       \* the contents a state can have, as its user defines them
  Initially,  \* Initially[s] is the content of state s at the beginning
  Execute,    \* Execute[<<s, u, d>>] is the content after state s with content u
              \* executed d, and the results it added for each type
  Emit,       \* Emit[<<w, d>>] is what task w adds when it executes d
  Overrides,  \* the managers whose canTerminate asks the state
  IsDone,     \* the contents at which it may terminate
  AutoStart,  \* the managers that start automatically
  Input,      \* what the user pushes
  Outcome,    \* Outcome[t] is how many values of type t these make of it
  NoProcess   \* the owner of a free mutex, the manager of an unlocked state

Sleeper == Manager \cup Worker
Process == Sleeper \cup {Source}
Node    == Sleeper \cup {Sink}

\* The nodes p is connected to as a notifier, whatever the type.
Slots(p) == UNION {Receivers[<<p, t>>] : t \in Type}

Elements(s) == {s[i] : i \in DOMAIN s}

ASSUME StateAssumption ==
  /\ Source \notin Sleeper /\ Sink \notin Process /\ NoProcess \notin Process
  /\ Manager \cap Worker = {}
  /\ StateOf \in [Manager -> State]
  /\ Inputs \in [Sleeper -> Seq(Type)] /\ \A n \in Sleeper : Inputs[n] # <<>>
  /\ Outputs \in [Manager -> Seq(Type)]
  /\ Receivers \in [Process \X Type -> SUBSET Node]
  /\ TypeOf \in [Data -> Type]
  /\ Nullptr \notin Data
  /\ Initially \in [State -> User]
  /\ Execute \in [State \X User \X (Data \cup {Nullptr}) ->
                    [next : User, results : [Type -> Seq(Data)]]]
  /\ Emit \in [Worker \X Data -> Seq(Data)]
  /\ Overrides \subseteq Manager /\ AutoStart \subseteq Manager
  /\ IsDone \subseteq User
  /\ Input \in Seq(Data) /\ Outcome \in [Type -> Nat]

\* The managers of a state have its types, a node is sent types it has, and a
\* result is added to the ready list of its type.
ASSUME WiringAssumption ==
  /\ \A m, n \in Manager : StateOf[m] = StateOf[n] =>
       Inputs[m] = Inputs[n] /\ Outputs[m] = Outputs[n]
  /\ \A p \in Process, t \in Type : \A n \in Receivers[<<p, t>>] \ {Sink} :
       t \in Elements(Inputs[n])
  /\ \A m \in Manager, u \in User, d \in Data \cup {Nullptr}, t \in Type :
       LET added == Execute[<<StateOf[m], u, d>>].results
       IN  /\ added[t] # <<>> => t \in Elements(Outputs[m])
           /\ \A r \in Elements(added[t]) : TypeOf[r] = t

VARIABLES
  pc,          \* what each thread does next
  scan,        \* how many of its input types a node has visited in a loop
  queue,       \* queue[<<n, t>>]: the receiver of node n for type t
  notifiers,   \* DefaultSlot::notifiers_
  mutexSleep,  \* the owner of DefaultSlot::mutexSleep_
  stateMutex,  \* the owner of AbstractState::mutex_
  current,     \* AbstractState::stateManager_
  user,        \* the content of each state
  readyList,   \* readyList[<<s, t>>]: the results of type t gathered in s
  outbox,      \* what a thread is sending
  todo         \* the receivers or slots its loop has yet to visit

vars == <<pc, scan, queue, notifiers, mutexSleep, stateMutex, current, user,
          readyList, outbox, todo>>

\* Where a thread holds the mutex of its slot, and has left the loop of run.
InSleep == {"predEmpty", "pred", "predEmptyAgain", "decide", "decideEmpty"}
Ended   == {"disconnect", "wakeAll", "done"}
PC == {"begin", "start", "check", "checkEmpty", "lock", "wait", "acquire", "get",
       "empty", "deliver", "send", "notify"} \cup InSleep \cup Ended

Init ==
  /\ pc = [p \in Process |-> IF p = Source THEN "deliver"
                             ELSE IF p \in AutoStart THEN "begin" ELSE "check"]
  /\ scan = [p \in Sleeper |-> 1]
  /\ queue = [x \in Node \X Type |-> <<>>]
  /\ notifiers = [n \in Node |-> {p \in Process : n \in Slots(p)}]
  /\ mutexSleep = [n \in Node |-> NoProcess]
  /\ stateMutex = [s \in State |-> NoProcess]
  /\ current = [s \in State |-> NoProcess]
  /\ user = Initially
  /\ readyList = [x \in State \X Type |-> <<>>]
  /\ outbox = [p \in Process |-> IF p = Source THEN Input ELSE <<>>]
  /\ todo = [p \in Process |-> {}]

Goto(p, l) == pc' = [pc EXCEPT ![p] = l]

\* A loop over the input types of p: the queue it is at, and its steps.
QueueAt(p) == <<p, Inputs[p][scan[p]]>>
AtLastType(p) == scan[p] = Len(Inputs[p])
FromFirstType(p) == scan' = [scan EXCEPT ![p] = 1]
\* Mutant of NextType: the loop is not at its first type when it is done.
NextTypeOnly(p) == scan' = [scan EXCEPT ![p] = scan[p] + 1]

NextType(p) ==
  scan' = [scan EXCEPT ![p] = IF AtLastType(p) THEN 1 ELSE scan[p] + 1]
-----------------------------------------------------------------------------
(* canTerminate, which run tests before it sleeps and sleep tests twice.     *)
(* A read of empty() that misses a value being received is the same as one   *)
(* made before, as one thread alone takes from the queue.                    *)

\* Mutant of CanTerminate: a node without notifiers terminates, whatever waits.
CanTerminateDisconnected(p, here, yes, no, receiversEmpty) ==
  /\ pc[p] = here
  /\ \/ /\ p \in Overrides
        /\ stateMutex[StateOf[p]] = NoProcess
        /\ Goto(p, IF user[StateOf[p]] \in IsDone THEN yes ELSE no)
     \/ /\ p \notin Overrides
        /\ Goto(p, IF notifiers[p] = {} THEN yes ELSE no)
  /\ FromFirstType(p)

\* The result of the node's canTerminate, or a first part of it: a manager
\* that overrides it locks its state, asks it and unlocks it; the others test
\* for a notifier and go on to read their queues.
CanTerminate(p, here, yes, no, receiversEmpty) ==
  /\ pc[p] = here
  /\ \/ /\ p \in Overrides
        /\ stateMutex[StateOf[p]] = NoProcess
        /\ Goto(p, IF user[StateOf[p]] \in IsDone THEN yes ELSE no)
     \/ /\ p \notin Overrides
        /\ Goto(p, IF notifiers[p] = {} THEN receiversEmpty ELSE no)
  /\ FromFirstType(p)

\* receiversEmpty reads one queue after the other up to one that is not empty.
ReceiversEmpty(p, here, yes, no) ==
  /\ pc[p] = here
  /\ \/ /\ queue[QueueAt(p)] # <<>>
        /\ Goto(p, no)
        /\ FromFirstType(p)
     \/ /\ queue[QueueAt(p)] = <<>>
        /\ Goto(p, IF AtLastType(p) THEN yes ELSE here)
        /\ NextType(p)

\* What follows when sleep, or the test of the loop, has its answer.
Leave(p) == todo' = [todo EXCEPT ![p] = Slots(p)]
Unlock(p) == mutexSleep' = [mutexSleep EXCEPT ![p] = NoProcess]
AfterTest(p) == IF pc'[p] = "disconnect" THEN Leave(p) ELSE UNCHANGED todo
AfterSleep(p) ==
  IF pc'[p] \in InSleep THEN UNCHANGED mutexSleep ELSE Unlock(p)

Work(p) == IF p \in Manager THEN "acquire" ELSE "get"

Check(p) ==
  /\ \/ CanTerminate(p, "check", "disconnect", "lock", "checkEmpty")
     \/ ReceiversEmpty(p, "checkEmpty", "disconnect", "lock")
  /\ AfterTest(p)
  /\ UNCHANGED <<queue, notifiers, mutexSleep, stateMutex, current, user,
                 readyList, outbox>>

LockSleep(p) ==
  /\ pc[p] = "lock"
  /\ mutexSleep[p] = NoProcess
  /\ mutexSleep' = [mutexSleep EXCEPT ![p] = p]
  /\ Goto(p, "predEmpty")
  /\ FromFirstType(p)
  /\ UNCHANGED <<queue, notifiers, stateMutex, current, user, readyList, outbox,
                 todo>>

\* waitTerminationCondition: wait, which unlocks the slot, or end the sleep.
WaitTerminationCondition(p) ==
  /\ \/ ReceiversEmpty(p, "predEmpty", "pred", "decide")
     \/ CanTerminate(p, "pred", "decide", "wait", "predEmptyAgain")
     \/ ReceiversEmpty(p, "predEmptyAgain", "decide", "wait")
  /\ AfterSleep(p)
  /\ UNCHANGED <<queue, notifiers, stateMutex, current, user, readyList, outbox,
                 todo>>

\* sleep returns canTerminate, evaluated before it unlocks the slot.
Decide(p) ==
  /\ \/ CanTerminate(p, "decide", "disconnect", Work(p), "decideEmpty")
     \/ ReceiversEmpty(p, "decideEmpty", "disconnect", Work(p))
  /\ AfterTest(p)
  /\ AfterSleep(p)
  /\ UNCHANGED <<queue, notifiers, stateMutex, current, user, readyList, outbox>>

SpuriousWakeUp(p) ==
  /\ pc[p] = "wait"
  /\ Goto(p, "lock")
  /\ UNCHANGED <<scan, queue, notifiers, mutexSleep, stateMutex, current, user,
                 readyList, outbox, todo>>
-----------------------------------------------------------------------------
(* The state.                                                                *)

\* The manager locks the state and links itself to it.
Acquire(m) ==
  /\ pc[m] \in {"begin", "acquire"}
  /\ stateMutex[StateOf[m]] = NoProcess
  /\ stateMutex' = [stateMutex EXCEPT ![StateOf[m]] = m]
  /\ current' = [current EXCEPT ![StateOf[m]] = m]
  /\ Goto(m, IF pc[m] = "begin" THEN "start" ELSE "get")
  /\ FromFirstType(m)
  /\ UNCHANGED <<queue, notifiers, mutexSleep, user, readyList, outbox, todo>>

\* addResult of a state puts a result in the ready list of its type.
Gathered(s, results) ==
  [x \in State \X Type |->
     IF x[1] # s THEN readyList[x]
     ELSE readyList[x] \o results[x[2]]]

ExecuteState(m, d) ==
  LET s == StateOf[m]
      e == Execute[<<s, user[s], d>>]
  IN  /\ user' = [user EXCEPT ![s] = e.next]
      /\ readyList' = Gathered(s, e.results)

\* callAllExecuteWithNullptr executes nullptr once for each input type.
Start(m) ==
  /\ pc[m] = "start"
  /\ ExecuteState(m, Nullptr)
  /\ Goto(m, IF AtLastType(m) THEN "empty" ELSE "start")
  /\ NextType(m)
  /\ UNCHANGED <<queue, notifiers, mutexSleep, stateMutex, current, outbox, todo>>

\* operateReceivers of a manager: at most one value of each input type.
Operate(m) ==
  /\ pc[m] = "get" /\ m \in Manager
  /\ \/ /\ queue[QueueAt(m)] # <<>>
        /\ ExecuteState(m, Head(queue[QueueAt(m)]))
        /\ queue' = [queue EXCEPT ![QueueAt(m)] = Tail(@)]
     \/ queue[QueueAt(m)] = <<>> /\ UNCHANGED <<user, readyList, queue>>
  /\ Goto(m, IF AtLastType(m) THEN "empty" ELSE "get")
  /\ NextType(m)
  /\ UNCHANGED <<notifiers, mutexSleep, stateMutex, current, outbox, todo>>

\* The output types of m whose ready lists hold results.
Unsent(m) == {i \in DOMAIN Outputs[m] : readyList[<<StateOf[m], Outputs[m][i]>>] # <<>>}

\* emptyReadyLists takes the results out type by type and sends each.
EmptyReadyLists(m) ==
  /\ pc[m] = "empty"
  /\ \E i \in Unsent(m) :
       LET list == <<StateOf[m], Outputs[m][i]>>
       IN  /\ \A j \in Unsent(m) : i <= j
           /\ outbox' = [outbox EXCEPT ![m] = <<Head(readyList[list])>>]
           /\ readyList' = [readyList EXCEPT ![list] = Tail(@)]
           /\ todo' = [todo EXCEPT ![m] = Receivers[<<m, list[2]>>]]
  /\ Goto(m, "send")
  /\ UNCHANGED <<scan, queue, notifiers, mutexSleep, stateMutex, current, user>>

\* Mutant of Release: the state is unlocked before its ready lists are emptied.
ReleaseFirst(m) ==
  /\ pc[m] = "empty"
  /\ stateMutex' = [stateMutex EXCEPT ![StateOf[m]] = NoProcess]
  /\ current' = [current EXCEPT ![StateOf[m]] = NoProcess]
  /\ Goto(m, "check")
  /\ UNCHANGED <<scan, queue, notifiers, mutexSleep, user, readyList, outbox, todo>>

\* With empty lists the manager unlinks itself from the state and unlocks it.
Release(m) ==
  /\ pc[m] = "empty"
  /\ Unsent(m) = {}
  /\ stateMutex' = [stateMutex EXCEPT ![StateOf[m]] = NoProcess]
  /\ current' = [current EXCEPT ![StateOf[m]] = NoProcess]
  /\ Goto(m, "check")
  /\ UNCHANGED <<scan, queue, notifiers, mutexSleep, user, readyList, outbox, todo>>
-----------------------------------------------------------------------------
(* Tasks, the source, and what they and the managers send.                   *)

\* operateReceivers of a task, whose execute sends each result at once.
GetInputData(w) ==
  /\ pc[w] = "get" /\ w \in Worker
  /\ \/ /\ queue[QueueAt(w)] # <<>>
        /\ queue' = [queue EXCEPT ![QueueAt(w)] = Tail(@)]
        /\ outbox' = [outbox EXCEPT ![w] = Emit[<<w, Head(queue[QueueAt(w)])>>]]
        /\ Goto(w, "deliver")
        /\ UNCHANGED scan
     \/ /\ queue[QueueAt(w)] = <<>>
        /\ Goto(w, IF AtLastType(w) THEN "check" ELSE "get")
        /\ NextType(w)
        /\ UNCHANGED <<queue, outbox>>
  /\ UNCHANGED <<notifiers, mutexSleep, stateMutex, current, user, readyList, todo>>

\* The next result, or pushed value; the end of execute, or of the pushes.
Deliver(p) ==
  /\ pc[p] = "deliver"
  /\ \/ /\ outbox[p] # <<>>
        /\ Goto(p, "send")
        /\ todo' = [todo EXCEPT ![p] = Receivers[<<p, TypeOf[Head(outbox[p])]>>]]
        /\ UNCHANGED scan
     \/ /\ outbox[p] = <<>> /\ p \in Worker
        /\ Goto(p, IF AtLastType(p) THEN "check" ELSE "get")
        /\ NextType(p)
        /\ UNCHANGED todo
     \/ /\ outbox[p] = <<>> /\ p = Source
        /\ Goto(p, "disconnect")
        /\ Leave(p)
        /\ UNCHANGED scan
  /\ UNCHANGED <<queue, notifiers, mutexSleep, stateMutex, current, user,
                 readyList, outbox>>

\* send: the receivers of the value's type, one after the other.
Send(p) ==
  /\ pc[p] = "send"
  /\ LET d == Head(outbox[p])
     IN  \/ \E n \in todo[p] :
              /\ queue' = [queue EXCEPT ![<<n, TypeOf[d]>>] = Append(@, d)]
              /\ todo' = [todo EXCEPT ![p] = @ \ {n}]
              /\ UNCHANGED pc
         \/ /\ todo[p] = {}
            /\ todo' = [todo EXCEPT ![p] = Slots(p)]
            /\ Goto(p, "notify")
            /\ UNCHANGED queue
  /\ UNCHANGED <<scan, notifiers, mutexSleep, stateMutex, current, user, readyList,
                 outbox>>

\* notify wakes every connected slot, those that received nothing included;
\* notifyAllTerminated does the same after it has removed the notifier.
WakeUp(p) ==
  /\ pc[p] \in {"notify", "wakeAll"}
  /\ \E n \in todo[p] :
       /\ mutexSleep[n] = NoProcess
       /\ todo' = [todo EXCEPT ![p] = @ \ {n}]
       /\ pc' = [q \in Process |-> IF q = n /\ pc[q] = "wait" THEN "lock" ELSE pc[q]]
  /\ UNCHANGED <<scan, queue, notifiers, mutexSleep, stateMutex, current, user,
                 readyList, outbox>>

EndNotify(p) ==
  /\ pc[p] = "notify" /\ todo[p] = {}
  /\ outbox' = [outbox EXCEPT ![p] = Tail(@)]
  /\ Goto(p, IF p \in Manager THEN "empty" ELSE "deliver")
  /\ UNCHANGED <<scan, queue, notifiers, mutexSleep, stateMutex, current, user,
                 readyList, todo>>

\* Mutant of RemoveNotifier: nobody is woken after the disconnection.
RemoveNotifierSilently(p) ==
  /\ pc[p] = "disconnect"
  /\ \/ \E n \in todo[p] :
          /\ notifiers' = [notifiers EXCEPT ![n] = @ \ {p}]
          /\ todo' = [todo EXCEPT ![p] = @ \ {n}]
          /\ UNCHANGED pc
     \/ /\ todo[p] = {}
        /\ Goto(p, "done")
        /\ UNCHANGED <<notifiers, todo>>
  /\ UNCHANGED <<scan, queue, mutexSleep, stateMutex, current, user, readyList,
                 outbox>>

RemoveNotifier(p) ==
  /\ pc[p] = "disconnect"
  /\ \/ \E n \in todo[p] :
          /\ notifiers' = [notifiers EXCEPT ![n] = @ \ {p}]
          /\ todo' = [todo EXCEPT ![p] = @ \ {n}]
          /\ UNCHANGED pc
     \/ /\ todo[p] = {}
        /\ todo' = [todo EXCEPT ![p] = Slots(p)]
        /\ Goto(p, "wakeAll")
        /\ UNCHANGED notifiers
  /\ UNCHANGED <<scan, queue, mutexSleep, stateMutex, current, user, readyList,
                 outbox>>

EndRun(p) ==
  /\ pc[p] = "wakeAll" /\ todo[p] = {}
  /\ Goto(p, "done")
  /\ UNCHANGED <<scan, queue, notifiers, mutexSleep, stateMutex, current, user,
                 readyList, outbox, todo>>
-----------------------------------------------------------------------------
Sending(p) ==
  \/ Send(p) \/ WakeUp(p) \/ EndNotify(p) \/ Deliver(p)
  \/ RemoveNotifier(p) \/ EndRun(p)

Sleep(p) == LockSleep(p) \/ WaitTerminationCondition(p) \/ Decide(p)

ManagerStep(m) ==
  Acquire(m) \/ Start(m) \/ Operate(m) \/ EmptyReadyLists(m) \/ Release(m)

ThreadStep(p) ==
  \/ Sending(p)
  \/ p \in Sleeper /\ (Check(p) \/ Sleep(p))
  \/ p \in Manager /\ ManagerStep(p)
  \/ p \in Worker /\ GetInputData(p)

AllDone == \A p \in Process : pc[p] = "done"
Finished == AllDone /\ UNCHANGED vars

Next ==
  \/ \E p \in Process : ThreadStep(p)
  \/ \E p \in Sleeper : SpuriousWakeUp(p)
  \/ Finished

Spec == Init /\ [][Next]_vars

\* Threads are scheduled, and a thread that can obtain again and again the one
\* mutex it waits for, of a slot or of a state, obtains it.
Fairness == \A p \in Process : SF_vars(ThreadStep(p))

FairSpec == Spec /\ Fairness
-----------------------------------------------------------------------------
(* Properties.                                                               *)

TypeOK ==
  /\ pc \in [Process -> PC]
  /\ scan \in [Sleeper -> Nat]
  /\ \A n \in Sleeper : scan[n] \in DOMAIN Inputs[n]
  /\ queue \in [Node \X Type -> Seq(Data)]
  /\ notifiers \in [Node -> SUBSET Process]
  /\ mutexSleep \in [Node -> Sleeper \cup {NoProcess}]
  /\ stateMutex \in [State -> Manager \cup {NoProcess}]
  /\ current \in [State -> Manager \cup {NoProcess}]
  /\ user \in [State -> User]
  /\ readyList \in [State \X Type -> Seq(Data)]
  /\ outbox \in [Process -> Seq(Data)]
  /\ todo \in [Process -> SUBSET Node]

\* The results of an execution leave the state before anybody else sees it, and
\* through the manager that executed: whenever a ready list holds a result, the
\* state is locked by the manager it is linked to, that manager is still at the
\* end of its turn, and it is the only one that is.
InTurn == {"start", "get", "empty", "send", "notify"}

ResultsLeaveWithTheirManager ==
  \A m \in Manager :
    LET s == StateOf[m]
    IN  /\ pc[m] \in InTurn <=> stateMutex[s] = m
        /\ current[s] = stateMutex[s]
        /\ pc[m] \notin InTurn /\ stateMutex[s] = NoProcess =>
             \A t \in Type : readyList[<<s, t>>] = <<>>

\* The interleaving never shows in what leaves the graph: at the end the sink
\* has received every value the executions make of the input, once, and nothing
\* remains in a ready list or in the receiver of a manager or of a task.
OutcomeReached ==
  AllDone =>
    /\ \A t \in Type : Len(queue[<<Sink, t>>]) = Outcome[t]
    /\ \A t \in Type, s \in State : readyList[<<s, t>>] = <<>>
    /\ \A t \in Type, n \in Sleeper : queue[<<n, t>>] = <<>>

\* Every execution ends: no wait for a state, a slot or a value lasts for ever,
\* although canTerminate locks the state while the slot is locked and a manager
\* wakes other slots while its state is locked.
Termination == <>AllDone
=============================================================================
