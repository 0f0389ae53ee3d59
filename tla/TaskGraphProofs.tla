-------------------------- MODULE TaskGraphProofs --------------------------
(***************************************************************************)
(* Proofs about TaskGraph, for every wiring, every number of threads, every *)
(* user function and every input: its invariants, and that it implements     *)
(* Computation: every step of a running graph is a step of the computation   *)
(* it stands for, or changes nothing the computation sees, for every graph   *)
(* with finitely many threads.                                               *)
(***************************************************************************)
EXTENDS TaskGraphRefinement, SequenceTheorems, FiniteSetTheorems, FunctionTheorems,
        TLAPS

(***************************************************************************)
(* The wiring of a process.                                                 *)
(***************************************************************************)
LEMMA HomeType == \A p \in Sleeper : Home(p) \in Node /\ p \in Process
<1> USE ProcessAssumption, WiringAssumption
<1> QED BY DEF Sleeper, Home, Node, Process

\* What WakeUp does to the control: it moves nobody, or one process that waits.
LEMMA WakeUpEffect ==
  ASSUME NEW p \in Sender, WakeUp(p)
  PROVE  UNCHANGED pc \/ \E w \in Process : pc[w] = "wait" /\ Goto(w, "lock")
<1>1. PICK n \in todo[p] : NotifyOne(n)
  BY DEF WakeUp
<1>2. CASE Waiting(n) = {}
  BY <1>1, <1>2 DEF NotifyOne
<1>3. CASE Waiting(n) # {}
  <2>1. PICK w \in Waiting(n) : Goto(w, "lock")
    BY <1>1, <1>3 DEF NotifyOne
  <2>2. w \in Process /\ pc[w] = "wait"
    BY HomeType DEF Waiting
  <2> QED BY <2>1, <2>2
<1> QED BY <1>2, <1>3

LEMMA FromType ==
  \A p \in Sender : From(p) \in Origin /\ Succ[From(p)] \subseteq Node
                    /\ p \in Process
<1> USE ProcessAssumption, WiringAssumption
<1> QED BY DEF Sender, From, Node, Process, Origin

LEMMA GroupType ==
  \A t \in Thread : /\ GroupOf[t] \in Task /\ t \in Sleeper /\ t \in Sender
                    /\ Home(t) = GroupOf[t] /\ From(t) = GroupOf[t]
                    /\ t # Source /\ t # Reader
<1> USE ProcessAssumption, WiringAssumption
<1> QED BY DEF Sleeper, Sender, Home, From

(***************************************************************************)
(* The steps sorted by the kind of process that takes them.                 *)
(***************************************************************************)
ThreadOnly(t) ==
  Start(t) \/ Check(t) \/ CheckEmpty(t) \/ GetInputData(t) \/ EndRun(t)

SenderStep(p) == SendAndNotify(p) \/ WakeUp(p) \/ NotifyAllTerminated(p)

UserStep ==
  \/ ExecuteGraph \/ SpawnThread \/ EndLaunch \/ PushData \/ FinishPushingData
  \/ WaitForTermination

LEMMA NextCases ==
  ASSUME [Next]_vars
  PROVE  \/ \E t \in Thread : ThreadOnly(t)
         \/ \E p \in Sleeper : Sleep(p) \/ SpuriousWakeUp(p)
         \/ \E p \in Sender : SenderStep(p)
         \/ UserStep
         \/ GetResult
         \/ UNCHANGED vars
<1>1. \A t \in Thread : t \in Sleeper /\ t \in Sender
  BY GroupType
<1>2. Reader \in Sleeper /\ Source \in Sender
  BY DEF Sleeper, Sender
<1>3. CASE \E t \in Thread : ThreadStep(t)
  BY <1>1, <1>3 DEF ThreadStep, ThreadOnly, SenderStep
<1>4. CASE SourceStep
  BY <1>2, <1>4 DEF SourceStep, UserStep, SenderStep
<1>5. CASE ReaderStep
  BY <1>2, <1>5 DEF ReaderStep
<1>6. CASE Finished
  BY <1>6 DEF Finished
<1> QED BY <1>3, <1>4, <1>5, <1>6 DEF Next

(***************************************************************************)
(* The inductive invariant.                                                 *)
(***************************************************************************)

\* A process holds results back only while it sends them, and sends something.
OutboxInv ==
  \A p \in Sender :
    /\ pc[p] \in {"send", "notify"} => outbox[p] # <<>>
    /\ outbox[p] # <<>> => pc[p] \in Sending

\* A process sends only to its successors.
SendInv ==
  \A p \in Sender : pc[p] = "send" => todo[p] \subseteq Succ[From(p)]

\* A process is a notifier of its successors until it terminates.
NotifierInv ==
  \A p \in Sender : pc[p] \notin Ended =>
    \A n \in Succ[From(p)] : p \in notifiers[n]

\* Between the two tests of canTerminate the node is known to have no notifier,
\* and after a positive outcome it is known to have no data either.
DrainInv ==
  \A p \in Sleeper :
    /\ pc[p] \in {"checkEmpty", "decideEmpty"} \cup Ended
         => notifiers[Home(p)] = {}
    /\ pc[p] \in Ended => queue[Home(p)] = <<>>

ControlInv == OutboxInv /\ SendInv /\ NotifierInv /\ DrainInv

(***************************************************************************)
(* Type correctness.                                                        *)
(***************************************************************************)
LEMMA TypeInit == Init => TypeOK
<1> SUFFICES ASSUME Init PROVE TypeOK
  OBVIOUS
<1>1. \A S : <<>> \in Seq(S)
  OBVIOUS
<1> QED
  BY <1>1, WiringAssumption
  DEF Init, TypeOK, PC, Sleeping, Sending, Ended, Sleeper, Sender, Process

LEMMA TypeStep == TypeOK /\ OutboxInv /\ [Next]_vars => TypeOK'
<1> SUFFICES ASSUME TypeOK, OutboxInv, [Next]_vars PROVE TypeOK'
  OBVIOUS
<1> USE DEF TypeOK
<1>p. \A l \in PC, p \in Process : [pc EXCEPT ![p] = l] \in [Process -> PC]
  OBVIOUS
<1>l. /\ {"idle", "start", "check", "checkEmpty", "get", "user", "launch"}
            \subseteq PC
      /\ Sleeping \subseteq PC /\ Sending \subseteq PC /\ Ended \subseteq PC
  BY DEF PC
<1>1. ASSUME NEW t \in Thread, ThreadOnly(t) PROVE TypeOK'
  <2>1. t \in Process /\ t \in Sender /\ GroupOf[t] \in Task
        /\ GroupOf[t] \in Node /\ Home(t) = GroupOf[t] /\ t # Source
    BY GroupType DEF Process, Node
  <2>e. \A d \in Data \cup {Nullptr} : Emit[<<GroupOf[t], d>>] \in Seq(Data)
    BY <2>1, WiringAssumption
  <2>2. CASE Start(t)
    <3>1. pc' \in [Process -> PC]
      BY <2>1, <2>2, <1>p, <1>l DEF Start, Goto, Sending
    <3>2. outbox' \in [Sender -> Seq(Data)]
      BY <2>1, <2>2, <2>e DEF Start
    <3> QED BY <2>2, <3>1, <3>2 DEF Start
  <2>3. CASE Check(t)
    BY <2>1, <2>3, <1>p, <1>l DEF Check, Goto, Sleeping
  <2>4. CASE CheckEmpty(t)
    BY <2>1, <2>4, <1>p, <1>l, FromType DEF CheckEmpty, Goto, Sleeping, Ended
  <2>5. CASE GetInputData(t)
    <3>1. CASE queue[GroupOf[t]] = <<>>
      BY <2>1, <2>5, <3>1, <1>p, <1>l DEF GetInputData, Goto
    <3>2. CASE queue[GroupOf[t]] # <<>>
      <4>1. /\ Head(queue[GroupOf[t]]) \in Data
            /\ Tail(queue[GroupOf[t]]) \in Seq(Data)
        BY <3>2, <2>1
      <4>2. /\ queue' = [queue EXCEPT ![GroupOf[t]] = Tail(@)]
            /\ outbox' = [outbox EXCEPT
                 ![t] = Emit[<<GroupOf[t], Head(queue[GroupOf[t]])>>]]
            /\ Goto(t, "deliver")
        BY <2>5, <3>2 DEF GetInputData
      <4>3. queue' \in [Node -> Seq(Data)]
        BY <4>1, <4>2, <2>1
      <4>4. outbox' \in [Sender -> Seq(Data)]
        BY <4>1, <4>2, <2>1, <2>e
      <4>5. pc' \in [Process -> PC]
        BY <4>2, <2>1, <1>p, <1>l DEF Goto, Sending
      <4> QED BY <2>5, <4>3, <4>4, <4>5 DEF GetInputData
    <3> QED BY <3>1, <3>2
  <2>6. CASE EndRun(t)
    BY <2>1, <2>6, <1>p, <1>l DEF EndRun, Goto, Ended
  <2> QED BY <1>1, <2>2, <2>3, <2>4, <2>5, <2>6 DEF ThreadOnly
<1>2. ASSUME NEW p \in Sleeper, Sleep(p) \/ SpuriousWakeUp(p) PROVE TypeOK'
  <2>1. p \in Process /\ Home(p) \in Node
    BY HomeType
  <2>2. /\ [mutexSleep EXCEPT ![Home(p)] = NoProcess]
              \in [Node -> Sleeper \cup {NoProcess}]
        /\ [mutexSleep EXCEPT ![Home(p)] = p]
              \in [Node -> Sleeper \cup {NoProcess}]
    OBVIOUS
  <2>3. p # Reader => p \in Sender /\ Succ[From(p)] \subseteq Node
    BY FromType DEF Sleeper, Sender
  <2>4. CASE LockSleep(p)
    BY <2>1, <2>2, <2>4, <1>p, <1>l DEF LockSleep, Goto, Sleeping
  <2>5. CASE PredEmpty(p)
    <3>1. \E l \in {"decide", "predNotifier"} : pc' = [pc EXCEPT ![p] = l]
      BY <2>5 DEF PredEmpty, Goto
    <3>2. {"decide", "predNotifier"} \subseteq PC
      BY <1>l DEF Sleeping
    <3>3. pc' \in [Process -> PC]
      BY <2>1, <3>1, <3>2, <1>p
    <3> QED BY <2>5, <3>3 DEF PredEmpty
  <2>6. CASE PredNotifier(p)
    <3>1. pc' \in [Process -> PC]
      <4>1. {"wait", "decide", "predEmptyAgain"} \subseteq PC
        BY <1>l DEF Sleeping
      <4>2. CASE notifiers[Home(p)] # {}
        BY <2>1, <2>6, <4>1, <4>2 DEF PredNotifier, Wait, Goto
      <4>3. CASE notifiers[Home(p)] = {}
        BY <2>1, <2>6, <4>1, <4>3 DEF PredNotifier, Goto
      <4> QED BY <4>2, <4>3
    <3>2. mutexSleep' \in [Node -> Sleeper \cup {NoProcess}]
      BY <2>2, <2>6 DEF PredNotifier, Wait
    <3> QED BY <2>6, <3>1, <3>2 DEF PredNotifier
  <2>7. CASE PredEmptyAgain(p)
    <3>1. pc' \in [Process -> PC]
      <4>1. {"wait", "decide"} \subseteq PC
        BY <1>l DEF Sleeping
      <4>2. CASE queue[Home(p)] # <<>>
        BY <2>1, <2>7, <4>1, <4>2 DEF PredEmptyAgain, Wait, Goto
      <4>3. CASE queue[Home(p)] = <<>>
        BY <2>1, <2>7, <4>1, <4>3 DEF PredEmptyAgain, Goto
      <4> QED BY <4>2, <4>3
    <3>2. mutexSleep' \in [Node -> Sleeper \cup {NoProcess}]
      BY <2>2, <2>7 DEF PredEmptyAgain, Wait
    <3> QED BY <2>7, <3>1, <3>2 DEF PredEmptyAgain
  <2>8. CASE Decide(p)
    <3>1. pc' \in [Process -> PC]
      <4>1. {"get", "decideEmpty"} \subseteq PC
        BY <1>l DEF Sleeping
      <4>2. CASE notifiers[Home(p)] # {}
        BY <2>1, <2>8, <4>1, <4>2 DEF Decide, Goto
      <4>3. CASE notifiers[Home(p)] = {}
        BY <2>1, <2>8, <4>1, <4>3 DEF Decide, Goto
      <4> QED BY <4>2, <4>3
    <3>2. mutexSleep' \in [Node -> Sleeper \cup {NoProcess}]
      BY <2>2, <2>8 DEF Decide
    <3> QED BY <2>8, <3>1, <3>2 DEF Decide
  <2>9. CASE DecideEmpty(p)
    <3>1. pc' \in [Process -> PC]
      BY <2>1, <2>9, <1>p, <1>l DEF DecideEmpty, Goto, Ended
    <3>2. todo' \in [Sender -> SUBSET Node]
      BY <2>3, <2>9 DEF DecideEmpty
    <3>3. mutexSleep' \in [Node -> Sleeper \cup {NoProcess}]
      BY <2>2, <2>9 DEF DecideEmpty
    <3> QED BY <2>9, <3>1, <3>2, <3>3 DEF DecideEmpty
  <2>10. CASE SpuriousWakeUp(p)
    BY <2>1, <2>10, <1>p, <1>l DEF SpuriousWakeUp, Goto, Sleeping
  <2> QED
    BY <1>2, <2>4, <2>5, <2>6, <2>7, <2>8, <2>9, <2>10 DEF Sleep
<1>3. ASSUME NEW p \in Sender, SenderStep(p) PROVE TypeOK'
  <2>1. p \in Process /\ From(p) \in Origin /\ Succ[From(p)] \subseteq Node
    BY FromType
  <2>2. \A n \in Node : [todo EXCEPT ![p] = @ \ {n}] \in [Sender -> SUBSET Node]
    OBVIOUS
  <2>3. CASE BeginSend(p)
    BY <2>1, <2>3, <1>p, <1>l DEF BeginSend, Goto, Sending
  <2>4. CASE Receive(p)
    <3>1. outbox[p] \in Seq(Data) /\ outbox[p] # <<>>
      BY <2>4 DEF Receive, OutboxInv
    <3>2. Head(outbox[p]) \in Data
      BY <3>1
    <3>3. PICK n \in todo[p] :
            /\ queue' = [queue EXCEPT ![n] = Append(@, Head(outbox[p]))]
            /\ todo' = [todo EXCEPT ![p] = @ \ {n}]
      BY <2>4 DEF Receive
    <3>4. n \in Node
      OBVIOUS
    <3>5. queue' \in [Node -> Seq(Data)]
      BY <3>2, <3>3, <3>4
    <3> QED BY <2>4, <2>2, <3>3, <3>4, <3>5 DEF Receive
  <2>5. CASE EndSend(p)
    BY <2>1, <2>5, <1>p, <1>l DEF EndSend, Goto, Sending
  <2>6. CASE EndNotify(p)
    <3>1. outbox[p] \in Seq(Data) /\ outbox[p] # <<>>
      BY <2>6 DEF EndNotify, OutboxInv
    <3>2. outbox' \in [Sender -> Seq(Data)]
      BY <2>6, <3>1 DEF EndNotify
    <3> QED BY <2>1, <2>6, <3>2, <1>p, <1>l DEF EndNotify, Goto, Sending
  <2>7. CASE EndDeliver(p)
    BY <2>1, <2>7, <1>p, <1>l DEF EndDeliver, Goto
  <2>8. CASE WakeUp(p)
    <3>1. PICK n \in todo[p] : todo' = [todo EXCEPT ![p] = @ \ {n}]
      BY <2>8 DEF WakeUp
    <3>2. pc' \in [Process -> PC]
      <4>1. CASE UNCHANGED pc
        BY <4>1
      <4>2. CASE \E w \in Process : pc[w] = "wait" /\ Goto(w, "lock")
        BY <4>2, <1>l DEF Goto, Sleeping
      <4> QED BY <2>8, <4>1, <4>2, WakeUpEffect
    <3> QED BY <2>8, <2>2, <3>1, <3>2 DEF WakeUp
  <2>9. CASE RemoveNotifier(p)
    <3>1. PICK n \in todo[p] : /\ notifiers' = [notifiers EXCEPT ![n] = @ \ {p}]
                               /\ todo' = [todo EXCEPT ![p] = @ \ {n}]
      BY <2>9 DEF RemoveNotifier
    <3> QED BY <2>9, <2>2, <3>1 DEF RemoveNotifier
  <2>10. CASE EndDisconnect(p)
    BY <2>1, <2>10, <1>p, <1>l DEF EndDisconnect, Goto, Ended
  <2>11. CASE EndWakeAll(p)
    <3>1. CASE p = Source
      BY <2>1, <2>11, <3>1, <1>p, <1>l DEF EndWakeAll, Goto, Ended
    <3>2. CASE p # Source
      <4>1. {GroupOf[p]} \in SUBSET Node
        BY <3>2, GroupType DEF Sender, Node
      <4>2. /\ Goto(p, "final")
            /\ todo' = [todo EXCEPT ![p] = {GroupOf[p]}]
        BY <2>11, <3>2 DEF EndWakeAll
      <4>3. pc' \in [Process -> PC]
        BY <2>1, <4>2, <1>p, <1>l DEF Goto, Ended
      <4>4. todo' \in [Sender -> SUBSET Node]
        BY <4>1, <4>2
      <4> QED BY <2>11, <4>3, <4>4 DEF EndWakeAll
    <3> QED BY <3>1, <3>2
  <2> QED
    BY <1>3, <2>3, <2>4, <2>5, <2>6, <2>7, <2>8, <2>9, <2>10, <2>11
    DEF SenderStep, SendAndNotify, NotifyAllTerminated
<1>4. CASE UserStep
  <2>1. Source \in Process /\ Source \in Sender /\ Succ[Source] \subseteq Node
    BY FromType DEF Process, Sender, From
  <2>2. CASE PushData
    <3>1. /\ Tail(input) \in Seq(Data)
          /\ <<Head(input)>> \in Seq(Data)
      BY <2>2 DEF PushData
    <3> QED BY <2>1, <2>2, <3>1, <1>p, <1>l DEF PushData, Goto, Sending
  <2>3. CASE FinishPushingData
    BY <2>1, <2>3, <1>p, <1>l DEF FinishPushingData, Goto, Ended
  <2>4. CASE SpawnThread
    BY <2>4, <1>p, <1>l DEF SpawnThread, Goto, Process
  <2>5. CASE ExecuteGraph
    BY <2>1, <2>5, <1>p, <1>l DEF ExecuteGraph, Goto
  <2>6. CASE EndLaunch
    BY <2>1, <2>6, <1>p, <1>l DEF EndLaunch, Goto
  <2>7. CASE WaitForTermination
    BY <2>1, <2>7, <1>p, <1>l DEF WaitForTermination, Goto, Ended
  <2> QED BY <1>4, <2>2, <2>3, <2>4, <2>5, <2>6, <2>7 DEF UserStep
<1>5. CASE GetResult
  <2>1. /\ Reader \in Process /\ Sink \in Node
        /\ queue[Sink] \in Seq(Data) /\ queue[Sink] # <<>>
    BY <1>5 DEF GetResult, Process, Node
  <2>2. Head(queue[Sink]) \in Data /\ Tail(queue[Sink]) \in Seq(Data)
    BY <2>1
  <2> QED BY <2>1, <2>2, <1>5, <1>p, <1>l DEF GetResult, Goto, Sleeping
<1>6. CASE UNCHANGED vars
  BY <1>6 DEF vars
<1> QED BY <1>1, <1>2, <1>3, <1>4, <1>5, <1>6, NextCases

(***************************************************************************)
(* The conjuncts of ControlInv, one lemma each.                             *)
(***************************************************************************)
LEMMA ControlInit == Init => ControlInv
<1> SUFFICES ASSUME Init PROVE ControlInv
  OBVIOUS
<1>1. \A p \in Process : pc[p] \in {"user", "lock", "idle"}
  BY DEF Init
<1>2. \A p \in Sender : p \in Process /\ outbox[p] = <<>>
  BY DEF Init, Sender, Process
<1>3. \A p \in Sender : \A n \in Succ[From(p)] : p \in notifiers[n]
  BY FromType DEF Init
<1>4. \A p \in Sleeper : p \in Process
  BY HomeType
<1> QED
  BY <1>1, <1>2, <1>3, <1>4
  DEF ControlInv, OutboxInv, SendInv, NotifierInv, DrainInv, Ended, Sending

LEMMA OutboxStep == TypeOK /\ OutboxInv /\ [Next]_vars => OutboxInv'
<1> SUFFICES ASSUME TypeOK, OutboxInv, [Next]_vars PROVE OutboxInv'
  OBVIOUS
<1> USE DEF TypeOK, OutboxInv, Sending, Goto
<1>0. \A p \in Sender : p \in Process
  BY FromType
<1>1. ASSUME NEW t \in Thread, ThreadOnly(t) PROVE OutboxInv'
  <2>1. t \in Sender /\ t \in Process /\ outbox[t] \in Seq(Data)
    BY GroupType, <1>0
  <2>2. CASE Start(t)
    BY <1>0, <2>1, <2>2 DEF Start
  <2>3. CASE Check(t)
    BY <1>0, <2>1, <2>3 DEF Check
  <2>4. CASE CheckEmpty(t)
    BY <1>0, <2>1, <2>4 DEF CheckEmpty
  <2>5. CASE GetInputData(t)
    BY <1>0, <2>1, <2>5 DEF GetInputData
  <2>6. CASE EndRun(t)
    BY <1>0, <2>1, <2>6 DEF EndRun
  <2> QED BY <1>1, <2>2, <2>3, <2>4, <2>5, <2>6 DEF ThreadOnly
<1>2. ASSUME NEW p \in Sleeper, Sleep(p) \/ SpuriousWakeUp(p) PROVE OutboxInv'
  <2>1. p \in Process
    BY HomeType
  <2>2. pc[p] \notin Sending /\ UNCHANGED outbox
    BY <1>2 DEF Sleep, LockSleep, PredEmpty, PredNotifier, PredEmptyAgain,
      Decide, DecideEmpty, SpuriousWakeUp
  <2>3. \E l \in PC \ Sending : pc' = [pc EXCEPT ![p] = l]
    BY <1>2 DEF Sleep, LockSleep, PredEmpty, PredNotifier, PredEmptyAgain,
      Decide, DecideEmpty, SpuriousWakeUp, Wait, PC, Sleeping, Ended
  <2> QED BY <1>0, <2>1, <2>2, <2>3
<1>3. ASSUME NEW p \in Sender, SenderStep(p) PROVE OutboxInv'
  <2>1. p \in Process /\ outbox[p] \in Seq(Data)
    BY <1>0
  <2>2. CASE BeginSend(p)
    BY <1>0, <2>1, <2>2 DEF BeginSend
  <2>3. CASE Receive(p)
    BY <1>0, <2>1, <2>3 DEF Receive
  <2>4. CASE EndSend(p)
    BY <1>0, <2>1, <2>4 DEF EndSend
  <2>5. CASE EndNotify(p)
    BY <1>0, <2>1, <2>5 DEF EndNotify
  <2>6. CASE EndDeliver(p)
    BY <1>0, <2>1, <2>6 DEF EndDeliver
  <2>7. CASE WakeUp(p)
    <3>1. UNCHANGED pc \/ \E w \in Process : pc[w] = "wait" /\ Goto(w, "lock")
      BY <2>7, WakeUpEffect
    <3> QED BY <1>0, <2>7, <3>1 DEF WakeUp
  <2>8. CASE RemoveNotifier(p)
    BY <1>0, <2>1, <2>8 DEF RemoveNotifier
  <2>9. CASE EndDisconnect(p)
    BY <1>0, <2>1, <2>9 DEF EndDisconnect
  <2>10. CASE EndWakeAll(p)
    BY <1>0, <2>1, <2>10 DEF EndWakeAll
  <2> QED
    BY <1>3, <2>2, <2>3, <2>4, <2>5, <2>6, <2>7, <2>8, <2>9, <2>10
    DEF SenderStep, SendAndNotify, NotifyAllTerminated
<1>4. CASE UserStep
  <2>1. Source \in Process /\ Source \in Sender
    BY DEF Process, Sender
  <2>2. CASE PushData
    BY <1>0, <2>1, <2>2 DEF PushData
  <2>3. CASE ExecuteGraph \/ EndLaunch
    BY <1>0, <2>1, <2>3 DEF ExecuteGraph, EndLaunch
  <2>4. CASE SpawnThread
    BY <1>0, <2>4, GroupType DEF SpawnThread
  <2>5. CASE FinishPushingData
    BY <1>0, <2>1, <2>5 DEF FinishPushingData
  <2>6. CASE WaitForTermination
    BY <1>0, <2>1, <2>6 DEF WaitForTermination
  <2> QED BY <1>4, <2>2, <2>3, <2>4, <2>5, <2>6 DEF UserStep
<1>5. CASE GetResult
  BY <1>0, <1>5, ProcessAssumption DEF GetResult, Sender, Process
<1>6. CASE UNCHANGED vars
  BY <1>6 DEF vars
<1> QED BY <1>1, <1>2, <1>3, <1>4, <1>5, <1>6, NextCases

LEMMA SendStep == TypeOK /\ SendInv /\ [Next]_vars => SendInv'
<1> SUFFICES ASSUME TypeOK, SendInv, [Next]_vars PROVE SendInv'
  OBVIOUS
<1> USE DEF TypeOK, SendInv, Goto
<1>0. \A p \in Sender : p \in Process
  BY FromType
<1>1. ASSUME NEW t \in Thread, ThreadOnly(t) PROVE SendInv'
  <2>1. t \in Sender /\ t \in Process
    BY GroupType, <1>0
  <2>2. \E l \in PC \ {"send"} : pc' = [pc EXCEPT ![t] = l]
    BY <1>1 DEF ThreadOnly, Start, Check, CheckEmpty, GetInputData, EndRun,
      PC, Sending, Sleeping, Ended
  <2>3. UNCHANGED todo \/ todo' = [todo EXCEPT ![t] = Succ[From(t)]]
    BY <1>1 DEF ThreadOnly, Start, Check, CheckEmpty, GetInputData, EndRun
  <2> QED BY <1>0, <2>1, <2>2, <2>3
<1>2. ASSUME NEW p \in Sleeper, Sleep(p) \/ SpuriousWakeUp(p) PROVE SendInv'
  <2>1. p \in Process
    BY HomeType
  <2>2. \E l \in PC \ {"send"} : pc' = [pc EXCEPT ![p] = l]
    BY <1>2 DEF Sleep, LockSleep, PredEmpty, PredNotifier, PredEmptyAgain,
      Decide, DecideEmpty, SpuriousWakeUp, Wait, PC, Sleeping, Ended
  <2>3. UNCHANGED todo \/ todo' = [todo EXCEPT ![p] = Succ[From(p)]]
    BY <1>2 DEF Sleep, LockSleep, PredEmpty, PredNotifier, PredEmptyAgain,
      Decide, DecideEmpty, SpuriousWakeUp
  <2> QED BY <1>0, <2>1, <2>2, <2>3
<1>3. ASSUME NEW p \in Sender, SenderStep(p) PROVE SendInv'
  <2>1. p \in Process
    BY <1>0
  <2>2. CASE BeginSend(p)
    BY <1>0, <2>1, <2>2 DEF BeginSend
  <2>3. CASE Receive(p)
    BY <1>0, <2>1, <2>3 DEF Receive
  <2>4. CASE WakeUp(p)
    <3>1. UNCHANGED pc \/ \E w \in Process : pc[w] = "wait" /\ Goto(w, "lock")
      BY <2>4, WakeUpEffect
    <3>2. PICK n \in Node : todo' = [todo EXCEPT ![p] = @ \ {n}]
      BY <2>4 DEF WakeUp
    <3> QED BY <1>0, <3>1, <3>2
  <2>5. CASE EndSend(p) \/ EndNotify(p) \/ EndDeliver(p) \/ EndDisconnect(p)
             \/ EndWakeAll(p)
    BY <1>0, <2>1, <2>5
    DEF EndSend, EndNotify, EndDeliver, EndDisconnect, EndWakeAll
  <2>6. CASE RemoveNotifier(p)
    BY <1>0, <2>1, <2>6 DEF RemoveNotifier
  <2> QED BY <1>3, <2>2, <2>3, <2>4, <2>5, <2>6
          DEF SenderStep, SendAndNotify, NotifyAllTerminated
<1>4. CASE UserStep
  <2>1. Source \in Process /\ Source \in Sender
    BY DEF Process, Sender
  <2>2. CASE PushData \/ ExecuteGraph \/ EndLaunch \/ WaitForTermination
    BY <1>0, <2>1, <2>2
    DEF PushData, ExecuteGraph, EndLaunch, WaitForTermination
  <2>3. CASE SpawnThread
    BY <1>0, <2>3, GroupType DEF SpawnThread
  <2>4. CASE FinishPushingData
    BY <1>0, <2>1, <2>4 DEF FinishPushingData
  <2> QED BY <1>4, <2>2, <2>3, <2>4 DEF UserStep
<1>5. CASE GetResult
  BY <1>0, <1>5, ProcessAssumption DEF GetResult, Sender, Process
<1>6. CASE UNCHANGED vars
  BY <1>6 DEF vars
<1> QED BY <1>1, <1>2, <1>3, <1>4, <1>5, <1>6, NextCases

LEMMA NotifierStep == TypeOK /\ NotifierInv /\ [Next]_vars => NotifierInv'
<1> SUFFICES ASSUME TypeOK, NotifierInv, [Next]_vars PROVE NotifierInv'
  OBVIOUS
<1> USE DEF TypeOK, NotifierInv, Goto
<1>0. \A p \in Sender : p \in Process
  BY FromType
\* A process that has ended stays so, and only such a process leaves a slot.
<1>1. \A q \in Sender : pc[q] \in Ended => pc'[q] \in Ended
  <2>1. ASSUME NEW t \in Thread, ThreadOnly(t)
        PROVE  \A q \in Sender : pc[q] \in Ended => pc'[q] \in Ended
    <3>1. t \in Process /\ (pc[t] \notin Ended \/ EndRun(t))
      BY <2>1, <1>0, GroupType
      DEF ThreadOnly, Start, Check, CheckEmpty, GetInputData, Ended
    <3>2. \E l \in PC : pc' = [pc EXCEPT ![t] = l] /\ (EndRun(t) => l = "done")
      BY <2>1 DEF ThreadOnly, Start, Check, CheckEmpty, GetInputData, EndRun,
        PC, Sending, Sleeping, Ended
    <3> QED BY <1>0, <3>1, <3>2 DEF Ended
  <2>2. ASSUME NEW p \in Sleeper, Sleep(p) \/ SpuriousWakeUp(p)
        PROVE  \A q \in Sender : pc[q] \in Ended => pc'[q] \in Ended
    <3>1. p \in Process /\ pc[p] \notin Ended
      BY <2>2, HomeType DEF Sleep, LockSleep, PredEmpty, PredNotifier,
        PredEmptyAgain, Decide, DecideEmpty, SpuriousWakeUp, Ended
    <3>2. \E l \in PC : pc' = [pc EXCEPT ![p] = l]
      BY <2>2 DEF Sleep, LockSleep, PredEmpty, PredNotifier, PredEmptyAgain,
        Decide, DecideEmpty, SpuriousWakeUp, Wait, PC, Sleeping, Ended
    <3> QED BY <1>0, <3>1, <3>2
  <2>3. ASSUME NEW p \in Sender, SenderStep(p)
        PROVE  \A q \in Sender : pc[q] \in Ended => pc'[q] \in Ended
    <3>1. CASE SendAndNotify(p)
      BY <1>0, <3>1 DEF SendAndNotify, BeginSend, Receive, EndSend, EndNotify,
        EndDeliver, Ended
    <3>2. CASE WakeUp(p)
      <4>1. UNCHANGED pc \/ \E w \in Process : pc[w] = "wait" /\ Goto(w, "lock")
        BY <3>2, WakeUpEffect
      <4> QED BY <1>0, <4>1 DEF Ended
    <3>3. CASE NotifyAllTerminated(p)
      BY <1>0, <3>3 DEF NotifyAllTerminated, RemoveNotifier, EndDisconnect,
        EndWakeAll, Ended
    <3> QED BY <2>3, <3>1, <3>2, <3>3 DEF SenderStep
  <2>4. ASSUME UserStep
        PROVE  \A q \in Sender : pc[q] \in Ended => pc'[q] \in Ended
    <3>1. CASE SpawnThread
      BY <1>0, <3>1, GroupType DEF SpawnThread, Ended
    <3>2. CASE ~SpawnThread
      BY <1>0, <2>4, <3>2 DEF UserStep, ExecuteGraph, EndLaunch, PushData,
        FinishPushingData, WaitForTermination, Ended
    <3> QED BY <3>1, <3>2
  <2>5. ASSUME GetResult
        PROVE  \A q \in Sender : pc[q] \in Ended => pc'[q] \in Ended
    BY <1>0, <2>5 DEF GetResult, Ended
  <2> QED BY <2>1, <2>2, <2>3, <2>4, <2>5, NextCases DEF vars
<1>2. \A q \in Sender : \A n \in Node :
        q \in notifiers[n] /\ q \notin notifiers'[n] => pc[q] \in Ended
  <2>1. ASSUME NEW p \in Sender, RemoveNotifier(p)
        PROVE  \A q \in Sender : \A n \in Node :
                 q \in notifiers[n] /\ q \notin notifiers'[n] => pc[q] \in Ended
    BY <2>1 DEF RemoveNotifier, Ended
  <2>2. ASSUME NEW p \in Sender, SenderStep(p), ~RemoveNotifier(p)
        PROVE  UNCHANGED notifiers
    BY <2>2 DEF SenderStep, SendAndNotify, BeginSend, Receive, EndSend,
      EndNotify, EndDeliver, WakeUp, NotifyAllTerminated, EndDisconnect,
      EndWakeAll
  <2>3. ASSUME NEW t \in Thread, ThreadOnly(t) PROVE UNCHANGED notifiers
    BY <2>3 DEF ThreadOnly, Start, Check, CheckEmpty, GetInputData, EndRun
  <2>4. ASSUME NEW p \in Sleeper, Sleep(p) \/ SpuriousWakeUp(p)
        PROVE  UNCHANGED notifiers
    BY <2>4 DEF Sleep, LockSleep, PredEmpty, PredNotifier, PredEmptyAgain,
      Decide, DecideEmpty, SpuriousWakeUp
  <2>5. ASSUME UserStep \/ GetResult \/ UNCHANGED vars
        PROVE  UNCHANGED notifiers
    BY <2>5 DEF UserStep, ExecuteGraph, SpawnThread, EndLaunch, PushData,
      FinishPushingData, WaitForTermination, GetResult, vars
  <2> QED BY <2>1, <2>2, <2>3, <2>4, <2>5, NextCases
<1> QED BY <1>1, <1>2, FromType

\* A node without notifiers is closed: it receives neither data nor notifiers.
LEMMA ClosedStep ==
  ASSUME TypeOK, OutboxInv, SendInv, NotifierInv, [Next]_vars,
         NEW n \in Node, notifiers[n] = {}
  PROVE  /\ notifiers'[n] = {}
         /\ queue'[n] = queue[n] \/ (queue[n] # <<>> /\ queue'[n] = Tail(queue[n]))
<1> USE DEF TypeOK
<1>1. ASSUME NEW t \in Thread, ThreadOnly(t)
      PROVE  /\ notifiers' = notifiers
             /\ queue'[n] = queue[n]
                  \/ (queue[n] # <<>> /\ queue'[n] = Tail(queue[n]))
  <2>1. CASE GetInputData(t)
    <3>1. CASE queue[GroupOf[t]] = <<>>
      BY <2>1, <3>1 DEF GetInputData
    <3>2. CASE queue[GroupOf[t]] # <<>>
      BY <2>1, <3>2 DEF GetInputData
    <3> QED BY <3>1, <3>2
  <2>2. CASE ~GetInputData(t)
    BY <1>1, <2>2 DEF ThreadOnly, Start, Check, CheckEmpty, EndRun
  <2> QED BY <2>1, <2>2
<1>2. ASSUME NEW p \in Sleeper, Sleep(p) \/ SpuriousWakeUp(p)
      PROVE  UNCHANGED <<notifiers, queue>>
  BY <1>2 DEF Sleep, LockSleep, PredEmpty, PredNotifier, PredEmptyAgain,
    Decide, DecideEmpty, SpuriousWakeUp
<1>3. ASSUME NEW p \in Sender, SenderStep(p)
      PROVE  notifiers'[n] = {} /\ queue'[n] = queue[n]
  <2>1. CASE Receive(p)
    <3>1. pc[p] \notin Ended
      BY <2>1 DEF Receive, Ended
    <3>2. n \notin Succ[From(p)]
      BY <3>1 DEF NotifierInv
    <3>3. n \notin todo[p]
      BY <2>1, <3>2 DEF Receive, SendInv
    <3> QED BY <2>1, <3>3 DEF Receive
  <2>2. CASE RemoveNotifier(p)
    BY <2>2 DEF RemoveNotifier
  <2>3. CASE ~Receive(p) /\ ~RemoveNotifier(p)
    BY <1>3, <2>3 DEF SenderStep, SendAndNotify, BeginSend, EndSend,
      EndNotify, EndDeliver, WakeUp, NotifyAllTerminated, EndDisconnect,
      EndWakeAll
  <2> QED BY <2>1, <2>2, <2>3
<1>4. ASSUME UserStep PROVE UNCHANGED <<notifiers, queue>>
  BY <1>4 DEF UserStep, ExecuteGraph, SpawnThread, EndLaunch, PushData,
    FinishPushingData, WaitForTermination
<1>5. ASSUME GetResult
      PROVE  /\ notifiers' = notifiers
             /\ queue'[n] = queue[n]
                  \/ (queue[n] # <<>> /\ queue'[n] = Tail(queue[n]))
  BY <1>5 DEF GetResult
<1> QED BY <1>1, <1>2, <1>3, <1>4, <1>5, NextCases DEF vars

LEMMA DrainStep == TypeOK /\ ControlInv /\ [Next]_vars => DrainInv'
<1> SUFFICES ASSUME TypeOK, ControlInv, [Next]_vars PROVE DrainInv'
  OBVIOUS
<1> USE DEF TypeOK, Goto
<1> DEFINE Entered(q) ==
      /\ pc'[q] \in {"checkEmpty", "decideEmpty"} \cup Ended
           => notifiers[Home(q)] = {}
      /\ pc'[q] \in Ended => queue[Home(q)] = <<>>
<1>0. DrainInv /\ \A q \in Sleeper : q \in Process /\ Home(q) \in Node
  BY HomeType DEF ControlInv
\* A process gets there only by finding its node closed, then empty.
<1>1. \A q \in Sleeper : Entered(q)
  <2>1. ASSUME NEW t \in Thread, ThreadOnly(t), NEW q \in Sleeper
        PROVE  Entered(q)
    <3>1. t \in Process /\ t \in Sleeper
      BY GroupType, <1>0
    <3>2. CASE Start(t)
      BY <1>0, <3>1, <3>2 DEF Start, DrainInv, Ended
    <3>3. CASE Check(t)
      BY <1>0, <3>1, <3>3 DEF Check, DrainInv, Ended
    <3>4. CASE CheckEmpty(t)
      BY <1>0, <3>1, <3>4 DEF CheckEmpty, DrainInv, Ended
    <3>5. CASE GetInputData(t)
      BY <1>0, <3>1, <3>5 DEF GetInputData, DrainInv, Ended
    <3>6. CASE EndRun(t)
      BY <1>0, <3>1, <3>6 DEF EndRun, DrainInv, Ended
    <3> QED BY <2>1, <3>2, <3>3, <3>4, <3>5, <3>6 DEF ThreadOnly
  <2>2. ASSUME NEW p \in Sleeper, Sleep(p) \/ SpuriousWakeUp(p),
               NEW q \in Sleeper
        PROVE  Entered(q)
    <3>1. CASE LockSleep(p) \/ PredEmpty(p) \/ SpuriousWakeUp(p)
      BY <1>0, <3>1 DEF LockSleep, PredEmpty, SpuriousWakeUp, DrainInv, Ended
    <3>2. CASE PredNotifier(p)
      BY <1>0, <3>2 DEF PredNotifier, Wait, DrainInv, Ended
    <3>3. CASE PredEmptyAgain(p)
      BY <1>0, <3>3 DEF PredEmptyAgain, Wait, DrainInv, Ended
    <3>4. CASE Decide(p)
      BY <1>0, <3>4 DEF Decide, DrainInv, Ended
    <3>5. CASE DecideEmpty(p)
      BY <1>0, <3>5 DEF DecideEmpty, DrainInv, Ended
    <3> QED BY <2>2, <3>1, <3>2, <3>3, <3>4, <3>5 DEF Sleep
  <2>3. ASSUME NEW p \in Sender, SenderStep(p), NEW q \in Sleeper
        PROVE  Entered(q)
    <3>0. p \in Process
      BY FromType
    <3>1. CASE SendAndNotify(p)
      BY <1>0, <3>0, <3>1 DEF SendAndNotify, BeginSend, Receive, EndSend,
        EndNotify, EndDeliver, DrainInv, Ended
    <3>2. CASE WakeUp(p)
      <4>1. UNCHANGED pc \/ \E w \in Process : pc[w] = "wait" /\ Goto(w, "lock")
        BY <3>2, WakeUpEffect
      <4> QED BY <1>0, <4>1 DEF DrainInv, Ended
    <3>3. CASE NotifyAllTerminated(p)
      BY <1>0, <3>0, <3>3 DEF NotifyAllTerminated, RemoveNotifier,
        EndDisconnect, EndWakeAll, DrainInv, Ended
    <3> QED BY <2>3, <3>1, <3>2, <3>3 DEF SenderStep
  <2>4. ASSUME UserStep, NEW q \in Sleeper PROVE Entered(q)
    <3>1. Source \in Process /\ q # Source
      BY ProcessAssumption DEF Process, Sleeper
    <3>2. CASE SpawnThread
      BY <1>0, <3>2, GroupType DEF SpawnThread, DrainInv, Ended
    <3>3. CASE ~SpawnThread
      BY <1>0, <2>4, <3>1, <3>3 DEF UserStep, ExecuteGraph, EndLaunch,
        PushData, FinishPushingData, WaitForTermination, DrainInv
    <3> QED BY <3>2, <3>3
  <2>5. ASSUME GetResult, NEW q \in Sleeper PROVE Entered(q)
    BY <1>0, <2>5 DEF GetResult, DrainInv, Ended
  <2>6. ASSUME UNCHANGED vars, NEW q \in Sleeper PROVE Entered(q)
    BY <1>0, <2>6 DEF vars, DrainInv
  <2> QED BY <2>1, <2>2, <2>3, <2>4, <2>5, <2>6, NextCases
\* What it found remains true, because a closed node stays closed.
<1>2. ASSUME NEW q \in Sleeper, notifiers[Home(q)] = {}
      PROVE  /\ notifiers'[Home(q)] = {}
             /\ queue[Home(q)] = <<>> => queue'[Home(q)] = <<>>
  BY <1>0, <1>2, ClosedStep DEF ControlInv
<1> QED BY <1>0, <1>1, <1>2, FromType DEF DrainInv

(***************************************************************************)
(* The theorems.                                                            *)
(***************************************************************************)
LEMMA Invariance == Spec => [](TypeOK /\ ControlInv)
<1>1. Init => TypeOK /\ ControlInv
  BY TypeInit, ControlInit
<1>2. TypeOK /\ ControlInv /\ [Next]_vars => TypeOK' /\ ControlInv'
  BY TypeStep, OutboxStep, SendStep, NotifierStep, DrainStep DEF ControlInv
<1> QED BY <1>1, <1>2, PTL DEF Spec

\* Every variable keeps its type, whatever the graph.
THEOREM TypeCorrect == Spec => []TypeOK
BY Invariance, PTL

\* A thread that leaves CoreTask::run, and a user told by getBlockingResult that
\* the graph is terminated, leave no data behind and have no live predecessor.
THEOREM NothingLeftBehind == Spec => []TerminatedDrained
<1>1. TypeOK /\ ControlInv => TerminatedDrained
  <2> SUFFICES ASSUME TypeOK, ControlInv, NEW p \in Sleeper, pc[p] \in Ended
               PROVE  /\ queue[Home(p)] = <<>>
                      /\ \A s \in Preds(Home(p)) : pc[s] \in Ended /\ outbox[s] = <<>>
    BY DEF TerminatedDrained
  <2>1. notifiers[Home(p)] = {} /\ queue[Home(p)] = <<>>
    BY DEF ControlInv, DrainInv
  <2>2. ASSUME NEW s \in Preds(Home(p)) PROVE pc[s] \in Ended
    BY <2>1, <2>2 DEF Preds, ControlInv, NotifierInv
  <2>3. ASSUME NEW s \in Preds(Home(p)) PROVE outbox[s] = <<>>
    BY <2>2, <2>3 DEF Preds, ControlInv, OutboxInv, Ended, Sending
  <2> QED BY <2>1, <2>2, <2>3
<1> QED BY <1>1, Invariance, PTL

\* A node whose last notifier has gone is never fed or connected again.
THEOREM ClosedForever == Spec => ClosedNodesOnlyDrain
<1>1. ASSUME TypeOK, ControlInv, [Next]_vars, NEW n \in Node, notifiers[n] = {}
      PROVE  notifiers'[n] = {} /\ Len(queue'[n]) <= Len(queue[n])
  <2>1. /\ notifiers'[n] = {}
        /\ queue'[n] = queue[n]
             \/ (queue[n] # <<>> /\ queue'[n] = Tail(queue[n]))
    BY <1>1, ClosedStep DEF ControlInv
  <2>2. queue[n] \in Seq(Data) /\ Len(queue[n]) \in Nat
    BY <1>1 DEF TypeOK
  <2>3. queue[n] # <<>> => Len(Tail(queue[n])) = Len(queue[n]) - 1
    BY <2>2, HeadTailProperties
  <2>4. Len(queue'[n]) \in {Len(queue[n]), Len(queue[n]) - 1}
    <3>1. CASE queue'[n] = queue[n]
      BY <3>1
    <3>2. CASE queue[n] # <<>> /\ queue'[n] = Tail(queue[n])
      BY <3>2, <2>3
    <3> QED BY <2>1, <3>1, <3>2
  <2>5. Len(queue'[n]) <= Len(queue[n])
    BY <2>2, <2>4
  <2> QED BY <2>1, <2>5
<1>2. TypeOK /\ ControlInv /\ [Next]_vars =>
        [\A n \in Node : notifiers[n] = {} =>
            notifiers'[n] = {} /\ Len(queue'[n]) <= Len(queue[n])]_vars
  BY <1>1
<1> QED BY <1>2, Invariance, PTL DEF Spec, ClosedNodesOnlyDrain

-----------------------------------------------------------------------------
(***************************************************************************)
(* No wake-up of a running graph is lost: the proofs about the handshake of *)
(* DefaultSlot::sleep and DefaultSlot::wakeUp, and about the end of a group *)
(* that one wakeUp reaches, for every graph, group, function and input.     *)
(***************************************************************************)

(***************************************************************************)
(* The inductive invariant.                                                 *)
(***************************************************************************)

\* A process inside sleep owns the mutex of its slot.
MutexInv == \A p \in Sleeper : pc[p] \in InSleep => mutexSleep[Home(p)] = p

\* The loops of a process over its successors stay among them.
TargetInv ==
  \A p \in Sender :
    pc[p] \in {"send", "notify", "disconnect", "wakeAll"}
      => todo[p] \subseteq Succ[From(p)]

\* What a process inside sleep knows of its node.  Data that came after it saw
\* the queue empty is not notified before it has released the mutex.
SeenInv ==
  \A p \in Sleeper :
    /\ pc[p] \in {"predNotifier", "predEmptyAgain"} =>
         queue[Home(p)] = <<>> \/ \E s \in Sender : Home(p) \in Unnotified(s)
    /\ pc[p] = "predEmptyAgain" => notifiers[Home(p)] = {}

\* The reader leaves the wait for a result, or for the end of the graph.
ReaderInv ==
  /\ pc[Reader] = "decide" => queue[Sink] # <<>> \/ notifiers[Sink] = {}
  /\ pc[Reader] = "get" => queue[Sink] # <<>>

SlotInv == MutexInv /\ TargetInv /\ SeenInv /\ ReaderInv

(***************************************************************************)
(* What a step may do to the things these invariants are about.             *)
(***************************************************************************)

\* The definition of Unnotified, case by case.
LEMMA UnnotifiedCases ==
  \A s \in Sender :
    /\ pc[s] = "send" => Unnotified(s) = Succ[From(s)] \ todo[s]
    /\ pc[s] = "notify" => Unnotified(s) = todo[s]
    /\ pc[s] \notin {"send", "notify"} => Unnotified(s) = {}
BY Zenon DEF Unnotified

LEMMA UnnotifiedNext ==
  \A s \in Sender :
    /\ pc'[s] = "send" => Unnotified(s)' = Succ[From(s)] \ todo'[s]
    /\ pc'[s] = "notify" => Unnotified(s)' = todo'[s]
    /\ pc'[s] \notin {"send", "notify"} => Unnotified(s)' = {}
BY Zenon DEF Unnotified

\* Only sleep moves a process into the critical section of its slot, or to its
\* wait, and only sleep takes or releases the mutex.
LEMMA NotSleeping ==
  ASSUME TypeOK, [Next]_vars, \A p \in Sleeper : ~Sleep(p)
  PROVE  /\ mutexSleep' = mutexSleep
         /\ \A q \in Process : pc'[q] \in InSleep \cup {"wait"} => pc'[q] = pc[q]
<1> DEFINE Kept == \A q \in Process :
                     pc'[q] \in InSleep \cup {"wait"} => pc'[q] = pc[q]
<1> USE DEF TypeOK, Goto, InSleep
<1>1. ASSUME NEW t \in Thread, ThreadOnly(t) PROVE mutexSleep' = mutexSleep /\ Kept
  <2>1. t \in Process
    BY GroupType, HomeType
  <2>2. CASE Start(t) \/ Check(t) \/ EndRun(t)
    BY <2>1, <2>2 DEF Start, Check, EndRun
  <2>3. CASE CheckEmpty(t) \/ GetInputData(t)
    BY <2>1, <2>3 DEF CheckEmpty, GetInputData
  <2> QED BY <1>1, <2>2, <2>3 DEF ThreadOnly
<1>2. ASSUME NEW p \in Sleeper, SpuriousWakeUp(p)
      PROVE  mutexSleep' = mutexSleep /\ Kept
  BY <1>2, HomeType DEF SpuriousWakeUp
<1>3. ASSUME NEW p \in Sender, SenderStep(p) PROVE mutexSleep' = mutexSleep /\ Kept
  <2>1. p \in Process
    BY FromType
  <2>2. CASE SendAndNotify(p)
    BY <2>1, <2>2 DEF SendAndNotify, BeginSend, Receive, EndSend, EndNotify,
      EndDeliver
  <2>3. CASE WakeUp(p)
    BY <2>3, WakeUpEffect DEF WakeUp
  <2>4. CASE NotifyAllTerminated(p)
    BY <2>1, <2>4 DEF NotifyAllTerminated, RemoveNotifier, EndDisconnect,
      EndWakeAll
  <2> QED BY <1>3, <2>2, <2>3, <2>4 DEF SenderStep
<1>4. CASE UserStep
  BY <1>4, GroupType, HomeType DEF UserStep, ExecuteGraph, SpawnThread,
    EndLaunch, PushData, FinishPushingData, WaitForTermination, Process
<1>5. CASE GetResult
  BY <1>5 DEF GetResult
<1>6. CASE UNCHANGED vars
  BY <1>6 DEF vars
<1> QED BY <1>1, <1>2, <1>3, <1>4, <1>5, <1>6, NextCases

\* Inside sleep neither the queues, nor the notifiers, nor a sender change.
LEMMA SleepEffect ==
  ASSUME TypeOK, NEW p \in Sleeper, Sleep(p) \/ SpuriousWakeUp(p)
  PROVE  /\ UNCHANGED <<queue, notifiers>>
         /\ \E l \in Sleeping \cup {"get", "done", "disconnect"} :
              pc' = [pc EXCEPT ![p] = l]
         /\ pc[p] \in Sleeping
         /\ pc'[p] = "disconnect" \/ UNCHANGED todo
         /\ \A q \in Sender \ {p} : pc'[q] = pc[q] /\ todo'[q] = todo[q]
         /\ p \in Sender /\ pc'[p] = "disconnect" => todo'[p] = Succ[From(p)]
         /\ \A s \in Sender : Unnotified(s)' = Unnotified(s)
<1> USE DEF TypeOK, Goto, Sleeping
<1>1. p \in Process /\ \A q \in Sender : q \in Process
  BY HomeType, FromType
<1>2. UNCHANGED <<queue, notifiers>> /\ pc[p] \in Sleeping
  BY DEF Sleep, LockSleep, PredEmpty, PredNotifier, PredEmptyAgain, Decide,
    DecideEmpty, SpuriousWakeUp
<1>3. PICK l \in Sleeping \cup {"get", "done", "disconnect"} :
        /\ pc' = [pc EXCEPT ![p] = l]
        /\ UNCHANGED todo \/ l = "disconnect"
        /\ l = "disconnect" => todo' = [todo EXCEPT ![p] = Succ[From(p)]]
  <2>1. CASE LockSleep(p)
    BY <2>1 DEF LockSleep
  <2>2. CASE PredEmpty(p)
    BY <2>2 DEF PredEmpty
  <2>3. CASE PredNotifier(p)
    BY <2>3 DEF PredNotifier, Wait
  <2>4. CASE PredEmptyAgain(p)
    BY <2>4 DEF PredEmptyAgain, Wait
  <2>5. CASE Decide(p)
    BY <2>5 DEF Decide
  <2>6. CASE DecideEmpty(p)
    BY <2>6 DEF DecideEmpty
  <2>7. CASE SpuriousWakeUp(p)
    BY <2>7 DEF SpuriousWakeUp
  <2> QED BY <2>1, <2>2, <2>3, <2>4, <2>5, <2>6, <2>7 DEF Sleep
<1>4. \A q \in Sender \ {p} : pc'[q] = pc[q] /\ todo'[q] = todo[q]
  BY <1>1, <1>3
<1>5. /\ pc'[p] = l
      /\ p \in Sender /\ l = "disconnect" => todo'[p] = Succ[From(p)]
  BY <1>1, <1>3
<1>6. ASSUME NEW s \in Sender PROVE Unnotified(s)' = Unnotified(s)
  <2>1. CASE s = p
    <3>1. pc[s] \notin {"send", "notify"} /\ pc'[s] \notin {"send", "notify"}
      BY <2>1, <1>2, <1>5
    <3> QED BY <3>1, UnnotifiedCases, UnnotifiedNext, Zenon
  <2>2. CASE s # p
    BY <2>2, <1>4, Zenon DEF Unnotified, From
  <2> QED BY <2>1, <2>2
<1> QED BY <1>2, <1>3, <1>4, <1>5, <1>6

\* The steps outside the loops over the successors leave the processes inside
\* them alone, bring no data and disconnect nobody.
Busy == {"send", "notify", "disconnect", "wakeAll"}

LEMMA NotSending ==
  ASSUME TypeOK, [Next]_vars, \A p \in Sender : ~SenderStep(p)
  PROVE  /\ notifiers' = notifiers
         /\ \A n \in Node : queue[n] = <<>> => queue'[n] = <<>>
         /\ \A s \in Sender :
              /\ pc[s] \in Busy => pc'[s] = pc[s] /\ todo'[s] = todo[s]
              /\ pc'[s] \in Busy =>
                   \/ pc'[s] = pc[s]
                   \/ pc'[s] = "disconnect" /\ todo'[s] = Succ[From(s)]
<1> DEFINE Drains == \A n \in Node : queue[n] = <<>> => queue'[n] = <<>>
           Kept(s) == /\ pc[s] \in Busy => pc'[s] = pc[s] /\ todo'[s] = todo[s]
                      /\ pc'[s] \in Busy =>
                           \/ pc'[s] = pc[s]
                           \/ pc'[s] = "disconnect" /\ todo'[s] = Succ[From(s)]
<1> USE DEF TypeOK, Goto, Busy
<1>0. \A p \in Sender : p \in Process
  BY FromType
<1>1. ASSUME NEW t \in Thread, ThreadOnly(t)
      PROVE  notifiers' = notifiers /\ Drains /\ \A s \in Sender : Kept(s)
  <2>1. t \in Process /\ t \in Sender
    BY GroupType, HomeType
  <2>2. CASE Start(t)
    BY <1>0, <2>1, <2>2 DEF Start
  <2>3. CASE Check(t) \/ EndRun(t)
    BY <1>0, <2>1, <2>3 DEF Check, EndRun
  <2>4. CASE CheckEmpty(t)
    BY <1>0, <2>1, <2>4 DEF CheckEmpty
  <2>5. CASE GetInputData(t)
    <3>1. CASE queue[GroupOf[t]] = <<>>
      BY <1>0, <2>1, <2>5, <3>1 DEF GetInputData
    <3>2. CASE queue[GroupOf[t]] # <<>>
      BY <1>0, <2>1, <2>5, <3>2 DEF GetInputData
    <3> QED BY <3>1, <3>2
  <2> QED BY <1>1, <2>2, <2>3, <2>4, <2>5 DEF ThreadOnly
<1>2. ASSUME NEW p \in Sleeper, Sleep(p) \/ SpuriousWakeUp(p)
      PROVE  notifiers' = notifiers /\ Drains /\ \A s \in Sender : Kept(s)
  <2>1. UNCHANGED <<queue, notifiers>> /\ pc[p] \notin Busy
    BY <1>2, SleepEffect DEF Sleeping
  <2>2. \A s \in Sender \ {p} : Kept(s)
    BY <1>2, SleepEffect
  <2>3. p \in Sender => Kept(p)
    <3>1. p \in Process
      BY HomeType
    <3>2. p \in Sender /\ pc'[p] = "disconnect" => todo'[p] = Succ[From(p)]
      BY <1>2, SleepEffect
    <3>3. pc'[p] \in Sleeping \cup {"get", "done", "disconnect"}
      BY <1>2, <3>1, SleepEffect
    <3> QED BY <2>1, <3>2, <3>3 DEF Sleeping
  <2> QED BY <2>1, <2>2, <2>3
<1>3. CASE UserStep
  <2>1. Source \in Sender /\ From(Source) = Source
    BY DEF Sender, From
  <2>2. CASE SpawnThread
    BY <1>0, <2>2, GroupType DEF SpawnThread
  <2>3. CASE FinishPushingData
    BY <1>0, <2>1, <2>3 DEF FinishPushingData
  <2>4. CASE ExecuteGraph \/ EndLaunch \/ PushData \/ WaitForTermination
    BY <1>0, <2>1, <2>4 DEF ExecuteGraph, EndLaunch, PushData,
      WaitForTermination
  <2> QED BY <1>3, <2>2, <2>3, <2>4 DEF UserStep
<1>4. CASE GetResult
  BY <1>0, <1>4, ProcessAssumption DEF GetResult, Sender
<1>5. CASE UNCHANGED vars
  BY <1>5 DEF vars
<1> QED BY <1>1, <1>2, <1>3, <1>4, <1>5, NextCases

(***************************************************************************)
(* The invariants, one lemma each.                                          *)
(***************************************************************************)
LEMMA MutexStep == TypeOK /\ MutexInv /\ [Next]_vars => MutexInv'
<1> SUFFICES ASSUME TypeOK, MutexInv, [Next]_vars PROVE MutexInv'
  OBVIOUS
<1> USE DEF TypeOK, MutexInv, InSleep
<1>0. \A q \in Sleeper : q \in Process /\ Home(q) \in Node
  BY HomeType
<1>1. CASE \A p \in Sleeper : ~Sleep(p)
  BY <1>0, <1>1, NotSleeping
<1>2. ASSUME NEW p \in Sleeper, Sleep(p) PROVE MutexInv'
  <2>1. NoProcess \notin Sleeper
    BY <1>0, ProcessAssumption
  <2>2. CASE LockSleep(p)
    BY <1>0, <2>1, <2>2 DEF LockSleep, Goto
  <2>3. CASE PredEmpty(p)
    BY <1>0, <2>3 DEF PredEmpty, Goto
  <2>4. CASE PredNotifier(p)
    BY <1>0, <2>1, <2>4 DEF PredNotifier, Wait, Goto
  <2>5. CASE PredEmptyAgain(p)
    BY <1>0, <2>1, <2>5 DEF PredEmptyAgain, Wait, Goto
  <2>6. CASE Decide(p)
    BY <1>0, <2>1, <2>6 DEF Decide, Goto
  <2>7. CASE DecideEmpty(p)
    BY <1>0, <2>1, <2>7 DEF DecideEmpty, Goto
  <2> QED BY <1>2, <2>2, <2>3, <2>4, <2>5, <2>6, <2>7 DEF Sleep
<1> QED BY <1>1, <1>2

LEMMA TargetStep == TypeOK /\ TargetInv /\ [Next]_vars => TargetInv'
<1> SUFFICES ASSUME TypeOK, TargetInv, [Next]_vars PROVE TargetInv'
  OBVIOUS
<1> USE DEF TypeOK, TargetInv
<1>0. \A s \in Sender : s \in Process
  BY FromType
<1>1. CASE \A p \in Sender : ~SenderStep(p)
  BY <1>1, NotSending DEF Busy
<1>2. ASSUME NEW p \in Sender, SenderStep(p) PROVE TargetInv'
  <2>1. CASE BeginSend(p)
    BY <1>0, <2>1 DEF BeginSend, Goto
  <2>2. CASE Receive(p)
    BY <1>0, <2>2 DEF Receive
  <2>3. CASE EndSend(p)
    BY <1>0, <2>3 DEF EndSend, Goto
  <2>4. CASE EndNotify(p) \/ EndDeliver(p)
    BY <1>0, <2>4 DEF EndNotify, EndDeliver, Goto
  <2>5. CASE WakeUp(p)
    <3>1. UNCHANGED pc \/ \E w \in Process : pc[w] = "wait" /\ Goto(w, "lock")
      BY <2>5, WakeUpEffect
    <3>2. PICK n \in Node : todo' = [todo EXCEPT ![p] = @ \ {n}]
      BY <2>5 DEF WakeUp
    <3> QED BY <1>0, <3>1, <3>2 DEF Goto
  <2>6. CASE RemoveNotifier(p)
    BY <1>0, <2>6 DEF RemoveNotifier
  <2>7. CASE EndDisconnect(p)
    BY <1>0, <2>7 DEF EndDisconnect, Goto
  <2>8. CASE EndWakeAll(p)
    BY <1>0, <2>8 DEF EndWakeAll, Goto
  <2> QED BY <1>2, <2>1, <2>2, <2>3, <2>4, <2>5, <2>6, <2>7, <2>8
          DEF SenderStep, SendAndNotify, NotifyAllTerminated
<1> QED BY <1>1, <1>2

(***************************************************************************)
(* Who is about to wake up a slot.                                          *)
(***************************************************************************)
Pends(s, n) ==
  /\ n \in Succ[From(s)]
  /\ \/ pc[s] \in {"send", "disconnect"} /\ n \notin todo[s]
     \/ pc[s] \in {"notify", "wakeAll"} /\ n \in todo[s]

LEMMA PendsCases ==
  ASSUME TargetInv, NEW n \in Node
  PROVE  /\ WakeUpPending(n) <=> \E s \in Sender : Pends(s, n)
         /\ \A s \in Sender : n \in Unnotified(s) <=>
              Pends(s, n) /\ pc[s] \in {"send", "notify"}
<1>1. \A s \in Sender : n \in Unnotified(s) <=>
        Pends(s, n) /\ pc[s] \in {"send", "notify"}
  BY UnnotifiedCases DEF TargetInv, Pends
<1>2. ASSUME NEW s \in Sender
      PROVE  Pends(s, n) <=>
        /\ n \in Succ[From(s)]
        /\ \/ n \in Unnotified(s)
           \/ pc[s] = "disconnect" /\ n \notin todo[s]
           \/ pc[s] = "wakeAll" /\ n \in todo[s]
  BY <1>1 DEF Pends
<1> QED BY <1>1, <1>2 DEF WakeUpPending

LEMMA PendsNext ==
  ASSUME TargetInv', NEW n \in Node
  PROVE  /\ WakeUpPending(n)' <=> \E s \in Sender : Pends(s, n)'
         /\ \A s \in Sender : n \in Unnotified(s)' <=>
              Pends(s, n)' /\ pc'[s] \in {"send", "notify"}
<1>1. \A s \in Sender : n \in Unnotified(s)' <=>
        Pends(s, n)' /\ pc'[s] \in {"send", "notify"}
  BY UnnotifiedNext DEF TargetInv, Pends
<1>2. ASSUME NEW s \in Sender
      PROVE  Pends(s, n)' <=>
        /\ n \in Succ[From(s)]
        /\ \/ n \in Unnotified(s)'
           \/ pc'[s] = "disconnect" /\ n \notin todo'[s]
           \/ pc'[s] = "wakeAll" /\ n \in todo'[s]
  BY <1>1 DEF Pends
<1> QED BY <1>1, <1>2 DEF WakeUpPending

\* A wake-up that is owed stays owed until a notify_one under the mutex of the
\* slot, and whoever fills a queue or removes a last notifier owes one.
LEMMA PendsStep ==
  ASSUME TypeOK, TargetInv, [Next]_vars, NEW n \in Node
  PROVE  /\ \A s \in Sender :
              Pends(s, n) => NotifyOne(n) \/
                (Pends(s, n)' /\ (pc[s] \in {"send", "notify"}
                                   => pc'[s] \in {"send", "notify"}))
         /\ queue[n] = <<>> /\ queue'[n] # <<>> =>
              \E s \in Sender : Pends(s, n)' /\ pc'[s] \in {"send", "notify"}
         /\ notifiers[n] # {} /\ notifiers'[n] = {} =>
              \E s \in Sender : Pends(s, n)'
<1> DEFINE Owed(s) ==
      Pends(s, n) => NotifyOne(n) \/
        (Pends(s, n)' /\ (pc[s] \in {"send", "notify"}
                           => pc'[s] \in {"send", "notify"}))
<1> USE DEF TypeOK
<1>0. \A s \in Sender : s \in Process
  BY FromType
<1>1. CASE \A p \in Sender : ~SenderStep(p)
  BY <1>1, NotSending DEF Busy, Pends
<1>2. ASSUME NEW p \in Sender, SenderStep(p)
      PROVE  /\ \A s \in Sender : Owed(s)
             /\ queue[n] = <<>> /\ queue'[n] # <<>> =>
                  Pends(p, n)' /\ pc'[p] \in {"send", "notify"}
             /\ notifiers[n] # {} /\ notifiers'[n] = {} => Pends(p, n)'
  <2>1. CASE BeginSend(p)
    BY <1>0, <2>1 DEF BeginSend, Goto, Pends
  <2>2. CASE Receive(p)
    <3>1. PICK m \in todo[p] :
            /\ queue' = [queue EXCEPT ![m] = Append(@, Head(outbox[p]))]
            /\ todo' = [todo EXCEPT ![p] = @ \ {m}]
      BY <2>2 DEF Receive
    <3>2. m \in Succ[From(p)] /\ pc' = pc /\ notifiers' = notifiers
          /\ pc[p] = "send"
      BY <2>2 DEF Receive, TargetInv
    <3>3. \A s \in Sender : Owed(s)
      BY <3>1, <3>2 DEF Pends
    <3>4. queue'[n] # queue[n] => Pends(p, n)'
      BY <3>1, <3>2 DEF Pends
    <3> QED BY <3>2, <3>3, <3>4
  <2>3. CASE EndSend(p)
    BY <1>0, <2>3 DEF EndSend, Goto, Pends
  <2>4. CASE EndNotify(p) \/ EndDeliver(p)
    BY <1>0, <2>4 DEF EndNotify, EndDeliver, Goto, Pends
  <2>5. CASE WakeUp(p)
    <3>1. PICK m \in todo[p] : /\ NotifyOne(m)
                               /\ todo' = [todo EXCEPT ![p] = @ \ {m}]
      BY <2>5 DEF WakeUp
    <3>2. UNCHANGED pc \/ \E w \in Process : pc[w] = "wait" /\ Goto(w, "lock")
      BY <2>5, WakeUpEffect
    <3>3. \A s \in Sender : pc[s] # "wait" => pc'[s] = pc[s]
      BY <1>0, <3>2 DEF Goto
    <3>4. pc[p] \in {"notify", "wakeAll", "final"}
      BY <2>5 DEF WakeUp
    <3>5. ASSUME NEW s \in Sender PROVE Owed(s)
      BY <3>1, <3>3, <3>4, <3>5 DEF Pends
    <3>6. UNCHANGED <<queue, notifiers>>
      BY <2>5 DEF WakeUp
    <3> QED BY <3>5, <3>6
  <2>6. CASE RemoveNotifier(p)
    <3>1. PICK m \in todo[p] : /\ notifiers' = [notifiers EXCEPT ![m] = @ \ {p}]
                               /\ todo' = [todo EXCEPT ![p] = @ \ {m}]
      BY <2>6 DEF RemoveNotifier
    <3>2. m \in Succ[From(p)] /\ pc' = pc /\ queue' = queue
          /\ pc[p] = "disconnect"
      BY <2>6 DEF RemoveNotifier, TargetInv
    <3>3. \A s \in Sender : Owed(s)
      BY <3>1, <3>2 DEF Pends
    <3>4. notifiers'[n] # notifiers[n] => Pends(p, n)'
      BY <3>1, <3>2 DEF Pends
    <3> QED BY <3>2, <3>3, <3>4
  <2>7. CASE EndDisconnect(p)
    BY <1>0, <2>7 DEF EndDisconnect, Goto, Pends
  <2>8. CASE EndWakeAll(p)
    BY <1>0, <2>8 DEF EndWakeAll, Goto, Pends
  <2> QED BY <1>2, <2>1, <2>2, <2>3, <2>4, <2>5, <2>6, <2>7, <2>8
          DEF SenderStep, SendAndNotify, NotifyAllTerminated
<1> QED BY <1>1, <1>2

\* A process inside sleep learns of no data it will not be notified of.
LEMMA SeenStep ==
  TypeOK /\ ControlInv /\ SlotInv /\ TargetInv' /\ [Next]_vars => SeenInv'
<1> SUFFICES ASSUME TypeOK, ControlInv, SlotInv, TargetInv', [Next]_vars,
                    NEW p \in Sleeper
             PROVE  /\ pc'[p] \in {"predNotifier", "predEmptyAgain"} =>
                         \/ queue'[Home(p)] = <<>>
                         \/ \E s \in Sender : Home(p) \in Unnotified(s)'
                    /\ pc'[p] = "predEmptyAgain" => notifiers'[Home(p)] = {}
  BY DEF SeenInv, Home
<1> USE DEF TypeOK
<1>0. p \in Process /\ Home(p) \in Node /\ TargetInv /\ SeenInv
  BY HomeType DEF SlotInv
<1>1. CASE pc'[p] = pc[p] /\ pc[p] \in {"predNotifier", "predEmptyAgain"}
  <2>1. mutexSleep[Home(p)] = p /\ p # NoProcess
    BY <1>0, <1>1, ProcessAssumption DEF SlotInv, MutexInv, InSleep
  <2>2. CASE queue[Home(p)] = <<>>
    <3>1. queue'[Home(p)] # <<>> =>
            \E s \in Sender : Home(p) \in Unnotified(s)'
      BY <1>0, <2>2, PendsStep, PendsNext
    <3> QED BY <1>0, <1>1, <3>1, ClosedStep DEF SeenInv, ControlInv
  <2>3. CASE \E s \in Sender : Home(p) \in Unnotified(s)
    <3>1. PICK s \in Sender : Pends(s, Home(p)) /\ pc[s] \in {"send", "notify"}
      BY <1>0, <2>3, PendsCases
    <3>2. Home(p) \in Unnotified(s)'
      BY <1>0, <2>1, <3>1, PendsStep, PendsNext DEF NotifyOne
    <3> QED BY <1>0, <1>1, <3>2, ClosedStep DEF SeenInv, ControlInv
  <2> QED BY <1>0, <1>1, <2>2, <2>3 DEF SeenInv
<1>2. CASE PredEmpty(p)
  <2>1. \A s \in Sender : Unnotified(s)' = Unnotified(s)
    BY <1>2, SleepEffect DEF Sleep
  <2>2. pc'[p] = "predNotifier" => SeenEmpty(p)
    BY <1>0, <1>2 DEF PredEmpty, Goto
  <2>3. pc'[p] # "predEmptyAgain" /\ queue' = queue
    BY <1>0, <1>2 DEF PredEmpty, Goto
  <2> QED BY <2>1, <2>2, <2>3 DEF SeenEmpty
<1>3. CASE PredNotifier(p)
  <2>1. \A s \in Sender : Unnotified(s)' = Unnotified(s)
    BY <1>3, SleepEffect DEF Sleep
  <2> QED BY <1>0, <1>3, <2>1 DEF PredNotifier, Wait, Goto, SeenInv
<1>4. CASE pc'[p] # pc[p] /\ ~PredEmpty(p) /\ ~PredNotifier(p)
  <2>1. CASE \A q \in Sleeper : ~Sleep(q)
    BY <1>0, <1>4, <2>1, NotSleeping DEF InSleep
  <2>2. ASSUME NEW q \in Sleeper, Sleep(q), q # p PROVE pc'[p] = pc[p]
    BY <1>0, <2>2, SleepEffect
  <2>3. CASE Sleep(p)
    <3>1. CASE LockSleep(p)
      BY <1>0, <3>1 DEF LockSleep, Goto
    <3>2. CASE PredEmptyAgain(p)
      BY <1>0, <3>2 DEF PredEmptyAgain, Wait, Goto
    <3>3. CASE Decide(p) \/ DecideEmpty(p)
      BY <1>0, <3>3 DEF Decide, DecideEmpty, Goto
    <3> QED BY <1>4, <2>3, <3>1, <3>2, <3>3 DEF Sleep
  <2> QED BY <1>4, <2>1, <2>2, <2>3
<1> QED BY <1>1, <1>2, <1>3, <1>4

\* A receiver that has just received is not empty.
LEMMA AppendNonEmpty ==
  ASSUME NEW S, NEW q \in Seq(S), NEW d \in S
  PROVE  Append(q, d) # <<>>
BY AppendProperties

\* Only the reader takes results, one for each time sleep told it of data.
LEMMA ReaderInvStep ==
  TypeOK /\ ControlInv /\ SlotInv /\ [Next]_vars => ReaderInv'
<1> SUFFICES ASSUME TypeOK, ControlInv, SlotInv, [Next]_vars PROVE ReaderInv'
  OBVIOUS
<1> USE DEF TypeOK
<1>0. /\ Reader \in Process /\ Reader \in Sleeper /\ Reader \notin Sender
      /\ Home(Reader) = Sink /\ Sink \in Node /\ ReaderInv
  BY ProcessAssumption DEF Process, Sleeper, Sender, Home, Node, SlotInv
<1>1. notifiers[Sink] = {} => notifiers'[Sink] = {}
  BY <1>0, ClosedStep DEF ControlInv
<1>2. ~GetResult => (queue[Sink] # <<>> => queue'[Sink] # <<>>)
  <2> SUFFICES ASSUME ~GetResult, queue[Sink] # <<>> PROVE queue'[Sink] # <<>>
    OBVIOUS
  <2>1. ASSUME NEW t \in Thread, ThreadOnly(t) PROVE queue'[Sink] = queue[Sink]
    <3>1. GroupOf[t] # Sink
      BY GroupType, ProcessAssumption
    <3>2. CASE GetInputData(t)
      <4>1. \/ queue' = queue
            \/ queue' = [queue EXCEPT ![GroupOf[t]] = Tail(@)]
        BY <3>2 DEF GetInputData
      <4> QED BY <1>0, <3>1, <4>1
    <3>3. CASE ~GetInputData(t)
      BY <2>1, <3>3 DEF ThreadOnly, Start, Check, CheckEmpty, EndRun
    <3> QED BY <3>2, <3>3
  <2>2. ASSUME NEW p \in Sleeper, Sleep(p) \/ SpuriousWakeUp(p)
        PROVE  queue' = queue
    BY <2>2, SleepEffect
  <2>3. ASSUME NEW p \in Sender, SenderStep(p) PROVE queue'[Sink] # <<>>
    <3>1. CASE Receive(p)
      <4>1. PICK m \in todo[p] :
              queue' = [queue EXCEPT ![m] = Append(@, Head(outbox[p]))]
        BY <3>1 DEF Receive
      <4>2. queue[Sink] \in Seq(Data) /\ Head(outbox[p]) \in Data
        <5>1. outbox[p] \in Seq(Data) /\ outbox[p] # <<>>
          BY <3>1 DEF Receive, ControlInv, OutboxInv
        <5> QED BY <1>0, <5>1
      <4>3. Append(queue[Sink], Head(outbox[p])) # <<>>
        BY <4>2, AppendNonEmpty
      <4>4. CASE m = Sink
        BY <1>0, <4>1, <4>3, <4>4
      <4>5. CASE m # Sink
        BY <1>0, <4>1, <4>5
      <4> QED BY <4>4, <4>5
    <3>2. CASE ~Receive(p)
      BY <2>3, <3>2 DEF SenderStep, SendAndNotify, BeginSend, EndSend,
        EndNotify, EndDeliver, WakeUp, NotifyAllTerminated, RemoveNotifier,
        EndDisconnect, EndWakeAll
    <3> QED BY <3>1, <3>2
  <2>4. CASE UserStep
    BY <2>4 DEF UserStep, ExecuteGraph, SpawnThread, EndLaunch, PushData,
      FinishPushingData, WaitForTermination
  <2> QED BY <2>1, <2>2, <2>3, <2>4, NextCases DEF vars
<1>3. CASE GetResult
  BY <1>0, <1>3 DEF GetResult, Goto, ReaderInv
<1>4. CASE ~GetResult /\ ~Sleep(Reader)
  <2>1. pc'[Reader] = pc[Reader] \/ pc'[Reader] \notin {"decide", "get"}
    <3>1. ASSUME NEW t \in Thread, ThreadOnly(t) PROVE pc'[Reader] = pc[Reader]
      BY <1>0, <3>1, GroupType DEF ThreadOnly, Start, Check, CheckEmpty,
        GetInputData, EndRun, Goto
    <3>2. ASSUME NEW p \in Sleeper, Sleep(p), p # Reader
          PROVE  pc'[Reader] = pc[Reader]
      BY <1>0, <3>2, SleepEffect
    <3>3. ASSUME NEW p \in Sleeper, SpuriousWakeUp(p)
          PROVE  pc'[Reader] = pc[Reader] \/ pc'[Reader] = "lock"
      BY <1>0, <3>3 DEF SpuriousWakeUp, Goto
    <3>4. ASSUME NEW p \in Sender, SenderStep(p)
          PROVE  pc'[Reader] = pc[Reader] \/ pc'[Reader] = "lock"
      <4>1. CASE WakeUp(p)
        BY <1>0, <4>1, WakeUpEffect DEF Goto
      <4>2. CASE ~WakeUp(p)
        BY <1>0, <3>4, <4>2 DEF SenderStep, SendAndNotify, BeginSend, Receive,
          EndSend, EndNotify, EndDeliver, NotifyAllTerminated, RemoveNotifier,
          EndDisconnect, EndWakeAll, Goto
      <4> QED BY <4>1, <4>2
    <3>5. CASE UserStep
      <4>1. Reader # Source
        BY ProcessAssumption
      <4> QED
        BY <1>0, <3>5, <4>1, GroupType DEF UserStep, ExecuteGraph, SpawnThread,
          EndLaunch, PushData, FinishPushingData, WaitForTermination, Goto
    <3> QED BY <1>4, <3>1, <3>2, <3>3, <3>4, <3>5, NextCases DEF vars
  <2> QED BY <1>0, <1>1, <1>2, <1>4, <2>1 DEF ReaderInv
<1>5. CASE Sleep(Reader)
  <2>1. queue' = queue /\ notifiers' = notifiers
    BY <1>0, <1>5, SleepEffect
  <2>2. CASE LockSleep(Reader) \/ PredEmpty(Reader)
    BY <1>0, <2>1, <2>2 DEF LockSleep, PredEmpty, Goto, ReaderInv
  <2>3. CASE PredNotifier(Reader)
    BY <1>0, <2>1, <2>3 DEF PredNotifier, Wait, Goto, ReaderInv
  <2>4. CASE PredEmptyAgain(Reader)
    <3>1. notifiers[Sink] = {}
      BY <1>0, <2>4 DEF PredEmptyAgain, SlotInv, SeenInv
    <3> QED BY <1>0, <2>1, <2>4, <3>1 DEF PredEmptyAgain, Wait, Goto, ReaderInv
  <2>5. CASE Decide(Reader)
    BY <1>0, <2>1, <2>5 DEF Decide, Goto, ReaderInv
  <2>6. CASE DecideEmpty(Reader)
    BY <1>0, <2>1, <2>6, ProcessAssumption DEF DecideEmpty, Goto, ReaderInv
  <2> QED BY <1>5, <2>2, <2>3, <2>4, <2>5, <2>6 DEF Sleep
<1> QED BY <1>3, <1>4, <1>5

(***************************************************************************)
(* The theorems.                                                            *)
(***************************************************************************)
LEMMA SlotInit == Init => SlotInv
<1> SUFFICES ASSUME Init PROVE SlotInv
  OBVIOUS
<1>1. \A p \in Process : pc[p] \in {"user", "lock", "idle"}
  BY DEF Init
<1>2. \A p \in Sender : p \in Process
  BY FromType
<1>3. \A p \in Sleeper : p \in Process
  BY HomeType
<1>4. Reader \in Process
  BY DEF Process
<1> QED
  BY <1>1, <1>2, <1>3, <1>4
  DEF SlotInv, MutexInv, TargetInv, SeenInv, ReaderInv, InSleep

LEMMA SlotInvariance == Spec => [](TypeOK /\ ControlInv /\ SlotInv)
<1>1. TypeOK /\ ControlInv /\ SlotInv /\ [Next]_vars => SlotInv'
  BY MutexStep, TargetStep, SeenStep, ReaderInvStep DEF SlotInv
<1> QED BY <1>1, SlotInit, Invariance, PTL DEF Spec

\* getBlockingResult never returns a null pointer to a single reader because
\* it found no data after sleep had returned false.
THEOREM ResultsAreThere == Spec => []ResultAvailable
<1>1. SlotInv => ResultAvailable
  BY DEF SlotInv, ReaderInv, ResultAvailable
<1> QED BY <1>1, SlotInvariance, PTL

\* A process starts to wait only while its slot has notifiers, and with no data
\* it has not been notified of.
LEMMA WaitBegins ==
  ASSUME TypeOK, ControlInv, SlotInv, [Next]_vars,
         NEW p \in Sleeper, pc'[p] = "wait", pc[p] # "wait"
  PROVE  /\ notifiers[Home(p)] # {} /\ notifiers' = notifiers
         /\ queue' = queue
         /\ queue[Home(p)] = <<>> \/ WakeUpPending(Home(p))
         /\ \A n \in Node : WakeUpPending(n) => WakeUpPending(n)'
         /\ \A q \in Process \ {p} : pc'[q] = pc[q]
<1> USE DEF TypeOK
<1>0. /\ p \in Process /\ Home(p) \in Node /\ \A s \in Sender : s \in Process
      /\ TargetInv /\ SeenInv /\ TargetInv'
  BY HomeType, FromType, TargetStep DEF SlotInv
<1>1. PICK q \in Sleeper : Sleep(q)
  BY <1>0, NotSleeping
<1>2. q = p
  BY <1>0, <1>1, SleepEffect
<1>3. UNCHANGED <<queue, notifiers, todo>> /\ pc' = [pc EXCEPT ![p] = "wait"]
      /\ pc[p] \notin Busy
  BY <1>0, <1>1, <1>2, SleepEffect DEF Busy, Sleeping
<1>4. \A n \in Node : WakeUpPending(n) => WakeUpPending(n)'
  <2> SUFFICES ASSUME NEW n \in Node, NEW s \in Sender, Pends(s, n)
               PROVE  Pends(s, n)'
    BY <1>0, PendsCases, PendsNext
  <2>1. s # p /\ pc'[s] = pc[s]
    BY <1>0, <1>3 DEF Pends, Busy
  <2> QED BY <1>3, <2>1 DEF Pends
<1>5. PredNotifier(p) \/ PredEmptyAgain(p)
  BY <1>0, <1>1, <1>2, <1>3 DEF Sleep, LockSleep, PredEmpty, Decide,
    DecideEmpty, Goto
<1>6. queue[Home(p)] = <<>> \/ \E s \in Sender : Home(p) \in Unnotified(s)
  BY <1>5 DEF SlotInv, SeenInv, PredNotifier, PredEmptyAgain
<1>7. queue[Home(p)] = <<>> \/ WakeUpPending(Home(p))
  BY <1>0, <1>6, PendsCases
<1>8. notifiers[Home(p)] # {}
  <2>1. CASE PredNotifier(p)
    BY <1>0, <1>3, <2>1 DEF PredNotifier, Goto
  <2>2. CASE PredEmptyAgain(p)
    <3>1. notifiers[Home(p)] = {} /\ queue[Home(p)] # <<>>
      BY <1>0, <1>3, <2>2 DEF PredEmptyAgain, Goto, SeenInv
    <3>2. PICK s \in Sender : Pends(s, Home(p)) /\ pc[s] \in {"send", "notify"}
      BY <1>0, <1>6, <3>1, PendsCases
    <3>3. s \in notifiers[Home(p)]
      BY <3>2 DEF ControlInv, NotifierInv, Pends, Ended
    <3> QED BY <3>1, <3>3
  <2> QED BY <1>5, <2>1, <2>2
<1> QED BY <1>0, <1>3, <1>4, <1>7, <1>8

\* notify_one moves a waiting process of the slot, if there is one.
LEMMA NotifyOneWakes ==
  ASSUME TypeOK, NEW n \in Node, NEW p \in Sleeper,
         pc[p] = "wait", Home(p) = n, NotifyOne(n)
  PROVE  \E w \in Sleeper : Home(w) = n /\ pc'[w] = "lock"
BY HomeType DEF TypeOK, NotifyOne, Waiting, Goto

\* No wake-up is lost: a node whose sleepers all wait although it has data, or
\* can terminate, is about to be woken up.
THEOREM WakeUpsNotLost == Spec => []NoLostWakeUp
<1>1. Init => NoLostWakeUp
  <2> SUFFICES ASSUME Init, NEW p \in Sleeper PROVE pc[p] # "wait"
    BY DEF NoLostWakeUp
  <2> QED BY HomeType DEF Init
<1>2. TypeOK /\ ControlInv /\ SlotInv /\ NoLostWakeUp /\ [Next]_vars
        => NoLostWakeUp'
  <2> SUFFICES ASSUME TypeOK, ControlInv, SlotInv, NoLostWakeUp, [Next]_vars,
                      NEW n \in Node, NEW p \in Sleeper, Home(p) = n,
                      \A q \in Sleeper : Home(q) = n => pc'[q] = "wait",
                      queue'[n] # <<>> \/ notifiers'[n] = {}
               PROVE  WakeUpPending(n)'
    BY DEF NoLostWakeUp, Home
  <2>0. TargetInv /\ TargetInv'
    BY TargetStep DEF SlotInv
  <2>1. CASE \A q \in Sleeper : Home(q) = n => pc[q] = "wait"
    <3>1. ~NotifyOne(n)
      BY <2>1, NotifyOneWakes
    <3>2. WakeUpPending(n) => WakeUpPending(n)'
      BY <2>0, <3>1, PendsStep, PendsCases, PendsNext
    <3>3. queue[n] = <<>> /\ queue'[n] # <<>> => WakeUpPending(n)'
      BY <2>0, PendsStep, PendsNext
    <3>4. notifiers[n] # {} /\ notifiers'[n] = {} => WakeUpPending(n)'
      BY <2>0, PendsStep, PendsNext
    <3> QED BY <2>1, <3>2, <3>3, <3>4 DEF NoLostWakeUp
  <2>2. ASSUME NEW q \in Sleeper, Home(q) = n, pc[q] # "wait"
        PROVE  WakeUpPending(n)'
    BY <2>2, WaitBegins
  <2> QED BY <2>1, <2>2
<1> QED BY <1>1, <1>2, SlotInvariance, PTL DEF Spec

\* One wakeUp reaches a slot when its last notifier goes away, and every thread
\* of the group that sleeps there is reached in the end: one of them is awake
\* and has yet to hand the end on, or a wakeUp is pending.
THEOREM EndReachesTheGroup == Spec => []EndHandedOn
<1>1. Init => EndHandedOn
  <2> SUFFICES ASSUME Init, NEW p \in Sleeper PROVE pc[p] # "wait"
    BY DEF EndHandedOn
  <2> QED BY HomeType DEF Init
<1>2. TypeOK /\ ControlInv /\ SlotInv /\ EndHandedOn /\ [Next]_vars
        => EndHandedOn'
  <2> DEFINE Awake(q) == /\ pc[q] \notin {"wait", "done"}
                         /\ pc[q] = "final" => Home(q) \in todo[q]
  <2> SUFFICES ASSUME TypeOK, ControlInv, SlotInv, EndHandedOn, [Next]_vars,
                      NEW p \in Sleeper,
                      pc'[p] = "wait", notifiers'[Home(p)] = {}
               PROVE  \/ WakeUpPending(Home(p))'
                      \/ \E q \in Sleeper : Home(q) = Home(p) /\ Awake(q)'
    BY DEF EndHandedOn, Home
  <2>0. /\ TargetInv /\ TargetInv' /\ p \in Process /\ Home(p) \in Node
        /\ \A q \in Sleeper : q \in Process
    BY HomeType, TargetStep DEF SlotInv
  <2>1. pc[p] = "wait"
    BY WaitBegins
  <2>2. CASE notifiers[Home(p)] # {}
    BY <2>0, <2>2, PendsStep, PendsNext
  <2>3. CASE NotifyOne(Home(p))
    BY <2>0, <2>1, <2>3, NotifyOneWakes
  <2>4. CASE WakeUpPending(Home(p)) /\ ~NotifyOne(Home(p))
    BY <2>0, <2>4, PendsStep, PendsCases, PendsNext
  <2>5. ASSUME NEW q \in Sleeper, Home(q) = Home(p), Awake(q),
               notifiers[Home(p)] = {}, ~NotifyOne(Home(p))
        PROVE  Awake(q)'
    <3>1. q \in Thread /\ q \in Sender /\ q # Reader /\ q # Source
      BY <2>1, <2>5, GroupType, ProcessAssumption DEF Sleeper, Home
    <3>2. pc'[q] # "wait"
      BY <2>5, WaitBegins
    <3>3. ASSUME NEW t \in Thread, ThreadOnly(t) PROVE Awake(q)'
      <4>1. t \in Process /\ t \in Sender
        BY GroupType, <2>0
      <4>2. CASE Start(t) \/ Check(t) \/ EndRun(t)
        BY <2>0, <2>5, <3>1, <4>1, <4>2, GroupType
        DEF Start, Check, EndRun, Goto, TypeOK
      <4>3. CASE CheckEmpty(t) \/ GetInputData(t)
        BY <2>0, <2>5, <3>1, <4>1, <4>3
        DEF CheckEmpty, GetInputData, Goto, TypeOK
      <4> QED BY <3>3, <4>2, <4>3 DEF ThreadOnly
    <3>4. ASSUME NEW r \in Sleeper, Sleep(r) \/ SpuriousWakeUp(r)
          PROVE  Awake(q)'
      <4>1. CASE r # q
        BY <2>0, <2>5, <3>1, <3>4, <4>1, SleepEffect
      <4>2. CASE r = q
        BY <2>0, <3>1, <3>2, <3>4, <4>2 DEF Sleep, LockSleep, PredEmpty,
          PredNotifier, PredEmptyAgain, Decide, DecideEmpty, SpuriousWakeUp,
          Wait, Goto, TypeOK
      <4> QED BY <4>1, <4>2
    <3>5. ASSUME NEW r \in Sender, SenderStep(r) PROVE Awake(q)'
      <4>1. r \in Process
        BY FromType
      <4>2. CASE SendAndNotify(r)
        BY <2>0, <2>5, <3>1, <3>5, <4>1, <4>2 DEF SendAndNotify, BeginSend,
          Receive, EndSend, EndNotify, EndDeliver, Goto, TypeOK
      <4>3. CASE WakeUp(r)
        <5>1. PICK m \in todo[r] : /\ NotifyOne(m)
                                   /\ todo' = [todo EXCEPT ![r] = @ \ {m}]
          BY <4>3 DEF WakeUp
        <5>2. UNCHANGED pc \/ \E w \in Process : pc[w] = "wait" /\ Goto(w, "lock")
          BY <4>3, WakeUpEffect
        <5>3. pc'[q] = pc[q]
          BY <2>0, <2>5, <5>2 DEF Goto, TypeOK
        <5> QED BY <2>5, <3>1, <5>1, <5>3 DEF TypeOK
      <4>4. CASE RemoveNotifier(r) \/ EndDisconnect(r)
        BY <2>0, <2>5, <3>1, <4>1, <4>4
        DEF RemoveNotifier, EndDisconnect, Goto, TypeOK
      <4>5. CASE EndWakeAll(r)
        <5>1. CASE r = q
          BY <2>0, <3>1, <4>5, <5>1, GroupType DEF EndWakeAll, Goto, TypeOK
        <5>2. CASE r # q
          BY <2>0, <2>5, <3>1, <4>1, <4>5, <5>2 DEF EndWakeAll, Goto, TypeOK
        <5> QED BY <5>1, <5>2
      <4> QED BY <3>5, <4>2, <4>3, <4>4, <4>5
              DEF SenderStep, NotifyAllTerminated
    <3>6. CASE UserStep
      BY <2>0, <2>5, <3>1, <3>6, GroupType DEF UserStep, ExecuteGraph,
        SpawnThread, EndLaunch, PushData, FinishPushingData,
        WaitForTermination, Goto, TypeOK
    <3>7. CASE GetResult \/ UNCHANGED vars
      BY <2>0, <2>5, <3>1, <3>7 DEF GetResult, Goto, TypeOK, vars
    <3> QED BY <3>3, <3>4, <3>5, <3>6, <3>7, NextCases
  <2> QED BY <2>1, <2>2, <2>3, <2>4, <2>5 DEF EndHandedOn
<1> QED BY <1>1, <1>2, SlotInvariance, PTL DEF Spec
-----------------------------------------------------------------------------
(***************************************************************************)
(* Counting the places of a value in a sequence.                            *)
(***************************************************************************)
N(s, d) == Cardinality(Places(s, d))

LEMMA PlacesFinite ==
  ASSUME NEW S, NEW s \in Seq(S), NEW d
  PROVE  IsFiniteSet(Places(s, d)) /\ N(s, d) \in Nat
<1>1. DOMAIN s = 1 .. Len(s) /\ Len(s) \in Nat
  OBVIOUS
<1>2. IsFiniteSet(1 .. Len(s))
  BY <1>1, FS_Interval
<1>3. Places(s, d) \in SUBSET (1 .. Len(s))
  BY <1>1 DEF Places
<1>4. IsFiniteSet(Places(s, d))
  BY <1>2, <1>3, FS_Subset
<1> QED BY <1>4, FS_CardinalityType DEF N

LEMMA PlacesEmpty == \A d : N(<<>>, d) = 0
<1>1. \A d : Places(<<>>, d) = {}
  BY DEF Places
<1> QED BY <1>1, FS_EmptySet DEF N

LEMMA PlacesAppend ==
  ASSUME NEW S, NEW s \in Seq(S), NEW e \in S, NEW d
  PROVE  N(Append(s, e), d) = N(s, d) + (IF e = d THEN 1 ELSE 0)
<1>1. /\ Append(s, e) \in Seq(S) /\ Len(s) \in Nat
      /\ DOMAIN s = 1 .. Len(s) /\ DOMAIN Append(s, e) = 1 .. (Len(s) + 1)
      /\ \A i \in 1 .. Len(s) : Append(s, e)[i] = s[i]
      /\ Append(s, e)[Len(s) + 1] = e
  OBVIOUS
<1>2. CASE e = d
  <2>1. Places(Append(s, e), d) = Places(s, d) \cup {Len(s) + 1}
    BY <1>1, <1>2 DEF Places
  <2>2. Len(s) + 1 \notin Places(s, d)
    BY <1>1 DEF Places
  <2> QED BY <1>2, <2>1, <2>2, PlacesFinite, FS_AddElement DEF N
<1>3. CASE e # d
  <2>1. Places(Append(s, e), d) = Places(s, d)
    BY <1>1, <1>3 DEF Places
  <2>2. N(s, d) \in Nat
    BY PlacesFinite
  <2> QED BY <1>3, <2>1, <2>2 DEF N
<1> QED BY <1>2, <1>3

LEMMA PlacesTail ==
  ASSUME NEW S, NEW s \in Seq(S), s # <<>>, NEW d
  PROVE  N(s, d) = N(Tail(s), d) + (IF Head(s) = d THEN 1 ELSE 0)
<1>1. /\ Tail(s) \in Seq(S) /\ Len(s) \in Nat /\ Len(s) > 0
      /\ DOMAIN s = 1 .. Len(s) /\ DOMAIN Tail(s) = 1 .. (Len(s) - 1)
      /\ \A i \in 1 .. (Len(s) - 1) : Tail(s)[i] = s[i + 1]
      /\ Head(s) = s[1]
  OBVIOUS
<1> DEFINE f == [i \in Places(Tail(s), d) |-> i + 1]
           Rest == Places(s, d) \ {1}
<1>2. f \in Bijection(Places(Tail(s), d), Rest)
  <2>1. \A i \in Places(Tail(s), d) : i \in Int /\ i + 1 \in Rest
    BY <1>1 DEF Places
  <2>2. f \in [Places(Tail(s), d) -> Rest]
    BY <2>1
  <2>3. \A i, j \in Places(Tail(s), d) : f[i] = f[j] => i = j
    BY <2>1
  <2>4. ASSUME NEW k \in Rest PROVE \E i \in Places(Tail(s), d) : f[i] = k
    <3>1. k - 1 \in Places(Tail(s), d) /\ (k - 1) + 1 = k
      BY <1>1 DEF Places
    <3> QED BY <3>1
  <2> QED BY <2>2, <2>3, <2>4, Fun_IsBij
<1>3. IsFiniteSet(Places(Tail(s), d)) /\ N(Tail(s), d) \in Nat
  BY <1>1, PlacesFinite
<1>4. Cardinality(Rest) = N(Tail(s), d)
  BY <1>2, <1>3, FS_Bijection DEF ExistsBijection, N
<1>5. IsFiniteSet(Places(s, d)) /\ N(s, d) \in Nat
  BY PlacesFinite
<1>6. 1 \in Places(s, d) <=> Head(s) = d
  BY <1>1 DEF Places
<1>7. Cardinality(Rest) = IF 1 \in Places(s, d) THEN N(s, d) - 1 ELSE N(s, d)
  BY <1>5, FS_RemoveElement DEF N
<1> QED BY <1>3, <1>4, <1>5, <1>6, <1>7

LEMMA PlacesSingle ==
  ASSUME NEW S, NEW e \in S, NEW d
  PROVE  N(<<e>>, d) = IF e = d THEN 1 ELSE 0
<1>1. <<e>> \in Seq(S) /\ <<e>> # <<>> /\ Head(<<e>>) = e /\ Tail(<<e>>) = <<>>
  OBVIOUS
<1>2. N(<<e>>, d) = N(Tail(<<e>>), d) + (IF Head(<<e>>) = d THEN 1 ELSE 0)
  BY <1>1, PlacesTail
<1>3. N(Tail(<<e>>), d) = 0
  BY <1>1, PlacesEmpty
<1> QED BY <1>1, <1>2, <1>3

(***************************************************************************)
(* Counting the values the senders hold: u[p] is what sender p holds.       *)
(***************************************************************************)
Held(u, d) == {{p} \X Places(u[p], d) : p \in Sender}
Total(u, d) == Cardinality(UNION Held(u, d))

LEMMA SenderFinite == IsFiniteSet(Sender)
BY ThreadAssumption, FS_Singleton, FS_Union DEF Sender

LEMMA HeldFinite ==
  ASSUME NEW u \in [Sender -> Seq(Data)], NEW d
  PROVE  IsFiniteSet(UNION Held(u, d)) /\ Total(u, d) \in Nat
<1> DEFINE f == [p \in Sender |-> {p} \X Places(u[p], d)]
<1>1. f \in Surjection(Sender, Held(u, d))
  <2>1. f \in [Sender -> Held(u, d)]
    BY DEF Held
  <2>2. \A h \in Held(u, d) : \E p \in Sender : f[p] = h
    BY DEF Held
  <2> QED BY <2>1, <2>2, Fun_IsSurj
<1>2. IsFiniteSet(Held(u, d))
  BY <1>1, SenderFinite, FS_Surjection
<1>3. ASSUME NEW p \in Sender PROVE IsFiniteSet({p} \X Places(u[p], d))
  BY PlacesFinite, FS_Singleton, FS_Product
<1>4. \A h \in Held(u, d) : IsFiniteSet(h)
  BY <1>3 DEF Held
<1>5. IsFiniteSet(UNION Held(u, d))
  BY <1>2, <1>4, FS_UNION
<1> QED BY <1>5, FS_CardinalityType DEF Total

\* What one sender holds is a part of the total of its own.
Others(u, d, p) == {x \in UNION Held(u, d) : x[1] # p}

LEMMA InHeld ==
  \A u, d, x : x \in UNION Held(u, d) <=>
    \E q \in Sender : x \in {q} \X Places(u[q], d)
BY DEF Held

LEMMA NothingHeld ==
  ASSUME NEW u, NEW d, \A q \in Sender : Places(u[q], d) = {}
  PROVE  Total(u, d) = 0
<1>1. \A x : x \notin UNION Held(u, d)
  <2>1. ASSUME NEW x, NEW q \in Sender, x \in {q} \X Places(u[q], d)
        PROVE  FALSE
    <3>1. Places(u[q], d) = {}
      OBVIOUS
    <3>2. \A y : y \notin {q} \X {}
      OBVIOUS
    <3> QED BY <2>1, <3>1, <3>2
  <2> QED BY <2>1, InHeld
<1>2. UNION Held(u, d) = {}
  BY <1>1
<1> QED BY <1>2, FS_EmptySet DEF Total

LEMMA TotalSplit ==
  ASSUME NEW u \in [Sender -> Seq(Data)], NEW d, NEW p \in Sender
  PROVE  /\ Total(u, d) = Cardinality(Others(u, d, p)) + N(u[p], d)
         /\ Cardinality(Others(u, d, p)) \in Nat
<1> DEFINE All  == UNION Held(u, d)
           Rest == Others(u, d, p)
           Own  == {p} \X Places(u[p], d)
<1>1. IsFiniteSet(All)
  BY HeldFinite
<1>2. IsFiniteSet(Rest) /\ Cardinality(Rest) \in Nat
  <2>1. Rest \in SUBSET All
    BY DEF Others
  <2> QED BY <1>1, <2>1, FS_Subset, FS_CardinalityType
<1>3. IsFiniteSet(Own) /\ Cardinality(Own) = N(u[p], d) /\ N(u[p], d) \in Nat
  <2>1. IsFiniteSet(Places(u[p], d)) /\ N(u[p], d) \in Nat
    BY PlacesFinite
  <2>2. IsFiniteSet({p}) /\ Cardinality({p}) = 1
    BY FS_Singleton
  <2> QED BY <2>1, <2>2, FS_Product DEF N
<1>4. All = Rest \cup Own
  <2>1. ASSUME NEW x \in All PROVE x \in Rest \cup Own
    <3>1. PICK q \in Sender : x \in {q} \X Places(u[q], d)
      BY InHeld
    <3> QED BY <3>1 DEF Others
  <2>2. Own \subseteq All
    BY DEF Held
  <2> QED BY <2>1, <2>2 DEF Others
<1>5. Rest \cap Own = {}
  BY DEF Others
<1>6. Cardinality(Rest \cup Own) = Cardinality(Rest) + Cardinality(Own)
  <2> HIDE DEF Rest, Own
  <2>1. Cardinality(Rest \cup Own)
          = Cardinality(Rest) + Cardinality(Own) - Cardinality(Rest \cap Own)
    BY <1>2, <1>3, FS_Union
  <2>2. Cardinality(Rest \cap Own) = 0
    BY <1>5, FS_EmptySet
  <2> QED BY <1>2, <1>3, <2>1, <2>2
<1> QED BY <1>2, <1>3, <1>4, <1>6 DEF Total

\* When only p's part changes, the totals differ by that change.
LEMMA TotalChange ==
  ASSUME NEW u \in [Sender -> Seq(Data)], NEW v \in [Sender -> Seq(Data)],
         NEW p \in Sender, \A q \in Sender \ {p} : v[q] = u[q], NEW d
  PROVE  Total(v, d) + N(u[p], d) = Total(u, d) + N(v[p], d)
<1>1. Others(u, d, p) = Others(v, d, p)
  <2>1. ASSUME NEW x, NEW q \in Sender, x[1] # p, x \in {q} \X Places(u[q], d)
        PROVE  x \in {q} \X Places(v[q], d)
    BY <2>1
  <2>2. ASSUME NEW x, NEW q \in Sender, x[1] # p, x \in {q} \X Places(v[q], d)
        PROVE  x \in {q} \X Places(u[q], d)
    BY <2>2
  <2>3. \A x : x \in Others(u, d, p) <=> x \in Others(v, d, p)
    BY <2>1, <2>2, InHeld DEF Others
  <2> QED BY <2>3 DEF Others
<1>2. /\ Total(u, d) = Cardinality(Others(u, d, p)) + N(u[p], d)
      /\ Cardinality(Others(u, d, p)) \in Nat
      /\ Total(v, d) = Cardinality(Others(v, d, p)) + N(v[p], d)
  BY TotalSplit
<1>3. N(u[p], d) \in Nat /\ N(v[p], d) \in Nat
  BY PlacesFinite
<1> QED BY <1>1, <1>2, <1>3

(***************************************************************************)
(* What the senders hold for a node, and the copies pending for it.         *)
(***************************************************************************)
Hold(n) == [s \in Sender |-> Unsent(s, n)]
Copies(n, d) == N(queue[n], d) + Total(Hold(n), d)

LEMMA HoldType ==
  TypeOK /\ OutboxInv => \A n : Hold(n) \in [Sender -> Seq(Data)]
<1> SUFFICES ASSUME TypeOK, OutboxInv, NEW n, NEW s \in Sender
             PROVE  Unsent(s, n) \in Seq(Data)
  BY DEF Hold
<1>1. outbox[s] \in Seq(Data) /\ <<>> \in Seq(Data)
  BY DEF TypeOK
<1>2. Given(s, n) => Tail(outbox[s]) \in Seq(Data)
  BY <1>1 DEF Given, OutboxInv
<1> QED BY <1>1, <1>2 DEF Unsent

LEMMA HoldNext ==
  TypeOK' /\ OutboxInv' => \A n : Hold(n)' \in [Sender -> Seq(Data)]
<1> SUFFICES ASSUME TypeOK', OutboxInv', NEW n, NEW s \in Sender
             PROVE  Unsent(s, n)' \in Seq(Data)
  BY DEF Hold
<1>1. outbox'[s] \in Seq(Data) /\ <<>> \in Seq(Data)
  BY DEF TypeOK
<1>2. Given(s, n)' => Tail(outbox'[s]) \in Seq(Data)
  BY <1>1 DEF Given, OutboxInv
<1> QED BY <1>1, <1>2 DEF Unsent

LEMMA CopiesType ==
  ASSUME TypeOK, OutboxInv, NEW n \in Node, NEW d
  PROVE  /\ N(queue[n], d) \in Nat /\ Total(Hold(n), d) \in Nat
         /\ Copies(n, d) \in Nat
<1>1. queue[n] \in Seq(Data) /\ Hold(n) \in [Sender -> Seq(Data)]
  BY HoldType DEF TypeOK
<1>2. N(queue[n], d) \in Nat
  BY <1>1, PlacesFinite
<1>3. Total(Hold(n), d) \in Nat
  BY <1>1, HeldFinite
<1> QED BY <1>2, <1>3 DEF Copies

LEMMA PendingBarIs ==
  PendingBar = [n \in Node |-> [d \in Data |-> Copies(n, d)]]
<1>1. ASSUME NEW n, NEW d
      PROVE  UNION Held(Hold(n), d)
               = UNION {{p} \X Places(Unsent(p, n), d) : p \in Sender}
  <2>1. \A p \in Sender : Hold(n)[p] = Unsent(p, n)
    BY DEF Hold
  <2> QED BY <2>1 DEF Held
<1> QED BY <1>1 DEF PendingBar, Copies, N, Total

LEMMA PendingBarNext ==
  PendingBar' = [n \in Node |-> [d \in Data |-> Copies(n, d)']]
<1>1. ASSUME NEW n, NEW d
      PROVE  UNION Held(Hold(n)', d)
               = UNION {{p} \X Places(Unsent(p, n)', d) : p \in Sender}
  <2>1. \A p \in Sender : Hold(n)'[p] = Unsent(p, n)'
    BY DEF Hold
  <2> QED BY <2>1 DEF Held
<1>2. ASSUME NEW n, NEW d
      PROVE  Copies(n, d)' = Cardinality(Places(queue'[n], d))
        + Cardinality(UNION {{p} \X Places(Unsent(p, n)', d) : p \in Sender})
  BY <1>1 DEF Copies, N, Total
<1> QED BY <1>2 DEF PendingBar

\* Steps that only change what Computation does not see.
LEMMA PendingKept ==
  ASSUME queue' = queue,
         \A s \in Sender : \A n \in Node : Unsent(s, n)' = Unsent(s, n)
  PROVE  PendingBar' = PendingBar
<1>1. \A n \in Node : Hold(n)' = Hold(n)
  BY DEF Hold
<1>2. \A n \in Node : \A d \in Data : Copies(n, d)' = Copies(n, d)
  BY <1>1 DEF Copies
<1> QED BY <1>2, PendingBarIs, PendingBarNext

\* A sender that begins to send the results e owes them to all its successors.
LEMMA PendingEmitted ==
  ASSUME TypeOK, OutboxInv, TypeOK', OutboxInv',
         NEW p \in Sender, outbox[p] = <<>>, pc[p] \notin Sending,
         NEW e \in Seq(Data), outbox'[p] = e, pc'[p] = "deliver",
         \A s \in Sender \ {p} : \A n \in Node : Unsent(s, n)' = Unsent(s, n),
         NEW n \in Node, NEW d
  PROVE  Total(Hold(n), d)'
           = Total(Hold(n), d) + (IF n \in Succ[From(p)] THEN N(e, d) ELSE 0)
<1>1. Hold(n)[p] = <<>>
  BY DEF Hold, Unsent, Given, Sending
<1>2. Hold(n)'[p] = IF n \in Succ[From(p)] THEN e ELSE <<>>
  BY DEF Hold, Unsent, Given
<1>3. \A s \in Sender \ {p} : Hold(n)'[s] = Hold(n)[s]
  BY DEF Hold
<1>4. Hold(n) \in [Sender -> Seq(Data)] /\ Hold(n)' \in [Sender -> Seq(Data)]
  BY HoldType, HoldNext
<1>5. Total(Hold(n)', d) + N(Hold(n)[p], d)
        = Total(Hold(n), d) + N(Hold(n)'[p], d)
  <2>1. ASSUME NEW u \in [Sender -> Seq(Data)], NEW v \in [Sender -> Seq(Data)],
               \A q \in Sender \ {p} : v[q] = u[q]
        PROVE  Total(v, d) + N(u[p], d) = Total(u, d) + N(v[p], d)
    BY <2>1, TotalChange
  <2> QED BY <1>3, <1>4, <2>1
<1>6. Total(Hold(n)', d) \in Nat /\ Total(Hold(n), d) \in Nat
  <2>1. \A u \in [Sender -> Seq(Data)] : Total(u, d) \in Nat
    BY HeldFinite
  <2> QED BY <1>4, <2>1
<1>7. Total(Hold(n), d)' = Total(Hold(n)', d)
  BY DEF Total, Held
<1> QED BY <1>1, <1>2, <1>5, <1>6, <1>7, PlacesEmpty

(***************************************************************************)
(* What is in line for a node that one process alone sends to.              *)
(***************************************************************************)
LEMMA FeederIs ==
  ASSUME NEW n \in OrderedBar
  PROVE  /\ n \in Node /\ Feeder[n] \in Sender
         /\ \A p \in Sender : n \in Succ[From(p)] <=> p = Feeder[n]
<1>1. n \in Node /\ \E p \in Sender : Preds(n) = {p}
  BY DEF OrderedBar
<1>2. Feeder[n] \in Sender /\ Preds(n) = {Feeder[n]}
  BY <1>1 DEF Feeder
<1> QED BY <1>1, <1>2 DEF Preds

LEMMA InLineNext ==
  ASSUME NEW n, NEW p, p = Feeder[n]
  PROVE  InLine(n) = queue[n] \o Unsent(p, n) /\ InLine(n)' = queue'[n] \o Unsent(p, n)'
BY DEF InLine, Feeder, OrderedBar, Preds, Group

LEMMA LineBarNext == LineBar' = [n \in OrderedBar |-> InLine(n)']
BY DEF LineBar, OrderedBar, Preds, Group

LEMMA LineKept ==
  ASSUME queue' = queue, \A s \in Sender : \A n \in Node : Unsent(s, n)' = Unsent(s, n)
  PROVE  LineBar' = LineBar
<1>1. ASSUME NEW n \in OrderedBar PROVE InLine(n)' = InLine(n)
  <2>1. PICK p \in Sender : p = Feeder[n]
    BY FeederIs
  <2>2. InLine(n) = queue[n] \o Unsent(p, n) /\ InLine(n)' = queue'[n] \o Unsent(p, n)'
    BY <2>1, InLineNext
  <2>3. Unsent(p, n)' = Unsent(p, n)
    BY FeederIs
  <2> QED BY <2>2, <2>3
<1> QED BY <1>1, LineBarNext DEF LineBar

\* A sender that begins to send the results e puts them at the end of the lines of its
\* successors, whose queues are now as q says.
LEMMA LineEmitted ==
  ASSUME TypeOK, NEW p \in Sender, outbox[p] = <<>>, pc[p] \notin Sending,
         NEW e \in Seq(Data), outbox'[p] = e, pc'[p] = "deliver",
         \A s \in Sender \ {p} : \A n \in Node : Unsent(s, n)' = Unsent(s, n),
         NEW n \in OrderedBar, NEW q \in Seq(Data), queue'[n] = q
  PROVE  InLine(n)' = IF n \in Succ[From(p)] THEN (q \o Unsent(Feeder[n], n)) \o e
                      ELSE q \o Unsent(Feeder[n], n)
<1>1. PICK f \in Sender : f = Feeder[n]
  BY FeederIs
<1>2. InLine(n)' = q \o Unsent(f, n)'
  BY <1>1, InLineNext
<1>3. CASE n \in Succ[From(p)]
  <2>1. f = p
    BY <1>1, <1>3, FeederIs
  <2>2. Unsent(p, n) = <<>>
    BY DEF Unsent, Given, Sending
  <2>3. Unsent(p, n)' = e
    BY <1>3 DEF Unsent, Given
  <2>4. q \o <<>> = q
    OBVIOUS
  <2> QED BY <1>1, <1>2, <1>3, <2>1, <2>2, <2>3, <2>4
<1>4. CASE n \notin Succ[From(p)]
  <2>1. f \in Sender \ {p} /\ n \in Node
    BY <1>1, <1>4, FeederIs
  <2>2. Unsent(f, n)' = Unsent(f, n)
    BY <2>1
  <2> QED BY <1>1, <1>2, <1>4, <2>2
<1> QED BY <1>3, <1>4

\* The first value of one sequence moves to the end of the other.
LEMMA MovedOver ==
  ASSUME NEW S, NEW q \in Seq(S), NEW o \in Seq(S), o # <<>>
  PROVE  Append(q, Head(o)) \o Tail(o) = q \o o
<1>1. /\ Head(o) \in S /\ Tail(o) \in Seq(S) /\ Len(Tail(o)) = Len(o) - 1 /\ Len(o) > 0
      /\ \A i \in 1 .. Len(Tail(o)) : Tail(o)[i] = o[i + 1]
      /\ Head(o) = o[1] /\ Len(o) \in Nat /\ Len(q) \in Nat
  OBVIOUS
<1>2. Append(q, Head(o)) \in Seq(S)
  BY <1>1
<1>3. PICK a \in Seq(S) : a = Append(q, Head(o))
  BY <1>2
<1>4. PICK t \in Seq(S) : t = Tail(o)
  BY <1>1
<1>5. /\ Len(a) = Len(q) + 1 /\ a[Len(q) + 1] = Head(o)
      /\ \A i \in 1 .. Len(q) : a[i] = q[i]
  BY <1>1, <1>3
<1>6. /\ a \o t \in Seq(S) /\ Len(a \o t) = Len(q) + Len(o)
      /\ q \o o \in Seq(S) /\ Len(q \o o) = Len(q) + Len(o)
      /\ Len(t) = Len(o) - 1
  BY <1>1, <1>4, <1>5
<1>7. /\ \A i \in 1 .. Len(a) : (a \o t)[i] = a[i]
      /\ \A k \in 1 .. Len(t) : (a \o t)[Len(a) + k] = t[k]
      /\ \A i \in 1 .. Len(q) : (q \o o)[i] = q[i]
      /\ \A k \in 1 .. Len(o) : (q \o o)[Len(q) + k] = o[k]
      /\ \A k \in 1 .. Len(t) : t[k] = o[k + 1]
  BY <1>1, <1>4
<1>8. ASSUME NEW i \in 1 .. (Len(q) + Len(o)) PROVE (a \o t)[i] = (q \o o)[i]
  <2>1. CASE i <= Len(q)
    BY <1>1, <1>5, <1>7, <2>1
  <2>2. CASE i = Len(q) + 1
    BY <1>1, <1>5, <1>7, <2>2
  <2>3. CASE i > Len(q) + 1
    <3>1. /\ i - (Len(q) + 1) \in 1 .. Len(t) /\ i - Len(q) \in 1 .. Len(o)
          /\ Len(a) + (i - (Len(q) + 1)) = i /\ Len(q) + (i - Len(q)) = i
          /\ (i - (Len(q) + 1)) + 1 = i - Len(q)
      BY <1>1, <1>5, <1>6, <2>3
    <3>2. PICK j \in 1 .. Len(t), k \in 1 .. Len(o) :
            Len(a) + j = i /\ Len(q) + k = i /\ j + 1 = k
      BY <3>1
    <3>3. (a \o t)[i] = t[j]
      BY <1>7, <3>2
    <3>4. (q \o o)[i] = o[k]
      BY <1>7, <3>2
    <3>5. t[j] = o[k]
      BY <1>7, <3>2
    <3> QED BY <3>3, <3>4, <3>5
  <2>4. i <= Len(q) \/ i = Len(q) + 1 \/ i > Len(q) + 1
    BY <1>1
  <2> QED BY <2>1, <2>2, <2>3, <2>4
<1>9. a \o t = q \o o
  BY <1>6, <1>8, SeqEqual
<1> QED BY <1>3, <1>4, <1>9

\* The first value is taken from the first of two sequences.
LEMMA TakenFromLine ==
  ASSUME NEW S, NEW q \in Seq(S), NEW o \in Seq(S), q # <<>>
  PROVE  /\ q \o o # <<>> /\ Head(q \o o) = Head(q)
         /\ Tail(q \o o) = Tail(q) \o o
<1>0. q \o o \in Seq(S)
  BY ConcatProperties
<1>1. PICK c \in Seq(S) : c = q \o o
  BY <1>0
<1>2. Tail(q) \in Seq(S)
  OBVIOUS
<1>3. PICK t \in Seq(S) : t = Tail(q)
  BY <1>2
<1>4. /\ Len(q) \in Nat /\ Len(o) \in Nat /\ Len(q) > 0 /\ Len(c) = Len(q) + Len(o)
      /\ Len(t) = Len(q) - 1
      /\ \A i \in 1 .. Len(q) : c[i] = q[i]
      /\ \A i \in 1 .. Len(o) : c[Len(q) + i] = o[i]
      /\ \A i \in 1 .. Len(t) : t[i] = q[i + 1]
  BY <1>1, <1>3
<1>5. c # <<>> /\ Head(c) = Head(q)
  BY <1>1, <1>4
<1>6. /\ Tail(c) \in Seq(S) /\ Len(Tail(c)) = Len(q) + Len(o) - 1
      /\ \A i \in 1 .. (Len(q) + Len(o) - 1) : Tail(c)[i] = c[i + 1]
  <2>1. Tail(c) \in Seq(S) /\ Len(Tail(c)) = Len(c) - 1
    BY <1>5
  <2>2. \A i \in 1 .. (Len(c) - 1) : Tail(c)[i] = c[i + 1]
    BY <1>5
  <2> QED BY <1>4, <2>1, <2>2
<1>7. /\ t \o o \in Seq(S) /\ Len(t \o o) = Len(q) + Len(o) - 1
      /\ \A i \in 1 .. Len(t) : (t \o o)[i] = t[i]
      /\ \A k \in 1 .. Len(o) : (t \o o)[Len(t) + k] = o[k]
  <2>1. t \o o \in Seq(S) /\ Len(t \o o) = Len(t) + Len(o)
    BY ConcatProperties
  <2> QED BY <1>4, <2>1
<1>8. ASSUME NEW i \in 1 .. (Len(q) + Len(o) - 1) PROVE Tail(c)[i] = (t \o o)[i]
  <2>1. CASE i <= Len(t)
    <3>1. i \in 1 .. Len(t) /\ i + 1 \in 1 .. Len(q)
      BY <1>4, <2>1
    <3>2. Tail(c)[i] = c[i + 1] /\ c[i + 1] = q[i + 1]
      BY <1>4, <1>6, <3>1
    <3>3. (t \o o)[i] = t[i] /\ t[i] = q[i + 1]
      BY <1>4, <1>7, <3>1
    <3> QED BY <3>2, <3>3
  <2>2. CASE i > Len(t)
    <3>1. /\ i - Len(t) \in 1 .. Len(o) /\ Len(t) + (i - Len(t)) = i
          /\ Len(q) + (i - Len(t)) = i + 1
      BY <1>4, <2>2
    <3>2. (t \o o)[i] = o[i - Len(t)] /\ c[i + 1] = o[i - Len(t)]
      BY <1>4, <1>7, <3>1
    <3> QED BY <1>6, <3>2
  <2> QED BY <1>4, <2>1, <2>2
<1>9. Tail(c) = t \o o
  BY <1>6, <1>7, <1>8, SeqEqual
<1> QED BY <1>1, <1>3, <1>5, <1>9

(***************************************************************************)
(* What the computation sees of the control of the threads.                 *)
(***************************************************************************)
LEMMA CVarsAre ==
  /\ C!vars = <<PendingBar, LineBar, StartedBar, TerminatedBar, input, results>>
  /\ C!vars' = <<PendingBar', LineBar', StartedBar', TerminatedBar', input', results'>>
BY DEF C!vars

LEMMA TerminatedKept ==
  ASSUME \A p \in Process : pc'[p] \in Ended <=> pc[p] \in Ended
  PROVE  TerminatedBar' = TerminatedBar
<1>1. \A t \in Thread : t \in Process
  BY DEF Process
<1>2. \A g : \A t \in Group(g) : t \in Process
  BY <1>1 DEF Group
<1> QED BY <1>2 DEF TerminatedBar, Process

LEMMA StartedKept ==
  ASSUME \A t \in Thread : GroupOf[t] \in AutoStart => Begun(t)' = Begun(t)
  PROVE  StartedBar' = StartedBar
<1>1. ASSUME NEW g \in AutoStart
      PROVE  {t \in Group(g) : Begun(t)'} = {t \in Group(g) : Begun(t)}
  BY DEF Group
<1> QED BY <1>1 DEF StartedBar

\* A step that changes nothing the computation sees.
LEMMA Quiet ==
  ASSUME UNCHANGED <<queue, input, results>>,
         \A s \in Sender : \A n \in Node : Unsent(s, n)' = Unsent(s, n),
         \A p \in Process : pc'[p] \in Ended <=> pc[p] \in Ended,
         \A t \in Thread : GroupOf[t] \in AutoStart => Begun(t)' = Begun(t)
  PROVE  UNCHANGED C!vars
<1>1. PendingBar' = PendingBar
  BY PendingKept
<1>2. TerminatedBar' = TerminatedBar /\ StartedBar' = StartedBar
  BY TerminatedKept, StartedKept
<1>3. LineBar' = LineBar
  BY LineKept
<1> QED BY <1>1, <1>2, <1>3, CVarsAre

(***************************************************************************)
(* The initial states.                                                      *)
(***************************************************************************)
LEMMA InitRefines == Init => C!Init
<1> SUFFICES ASSUME Init PROVE C!Init
  OBVIOUS
<1>0. /\ \A p \in Process : pc[p] \in {"user", "lock", "idle"}
      /\ \A t \in Thread : t \in Process /\ pc[t] = "idle"
      /\ Source \in Process /\ Reader \in Process
      /\ \A n \in Node : queue[n] = <<>>
      /\ \A s \in Sender : s \in Process /\ outbox[s] = <<>>
      /\ input = Input /\ results = <<>>
  BY ProcessAssumption DEF Init, Process, Sender
<1>1. PendingBar = [n \in Node |-> [d \in Data |-> 0]]
  <2> SUFFICES ASSUME NEW n \in Node, NEW d \in Data PROVE Copies(n, d) = 0
    BY PendingBarIs
  <2>1. \A s \in Sender : Hold(n)[s] = <<>>
    BY <1>0 DEF Hold, Unsent, Given
  <2>2. \A s \in Sender : Places(Hold(n)[s], d) = {}
    BY <2>1 DEF Places
  <2>3. Total(Hold(n), d) = 0
    BY <2>2, NothingHeld
  <2> QED BY <1>0, <2>3, PlacesEmpty DEF Copies
<1>2. StartedBar = [g \in Task |-> 0]
  <2>1. ASSUME NEW g PROVE Cardinality({t \in Group(g) : Begun(t)}) = 0
    <3>1. {t \in Group(g) : Begun(t)} = {}
      BY <1>0 DEF Group, Begun
    <3> QED BY <3>1, FS_EmptySet
  <2> QED BY <2>1 DEF StartedBar
<1>3. TerminatedBar = {}
  <2>1. pc[Source] \notin Ended /\ pc[Reader] \notin Ended
    BY <1>0 DEF Ended
  <2>2. \A g \in Task : \E t \in Group(g) : pc[t] \notin Ended
    BY <1>0, ThreadAssumption DEF Group, Ended
  <2> QED BY <2>1, <2>2 DEF TerminatedBar
<1>4. LineBar = [n \in OrderedBar |-> <<>>]
  <2>1. ASSUME NEW n \in OrderedBar PROVE InLine(n) = <<>>
    <3>1. queue[n] = <<>> /\ Unsent(Feeder[n], n) = <<>>
      BY <1>0, FeederIs DEF Unsent, Given
    <3>2. <<>> \o <<>> = <<>>
      OBVIOUS
    <3> QED BY <3>1, <3>2 DEF InLine
  <2> QED BY <2>1 DEF LineBar
<1> QED
  BY <1>0, <1>1, <1>2, <1>3, <1>4 DEF C!Init, C!Node, Node

(***************************************************************************)
(* Termination.                                                             *)
(***************************************************************************)
LEMMA ClosedNode ==
  ASSUME TypeOK, ControlInv, NEW n \in Node, notifiers[n] = {}, queue[n] = <<>>
  PROVE  /\ C!Feeders(n) \subseteq TerminatedBar
         /\ \A d \in Data : PendingBar[n][d] = 0
<1>1. ASSUME NEW s \in Sender, n \in Succ[From(s)]
      PROVE  pc[s] \in Ended /\ outbox[s] = <<>>
  BY <1>1 DEF ControlInv, NotifierInv, OutboxInv, Ended, Sending
<1>2. ASSUME NEW g \in C!Feeders(n) PROVE g \in TerminatedBar
  <2>1. g \in Task \cup {Source} /\ n \in Succ[g]
    BY DEF C!Feeders
  <2>2. CASE g = Source
    BY <1>1, <2>1, <2>2 DEF TerminatedBar, Sender, From
  <2>3. CASE g \in Task
    <3>1. \A t \in Group(g) : t \in Sender /\ From(t) = g
      BY GroupType DEF Group
    <3> QED BY <1>1, <2>1, <2>3, <3>1 DEF TerminatedBar
  <2> QED BY <2>1, <2>2, <2>3
<1>3. ASSUME NEW d \in Data PROVE Copies(n, d) = 0
  <2>1. \A s \in Sender : Hold(n)[s] = <<>>
    BY <1>1 DEF Hold, Unsent, Given, Ended
  <2>2. \A s \in Sender : Places(Hold(n)[s], d) = {}
    BY <2>1 DEF Places
  <2>3. Total(Hold(n), d) = 0
    BY <2>2, NothingHeld
  <2> QED BY <2>3, PlacesEmpty DEF Copies
<1> QED BY <1>2, <1>3, PendingBarIs

\* A process decides to terminate: its node does when it is the last to do so.
LEMMA DecideToEnd ==
  ASSUME TypeOK, ControlInv, NEW p \in Sleeper,
         pc[p] \in {"checkEmpty", "decideEmpty"}, queue[Home(p)] = <<>>,
         NEW l \in {"disconnect", "done"}, pc' = [pc EXCEPT ![p] = l],
         UNCHANGED <<queue, outbox, input, results>>,
         \A s \in Sender \ {p} : todo'[s] = todo[s]
  PROVE  [C!Next]_C!vars
<1>0. /\ p \in Process /\ Home(p) \in Node /\ notifiers[Home(p)] = {}
      /\ p # Source /\ Source \in Process /\ Reader \in Process
      /\ \A s \in Sender : s \in Process
      /\ \A t \in Thread : t \in Process
  BY HomeType, FromType, ProcessAssumption
  DEF ControlInv, DrainInv, Process, Sleeper
<1>1. /\ pc[p] \notin Ended /\ l \in Ended /\ pc'[p] = l
      /\ \A q \in Process \ {p} : pc'[q] = pc[q]
  BY <1>0 DEF Ended, TypeOK
<1>2. PendingBar' = PendingBar /\ LineBar' = LineBar
  <2>1. ASSUME NEW s \in Sender, NEW n \in Node PROVE Unsent(s, n)' = Unsent(s, n)
    BY <1>0, <1>1 DEF Unsent, Given
  <2> QED BY <2>1, PendingKept, LineKept
<1>3. StartedBar' = StartedBar
  <2>1. \A t \in Thread : Begun(t)' = Begun(t)
    BY <1>0, <1>1 DEF Begun
  <2> QED BY <2>1, StartedKept
<1>4. results' = results /\ input' = input
  OBVIOUS
<1>5. /\ C!Feeders(Home(p)) \subseteq TerminatedBar
      /\ \A d \in Data : PendingBar[Home(p)][d] = 0
  BY <1>0, ClosedNode
<1>6. ASSUME Home(p) \notin TerminatedBar,
             TerminatedBar' = TerminatedBar \cup {Home(p)},
             Home(p) \in Task => StartedBar[Home(p)] = StartsBar[Home(p)]
      PROVE  C!Next
  <2>1. C!Terminate(Home(p))
    BY <1>2, <1>3, <1>4, <1>5, <1>6 DEF C!Terminate
  <2> QED BY <1>0, <2>1 DEF C!Next, C!Node, Node
<1>7. CASE p = Reader
  <2>1. \A t \in Thread : t # Reader
    BY ProcessAssumption
  <2>2. \A g : \A t \in Group(g) : pc'[t] = pc[t]
    BY <1>0, <1>1, <1>7, <2>1 DEF Group
  <2>3. /\ Home(p) = Sink /\ Sink \notin Task /\ Sink # Source
    BY <1>7, ProcessAssumption DEF Home
  <2>4. Sink \notin TerminatedBar
    BY <1>1, <1>7, <2>3 DEF TerminatedBar
  <2>5. TerminatedBar' = TerminatedBar \cup {Sink}
    BY <1>0, <1>1, <1>7, <2>2, <2>3 DEF TerminatedBar
  <2> QED BY <1>6, <2>3, <2>4, <2>5
<1>8. ASSUME p \in Thread, \A t \in Group(GroupOf[p]) \ {p} : pc[t] \in Ended
      PROVE  C!Next
  <2> DEFINE g == GroupOf[p]
  <2>1. /\ g \in Task /\ Home(p) = g /\ g # Sink /\ g # Source /\ p # Reader
        /\ p \in Group(g)
    BY <1>8, GroupType, ProcessAssumption DEF Group
  <2>2. g \notin TerminatedBar
    BY <1>1, <2>1 DEF TerminatedBar
  <2>3. \A h \in Task : \A t \in Group(h) : pc'[t] # pc[t] => h = g
    BY <1>0, <1>1 DEF Group
  <2>4. \A t \in Group(g) : pc'[t] \in Ended
    BY <1>0, <1>1, <1>8 DEF Group
  <2>5. TerminatedBar' = TerminatedBar \cup {g}
    BY <1>0, <1>1, <2>1, <2>3, <2>4 DEF TerminatedBar
  <2>6. \A t \in Group(g) : Begun(t)
    BY <1>8 DEF Begun, Ended
  <2>7. {t \in Group(g) : Begun(t)} = Group(g)
    BY <2>6
  <2>8. StartedBar[g] = StartsBar[g]
    BY <2>1, <2>7 DEF StartedBar, StartsBar
  <2> QED BY <1>6, <2>1, <2>2, <2>5, <2>8
<1>9. ASSUME p \in Thread, NEW q \in Group(GroupOf[p]) \ {p}, pc[q] \notin Ended
      PROVE  UNCHANGED C!vars
  <2>1. q \in Thread /\ pc'[q] = pc[q] /\ p # Reader
    BY <1>0, <1>1, <1>9, ProcessAssumption DEF Group
  <2>2. \A h \in Task : \A t \in Group(h) : pc'[t] # pc[t] => q \in Group(h)
    BY <1>0, <1>1, <1>9 DEF Group
  <2>3. TerminatedBar' = TerminatedBar
    BY <1>0, <1>1, <1>9, <2>1, <2>2 DEF TerminatedBar
  <2> QED BY <1>2, <1>3, <1>4, <2>3, CVarsAre
<1> QED BY <1>7, <1>8, <1>9 DEF Sleeper

(***************************************************************************)
(* The data.                                                                *)
(***************************************************************************)

\* What a node receives is what its sender no longer holds.
LEMMA ReceiveRefines ==
  ASSUME TypeOK, ControlInv, TypeOK', ControlInv', NEW p \in Sender, Receive(p)
  PROVE  UNCHANGED C!vars
<1>1. PICK m \in todo[p] :
        /\ queue' = [queue EXCEPT ![m] = Append(@, Head(outbox[p]))]
        /\ todo' = [todo EXCEPT ![p] = @ \ {m}]
  BY DEF Receive
<1>2. /\ pc[p] = "send" /\ m \in Succ[From(p)] /\ m \in Node
      /\ UNCHANGED <<pc, outbox, input, results>>
  BY DEF Receive, ControlInv, SendInv, TypeOK
<1>3. outbox[p] \in Seq(Data) /\ outbox[p] # <<>> /\ Head(outbox[p]) \in Data
  <2>1. outbox[p] \in Seq(Data) /\ outbox[p] # <<>>
    BY <1>2 DEF ControlInv, OutboxInv, TypeOK
  <2> QED BY <2>1
<1>4. ASSUME NEW s \in Sender, NEW n \in Node, s # p \/ n # m
      PROVE  Unsent(s, n)' = Unsent(s, n)
  BY <1>1, <1>2, <1>4 DEF Unsent, Given, TypeOK
<1>5. Unsent(p, m) = outbox[p] /\ Unsent(p, m)' = Tail(outbox[p])
  BY <1>1, <1>2 DEF Unsent, Given, TypeOK
<1>6. ASSUME NEW n \in Node, n # m, NEW d \in Data
      PROVE  Copies(n, d)' = Copies(n, d)
  <2>1. queue'[n] = queue[n]
    BY <1>1, <1>6 DEF TypeOK
  <2>2. Hold(n)' = Hold(n)
    BY <1>4, <1>6 DEF Hold
  <2> QED BY <2>1, <2>2 DEF Copies
<1>7. ASSUME NEW d \in Data PROVE Copies(m, d)' = Copies(m, d)
  <2> DEFINE one == IF Head(outbox[p]) = d THEN 1 ELSE 0
  <2>1. N(queue'[m], d) = N(queue[m], d) + one
    <3>1. queue[m] \in Seq(Data) /\ queue'[m] = Append(queue[m], Head(outbox[p]))
      BY <1>1, <1>2 DEF TypeOK
    <3> QED BY <1>3, <3>1, PlacesAppend
  <2>2. N(outbox[p], d) = N(Tail(outbox[p]), d) + one
    BY <1>3, PlacesTail
  <2>3. Total(Hold(m)', d) + N(Hold(m)[p], d)
          = Total(Hold(m), d) + N(Hold(m)'[p], d)
    <3>1. /\ Hold(m) \in [Sender -> Seq(Data)] /\ Hold(m)' \in [Sender -> Seq(Data)]
          /\ \A q \in Sender \ {p} : Hold(m)'[q] = Hold(m)[q]
      BY <1>2, <1>4, HoldType, HoldNext DEF ControlInv, Hold
    <3> QED BY <3>1, TotalChange
  <2>4. Hold(m)[p] = outbox[p] /\ Hold(m)'[p] = Tail(outbox[p])
    BY <1>5 DEF Hold
  <2>5. /\ Total(Hold(m), d) \in Nat /\ N(queue[m], d) \in Nat
        /\ N(Tail(outbox[p]), d) \in Nat
    <3>1. Tail(outbox[p]) \in Seq(Data)
      BY <1>3
    <3> QED BY <1>2, <3>1, CopiesType, PlacesFinite DEF ControlInv
  <2>6. Total(Hold(m)', d) \in Nat
    <3>1. \A u \in [Sender -> Seq(Data)] : Total(u, d) \in Nat
      BY HeldFinite
    <3> QED BY <3>1, HoldNext DEF ControlInv
  <2>7. Copies(m, d)' = N(queue'[m], d) + Total(Hold(m)', d)
    BY DEF Copies, N, Total, Held
  <2> HIDE DEF one
  <2>8. one \in Nat
    BY DEF one
  <2> QED BY <2>1, <2>2, <2>3, <2>4, <2>5, <2>6, <2>7, <2>8 DEF Copies
<1>8. PendingBar' = PendingBar
  BY <1>6, <1>7, PendingBarIs, PendingBarNext
<1>9. TerminatedBar' = TerminatedBar /\ StartedBar' = StartedBar
  BY <1>2, TerminatedKept, StartedKept DEF Begun
<1>10. LineBar' = LineBar
  <2>1. ASSUME NEW n \in OrderedBar PROVE InLine(n)' = InLine(n)
    <3>1. PICK f \in Sender : f = Feeder[n]
      BY FeederIs
    <3>2. /\ InLine(n) = queue[n] \o Unsent(f, n)
          /\ InLine(n)' = queue'[n] \o Unsent(f, n)'
      BY <3>1, InLineNext
    <3>3. n \in Node /\ (n = m => f = p)
      BY <1>2, <3>1, FeederIs
    <3>4. CASE n = m
      <4>1. queue[m] \in Seq(Data) /\ queue'[m] = Append(queue[m], Head(outbox[p]))
        BY <1>1, <1>2 DEF TypeOK
      <4>2. Append(queue[m], Head(outbox[p])) \o Tail(outbox[p]) = queue[m] \o outbox[p]
        BY <1>3, <4>1, MovedOver
      <4> QED BY <1>5, <3>2, <3>3, <3>4, <4>1, <4>2
    <3>5. CASE n # m
      <4>1. queue'[n] = queue[n]
        BY <1>1, <3>3, <3>5 DEF TypeOK
      <4> QED BY <1>4, <3>2, <3>3, <3>5, <4>1
    <3> QED BY <3>4, <3>5
  <2> QED BY <2>1, LineBarNext DEF LineBar
<1> QED BY <1>2, <1>8, <1>9, <1>10, CVarsAre

\* The processes other than p hold what they held.
LEMMA OthersKept ==
  ASSUME TypeOK, NEW p \in Process, NEW l \in PC, pc' = [pc EXCEPT ![p] = l],
         todo' = todo, \A s \in Sender \ {p} : outbox'[s] = outbox[s]
  PROVE  \A s \in Sender \ {p} : \A n \in Node : Unsent(s, n)' = Unsent(s, n)
<1>1. \A s \in Sender \ {p} : pc'[s] = pc[s]
  BY FromType DEF TypeOK
<1> QED BY <1>1 DEF Unsent, Given

\* The abstract specification counts with the same operator.
LEMMA CardinalityIs == \A S : C!Cardinality(S) = Cardinality(S)
BY DEF C!Cardinality, Cardinality, C!IsFiniteSet, IsFiniteSet

LEMMA SentIs ==
  ASSUME NEW b, NEW g, NEW e
  PROVE  C!Sent(b, g, e) =
           [n \in Node |-> [d \in Data |->
              b[n][d] + (IF n \in Succ[g] THEN N(e, d) ELSE 0)]]
<1>1. \A d : C!Count(e, d) = N(e, d)
  BY CardinalityIs, Zenon DEF C!Count, N, Places
<1>2. C!Node = Node
  BY DEF C!Node, Node
<1> QED BY <1>1, <1>2, Zenon DEF C!Sent

LEMMA PendingBarType ==
  ASSUME TypeOK, ControlInv
  PROVE  PendingBar \in [Node -> [Data -> Nat]]
BY PendingBarIs, CopiesType DEF ControlInv

\* An automatic start is one of the starts its task has left to make.
LEMMA StartRefines ==
  ASSUME TypeOK, ControlInv, TypeOK', ControlInv',
         NEW t \in Thread, Start(t), GroupOf[t] \in AutoStart
  PROVE  C!AutomaticStart(GroupOf[t])
<1> DEFINE g == GroupOf[t]
           e == Emit[<<g, Nullptr>>]
           Before == {u \in Group(g) : Begun(u)}
           After  == {u \in Group(g) : Begun(u)'}
<1>0. /\ t \in Process /\ t \in Sender /\ g \in Task /\ From(t) = g
      /\ g # Sink /\ g # Source /\ t \in Group(g) /\ e \in Seq(Data)
      /\ \A u \in Thread : u \in Process
  BY GroupType, HomeType, WiringAssumption, ProcessAssumption DEF Group, Process
<1>1. /\ pc[t] = "start" /\ pc' = [pc EXCEPT ![t] = "deliver"]
      /\ outbox' = [outbox EXCEPT ![t] = e]
      /\ UNCHANGED <<queue, todo, input, results>>
  BY DEF Start, Goto
<1>2. /\ pc'[t] = "deliver" /\ outbox'[t] = e /\ outbox[t] = <<>>
      /\ \A s \in Sender \ {t} : outbox'[s] = outbox[s]
      /\ \A q \in Process \ {t} : pc'[q] = pc[q]
  BY <1>0, <1>1 DEF TypeOK, ControlInv, OutboxInv, Sending
<1>3. \A s \in Sender \ {t} : \A n \in Node : Unsent(s, n)' = Unsent(s, n)
  BY <1>0, <1>1, <1>2, OthersKept DEF PC, Sending
<1>4. ASSUME NEW n \in Node, NEW d \in Data
      PROVE  Copies(n, d)'
               = Copies(n, d) + (IF n \in Succ[g] THEN N(e, d) ELSE 0)
  <2>1. Total(Hold(n), d)'
          = Total(Hold(n), d) + (IF n \in Succ[g] THEN N(e, d) ELSE 0)
    BY <1>0, <1>1, <1>2, <1>3, PendingEmitted DEF ControlInv, Sending
  <2>2. Copies(n, d)' = N(queue[n], d) + Total(Hold(n), d)'
    BY <1>1 DEF Copies
  <2>3. /\ N(queue[n], d) \in Nat /\ Total(Hold(n), d) \in Nat /\ N(e, d) \in Nat
    BY <1>0, CopiesType, PlacesFinite DEF ControlInv
  <2> HIDE DEF e
  <2> QED BY <2>1, <2>2, <2>3 DEF Copies
<1>5. PendingBar' = C!Sent(PendingBar, g, e)
  <2> HIDE DEF e
  <2>1. C!Sent(PendingBar, g, e) =
          [n \in Node |-> [d \in Data |->
             PendingBar[n][d] + (IF n \in Succ[g] THEN N(e, d) ELSE 0)]]
    BY SentIs
  <2>2. \A n \in Node, d \in Data : PendingBar[n][d] = Copies(n, d)
    BY PendingBarIs
  <2> QED BY <1>4, <2>1, <2>2, PendingBarNext
<1>6. /\ g \notin TerminatedBar
      /\ TerminatedBar' = TerminatedBar
  <2>1. \A p \in Process : pc'[p] \in Ended <=> pc[p] \in Ended
    BY <1>1, <1>2 DEF Ended
  <2> QED BY <1>0, <1>1, <2>1, TerminatedKept DEF TerminatedBar, Ended
<1>7. After = Before \cup {t} /\ t \notin Before /\ t \in Group(g)
  BY <1>0, <1>1, <1>2 DEF Group, Begun
<1>8. /\ IsFiniteSet(Group(g)) /\ IsFiniteSet(Before)
      /\ Cardinality(After) = Cardinality(Before) + 1
      /\ Cardinality(Before) \in Nat
      /\ Cardinality(Before) < Cardinality(Group(g))
  <2>1. IsFiniteSet(Group(g)) /\ Cardinality(Group(g)) \in Nat
    BY ThreadAssumption, FS_Subset, FS_CardinalityType DEF Group
  <2>2. Before \in SUBSET Group(g) /\ Before # Group(g)
    BY <1>7
  <2>3. IsFiniteSet(Before) /\ Cardinality(Before) \in Nat
        /\ Cardinality(Before) <= Cardinality(Group(g))
        /\ Cardinality(Before) # Cardinality(Group(g))
    <3> HIDE DEF Before
    <3> QED BY <2>1, <2>2, FS_Subset, FS_CardinalityType
  <2>4. Cardinality(After) = Cardinality(Before) + 1
    BY <1>7, <2>3, FS_AddElement
  <2> QED BY <2>1, <2>3, <2>4
<1>9. ASSUME NEW h \in Task, h # g
      PROVE  {u \in Group(h) : Begun(u)'} = {u \in Group(h) : Begun(u)}
  <2>1. \A u \in Group(h) : u # t /\ u \in Process
    BY <1>0, <1>9 DEF Group
  <2> QED BY <1>2, <2>1 DEF Begun
<1>10. /\ StartedBar' = [StartedBar EXCEPT ![g] = @ + 1]
       /\ StartedBar[g] < StartsBar[g]
  <2>1. StartedBar[g] = Cardinality(Before) /\ StartsBar[g] = Cardinality(Group(g))
    BY <1>0 DEF StartedBar, StartsBar
  <2>2. StartedBar'[g] = Cardinality(After)
    BY <1>0 DEF StartedBar
  <2>3. ASSUME NEW h \in Task, h # g PROVE StartedBar'[h] = StartedBar[h]
    BY <1>9, <2>3 DEF StartedBar
  <2>4. /\ StartedBar = [h \in Task |-> StartedBar[h]]
        /\ StartedBar' = [h \in Task |-> StartedBar'[h]]
    BY DEF StartedBar
  <2> HIDE DEF Before, After
  <2>5. StartedBar'[g] = StartedBar[g] + 1
    BY <1>8, <2>1, <2>2
  <2> QED BY <1>0, <1>8, <2>1, <2>3, <2>4, <2>5
<1>11. LineBar' = C!Lengthened(LineBar, g, e)
  <2> HIDE DEF e
  <2>1. ASSUME NEW n \in OrderedBar
        PROVE  InLine(n)' = IF n \in Succ[g] THEN InLine(n) \o e ELSE InLine(n)
    <3>1. queue[n] \in Seq(Data) /\ queue'[n] = queue[n] /\ pc[t] \notin Sending
      BY <1>1, FeederIs DEF TypeOK, Sending
    <3>2. InLine(n)' = IF n \in Succ[g] THEN (queue[n] \o Unsent(Feeder[n], n)) \o e
                       ELSE queue[n] \o Unsent(Feeder[n], n)
      BY <1>0, <1>2, <1>3, <3>1, LineEmitted
    <3> QED BY <3>2 DEF InLine
  <2> QED BY <2>1, LineBarNext DEF LineBar, C!Lengthened
<1> QED
  BY <1>1, <1>5, <1>6, <1>10, <1>11 DEF C!AutomaticStart

\* A thread that takes a value executes it.
LEMMA ExecuteRefines ==
  ASSUME TypeOK, ControlInv, TypeOK', ControlInv',
         NEW t \in Thread, GetInputData(t), queue[GroupOf[t]] # <<>>
  PROVE  \E d \in Data : C!Execute(GroupOf[t], d)
<1> DEFINE g == GroupOf[t]
           h == Head(queue[g])
           e == Emit[<<g, h>>]
<1>0. /\ t \in Process /\ t \in Sender /\ g \in Task /\ g \in Node
      /\ From(t) = g /\ g # Sink /\ g # Source /\ t \in Group(g)
  BY GroupType, HomeType, ProcessAssumption DEF Group, Node
<1>1. /\ pc[t] = "get" /\ pc' = [pc EXCEPT ![t] = "deliver"]
      /\ outbox' = [outbox EXCEPT ![t] = e]
      /\ queue' = [queue EXCEPT ![g] = Tail(@)]
      /\ UNCHANGED <<todo, input, results>>
  BY DEF GetInputData, Goto
<1>2. /\ pc'[t] = "deliver" /\ outbox'[t] = e /\ outbox[t] = <<>>
      /\ \A s \in Sender \ {t} : outbox'[s] = outbox[s]
      /\ \A q \in Process \ {t} : pc'[q] = pc[q]
      /\ queue[g] \in Seq(Data)
      /\ queue'[g] = Tail(queue[g])
      /\ \A n \in Node \ {g} : queue'[n] = queue[n]
  BY <1>0, <1>1 DEF TypeOK, ControlInv, OutboxInv, Sending
<1>3. h \in Data /\ Tail(queue[g]) \in Seq(Data)
  BY <1>2
<1>4. e \in Seq(Data)
  BY <1>0, <1>3, WiringAssumption
<1>5. \A s \in Sender \ {t} : \A n \in Node : Unsent(s, n)' = Unsent(s, n)
  BY <1>0, <1>1, <1>2, OthersKept DEF PC, Sending
<1> HIDE DEF e, h
<1> DEFINE b == [PendingBar EXCEPT ![g][h] = @ - 1]
<1>6. PendingBar[g][h] > 0
  <2>1. /\ N(queue[g], h) = N(Tail(queue[g]), h) + 1
        /\ N(Tail(queue[g]), h) \in Nat /\ Total(Hold(g), h) \in Nat
    BY <1>0, <1>2, <1>3, PlacesTail, PlacesFinite, CopiesType
    DEF ControlInv, h
  <2>2. PendingBar[g][h] = Copies(g, h)
    BY <1>0, <1>3, PendingBarIs
  <2> QED BY <2>1, <2>2 DEF Copies
<1>7. /\ b \in [Node -> [Data -> Nat]]
      /\ \A n \in Node, d \in Data :
           b[n][d] = IF n = g /\ d = h THEN Copies(n, d) - 1 ELSE Copies(n, d)
  <2>1. PendingBar \in [Node -> [Data -> Nat]]
    BY PendingBarType
  <2>2. \A n \in Node, d \in Data : PendingBar[n][d] = Copies(n, d)
    BY PendingBarIs
  <2> QED BY <1>0, <1>3, <1>6, <2>1, <2>2
<1>8. ASSUME NEW n \in Node, NEW d \in Data
      PROVE  Copies(n, d)'
               = b[n][d] + (IF n \in Succ[g] THEN N(e, d) ELSE 0)
  <2>1. Total(Hold(n), d)'
          = Total(Hold(n), d) + (IF n \in Succ[g] THEN N(e, d) ELSE 0)
    <3>1. pc[t] \notin Sending
      BY <1>1 DEF Sending
    <3> QED BY <1>0, <1>2, <1>4, <1>5, <3>1, PendingEmitted DEF ControlInv
  <2>2. Copies(n, d)' = N(queue'[n], d) + Total(Hold(n), d)'
    BY DEF Copies
  <2>3. /\ N(queue[n], d) \in Nat /\ Total(Hold(n), d) \in Nat /\ N(e, d) \in Nat
    BY <1>4, CopiesType, PlacesFinite DEF ControlInv
  <2>4. N(queue'[n], d)
          = IF n = g /\ d = h THEN N(queue[n], d) - 1 ELSE N(queue[n], d)
    <3>1. CASE n = g
      <4>1. /\ N(queue[g], d) = N(Tail(queue[g]), d) + (IF h = d THEN 1 ELSE 0)
            /\ N(Tail(queue[g]), d) \in Nat
        <5>1. queue[g] # <<>>
          OBVIOUS
        <5> QED BY <1>2, <1>3, <5>1, PlacesTail, PlacesFinite DEF h
      <4> QED BY <1>2, <3>1, <4>1
    <3>2. CASE n # g
      BY <1>2, <3>2
    <3> QED BY <3>1, <3>2
  <2> HIDE DEF b
  <2> QED BY <1>7, <2>1, <2>2, <2>3, <2>4 DEF Copies
<1>9. PendingBar' = C!Sent(b, g, e)
  <2> HIDE DEF b
  <2>1. C!Sent(b, g, e) =
          [n \in Node |-> [d \in Data |->
             b[n][d] + (IF n \in Succ[g] THEN N(e, d) ELSE 0)]]
    BY SentIs
  <2> QED BY <1>8, <2>1, PendingBarNext
<1>10. /\ g \notin TerminatedBar
       /\ TerminatedBar' = TerminatedBar
  <2>1. \A p \in Process : pc'[p] \in Ended <=> pc[p] \in Ended
    BY <1>1, <1>2 DEF Ended
  <2> QED BY <1>0, <1>1, <2>1, TerminatedKept DEF TerminatedBar, Ended
<1>11. StartedBar' = StartedBar
  <2>1. \A u \in Thread : Begun(u)' = Begun(u)
    BY <1>1, <1>2, GroupType, HomeType DEF Begun
  <2> QED BY <2>1, StartedKept
<1>12. ASSUME NEW n \in OrderedBar
       PROVE  /\ Unsent(Feeder[n], n) \in Seq(Data)
              /\ queue[n] \in Seq(Data) /\ queue'[n] \in Seq(Data)
              /\ InLine(n)' = IF n \in Succ[g] THEN (queue'[n] \o Unsent(Feeder[n], n)) \o e
                              ELSE queue'[n] \o Unsent(Feeder[n], n)
  <2>1. Hold(n)[Feeder[n]] = Unsent(Feeder[n], n) /\ n \in Node
    BY FeederIs DEF Hold
  <2>2. Unsent(Feeder[n], n) \in Seq(Data)
    BY <2>1, FeederIs, HoldType DEF ControlInv
  <2>3. PICK q \in Seq(Data) : queue'[n] = q
    BY <2>1 DEF TypeOK
  <2>4. pc[t] \notin Sending
    BY <1>1 DEF Sending
  <2>5. InLine(n)' = IF n \in Succ[g] THEN (q \o Unsent(Feeder[n], n)) \o e
                     ELSE q \o Unsent(Feeder[n], n)
    BY <1>0, <1>2, <1>4, <1>5, <2>3, <2>4, LineEmitted
  <2> QED BY <2>1, <2>2, <2>3, <2>5 DEF TypeOK
<1>13. g \in OrderedBar =>
         /\ InLine(g) # <<>> /\ h = Head(InLine(g))
         /\ Tail(InLine(g)) = queue'[g] \o Unsent(Feeder[g], g)
  <2> SUFFICES ASSUME g \in OrderedBar
               PROVE  /\ InLine(g) # <<>> /\ h = Head(InLine(g))
                      /\ Tail(InLine(g)) = queue'[g] \o Unsent(Feeder[g], g)
    OBVIOUS
  <2>1. PICK o \in Seq(Data) : o = Unsent(Feeder[g], g)
    BY <1>12
  <2>2. PICK q \in Seq(Data) : q = queue[g] /\ q # <<>>
    BY <1>2
  <2>3. q \o o # <<>> /\ Head(q \o o) = Head(q) /\ Tail(q \o o) = Tail(q) \o o
    BY <2>2, TakenFromLine
  <2>4. InLine(g) = q \o o
    BY <2>1, <2>2 DEF InLine
  <2> QED BY <1>2, <2>1, <2>2, <2>3, <2>4 DEF h
<1>14. LineBar' = C!Lengthened(C!Shortened(LineBar, g), g, e)
  <2>1. ASSUME NEW n \in OrderedBar
        PROVE  C!Shortened(LineBar, g)[n] = queue'[n] \o Unsent(Feeder[n], n)
    <3>1. C!Shortened(LineBar, g)[n] = IF n = g THEN Tail(InLine(n)) ELSE InLine(n)
      BY DEF C!Shortened, LineBar
    <3>2. n # g => InLine(n) = queue'[n] \o Unsent(Feeder[n], n)
      BY <1>2, FeederIs DEF InLine
    <3> QED BY <1>13, <3>1, <3>2
  <2> QED BY <1>12, <2>1, LineBarNext DEF C!Lengthened
<1>15. C!Due(g, h)
  BY <1>6, <1>13 DEF C!Due, LineBar
<1>16. C!Execute(g, h)
  BY <1>1, <1>9, <1>10, <1>11, <1>14, <1>15 DEF C!Execute, e
<1> QED BY <1>3, <1>16

\* getBlockingResult takes one of the results pending for the user.
LEMMA CollectRefines ==
  ASSUME TypeOK, ControlInv, GetResult
  PROVE  \E d \in Data : C!Collect(d)
<1> DEFINE h == Head(queue[Sink])
           b == [PendingBar EXCEPT ![Sink][h] = @ - 1]
<1>0. /\ Reader \in Process /\ Sink \in Node /\ Reader \notin Sender
      /\ Sink \notin Task /\ Sink # Source
      /\ \A s \in Sender : s \in Process
  BY FromType, ProcessAssumption DEF Process, Node, Sender
<1>1. /\ pc[Reader] = "get" /\ pc' = [pc EXCEPT ![Reader] = "lock"]
      /\ queue[Sink] # <<>>
      /\ queue' = [queue EXCEPT ![Sink] = Tail(@)]
      /\ results' = Append(results, h)
      /\ UNCHANGED <<todo, outbox, input>>
  BY DEF GetResult, Goto
<1>2. /\ \A q \in Process \ {Reader} : pc'[q] = pc[q]
      /\ pc'[Reader] = "lock"
      /\ queue[Sink] \in Seq(Data) /\ results \in Seq(Data)
      /\ queue'[Sink] = Tail(queue[Sink])
      /\ \A n \in Node \ {Sink} : queue'[n] = queue[n]
  BY <1>0, <1>1 DEF TypeOK
<1>3. h \in Data /\ Tail(queue[Sink]) \in Seq(Data)
  BY <1>1, <1>2
<1>4. ASSUME NEW d \in Data
      PROVE  /\ N(queue[Sink], d)
                  = N(Tail(queue[Sink]), d) + (IF h = d THEN 1 ELSE 0)
             /\ N(Tail(queue[Sink]), d) \in Nat
             /\ Total(Hold(Sink), d) \in Nat
  BY <1>0, <1>1, <1>2, <1>3, PlacesTail, PlacesFinite, CopiesType
  DEF ControlInv
<1> HIDE DEF h
<1>5. \A n \in Node : Hold(n)' = Hold(n)
  <2>1. ASSUME NEW s \in Sender, NEW n \in Node PROVE Unsent(s, n)' = Unsent(s, n)
    BY <1>0, <1>1, <1>2 DEF Unsent, Given
  <2> QED BY <2>1 DEF Hold
<1>6. PendingBar[Sink][h] > 0 /\ PendingBar \in [Node -> [Data -> Nat]]
      /\ \A n \in Node, d \in Data : PendingBar[n][d] = Copies(n, d)
  <2>1. Copies(Sink, h) > 0
    BY <1>3, <1>4 DEF Copies
  <2> QED BY <1>0, <1>3, <2>1, PendingBarIs, PendingBarType
<1>7. ASSUME NEW n \in Node, NEW d \in Data
      PROVE  Copies(n, d)'
               = IF n = Sink /\ d = h THEN Copies(n, d) - 1 ELSE Copies(n, d)
  <2>1. Copies(n, d)' = N(queue'[n], d) + Total(Hold(n), d)
    BY <1>5 DEF Copies
  <2>2. CASE n = Sink
    BY <1>2, <1>4, <2>1, <2>2 DEF Copies
  <2>3. CASE n # Sink
    BY <1>2, <2>1, <2>3 DEF Copies
  <2> QED BY <2>2, <2>3
<1>8. PendingBar' = b
  <2>1. \A n \in Node, d \in Data : b[n][d] =
          IF n = Sink /\ d = h THEN Copies(n, d) - 1 ELSE Copies(n, d)
    BY <1>0, <1>3, <1>6
  <2>2. b = [n \in Node |-> [d \in Data |-> b[n][d]]]
    BY <1>0, <1>3, <1>6
  <2> HIDE DEF b
  <2>3. \A n \in Node, d \in Data : Copies(n, d)' = b[n][d]
    BY <1>7, <2>1
  <2> QED BY <2>2, <2>3, PendingBarNext
<1>9. /\ Sink \notin TerminatedBar /\ TerminatedBar' = TerminatedBar
      /\ StartedBar' = StartedBar
  <2>1. \A p \in Process : pc'[p] \in Ended <=> pc[p] \in Ended
    BY <1>1, <1>2 DEF Ended
  <2>2. \A t \in Thread : Begun(t)' = Begun(t)
    BY <1>2, GroupType, HomeType DEF Begun
  <2> QED BY <1>0, <1>1, <2>1, <2>2, TerminatedKept, StartedKept
          DEF TerminatedBar, Ended
<1>10. ASSUME NEW n \in OrderedBar
       PROVE  /\ Unsent(Feeder[n], n) \in Seq(Data) /\ queue[n] \in Seq(Data)
              /\ InLine(n)' = queue'[n] \o Unsent(Feeder[n], n)
  <2>1. PICK f \in Sender : f = Feeder[n]
    BY FeederIs
  <2>2. Hold(n)[f] = Unsent(f, n) /\ Hold(n)'[f] = Unsent(f, n)' /\ n \in Node
    BY FeederIs DEF Hold
  <2>3. Unsent(f, n) \in Seq(Data) /\ Unsent(f, n)' = Unsent(f, n)
    BY <1>5, <2>2, HoldType DEF ControlInv
  <2>4. InLine(n)' = queue'[n] \o Unsent(f, n)'
    BY <2>1, InLineNext
  <2> QED BY <2>1, <2>2, <2>3, <2>4 DEF TypeOK
<1>11. Sink \in OrderedBar =>
         /\ InLine(Sink) # <<>> /\ h = Head(InLine(Sink))
         /\ Tail(InLine(Sink)) = queue'[Sink] \o Unsent(Feeder[Sink], Sink)
  <2> SUFFICES ASSUME Sink \in OrderedBar
               PROVE  /\ InLine(Sink) # <<>> /\ h = Head(InLine(Sink))
                      /\ Tail(InLine(Sink)) = queue'[Sink] \o Unsent(Feeder[Sink], Sink)
    OBVIOUS
  <2>1. PICK o \in Seq(Data) : o = Unsent(Feeder[Sink], Sink)
    BY <1>10
  <2>2. PICK q \in Seq(Data) : q = queue[Sink] /\ q # <<>>
    BY <1>1, <1>2
  <2>3. q \o o # <<>> /\ Head(q \o o) = Head(q) /\ Tail(q \o o) = Tail(q) \o o
    BY <2>2, TakenFromLine
  <2>4. InLine(Sink) = q \o o
    BY <2>1, <2>2 DEF InLine
  <2> QED BY <1>2, <2>1, <2>2, <2>3, <2>4 DEF h
<1>12. LineBar' = C!Shortened(LineBar, Sink)
  <2>1. ASSUME NEW n \in OrderedBar
        PROVE  InLine(n)' = IF n = Sink THEN Tail(InLine(n)) ELSE InLine(n)
    <3>1. n # Sink => InLine(n) = queue'[n] \o Unsent(Feeder[n], n)
      BY <1>2, FeederIs DEF InLine
    <3> QED BY <1>10, <1>11, <3>1
  <2> QED BY <2>1, LineBarNext DEF C!Shortened, LineBar
<1>13. C!Due(Sink, h)
  BY <1>6, <1>11 DEF C!Due, LineBar
<1>14. C!Collect(h)
  BY <1>1, <1>8, <1>9, <1>12, <1>13 DEF C!Collect
<1> QED BY <1>3, <1>14

\* pushData begins to send the value to the inputs of the graph.
LEMMA PushRefines ==
  ASSUME TypeOK, ControlInv, TypeOK', ControlInv', PushData
  PROVE  C!Push
<1> DEFINE e == <<Head(input)>>
<1>0. /\ Source \in Process /\ Source \in Sender /\ From(Source) = Source
      /\ Source \notin Task /\ Source # Sink
      /\ \A t \in Thread : t \in Process /\ t # Source
      /\ Reader # Source /\ Reader \in Process
  BY ProcessAssumption DEF Process, Sender, From
<1>1. /\ pc[Source] = "user" /\ pc' = [pc EXCEPT ![Source] = "deliver"]
      /\ input # <<>> /\ input' = Tail(input)
      /\ outbox' = [outbox EXCEPT ![Source] = e]
      /\ UNCHANGED <<queue, todo, results>>
  BY DEF PushData, Goto
<1>2. /\ pc'[Source] = "deliver" /\ outbox'[Source] = e
      /\ outbox[Source] = <<>>
      /\ \A s \in Sender \ {Source} : outbox'[s] = outbox[s]
      /\ \A q \in Process \ {Source} : pc'[q] = pc[q]
  BY <1>0, <1>1 DEF TypeOK, ControlInv, OutboxInv, Sending
<1>3. e \in Seq(Data)
  BY <1>1 DEF TypeOK
<1>4. \A s \in Sender \ {Source} : \A n \in Node : Unsent(s, n)' = Unsent(s, n)
  BY <1>0, <1>1, <1>2, OthersKept DEF PC, Sending
<1>5. ASSUME NEW n \in Node, NEW d \in Data
      PROVE  Copies(n, d)'
               = Copies(n, d) + (IF n \in Succ[Source] THEN N(e, d) ELSE 0)
  <2> HIDE DEF e
  <2>1. Total(Hold(n), d)'
          = Total(Hold(n), d) + (IF n \in Succ[Source] THEN N(e, d) ELSE 0)
    <3>1. pc[Source] \notin Sending
      BY <1>1 DEF Sending
    <3> QED BY <1>0, <1>2, <1>3, <1>4, <3>1, PendingEmitted DEF ControlInv
  <2>2. Copies(n, d)' = N(queue[n], d) + Total(Hold(n), d)'
    BY <1>1 DEF Copies
  <2>3. /\ N(queue[n], d) \in Nat /\ Total(Hold(n), d) \in Nat /\ N(e, d) \in Nat
    BY <1>3, CopiesType, PlacesFinite DEF ControlInv
  <2> QED BY <2>1, <2>2, <2>3 DEF Copies
<1>6. PendingBar' = C!Sent(PendingBar, Source, e)
  <2> HIDE DEF e
  <2>1. C!Sent(PendingBar, Source, e) =
          [n \in Node |-> [d \in Data |->
             PendingBar[n][d] + (IF n \in Succ[Source] THEN N(e, d) ELSE 0)]]
    BY SentIs
  <2>2. \A n \in Node, d \in Data : PendingBar[n][d] = Copies(n, d)
    BY PendingBarIs
  <2> QED BY <1>5, <2>1, <2>2, PendingBarNext
<1>7. /\ Source \notin TerminatedBar /\ TerminatedBar' = TerminatedBar
      /\ StartedBar' = StartedBar
  <2>1. \A p \in Process : pc'[p] \in Ended <=> pc[p] \in Ended
    BY <1>1, <1>2 DEF Ended
  <2>2. \A t \in Thread : Begun(t)' = Begun(t)
    BY <1>0, <1>2 DEF Begun
  <2> QED BY <1>0, <1>1, <2>1, <2>2, TerminatedKept, StartedKept
          DEF TerminatedBar, Ended
<1>8. LineBar' = C!Lengthened(LineBar, Source, e)
  <2> HIDE DEF e
  <2>1. ASSUME NEW n \in OrderedBar
        PROVE  InLine(n)' = IF n \in Succ[Source] THEN InLine(n) \o e ELSE InLine(n)
    <3>1. queue[n] \in Seq(Data) /\ queue'[n] = queue[n] /\ pc[Source] \notin Sending
      BY <1>1, FeederIs DEF TypeOK, Sending
    <3>2. InLine(n)' = IF n \in Succ[Source] THEN (queue[n] \o Unsent(Feeder[n], n)) \o e
                       ELSE queue[n] \o Unsent(Feeder[n], n)
      BY <1>0, <1>2, <1>3, <1>4, <3>1, LineEmitted
    <3> QED BY <3>2 DEF InLine
  <2> QED BY <2>1, LineBarNext DEF LineBar, C!Lengthened
<1> QED BY <1>1, <1>6, <1>7, <1>8 DEF C!Push

LEMMA FinishRefines ==
  ASSUME TypeOK, ControlInv, FinishPushingData
  PROVE  C!FinishPushing
<1>0. /\ Source \in Process /\ Source \notin Task /\ Source # Sink
      /\ \A s \in Sender : s \in Process
      /\ \A t \in Thread : t \in Process /\ t # Source
      /\ Reader # Source /\ Reader \in Process
  BY FromType, ProcessAssumption DEF Process
<1>1. /\ pc[Source] = "user" /\ pc' = [pc EXCEPT ![Source] = "disconnect"]
      /\ input = <<>>
      /\ todo' = [todo EXCEPT ![Source] = Succ[Source]]
      /\ UNCHANGED <<queue, outbox, input, results>>
  BY DEF FinishPushingData, Goto
<1>2. /\ pc'[Source] = "disconnect" /\ \A q \in Process \ {Source} : pc'[q] = pc[q]
      /\ \A s \in Sender \ {Source} : todo'[s] = todo[s]
  BY <1>0, <1>1 DEF TypeOK
<1>3. PendingBar' = PendingBar /\ LineBar' = LineBar
  <2>1. ASSUME NEW s \in Sender, NEW n \in Node PROVE Unsent(s, n)' = Unsent(s, n)
    BY <1>0, <1>1, <1>2 DEF Unsent, Given
  <2> QED BY <1>1, <2>1, PendingKept, LineKept
<1>4. StartedBar' = StartedBar
  <2>1. \A t \in Thread : Begun(t)' = Begun(t)
    BY <1>0, <1>2 DEF Begun
  <2> QED BY <2>1, StartedKept
<1>5. Source \notin TerminatedBar /\ TerminatedBar' = TerminatedBar \cup {Source}
  <2>1. \A g : \A t \in Group(g) : pc'[t] = pc[t]
    BY <1>0, <1>2 DEF Group
  <2>2. pc[Source] \notin Ended /\ pc'[Source] \in Ended
    BY <1>1, <1>2 DEF Ended
  <2> QED BY <1>0, <1>2, <2>1, <2>2 DEF TerminatedBar
<1> QED BY <1>1, <1>3, <1>4, <1>5 DEF C!FinishPushing

(***************************************************************************)
(* The theorem.                                                             *)
(***************************************************************************)

\* A step inside sleep is one of the computation only when it is the last.
LEMMA SleepRefines ==
  ASSUME TypeOK, ControlInv, NEW p \in Sleeper, Sleep(p) \/ SpuriousWakeUp(p)
  PROVE  [C!Next]_C!vars
<1>0. /\ p \in Process /\ p # Source /\ UNCHANGED <<queue, outbox, input, results>>
      /\ \A s \in Sender : s \in Process
      /\ \A t \in Thread : t \in Process
  BY HomeType, FromType, GroupType, ProcessAssumption
  DEF Sleeper, Sleep, LockSleep, PredEmpty, PredNotifier, PredEmptyAgain,
    Decide, DecideEmpty, SpuriousWakeUp
<1>1. CASE DecideEmpty(p) /\ queue[Home(p)] = <<>>
  <2>1. PICK l \in {"disconnect", "done"} : pc' = [pc EXCEPT ![p] = l]
    BY <1>1 DEF DecideEmpty, Goto
  <2>2. \A s \in Sender \ {p} : todo'[s] = todo[s]
    BY <1>1 DEF DecideEmpty, TypeOK
  <2> QED BY <1>0, <1>1, <2>1, <2>2, DecideToEnd DEF DecideEmpty
<1>2. CASE ~(DecideEmpty(p) /\ queue[Home(p)] = <<>>)
  <2>1. PICK l \in Sleeping \cup {"get"} :
          pc' = [pc EXCEPT ![p] = l] /\ todo' = todo
    BY <1>2 DEF Sleep, LockSleep, PredEmpty, PredNotifier, PredEmptyAgain,
      Decide, DecideEmpty, SpuriousWakeUp, Wait, Goto, Sleeping
  <2>2. pc[p] \in Sleeping
    BY DEF Sleep, LockSleep, PredEmpty, PredNotifier, PredEmptyAgain, Decide,
      DecideEmpty, SpuriousWakeUp, Sleeping
  <2>3. pc'[p] = l /\ \A q \in Process \ {p} : pc'[q] = pc[q]
    BY <1>0, <2>1 DEF TypeOK
  <2>4. ASSUME NEW s \in Sender, NEW n \in Node PROVE Unsent(s, n)' = Unsent(s, n)
    BY <1>0, <2>1, <2>2, <2>3 DEF Unsent, Given, Sleeping
  <2>5. \A q \in Process : pc'[q] \in Ended <=> pc[q] \in Ended
    BY <2>2, <2>3 DEF Sleeping, Ended
  <2>6. \A t \in Thread : Begun(t)' = Begun(t)
    BY <1>0, <2>2, <2>3 DEF Begun, Sleeping
  <2> QED BY <1>0, <2>4, <2>5, <2>6, Quiet
<1> QED BY <1>1, <1>2

\* Sending moves values, notifying and disconnecting nothing.
LEMMA SenderRefines ==
  ASSUME TypeOK, ControlInv, TypeOK', ControlInv', NEW p \in Sender, SenderStep(p)
  PROVE  [C!Next]_C!vars
<1>0. /\ p \in Process /\ \A s \in Sender : s \in Process
      /\ \A t \in Thread : t \in Process
      /\ From(p) \in Origin
  BY FromType, GroupType
<1> DEFINE Same == /\ UNCHANGED <<queue, input, results>>
                   /\ \A s \in Sender : \A n \in Node :
                        Unsent(s, n)' = Unsent(s, n)
                   /\ \A q \in Process : pc'[q] \in Ended <=> pc[q] \in Ended
                   /\ \A t \in Thread : Begun(t)' = Begun(t)
<1>1. CASE Receive(p)
  BY <1>1, ReceiveRefines
<1>2. CASE BeginSend(p) \/ EndSend(p) \/ EndNotify(p) \/ EndDeliver(p)
  <2>1. UNCHANGED <<queue, input, results>>
    BY <1>2 DEF BeginSend, EndSend, EndNotify, EndDeliver
  <2>2. PICK l \in Sending \cup {"user", "check"} : pc' = [pc EXCEPT ![p] = l]
    BY <1>2 DEF BeginSend, EndSend, EndNotify, EndDeliver, Goto, Sending
  <2>3. pc'[p] = l /\ pc[p] \in Sending /\ \A q \in Process \ {p} : pc'[q] = pc[q]
    BY <1>0, <1>2, <2>2 DEF BeginSend, EndSend, EndNotify, EndDeliver, TypeOK,
      Sending
  <2>4. ASSUME NEW s \in Sender, NEW n \in Node PROVE Unsent(s, n)' = Unsent(s, n)
    <3>1. CASE s # p
      BY <1>0, <1>2, <2>3, <3>1 DEF BeginSend, EndSend, EndNotify, EndDeliver,
        Unsent, Given, TypeOK
    <3>2. CASE BeginSend(p) /\ s = p
      BY <1>0, <3>2 DEF BeginSend, Goto, Unsent, Given, TypeOK
    <3>3. CASE EndSend(p) /\ s = p
      BY <1>0, <3>3 DEF EndSend, Goto, Unsent, Given, TypeOK
    <3>4. CASE EndNotify(p) /\ s = p
      BY <1>0, <3>4 DEF EndNotify, Goto, Unsent, Given, TypeOK
    <3>5. CASE EndDeliver(p) /\ s = p
      BY <1>0, <3>5 DEF EndDeliver, Goto, Unsent, Given, TypeOK
    <3> QED BY <1>2, <3>1, <3>2, <3>3, <3>4, <3>5
  <2>5. \A q \in Process : pc'[q] \in Ended <=> pc[q] \in Ended
    BY <2>3 DEF Sending, Ended
  <2>6. \A t \in Thread : Begun(t)' = Begun(t)
    BY <1>0, <2>3 DEF Begun, Sending
  <2>7. Same
    BY <2>1, <2>4, <2>5, <2>6
  <2> QED BY <2>7, Quiet
<1>3. CASE WakeUp(p)
  <2>1. UNCHANGED pc \/ \E w \in Process : pc[w] = "wait" /\ Goto(w, "lock")
    BY <1>3, WakeUpEffect
  <2>2. PICK m \in todo[p] : todo' = [todo EXCEPT ![p] = @ \ {m}]
    BY <1>3 DEF WakeUp
  <2>3. /\ UNCHANGED <<queue, outbox, input, results>>
        /\ pc[p] \in {"notify", "wakeAll", "final"}
    BY <1>3 DEF WakeUp
  <2>4. \A q \in Process : pc'[q] = pc[q] \/ (pc[q] = "wait" /\ pc'[q] = "lock")
    BY <2>1 DEF Goto, TypeOK
  <2>5. ASSUME NEW s \in Sender, NEW n \in Node PROVE Unsent(s, n)' = Unsent(s, n)
    <3>1. s # p => todo'[s] = todo[s]
      BY <2>2 DEF TypeOK
    <3> QED BY <1>0, <2>3, <2>4, <3>1 DEF Unsent, Given
  <2>6. \A q \in Process : pc'[q] \in Ended <=> pc[q] \in Ended
    BY <2>4 DEF Ended
  <2>7. \A t \in Thread : Begun(t)' = Begun(t)
    BY <1>0, <2>4 DEF Begun
  <2>8. Same
    BY <2>3, <2>5, <2>6, <2>7
  <2> QED BY <2>8, Quiet
<1>4. CASE NotifyAllTerminated(p)
  <2>1. UNCHANGED <<queue, outbox, input, results>>
    BY <1>4 DEF NotifyAllTerminated, RemoveNotifier, EndDisconnect, EndWakeAll
  <2>2. /\ pc[p] \in Ended /\ pc'[p] \in Ended
        /\ \A q \in Process \ {p} : pc'[q] = pc[q]
        /\ \A s \in Sender \ {p} : todo'[s] = todo[s]
    <3>1. CASE RemoveNotifier(p)
      BY <1>0, <3>1 DEF RemoveNotifier, TypeOK, Ended
    <3>2. CASE EndDisconnect(p)
      BY <1>0, <3>2 DEF EndDisconnect, Goto, TypeOK, Ended
    <3>3. CASE EndWakeAll(p)
      BY <1>0, <3>3 DEF EndWakeAll, Goto, TypeOK, Ended
    <3> QED BY <1>4, <3>1, <3>2, <3>3 DEF NotifyAllTerminated
  <2>3. ASSUME NEW s \in Sender, NEW n \in Node PROVE Unsent(s, n)' = Unsent(s, n)
    BY <1>0, <2>1, <2>2 DEF Unsent, Given, Ended
  <2>4. \A q \in Process : pc'[q] \in Ended <=> pc[q] \in Ended
    BY <2>2
  <2>5. \A t \in Thread : Begun(t)' = Begun(t)
    BY <1>0, <2>2 DEF Begun, Ended
  <2>6. Same
    BY <2>1, <2>3, <2>4, <2>5
  <2> QED BY <2>6, Quiet
<1> QED BY <1>1, <1>2, <1>3, <1>4 DEF SenderStep, SendAndNotify

\* Every step of a running graph is a step of the computation, or invisible.
LEMMA NextRefines ==
  ASSUME TypeOK, ControlInv, TypeOK', ControlInv', [Next]_vars
  PROVE  [C!Next]_C!vars
<1>0. \A s \in Sender : s \in Process
  BY FromType
<1> DEFINE Same == /\ UNCHANGED <<queue, input, results>>
                   /\ \A s \in Sender : \A n \in Node :
                        Unsent(s, n)' = Unsent(s, n)
                   /\ \A q \in Process : pc'[q] \in Ended <=> pc[q] \in Ended
                   /\ \A t \in Thread :
                        GroupOf[t] \in AutoStart => Begun(t)' = Begun(t)
<1>1. ASSUME NEW t \in Thread, ThreadOnly(t) PROVE [C!Next]_C!vars
  <2>0. /\ t \in Process /\ t \in Sender /\ t \in Sleeper /\ GroupOf[t] \in Task
        /\ Home(t) = GroupOf[t] /\ \A u \in Thread : u \in Process
    BY GroupType, HomeType
  <2>1. CASE Start(t) /\ GroupOf[t] \in AutoStart
    BY <2>0, <2>1, StartRefines DEF C!Next
  <2>2. CASE GetInputData(t) /\ queue[GroupOf[t]] # <<>>
    BY <2>0, <2>2, ExecuteRefines DEF C!Next
  <2>3. CASE CheckEmpty(t) /\ queue[Home(t)] = <<>>
    <3>1. pc[t] = "checkEmpty" /\ pc' = [pc EXCEPT ![t] = "disconnect"]
          /\ UNCHANGED <<queue, outbox, input, results>>
          /\ \A s \in Sender \ {t} : todo'[s] = todo[s]
      BY <2>3 DEF CheckEmpty, Goto, TypeOK
    <3> QED BY <2>0, <2>3, <3>1, DecideToEnd
  <2>4. ASSUME \/ Start(t) /\ GroupOf[t] \notin AutoStart
               \/ GetInputData(t) /\ queue[GroupOf[t]] = <<>>
               \/ CheckEmpty(t) /\ queue[Home(t)] # <<>>
               \/ Check(t) \/ EndRun(t)
        PROVE  UNCHANGED C!vars
    <3>1. UNCHANGED <<queue, todo, outbox, input, results>>
      BY <2>4 DEF Start, GetInputData, CheckEmpty, Check, EndRun
    <3>2. PICK l \in {"check", "lock", "checkEmpty", "done"} :
            pc' = [pc EXCEPT ![t] = l] /\ (l = "done" <=> pc[t] = "final")
      BY <2>4 DEF Start, GetInputData, CheckEmpty, Check, EndRun, Goto
    <3>3. /\ pc[t] \in {"start", "get", "checkEmpty", "check", "final"}
          /\ pc[t] = "start" => GroupOf[t] \notin AutoStart
      BY <2>4 DEF Start, GetInputData, CheckEmpty, Check, EndRun
    <3>4. pc'[t] = l /\ \A q \in Process \ {t} : pc'[q] = pc[q]
      BY <2>0, <3>2 DEF TypeOK
    <3>5. ASSUME NEW s \in Sender, NEW n \in Node PROVE Unsent(s, n)' = Unsent(s, n)
      BY <1>0, <3>1, <3>3, <3>4 DEF Unsent, Given
    <3>6. \A q \in Process : pc'[q] \in Ended <=> pc[q] \in Ended
      BY <3>2, <3>3, <3>4 DEF Ended
    <3>7. \A u \in Thread : GroupOf[u] \in AutoStart => Begun(u)' = Begun(u)
      BY <2>0, <3>3, <3>4 DEF Begun
    <3>8. Same
      BY <3>1, <3>5, <3>6, <3>7
    <3> QED BY <3>8, Quiet
  <2> QED BY <1>1, <2>1, <2>2, <2>3, <2>4 DEF ThreadOnly
<1>2. CASE UserStep
  <2>1. CASE PushData
    BY <2>1, PushRefines DEF C!Next
  <2>2. CASE FinishPushingData
    BY <2>2, FinishRefines DEF C!Next
  <2>3. CASE ExecuteGraph \/ SpawnThread \/ EndLaunch \/ WaitForTermination
    <3>0. Source \in Process /\ \A t \in Thread : t \in Process /\ t # Source
      BY GroupType, HomeType DEF Process
    <3>1. UNCHANGED <<queue, todo, outbox, input, results>>
      BY <2>3 DEF ExecuteGraph, SpawnThread, EndLaunch, WaitForTermination
    <3>2. PICK q \in Process, l \in {"launch", "start", "user", "done"} :
            /\ pc' = [pc EXCEPT ![q] = l]
            /\ pc[q] \in {"user", "idle", "launch", "join"}
            /\ l = "done" <=> pc[q] = "join"
            /\ q \in Thread <=> l = "start"
            /\ q \in Thread => pc[q] = "idle"
      BY <2>3, <3>0 DEF ExecuteGraph, SpawnThread, EndLaunch,
        WaitForTermination, Goto
    <3>3. pc'[q] = l /\ \A r \in Process \ {q} : pc'[r] = pc[r]
      BY <3>2 DEF TypeOK
    <3>4. ASSUME NEW s \in Sender, NEW n \in Node PROVE Unsent(s, n)' = Unsent(s, n)
      BY <1>0, <3>1, <3>2, <3>3 DEF Unsent, Given
    <3>5. \A r \in Process : pc'[r] \in Ended <=> pc[r] \in Ended
      BY <3>2, <3>3 DEF Ended
    <3>6. \A t \in Thread : Begun(t)' = Begun(t)
      BY <3>0, <3>2, <3>3 DEF Begun
    <3>7. Same
      BY <3>1, <3>4, <3>5, <3>6
    <3> QED BY <3>7, Quiet
  <2> QED BY <1>2, <2>1, <2>2, <2>3 DEF UserStep
<1>3. CASE GetResult
  BY <1>3, CollectRefines DEF C!Next
<1>4. CASE UNCHANGED vars
  <2>1. Same
    BY <1>4 DEF vars, Unsent, Given, Begun
  <2> QED BY <2>1, Quiet
<1> QED BY <1>1, <1>2, <1>3, <1>4, NextCases, SleepRefines, SenderRefines

\* A running graph is the computation its wiring describes: every value is
\* executed exactly once by every node it is sent to, every automatic start is
\* made once per thread, and a node ends only after all that feeds it ended and
\* all that was sent to it was executed.
THEOREM GraphsCompute == Spec => ImplementsComputation
<1>1. TypeOK /\ ControlInv /\ TypeOK' /\ ControlInv' /\ [Next]_vars
        => [C!Next]_C!vars
  BY NextRefines
<1> QED
  BY <1>1, InitRefines, Invariance, PTL DEF Spec, ImplementsComputation, C!Spec
=============================================================================
