------------------------- MODULE StateManagerProofs -------------------------
(***************************************************************************)
(* Invariance proofs about StateManager, for every set of managers, tasks   *)
(* and states, every wiring and every user function.                        *)
(***************************************************************************)
EXTENDS StateManager, SequenceTheorems, TLAPS

USE DEF Sleeper, Process, Node

\* Who sends holds a value until EndNotify.
OutboxInv ==
  \A p \in Process : pc[p] \in {"send", "notify"} => outbox[p] # <<>>

\* What ResultsLeaveWithTheirManager needs to be inductive: managers never go
\* through addResult of a task, and a ready list that holds a result is of a type
\* every manager of the state sends.
TurnInv ==
  /\ \A m \in Manager : pc[m] # "deliver"
  /\ \A m \in Manager, t \in Type :
       readyList[<<StateOf[m], t>>] # <<>> => t \in Elements(Outputs[m])

IInv == TypeOK /\ OutboxInv /\ TurnInv /\ ResultsLeaveWithTheirManager

(***************************************************************************)
(* The wiring.                                                              *)
(***************************************************************************)
LEMMA SlotsType == \A p \in Process : Slots(p) \subseteq Node
<1>1. \A p \in Process, t \in Type : Receivers[<<p, t>>] \subseteq Node
  BY StateAssumption
<1> QED BY <1>1 DEF Slots

LEMMA SourceType == Source \in Process /\ Source \notin Sleeper
BY StateAssumption

LEMMA InputsType ==
  ASSUME NEW n \in Sleeper
  PROVE  /\ Inputs[n] \in Seq(Type)
         /\ Len(Inputs[n]) \in Nat \ {0}
         /\ DOMAIN Inputs[n] = 1 .. Len(Inputs[n])
<1>1. Inputs[n] \in Seq(Type) /\ Inputs[n] # <<>>
  BY StateAssumption
<1>2. Len(Inputs[n]) # 0
  BY <1>1, EmptySeq
<1> QED BY <1>1, <1>2

(***************************************************************************)
(* The loops over the input types.                                          *)
(***************************************************************************)
ScanOK ==
  /\ scan \in [Sleeper -> Nat]
  /\ \A n \in Sleeper : scan[n] \in DOMAIN Inputs[n]

LEMMA ScanStep ==
  ASSUME ScanOK, NEW p \in Sleeper,
         FromFirstType(p) \/ NextType(p) \/ UNCHANGED scan
  PROVE  ScanOK'
<1>1. scan[p] \in 1 .. Len(Inputs[p]) /\ Len(Inputs[p]) \in Nat \ {0}
  BY InputsType DEF ScanOK
<1>2. PICK i \in 1 .. Len(Inputs[p]) : scan' = [scan EXCEPT ![p] = i]
  <2>1. CASE FromFirstType(p)
    <3>1. 1 \in 1 .. Len(Inputs[p]) /\ scan' = [scan EXCEPT ![p] = 1]
      BY <1>1, <2>1 DEF FromFirstType
    <3> QED BY <3>1
  <2>2. CASE NextType(p)
    <3> DEFINE i == IF AtLastType(p) THEN 1 ELSE scan[p] + 1
    <3>1. i \in 1 .. Len(Inputs[p])
      BY <1>1 DEF AtLastType
    <3>2. scan' = [scan EXCEPT ![p] = i]
      BY <2>2 DEF NextType
    <3> QED BY <3>1, <3>2
  <2>3. CASE UNCHANGED scan
    BY <1>1, <2>3 DEF ScanOK
  <2> QED BY <2>1, <2>2, <2>3
<1>3. i \in DOMAIN Inputs[p] /\ i \in Nat
  BY <1>1, InputsType
<1> QED BY <1>2, <1>3 DEF ScanOK

LEMMA QueueAtType ==
  ASSUME ScanOK, NEW p \in Sleeper
  PROVE  QueueAt(p) \in Node \X Type
<1>1. Inputs[p][scan[p]] \in Type
  BY InputsType DEF ScanOK
<1> QED BY <1>1 DEF QueueAt

(***************************************************************************)
(* Types.                                                                   *)
(***************************************************************************)
LEMMA TypeInit == Init => TypeOK
<1> SUFFICES ASSUME Init PROVE TypeOK
  OBVIOUS
<1>1. pc \in [Process -> PC] /\ scan \in [Sleeper -> Nat]
  BY DEF Init, PC, InSleep, Ended
<1>2. \A n \in Sleeper : scan[n] \in DOMAIN Inputs[n]
  BY InputsType DEF Init
<1>3. /\ queue \in [Node \X Type -> Seq(Data)]
      /\ readyList \in [State \X Type -> Seq(Data)]
      /\ outbox \in [Process -> Seq(Data)]
  BY StateAssumption DEF Init
<1>4. /\ notifiers \in [Node -> SUBSET Process]
      /\ mutexSleep \in [Node -> Sleeper \cup {NoProcess}]
      /\ stateMutex \in [State -> Manager \cup {NoProcess}]
      /\ current \in [State -> Manager \cup {NoProcess}]
      /\ user \in [State -> User]
      /\ todo \in [Process -> SUBSET Node]
  BY StateAssumption DEF Init
<1> QED BY <1>1, <1>2, <1>3, <1>4 DEF TypeOK

\* One execution leaves a state and its ready lists well typed.
LEMMA ExecuteType ==
  ASSUME TypeOK, NEW m \in Manager, NEW d \in Data \cup {Nullptr},
         ExecuteState(m, d)
  PROVE  user' \in [State -> User] /\ readyList' \in [State \X Type -> Seq(Data)]
<1> DEFINE e == Execute[<<StateOf[m], user[StateOf[m]], d>>]
<1>1. StateOf[m] \in State /\ user[StateOf[m]] \in User
  BY StateAssumption DEF TypeOK
<1>2. e \in [next : User, results : [Type -> Seq(Data)]]
  BY <1>1, StateAssumption
<1>3. e.next \in User /\ \A t \in Type : e.results[t] \in Seq(Data)
  BY <1>2
<1> HIDE DEF e
<1>4. user' = [user EXCEPT ![StateOf[m]] = e.next]
  BY DEF ExecuteState, e
<1>5. readyList' = Gathered(StateOf[m], e.results)
  BY DEF ExecuteState, e
<1>6. ASSUME NEW x \in State \X Type
      PROVE  readyList[x] \in Seq(Data) /\ readyList[x] \o e.results[x[2]] \in Seq(Data)
  <2>1. readyList[x] \in Seq(Data) /\ e.results[x[2]] \in Seq(Data)
    BY <1>3 DEF TypeOK
  <2> QED BY <2>1
<1>7. readyList' \in [State \X Type -> Seq(Data)]
  BY <1>5, <1>6 DEF Gathered
<1> QED BY <1>3, <1>4, <1>7 DEF TypeOK

\* What a test of canTerminate, or of the receivers, does to the control.
LEMMA CanTerminateType ==
  ASSUME TypeOK, NEW p \in Sleeper,
         NEW here, NEW yes \in PC, NEW no \in PC, NEW next \in PC,
         CanTerminate(p, here, yes, no, next)
  PROVE  /\ ScanOK' /\ pc' \in [Process -> PC] /\ pc[p] = here
         /\ \E l \in {yes, no, next} : pc' = [pc EXCEPT ![p] = l]
<1>1. ScanOK'
  BY ScanStep DEF CanTerminate, TypeOK, ScanOK
<1>2. PICK l \in {yes, no, next} : pc' = [pc EXCEPT ![p] = l]
  BY Zenon DEF CanTerminate, Goto
<1> QED BY <1>1, <1>2 DEF CanTerminate, TypeOK

LEMMA ReceiversEmptyType ==
  ASSUME TypeOK, NEW p \in Sleeper,
         NEW here \in PC, NEW yes \in PC, NEW no \in PC,
         ReceiversEmpty(p, here, yes, no)
  PROVE  /\ ScanOK' /\ pc' \in [Process -> PC] /\ pc[p] = here
         /\ \E l \in {yes, no, here} : pc' = [pc EXCEPT ![p] = l]
<1>1. ScanOK'
  BY ScanStep DEF ReceiversEmpty, TypeOK, ScanOK
<1>2. PICK l \in {yes, no, here} : pc' = [pc EXCEPT ![p] = l]
  BY Zenon DEF ReceiversEmpty, Goto
<1> QED BY <1>1, <1>2 DEF ReceiversEmpty, TypeOK

\* The steps of canTerminate and sleep, with what they leave to the control.
SleeperStep(p) == Check(p) \/ Sleep(p)

LEMMA SleeperType ==
  ASSUME TypeOK, NEW p \in Sleeper, SleeperStep(p)
  PROVE  /\ TypeOK'
         /\ \E l \in PC \ (InTurn \cup {"deliver"}) :
              \/ pc' = [pc EXCEPT ![p] = l]
              \/ p \in Worker /\ pc' = [pc EXCEPT ![p] = "get"]
         /\ pc[p] \notin InTurn \cup {"notify"}
<1> DEFINE Idle == PC \ (InTurn \cup {"deliver"})
<1>1. p \in Process /\ Slots(p) \subseteq Node
  BY SlotsType
<1>2. {"check", "checkEmpty", "disconnect", "lock", "predEmpty", "pred", "decide",
       "predEmptyAgain", "wait", "decideEmpty", "acquire"} \subseteq Idle
  BY DEF PC, InSleep, Ended, InTurn
<1>0. Idle \subseteq PC /\ {"check", "checkEmpty", "predEmpty", "pred", "decide",
                           "predEmptyAgain", "decideEmpty"} \subseteq PC
  BY DEF PC, InSleep, Ended
<1>3. Work(p) \in PC /\ (Work(p) \in Idle \/ (p \in Worker /\ Work(p) = "get"))
  BY StateAssumption, <1>2 DEF Work, PC
<1> HIDE DEF Idle
<1>4. ASSUME AfterTest(p) PROVE todo' \in [Process -> SUBSET Node]
  BY <1>1, <1>4 DEF AfterTest, Leave, TypeOK
<1>5. ASSUME AfterSleep(p)
      PROVE  mutexSleep' \in [Node -> Sleeper \cup {NoProcess}]
  BY <1>1, <1>5 DEF AfterSleep, Unlock, TypeOK
<1>6. CASE Check(p)
  <2>1. /\ ScanOK' /\ pc' \in [Process -> PC]
        /\ pc[p] \in {"check", "checkEmpty"}
        /\ \E l \in Idle : pc' = [pc EXCEPT ![p] = l]
    <3>1. CASE CanTerminate(p, "check", "disconnect", "lock", "checkEmpty")
      <4>1. /\ ScanOK' /\ pc' \in [Process -> PC] /\ pc[p] = "check"
            /\ \E l \in {"disconnect", "lock", "checkEmpty"} : pc' = [pc EXCEPT ![p] = l]
        BY <1>0, <1>2, <3>1, CanTerminateType
      <4> QED BY <1>2, <4>1
    <3>2. CASE ReceiversEmpty(p, "checkEmpty", "disconnect", "lock")
      <4>1. /\ ScanOK' /\ pc' \in [Process -> PC] /\ pc[p] = "checkEmpty"
            /\ \E l \in {"disconnect", "lock", "checkEmpty"} : pc' = [pc EXCEPT ![p] = l]
        BY <1>0, <1>2, <3>2, ReceiversEmptyType
      <4> QED BY <1>2, <4>1
    <3> QED BY <1>6, <3>1, <3>2 DEF Check
  <2>2. todo' \in [Process -> SUBSET Node]
    BY <1>4, <1>6 DEF Check
  <2> QED BY <1>6, <2>1, <2>2 DEF Check, TypeOK, ScanOK, InTurn, Idle
<1>7. CASE LockSleep(p)
  <2>1. ScanOK'
    BY <1>7, ScanStep DEF LockSleep, TypeOK, ScanOK
  <2>2. pc' = [pc EXCEPT ![p] = "predEmpty"] /\ pc[p] = "lock"
    BY <1>7 DEF LockSleep, Goto
  <2>3. pc' \in [Process -> PC]
    BY <1>0, <1>2, <2>2 DEF TypeOK
  <2>4. mutexSleep' \in [Node -> Sleeper \cup {NoProcess}]
    BY <1>7 DEF LockSleep, TypeOK
  <2>5. TypeOK'
    BY <1>7, <2>1, <2>3, <2>4 DEF LockSleep, TypeOK, ScanOK
  <2> QED BY <1>2, <2>2, <2>5 DEF InTurn, Idle
<1>8. CASE WaitTerminationCondition(p)
  <2>1. /\ ScanOK' /\ pc' \in [Process -> PC]
        /\ pc[p] \in {"predEmpty", "pred", "predEmptyAgain"}
        /\ \E l \in Idle : pc' = [pc EXCEPT ![p] = l]
    <3>1. CASE ReceiversEmpty(p, "predEmpty", "pred", "decide")
      <4>1. /\ ScanOK' /\ pc' \in [Process -> PC] /\ pc[p] = "predEmpty"
            /\ \E l \in {"pred", "decide", "predEmpty"} : pc' = [pc EXCEPT ![p] = l]
        BY <1>0, <1>2, <3>1, ReceiversEmptyType
      <4> QED BY <1>2, <4>1
    <3>2. CASE CanTerminate(p, "pred", "decide", "wait", "predEmptyAgain")
      <4>1. /\ ScanOK' /\ pc' \in [Process -> PC] /\ pc[p] = "pred"
            /\ \E l \in {"decide", "wait", "predEmptyAgain"} : pc' = [pc EXCEPT ![p] = l]
        BY <1>0, <1>2, <3>2, CanTerminateType
      <4> QED BY <1>2, <4>1
    <3>3. CASE ReceiversEmpty(p, "predEmptyAgain", "decide", "wait")
      <4>1. /\ ScanOK' /\ pc' \in [Process -> PC] /\ pc[p] = "predEmptyAgain"
            /\ \E l \in {"decide", "wait", "predEmptyAgain"} : pc' = [pc EXCEPT ![p] = l]
        BY <1>0, <1>2, <3>3, ReceiversEmptyType
      <4> QED BY <1>2, <4>1
    <3> QED BY <1>8, <3>1, <3>2, <3>3 DEF WaitTerminationCondition
  <2>2. mutexSleep' \in [Node -> Sleeper \cup {NoProcess}]
    BY <1>5, <1>8 DEF WaitTerminationCondition
  <2> QED BY <1>8, <2>1, <2>2 DEF WaitTerminationCondition, TypeOK, ScanOK, InTurn, Idle
<1>9. CASE Decide(p)
  <2>1. /\ ScanOK' /\ pc' \in [Process -> PC]
        /\ pc[p] \in {"decide", "decideEmpty"}
        /\ \E l \in Idle : \/ pc' = [pc EXCEPT ![p] = l]
                           \/ p \in Worker /\ pc' = [pc EXCEPT ![p] = "get"]
    <3>1. CASE CanTerminate(p, "decide", "disconnect", Work(p), "decideEmpty")
      <4>1. /\ ScanOK' /\ pc' \in [Process -> PC] /\ pc[p] = "decide"
            /\ \E l \in {"disconnect", Work(p), "decideEmpty"} : pc' = [pc EXCEPT ![p] = l]
        BY <1>0, <1>2, <1>3, <3>1, CanTerminateType
      <4> QED BY <1>2, <1>3, <4>1
    <3>2. CASE ReceiversEmpty(p, "decideEmpty", "disconnect", Work(p))
      <4>1. /\ ScanOK' /\ pc' \in [Process -> PC] /\ pc[p] = "decideEmpty"
            /\ \E l \in {"disconnect", Work(p), "decideEmpty"} : pc' = [pc EXCEPT ![p] = l]
        BY <1>0, <1>2, <1>3, <3>2, ReceiversEmptyType
      <4> QED BY <1>2, <1>3, <4>1
    <3> QED BY <1>9, <3>1, <3>2 DEF Decide
  <2>2. /\ mutexSleep' \in [Node -> Sleeper \cup {NoProcess}]
        /\ todo' \in [Process -> SUBSET Node]
    BY <1>4, <1>5, <1>9 DEF Decide
  <2> QED BY <1>9, <2>1, <2>2 DEF Decide, TypeOK, ScanOK, InTurn, Idle
<1> QED BY <1>6, <1>7, <1>8, <1>9 DEF SleeperStep, Sleep

\* The other steps of a thread: sending and leaving, ...
LEMMA SendingType ==
  ASSUME TypeOK, OutboxInv, NEW p \in Process, Sending(p)
  PROVE  TypeOK'
<1>1. Slots(p) \subseteq Node /\ \A t \in Type : Receivers[<<p, t>>] \subseteq Node
  <2>1. \A t \in Type : Receivers[<<p, t>>] \subseteq Node
    BY StateAssumption
  <2> QED BY <2>1, SlotsType
<1>2. {"send", "notify", "check", "get", "disconnect", "empty", "deliver", "wakeAll",
       "done", "lock"} \subseteq PC
  BY DEF PC, Ended
<1>3. \A l \in PC : Goto(p, l) => pc' \in [Process -> PC]
  BY DEF Goto, TypeOK
<1>4. \A S \in SUBSET Node : todo' = [todo EXCEPT ![p] = S] =>
                                todo' \in [Process -> SUBSET Node]
  BY DEF TypeOK
<1>5. \A d \in Data : TypeOf[d] \in Type
  BY StateAssumption
<1>6. outbox[p] \in Seq(Data) /\ \A n \in Node : todo[p] \ {n} \in SUBSET Node
  BY DEF TypeOK
<1>7. outbox[p] # <<>> => Head(outbox[p]) \in Data /\ Tail(outbox[p]) \in Seq(Data)
  BY <1>6
<1>8. CASE Send(p)
  <2>1. Head(outbox[p]) \in Data
    BY <1>7, <1>8 DEF Send, OutboxInv
  <2>2. CASE todo[p] = {} /\ todo' = [todo EXCEPT ![p] = Slots(p)]
             /\ Goto(p, "notify") /\ UNCHANGED queue
    BY <1>1, <1>2, <1>3, <1>4, <1>8, <2>2 DEF Send, TypeOK
  <2>3. ASSUME NEW n \in todo[p],
               queue' = [queue EXCEPT ![<<n, TypeOf[Head(outbox[p])]>>] =
                           Append(@, Head(outbox[p]))],
               todo' = [todo EXCEPT ![p] = @ \ {n}], UNCHANGED pc
        PROVE  TypeOK'
    <3>1. n \in Node /\ todo' \in [Process -> SUBSET Node]
      BY <1>4, <1>6, <2>3 DEF TypeOK
    <3>2. queue' \in [Node \X Type -> Seq(Data)]
      BY <1>5, <2>1, <2>3, <3>1 DEF TypeOK
    <3> QED BY <1>8, <2>3, <3>1, <3>2 DEF Send, TypeOK
  <2> QED BY <1>8, <2>2, <2>3 DEF Send
<1>9. CASE WakeUp(p)
  <2>1. PICK n \in todo[p] :
          /\ todo' = [todo EXCEPT ![p] = @ \ {n}]
          /\ pc' = [q \in Process |-> IF q = n /\ pc[q] = "wait" THEN "lock" ELSE pc[q]]
    BY <1>9 DEF WakeUp
  <2>2. pc' \in [Process -> PC]
    BY <1>2, <2>1 DEF TypeOK
  <2>3. todo' \in [Process -> SUBSET Node]
    BY <2>1 DEF TypeOK
  <2> QED BY <1>9, <2>2, <2>3 DEF WakeUp, TypeOK
<1>10. CASE EndNotify(p)
  <2>1. outbox' \in [Process -> Seq(Data)]
    <3>1. Tail(outbox[p]) \in Seq(Data)
      BY <1>7, <1>10 DEF EndNotify, OutboxInv
    <3> QED BY <1>10, <3>1 DEF EndNotify, TypeOK
  <2>2. pc' \in [Process -> PC]
    BY <1>2, <1>3, <1>10 DEF EndNotify
  <2> QED BY <1>10, <2>1, <2>2 DEF EndNotify, TypeOK
<1>11. CASE Deliver(p)
  <2>1. /\ ScanOK' /\ pc' \in [Process -> PC]
        /\ todo' \in [Process -> SUBSET Node]
    <3>1. CASE /\ outbox[p] # <<>>
               /\ Goto(p, "send")
               /\ todo' = [todo EXCEPT ![p] = Receivers[<<p, TypeOf[Head(outbox[p])]>>]]
               /\ UNCHANGED scan
      BY <1>1, <1>2, <1>3, <1>4, <1>5, <1>7, <3>1 DEF TypeOK, ScanOK
    <3>2. CASE /\ p \in Worker
               /\ Goto(p, IF AtLastType(p) THEN "check" ELSE "get")
               /\ NextType(p)
               /\ UNCHANGED todo
      <4>1. ScanOK'
        BY <3>2, ScanStep DEF TypeOK, ScanOK
      <4>2. pc' \in [Process -> PC]
        BY <1>2, <1>3, <3>2
      <4> QED BY <3>2, <4>1, <4>2 DEF TypeOK
    <3>3. CASE Goto(p, "disconnect") /\ Leave(p) /\ UNCHANGED scan
      BY <1>1, <1>2, <1>3, <1>4, <3>3 DEF Leave, TypeOK, ScanOK
    <3> QED BY <1>11, <3>1, <3>2, <3>3 DEF Deliver
  <2> QED BY <1>11, <2>1 DEF Deliver, TypeOK, ScanOK
<1>12. CASE RemoveNotifier(p)
  <2>1. /\ pc' \in [Process -> PC]
        /\ notifiers' \in [Node -> SUBSET Process]
        /\ todo' \in [Process -> SUBSET Node]
    <3>1. CASE /\ todo' = [todo EXCEPT ![p] = Slots(p)]
               /\ Goto(p, "wakeAll")
               /\ UNCHANGED notifiers
      BY <1>1, <1>2, <1>3, <1>4, <3>1 DEF TypeOK
    <3>2. ASSUME NEW n \in todo[p],
                 notifiers' = [notifiers EXCEPT ![n] = @ \ {p}],
                 todo' = [todo EXCEPT ![p] = @ \ {n}], UNCHANGED pc
          PROVE  /\ pc' \in [Process -> PC]
                 /\ notifiers' \in [Node -> SUBSET Process]
                 /\ todo' \in [Process -> SUBSET Node]
      BY <3>2 DEF TypeOK
    <3> QED BY <1>12, <3>1, <3>2 DEF RemoveNotifier
  <2> QED BY <1>12, <2>1 DEF RemoveNotifier, TypeOK
<1>13. CASE EndRun(p)
  <2>1. pc' \in [Process -> PC]
    BY <1>2, <1>3, <1>13 DEF EndRun
  <2> QED BY <1>13, <2>1 DEF EndRun, TypeOK
<1> QED BY <1>8, <1>9, <1>10, <1>11, <1>12, <1>13 DEF Sending

\* ... a manager with its state, and a task.
LEMMA ManagerType ==
  ASSUME TypeOK, NEW m \in Manager, ManagerStep(m)
  PROVE  TypeOK'
<1>1. m \in Process /\ m \in Sleeper /\ StateOf[m] \in State
  BY StateAssumption
<1>2. {"start", "get", "empty", "send", "check"} \subseteq PC
  BY DEF PC
<1>3. \A l \in PC : Goto(m, l) => pc' \in [Process -> PC]
  BY DEF Goto, TypeOK
<1>4. CASE Acquire(m)
  <2>1. ScanOK'
    BY <1>1, <1>4, ScanStep DEF Acquire, TypeOK, ScanOK
  <2>2. pc' \in [Process -> PC]
    BY <1>2, <1>3, <1>4 DEF Acquire
  <2>3. /\ stateMutex' \in [State -> Manager \cup {NoProcess}]
        /\ current' \in [State -> Manager \cup {NoProcess}]
    BY <1>4 DEF Acquire, TypeOK
  <2> QED BY <1>4, <2>1, <2>2, <2>3 DEF Acquire, TypeOK, ScanOK
<1>5. CASE Start(m)
  <2>1. ScanOK'
    BY <1>1, <1>5, ScanStep DEF Start, TypeOK, ScanOK
  <2>2. pc' \in [Process -> PC]
    BY <1>2, <1>3, <1>5 DEF Start
  <2>3. user' \in [State -> User] /\ readyList' \in [State \X Type -> Seq(Data)]
    BY <1>5, ExecuteType DEF Start
  <2> QED BY <1>5, <2>1, <2>2, <2>3 DEF Start, TypeOK, ScanOK
<1>6. CASE Operate(m)
  <2>1. ScanOK'
    BY <1>1, <1>6, ScanStep DEF Operate, TypeOK, ScanOK
  <2>2. pc' \in [Process -> PC]
    BY <1>2, <1>3, <1>6 DEF Operate
  <2>3. /\ user' \in [State -> User]
        /\ readyList' \in [State \X Type -> Seq(Data)]
        /\ queue' \in [Node \X Type -> Seq(Data)]
    <3>1. CASE queue[QueueAt(m)] = <<>> /\ UNCHANGED <<user, readyList, queue>>
      BY <3>1 DEF TypeOK
    <3>2. CASE /\ queue[QueueAt(m)] # <<>>
               /\ ExecuteState(m, Head(queue[QueueAt(m)]))
               /\ queue' = [queue EXCEPT ![QueueAt(m)] = Tail(@)]
      <4>1. QueueAt(m) \in Node \X Type
        BY <1>1, QueueAtType DEF TypeOK, ScanOK
      <4>2. queue[QueueAt(m)] \in Seq(Data)
        BY <4>1 DEF TypeOK
      <4>3. /\ Head(queue[QueueAt(m)]) \in Data
            /\ Tail(queue[QueueAt(m)]) \in Seq(Data)
        BY <3>2, <4>2
      <4>4. queue' \in [Node \X Type -> Seq(Data)]
        BY <3>2, <4>3 DEF TypeOK
      <4> QED BY <3>2, <4>3, <4>4, ExecuteType
    <3> QED BY <1>6, <3>1, <3>2 DEF Operate
  <2> QED BY <1>6, <2>1, <2>2, <2>3 DEF Operate, TypeOK, ScanOK
<1>7. CASE EmptyReadyLists(m)
  <2>1. PICK i \in Unsent(m) :
          LET list == <<StateOf[m], Outputs[m][i]>>
          IN  /\ outbox' = [outbox EXCEPT ![m] = <<Head(readyList[list])>>]
              /\ readyList' = [readyList EXCEPT ![list] = Tail(@)]
              /\ todo' = [todo EXCEPT ![m] = Receivers[<<m, list[2]>>]]
    BY <1>7 DEF EmptyReadyLists
  <2> DEFINE t    == Outputs[m][i]
             list == <<StateOf[m], t>>
  <2>2. t \in Type /\ readyList[list] # <<>>
    <3>1. Outputs[m] \in Seq(Type)
      BY StateAssumption
    <3> QED BY <3>1 DEF Unsent
  <2>3. Receivers[<<m, t>>] \subseteq Node
    BY <1>1, <2>2, StateAssumption
  <2>4. readyList[list] \in Seq(Data)
    BY <1>1, <2>2 DEF TypeOK
  <2>5. Head(readyList[list]) \in Data /\ Tail(readyList[list]) \in Seq(Data)
    BY <2>2, <2>4
  <2>6. /\ outbox' = [outbox EXCEPT ![m] = <<Head(readyList[list])>>]
        /\ readyList' = [readyList EXCEPT ![list] = Tail(@)]
        /\ todo' = [todo EXCEPT ![m] = Receivers[<<m, t>>]]
    BY <2>1
  <2> HIDE DEF list, t
  <2>7. /\ outbox' \in [Process -> Seq(Data)]
        /\ todo' \in [Process -> SUBSET Node]
    <3>1. <<Head(readyList[list])>> \in Seq(Data)
      BY <2>5
    <3>2. outbox' \in [Process -> Seq(Data)]
      BY <2>6, <3>1 DEF TypeOK
    <3>3. todo' \in [Process -> SUBSET Node]
      BY <2>3, <2>6 DEF TypeOK
    <3> QED BY <3>2, <3>3
  <2>8. readyList' \in [State \X Type -> Seq(Data)]
    BY <2>5, <2>6 DEF TypeOK
  <2>9. pc' \in [Process -> PC]
    BY <1>2, <1>3, <1>7 DEF EmptyReadyLists
  <2> QED BY <1>7, <2>7, <2>8, <2>9 DEF EmptyReadyLists, TypeOK
<1>8. CASE Release(m)
  <2>1. pc' \in [Process -> PC]
    BY <1>2, <1>3, <1>8 DEF Release
  <2>2. /\ stateMutex' \in [State -> Manager \cup {NoProcess}]
        /\ current' \in [State -> Manager \cup {NoProcess}]
    BY <1>8 DEF Release, TypeOK
  <2> QED BY <1>8, <2>1, <2>2 DEF Release, TypeOK
<1> QED BY <1>4, <1>5, <1>6, <1>7, <1>8 DEF ManagerStep

LEMMA WorkerType ==
  ASSUME TypeOK, NEW w \in Worker, GetInputData(w)
  PROVE  TypeOK'
<1>1. QueueAt(w) \in Node \X Type
  BY QueueAtType DEF TypeOK, ScanOK
<1>2. queue[QueueAt(w)] \in Seq(Data)
  BY <1>1 DEF TypeOK
<1>3. {"get", "check", "deliver"} \subseteq PC
  BY DEF PC
<1>4. CASE /\ queue[QueueAt(w)] # <<>>
           /\ queue' = [queue EXCEPT ![QueueAt(w)] = Tail(@)]
           /\ outbox' = [outbox EXCEPT ![w] = Emit[<<w, Head(queue[QueueAt(w)])>>]]
           /\ Goto(w, "deliver")
           /\ UNCHANGED scan
  <2>1. Head(queue[QueueAt(w)]) \in Data /\ Tail(queue[QueueAt(w)]) \in Seq(Data)
    BY <1>2, <1>4
  <2>2. Emit[<<w, Head(queue[QueueAt(w)])>>] \in Seq(Data)
    BY <2>1, StateAssumption
  <2>3. /\ queue' \in [Node \X Type -> Seq(Data)]
        /\ outbox' \in [Process -> Seq(Data)]
        /\ pc' \in [Process -> PC]
    BY <1>3, <1>4, <2>1, <2>2 DEF Goto, TypeOK
  <2> QED BY <1>4, <2>3 DEF GetInputData, TypeOK
<1>5. CASE /\ Goto(w, IF AtLastType(w) THEN "check" ELSE "get")
           /\ NextType(w)
           /\ UNCHANGED <<queue, outbox>>
  <2>1. ScanOK'
    BY <1>5, ScanStep DEF TypeOK, ScanOK
  <2>2. pc' \in [Process -> PC]
    BY <1>3, <1>5 DEF Goto, TypeOK
  <2> QED BY <1>5, <2>1, <2>2 DEF GetInputData, TypeOK, ScanOK
<1> QED BY <1>4, <1>5 DEF GetInputData

(***************************************************************************)
(* The turn of a manager.                                                   *)
(***************************************************************************)
LEMMA TurnInit == Init => OutboxInv /\ TurnInv /\ ResultsLeaveWithTheirManager
<1> SUFFICES ASSUME Init
             PROVE  OutboxInv /\ TurnInv /\ ResultsLeaveWithTheirManager
  OBVIOUS
<1>1. \A m \in Manager : /\ m \in Process /\ m # Source /\ m # NoProcess
                         /\ StateOf[m] \in State
  BY StateAssumption
<1>2. \A m \in Manager : pc[m] \in {"begin", "check"}
  BY <1>1 DEF Init
<1>3. \A p \in Process : pc[p] \in {"begin", "check", "deliver"}
  BY DEF Init
<1>4. OutboxInv
  BY <1>3 DEF OutboxInv
<1>5. TurnInv
  BY <1>1, <1>2 DEF Init, TurnInv
<1>6. ResultsLeaveWithTheirManager
  BY <1>1, <1>2 DEF Init, InTurn, ResultsLeaveWithTheirManager
<1> QED BY <1>4, <1>5, <1>6

\* A step that touches no state, and takes no manager into its turn or out of it.
LEMMA QuietStep ==
  ASSUME TurnInv, ResultsLeaveWithTheirManager,
         UNCHANGED <<stateMutex, current, readyList>>,
         \A m \in Manager : /\ pc'[m] # "deliver"
                            /\ pc'[m] \in InTurn <=> pc[m] \in InTurn
  PROVE  TurnInv' /\ ResultsLeaveWithTheirManager'
BY DEF TurnInv, ResultsLeaveWithTheirManager

LEMMA SendingTurn ==
  ASSUME TypeOK, OutboxInv, TurnInv, ResultsLeaveWithTheirManager,
         NEW p \in Process, Sending(p)
  PROVE  OutboxInv' /\ TurnInv' /\ ResultsLeaveWithTheirManager'
<1>1. pc \in [Process -> PC] /\ outbox \in [Process -> Seq(Data)]
  BY DEF TypeOK
<1>2. \A m \in Manager : m \in Process /\ m \notin Worker /\ m # Source
  BY StateAssumption
<1>3. UNCHANGED <<stateMutex, current, readyList>>
  BY DEF Sending, Send, WakeUp, EndNotify, Deliver, RemoveNotifier, EndRun
<1>4. p \in Manager => pc[p] # "deliver"
  BY DEF TurnInv
<1>5. /\ OutboxInv'
      /\ \A m \in Manager : /\ pc'[m] # "deliver"
                            /\ pc'[m] \in InTurn <=> pc[m] \in InTurn
  <2>1. CASE Send(p)
    BY <1>1, <1>2, <2>1 DEF Send, Goto, OutboxInv, TurnInv, InTurn
  <2>2. CASE WakeUp(p)
    BY <1>1, <1>2, <2>2 DEF WakeUp, OutboxInv, TurnInv, InTurn
  <2>3. CASE EndNotify(p)
    BY <1>1, <1>2, <2>3 DEF EndNotify, Goto, OutboxInv, TurnInv, InTurn
  <2>4. CASE Deliver(p)
    BY <1>1, <1>2, <1>4, <2>4 DEF Deliver, Goto, OutboxInv, TurnInv, InTurn
  <2>5. CASE RemoveNotifier(p)
    BY <1>1, <1>2, <2>5 DEF RemoveNotifier, Goto, OutboxInv, TurnInv, InTurn
  <2>6. CASE EndRun(p)
    BY <1>1, <1>2, <2>6 DEF EndRun, Goto, OutboxInv, TurnInv, InTurn
  <2> QED BY <2>1, <2>2, <2>3, <2>4, <2>5, <2>6 DEF Sending
<1> QED BY <1>3, <1>5, QuietStep

LEMMA SleeperTurn ==
  ASSUME TypeOK, OutboxInv, TurnInv, ResultsLeaveWithTheirManager,
         NEW p \in Sleeper, SleeperStep(p) \/ SpuriousWakeUp(p)
  PROVE  OutboxInv' /\ TurnInv' /\ ResultsLeaveWithTheirManager'
<1>1. pc \in [Process -> PC] /\ p \in Process
  BY DEF TypeOK
<1>2. \A m \in Manager : m \in Process /\ m \notin Worker
  BY StateAssumption
<1>3. UNCHANGED <<stateMutex, current, readyList, outbox>>
  BY DEF SleeperStep, Check, Sleep, LockSleep, WaitTerminationCondition, Decide,
    SpuriousWakeUp
<1>4. PICK l \in PC :
        /\ pc' = [pc EXCEPT ![p] = l]
        /\ l \notin InTurn \cup {"deliver"} \/ (p \in Worker /\ l = "get")
        /\ pc[p] \notin InTurn \cup {"notify"}
  <2>1. CASE SleeperStep(p)
    BY <2>1, SleeperType DEF PC
  <2>2. CASE SpuriousWakeUp(p)
    BY <2>2 DEF SpuriousWakeUp, Goto, PC, InTurn
  <2> QED BY <2>1, <2>2
<1>5. OutboxInv'
  BY <1>1, <1>3, <1>4 DEF OutboxInv, InTurn
<1>6. \A m \in Manager : /\ pc'[m] # "deliver"
                         /\ pc'[m] \in InTurn <=> pc[m] \in InTurn
  BY <1>1, <1>2, <1>4 DEF TurnInv
<1> QED BY <1>3, <1>5, <1>6, QuietStep

LEMMA WorkerTurn ==
  ASSUME TypeOK, OutboxInv, TurnInv, ResultsLeaveWithTheirManager,
         NEW w \in Worker, GetInputData(w)
  PROVE  OutboxInv' /\ TurnInv' /\ ResultsLeaveWithTheirManager'
<1>1. pc \in [Process -> PC] /\ outbox \in [Process -> Seq(Data)] /\ w \in Process
  BY DEF TypeOK
<1>2. \A m \in Manager : m \in Process /\ m # w
  BY StateAssumption
<1>3. OutboxInv'
  BY <1>1 DEF GetInputData, Goto, OutboxInv
<1>4. \A m \in Manager : pc'[m] = pc[m]
  BY <1>1, <1>2 DEF GetInputData, Goto
<1>5. UNCHANGED <<stateMutex, current, readyList>>
  BY DEF GetInputData
<1> QED BY <1>3, <1>4, <1>5, QuietStep DEF TurnInv

\* A step of a manager with its state.
LEMMA ExecuteTurn ==
  ASSUME TypeOK, TurnInv, NEW m \in Manager, NEW d \in Data \cup {Nullptr},
         ExecuteState(m, d)
  PROVE  /\ \A s \in State, t \in Type :
              s # StateOf[m] => readyList'[<<s, t>>] = readyList[<<s, t>>]
         /\ \A n \in Manager, t \in Type :
              readyList'[<<StateOf[n], t>>] # <<>> => t \in Elements(Outputs[n])
<1> DEFINE r == Execute[<<StateOf[m], user[StateOf[m]], d>>].results
<1>1. /\ StateOf \in [Manager -> State] /\ user[StateOf[m]] \in User
      /\ r \in [Type -> Seq(Data)]
  <2>1. user[StateOf[m]] \in User /\ StateOf \in [Manager -> State]
    BY StateAssumption DEF TypeOK
  <2>2. Execute[<<StateOf[m], user[StateOf[m]], d>>]
          \in [next : User, results : [Type -> Seq(Data)]]
    BY <2>1, StateAssumption
  <2> QED BY <2>1, <2>2
<1>2. \A n \in Manager, t \in Type :
        StateOf[n] = StateOf[m] /\ r[t] # <<>> => t \in Elements(Outputs[n])
  <2>1. \A t \in Type : r[t] # <<>> => t \in Elements(Outputs[m])
    BY <1>1, WiringAssumption
  <2>2. \A n \in Manager : StateOf[n] = StateOf[m] => Outputs[n] = Outputs[m]
    BY WiringAssumption
  <2> QED BY <2>1, <2>2
<1>3. readyList' = Gathered(StateOf[m], r)
  BY DEF ExecuteState
<1> HIDE DEF r
<1>4. \A s \in State, t \in Type :
        readyList'[<<s, t>>] = IF s # StateOf[m] THEN readyList[<<s, t>>]
                               ELSE readyList[<<s, t>>] \o r[t]
  BY <1>3 DEF Gathered
<1>5. ASSUME NEW n \in Manager, NEW t \in Type, readyList'[<<StateOf[n], t>>] # <<>>
      PROVE  t \in Elements(Outputs[n])
  <2>1. CASE readyList[<<StateOf[n], t>>] # <<>>
    BY <2>1 DEF TurnInv
  <2>2. CASE readyList[<<StateOf[n], t>>] = <<>> /\ StateOf[n] # StateOf[m]
    BY <1>1, <1>4, <1>5, <2>2
  <2>3. CASE readyList[<<StateOf[n], t>>] = <<>> /\ StateOf[n] = StateOf[m]
    <3>1. readyList'[<<StateOf[n], t>>] = <<>> \o r[t]
      BY <1>1, <1>4, <2>3
    <3>2. r[t] \in Seq(Data)
      BY <1>1
    <3>3. r[t] # <<>>
      BY <1>5, <3>1, <3>2
    <3> QED BY <1>2, <2>3, <3>3
  <2> QED BY <2>1, <2>2, <2>3
<1> QED BY <1>4, <1>5

\* Within a turn, only the ready lists of the manager's own state change.
LEMMA WithinTurn ==
  ASSUME TypeOK, TurnInv, ResultsLeaveWithTheirManager, NEW m \in Manager,
         pc[m] \in InTurn, UNCHANGED <<stateMutex, current>>,
         NEW l \in InTurn, pc' = [pc EXCEPT ![m] = l],
         \A s \in State, t \in Type :
           s # StateOf[m] => readyList'[<<s, t>>] = readyList[<<s, t>>],
         \A n \in Manager, t \in Type :
           readyList'[<<StateOf[n], t>>] # <<>> => t \in Elements(Outputs[n])
  PROVE  TurnInv' /\ ResultsLeaveWithTheirManager'
<1>1. /\ pc \in [Process -> PC] /\ m \in Process /\ m # NoProcess
      /\ StateOf \in [Manager -> State]
  BY StateAssumption DEF TypeOK
<1>2. stateMutex[StateOf[m]] = m
  BY DEF ResultsLeaveWithTheirManager
<1>3. \A n \in Manager : pc'[n] # "deliver" /\ (pc'[n] \in InTurn <=> pc[n] \in InTurn)
  BY <1>1 DEF TurnInv, InTurn
<1>4. TurnInv'
  BY <1>3 DEF TurnInv
<1>5. ResultsLeaveWithTheirManager'
  BY <1>1, <1>2, <1>3 DEF ResultsLeaveWithTheirManager
<1> QED BY <1>4, <1>5

LEMMA ManagerTurn ==
  ASSUME TypeOK, OutboxInv, TurnInv, ResultsLeaveWithTheirManager,
         NEW m \in Manager, ManagerStep(m)
  PROVE  OutboxInv' /\ TurnInv' /\ ResultsLeaveWithTheirManager'
<1>1. /\ pc \in [Process -> PC] /\ outbox \in [Process -> Seq(Data)]
      /\ stateMutex \in [State -> Manager \cup {NoProcess}]
      /\ current \in [State -> Manager \cup {NoProcess}]
      /\ StateOf \in [Manager -> State]
      /\ \A n \in Manager : n \in Process /\ n # NoProcess
  BY StateAssumption DEF TypeOK
<1>2. OutboxInv'
  <2>1. CASE UNCHANGED outbox /\ \E l : Goto(m, l) /\ l \notin {"send", "notify"}
    BY <1>1, <2>1 DEF Goto, OutboxInv
  <2>2. CASE EmptyReadyLists(m)
    <3>1. PICK x : outbox' = [outbox EXCEPT ![m] = <<x>>]
      BY <2>2 DEF EmptyReadyLists
    <3>2. pc' = [pc EXCEPT ![m] = "send"]
      BY <2>2 DEF EmptyReadyLists, Goto
    <3> QED BY <1>1, <3>1, <3>2 DEF OutboxInv
  <2>3. CASE Acquire(m)
    BY <2>1, <2>3 DEF Acquire
  <2>4. CASE Start(m)
    BY <2>1, <2>4 DEF Start
  <2>5. CASE Operate(m)
    BY <2>1, <2>5 DEF Operate
  <2>6. CASE Release(m)
    BY <2>1, <2>6 DEF Release
  <2> QED BY <2>2, <2>3, <2>4, <2>5, <2>6 DEF ManagerStep
<1>3. CASE Acquire(m)
  <2>1. PICK l \in {"start", "get"} : pc' = [pc EXCEPT ![m] = l]
    BY <1>3 DEF Acquire, Goto
  <2>2. /\ stateMutex[StateOf[m]] = NoProcess
        /\ stateMutex' = [stateMutex EXCEPT ![StateOf[m]] = m]
        /\ current' = [current EXCEPT ![StateOf[m]] = m]
        /\ UNCHANGED readyList
        /\ pc[m] \notin InTurn
    BY <1>3 DEF Acquire, InTurn
  <2>3. TurnInv'
    BY <1>1, <2>1, <2>2 DEF TurnInv
  <2>4. ResultsLeaveWithTheirManager'
    BY <1>1, <2>1, <2>2 DEF ResultsLeaveWithTheirManager, InTurn
  <2> QED BY <1>2, <2>3, <2>4
<1>4. CASE Start(m)
  <2>1. PICK l \in InTurn : pc' = [pc EXCEPT ![m] = l]
    BY <1>4 DEF Start, Goto, InTurn
  <2> QED BY <1>2, <1>4, <2>1, ExecuteTurn, WithinTurn DEF Start, InTurn
<1>5. CASE Operate(m)
  <2>1. PICK l \in InTurn : pc' = [pc EXCEPT ![m] = l]
    BY <1>5 DEF Operate, Goto, InTurn
  <2>2. /\ \A s \in State, t \in Type :
             s # StateOf[m] => readyList'[<<s, t>>] = readyList[<<s, t>>]
        /\ \A n \in Manager, t \in Type :
             readyList'[<<StateOf[n], t>>] # <<>> => t \in Elements(Outputs[n])
    <3>1. CASE UNCHANGED readyList
      BY <3>1 DEF TurnInv
    <3>2. CASE /\ queue[QueueAt(m)] # <<>>
               /\ ExecuteState(m, Head(queue[QueueAt(m)]))
      <4>1. QueueAt(m) \in Node \X Type
        BY QueueAtType DEF TypeOK, ScanOK
      <4>2. queue[QueueAt(m)] \in Seq(Data)
        BY <4>1 DEF TypeOK
      <4>3. Head(queue[QueueAt(m)]) \in Data
        BY <3>2, <4>2
      <4> QED BY <3>2, <4>3, ExecuteTurn
    <3> QED BY <1>5, <3>1, <3>2 DEF Operate
  <2> QED BY <1>2, <1>5, <2>1, <2>2, WithinTurn DEF Operate, InTurn
<1>6. CASE EmptyReadyLists(m)
  <2>1. PICK i \in Unsent(m) :
          readyList' = [readyList EXCEPT ![<<StateOf[m], Outputs[m][i]>>] = Tail(@)]
    BY <1>6 DEF EmptyReadyLists
  <2>2. Outputs[m][i] \in Type /\ readyList[<<StateOf[m], Outputs[m][i]>>] # <<>>
    <3>1. Outputs[m] \in Seq(Type)
      BY StateAssumption
    <3> QED BY <3>1 DEF Unsent
  <2>3. /\ \A s \in State, t \in Type :
             s # StateOf[m] => readyList'[<<s, t>>] = readyList[<<s, t>>]
        /\ \A s \in State, t \in Type :
             readyList'[<<s, t>>] # <<>> => readyList[<<s, t>>] # <<>>
    BY <1>1, <2>1, <2>2 DEF TypeOK
  <2>4. \A n \in Manager, t \in Type :
          readyList'[<<StateOf[n], t>>] # <<>> => t \in Elements(Outputs[n])
    BY <1>1, <2>3 DEF TurnInv
  <2>5. pc' = [pc EXCEPT ![m] = "send"]
    BY <1>6 DEF EmptyReadyLists, Goto
  <2> QED BY <1>2, <1>6, <2>3, <2>4, <2>5, WithinTurn DEF EmptyReadyLists, InTurn
<1>7. CASE Release(m)
  <2>1. /\ pc' = [pc EXCEPT ![m] = "check"]
        /\ stateMutex' = [stateMutex EXCEPT ![StateOf[m]] = NoProcess]
        /\ current' = [current EXCEPT ![StateOf[m]] = NoProcess]
        /\ UNCHANGED readyList
        /\ pc[m] \in InTurn
    BY <1>7 DEF Release, Goto, InTurn
  <2>2. stateMutex[StateOf[m]] = m
    BY <2>1 DEF ResultsLeaveWithTheirManager
  <2>3. \A t \in Type : readyList[<<StateOf[m], t>>] = <<>>
    <3> SUFFICES ASSUME NEW t \in Type, readyList[<<StateOf[m], t>>] # <<>>
                 PROVE  FALSE
      OBVIOUS
    <3>1. t \in Elements(Outputs[m])
      BY DEF TurnInv
    <3>2. PICK i \in DOMAIN Outputs[m] : Outputs[m][i] = t
      BY <3>1 DEF Elements
    <3>3. i \in Unsent(m)
      BY <3>2 DEF Unsent
    <3> QED BY <1>7, <3>3 DEF Release
  <2>4. TurnInv'
    BY <1>1, <2>1 DEF TurnInv
  <2>5. ResultsLeaveWithTheirManager'
    BY <1>1, <2>1, <2>2, <2>3 DEF ResultsLeaveWithTheirManager, InTurn
  <2> QED BY <1>2, <2>4, <2>5
<1> QED BY <1>3, <1>4, <1>5, <1>6, <1>7 DEF ManagerStep

(***************************************************************************)
(* The theorems.                                                            *)
(***************************************************************************)
LEMMA Invariance == Spec => []IInv
<1>1. Init => IInv
  BY TypeInit, TurnInit DEF IInv
<1>2. IInv /\ [Next]_vars => IInv'
  <2> SUFFICES ASSUME IInv, [Next]_vars PROVE IInv'
    OBVIOUS
  <2> USE DEF IInv
  <2>1. ASSUME NEW p \in Process, Sending(p) PROVE IInv'
    BY <2>1, SendingType, SendingTurn
  <2>2. ASSUME NEW p \in Sleeper, SleeperStep(p) PROVE IInv'
    BY <2>2, SleeperType, SleeperTurn
  <2>3. ASSUME NEW p \in Sleeper, SpuriousWakeUp(p) PROVE IInv'
    <3>1. TypeOK'
      BY <2>3 DEF SpuriousWakeUp, Goto, TypeOK, PC
    <3> QED BY <2>3, <3>1, SleeperTurn
  <2>4. ASSUME NEW m \in Manager, ManagerStep(m) PROVE IInv'
    BY <2>4, ManagerType, ManagerTurn
  <2>5. ASSUME NEW w \in Worker, GetInputData(w) PROVE IInv'
    BY <2>5, WorkerType, WorkerTurn
  <2>6. CASE UNCHANGED vars
    BY <2>6 DEF vars, TypeOK, OutboxInv, TurnInv, ResultsLeaveWithTheirManager
  <2> QED BY <2>1, <2>2, <2>3, <2>4, <2>5, <2>6
          DEF Next, ThreadStep, SleeperStep, Finished
<1> QED BY <1>1, <1>2, PTL DEF Spec

\* Every variable keeps its type, whatever the managers, states and types.
THEOREM TypeCorrect == Spec => []TypeOK
BY Invariance, PTL DEF IInv

\* The executions of a state are serialised: CoreStateManager::run has the state
\* for itself from lock to unlock, is the manager it is linked to, and leaves no
\* result in its ready lists for another manager to send.
THEOREM ExecutionsAreSerialised == Spec => []ResultsLeaveWithTheirManager
BY Invariance, PTL DEF IInv

(***************************************************************************)
(* What an ended node leaves.                                               *)
(***************************************************************************)
\* A value is on its way to receivers of its type only.
SendInv ==
  \A p \in Process : pc[p] = "send" =>
    todo[p] \subseteq Receivers[<<p, TypeOf[Head(outbox[p])]>>]

\* A node knows exactly the notifiers that may still send to it.
NotifierInv ==
  \A p \in Process, n \in Node :
    p \in notifiers[n] <=> /\ n \in Slots(p)
                           /\ pc[p] \notin {"wakeAll", "done"}
                           /\ pc[p] = "disconnect" => n \in todo[p]

\* A node only has values of its types, a ready list only results of its type.
ReceiverInv ==
  \A n \in Sleeper : \A t \in Type \ Elements(Inputs[n]) : queue[<<n, t>>] = <<>>

ReadyListInv ==
  \A s \in State, t \in Type : \A d \in Elements(readyList[<<s, t>>]) : TypeOf[d] = t

\* Only a manager of a state locks it, or adds results to its ready lists.
OwnerInv ==
  /\ \A s \in State : stateMutex[s] \in Manager => StateOf[stateMutex[s]] = s
  /\ \A s \in State : (\A m \in Manager : StateOf[m] # s) =>
       \A t \in Type : readyList[<<s, t>>] = <<>>

\* What receiversEmpty read stays true, as it is read without notifiers: the
\* queues before the one it is at are empty, and in the end all are.
Reading == {"checkEmpty", "predEmptyAgain", "decideEmpty"}

Drained(n) ==
  /\ pc[n] \in Reading =>
       /\ notifiers[n] = {}
       /\ \A i \in DOMAIN Inputs[n] : i < scan[n] => queue[<<n, Inputs[n][i]>>] = <<>>
  /\ pc[n] \in Ended =>
       /\ notifiers[n] = {}
       /\ \A t \in Elements(Inputs[n]) : queue[<<n, t>>] = <<>>

DrainInv == \A n \in Sleeper \ Overrides : Drained(n)

EndInv ==
  SendInv /\ NotifierInv /\ ReceiverInv /\ ReadyListInv /\ OwnerInv /\ DrainInv

LEMMA EndInit == Init => EndInv
<1> SUFFICES ASSUME Init PROVE EndInv
  OBVIOUS
<1>1. /\ \A p \in Process : pc[p] \in {"begin", "check", "deliver"}
      /\ \A n \in Sleeper : n \in Process /\ n \in Node
      /\ \A n \in Node : notifiers[n] = {p \in Process : n \in Slots(p)}
      /\ \A n \in Node, t \in Type : queue[<<n, t>>] = <<>>
      /\ \A s \in State, t \in Type : readyList[<<s, t>>] = <<>>
      /\ \A s \in State : stateMutex[s] = NoProcess
  BY DEF Init
<1>2. SendInv /\ NotifierInv
  BY <1>1 DEF SendInv, NotifierInv
<1>3. ReceiverInv /\ ReadyListInv
  BY <1>1 DEF ReceiverInv, ReadyListInv, Elements
<1>4. OwnerInv
  BY <1>1, StateAssumption DEF OwnerInv
<1>5. DrainInv
  BY <1>1 DEF DrainInv, Drained, Reading, Ended
<1> QED BY <1>2, <1>3, <1>4, <1>5 DEF EndInv

\* The control of a node that tests canTerminate or sleeps.
Waiting == {"check", "checkEmpty", "lock", "wait"} \cup InSleep

LEMMA SleeperMoves ==
  ASSUME TypeOK, NEW p \in Sleeper, SleeperStep(p) \/ SpuriousWakeUp(p)
  PROVE  /\ UNCHANGED <<queue, notifiers, stateMutex, readyList, outbox>>
         /\ pc[p] \in Waiting
         /\ \E l \in Waiting \cup {"disconnect", "get", "acquire"} :
              /\ pc' = [pc EXCEPT ![p] = l]
              /\ l = "disconnect" => todo' = [todo EXCEPT ![p] = Slots(p)]
              /\ l # "disconnect" => UNCHANGED todo
<1> DEFINE After == Waiting \cup {"disconnect", "get", "acquire"}
           Moves == \E l \in After :
                      /\ pc' = [pc EXCEPT ![p] = l]
                      /\ l = "disconnect" => todo' = [todo EXCEPT ![p] = Slots(p)]
                      /\ l # "disconnect" => UNCHANGED todo
<1>1. UNCHANGED <<queue, notifiers, stateMutex, readyList, outbox>>
  BY DEF SleeperStep, Check, Sleep, LockSleep, WaitTerminationCondition, Decide,
    SpuriousWakeUp
<1>2. pc \in [Process -> PC] /\ p \in Process /\ Work(p) \in {"acquire", "get"}
  BY DEF TypeOK, Work
<1>3. ASSUME NEW l \in {"disconnect", "lock", "checkEmpty", "decideEmpty", "acquire", "get"},
             pc' = [pc EXCEPT ![p] = l], AfterTest(p)
      PROVE  Moves
  <2>1. pc'[p] = l /\ l \in After
    BY <1>2, <1>3 DEF Waiting, InSleep
  <2>2. /\ l = "disconnect" => todo' = [todo EXCEPT ![p] = Slots(p)]
        /\ l # "disconnect" => UNCHANGED todo
    BY <1>3, <2>1 DEF AfterTest, Leave
  <2> QED BY <1>3, <2>1, <2>2
<1>4. ASSUME NEW l \in Waiting, pc' = [pc EXCEPT ![p] = l], UNCHANGED todo
      PROVE  Moves
  <2>1. l \in After /\ l # "disconnect"
    BY <1>4 DEF Waiting, InSleep
  <2> QED BY <1>4, <2>1
<1> HIDE DEF Moves
<1>5. CASE Check(p)
  <2>1. pc[p] \in {"check", "checkEmpty"}
    BY <1>5 DEF Check, CanTerminate, ReceiversEmpty
  <2>2. PICK l \in {"disconnect", "lock", "checkEmpty"} : pc' = [pc EXCEPT ![p] = l]
    <3>1. CASE CanTerminate(p, "check", "disconnect", "lock", "checkEmpty")
      BY <3>1, Zenon DEF CanTerminate, Goto
    <3>2. CASE ReceiversEmpty(p, "checkEmpty", "disconnect", "lock")
      BY <3>2, Zenon DEF ReceiversEmpty, Goto
    <3> QED BY <1>5, <3>1, <3>2 DEF Check
  <2>3. Moves
    BY <1>3, <1>5, <2>2 DEF Check
  <2> QED BY <1>1, <2>1, <2>3 DEF Moves, Waiting
<1>6. CASE Decide(p)
  <2>1. pc[p] \in {"decide", "decideEmpty"}
    BY <1>6 DEF Decide, CanTerminate, ReceiversEmpty
  <2>2. PICK l \in {"disconnect", Work(p), "decideEmpty"} : pc' = [pc EXCEPT ![p] = l]
    <3>1. CASE CanTerminate(p, "decide", "disconnect", Work(p), "decideEmpty")
      BY <3>1, Zenon DEF CanTerminate, Goto
    <3>2. CASE ReceiversEmpty(p, "decideEmpty", "disconnect", Work(p))
      BY <3>2, Zenon DEF ReceiversEmpty, Goto
    <3> QED BY <1>6, <3>1, <3>2 DEF Decide
  <2>3. l \in {"disconnect", "decideEmpty", "acquire", "get"}
    BY <1>2
  <2>4. Moves
    BY <1>3, <1>6, <2>2, <2>3 DEF Decide
  <2> QED BY <1>1, <2>1, <2>4 DEF Moves, Waiting, InSleep
<1>7. CASE WaitTerminationCondition(p)
  <2>1. pc[p] \in {"predEmpty", "pred", "predEmptyAgain"}
    BY <1>7 DEF WaitTerminationCondition, CanTerminate, ReceiversEmpty
  <2>2. PICK l \in {"predEmpty", "pred", "predEmptyAgain", "decide", "wait"} :
          pc' = [pc EXCEPT ![p] = l]
    <3>1. CASE ReceiversEmpty(p, "predEmpty", "pred", "decide")
      BY <3>1, Zenon DEF ReceiversEmpty, Goto
    <3>2. CASE CanTerminate(p, "pred", "decide", "wait", "predEmptyAgain")
      BY <3>2, Zenon DEF CanTerminate, Goto
    <3>3. CASE ReceiversEmpty(p, "predEmptyAgain", "decide", "wait")
      BY <3>3, Zenon DEF ReceiversEmpty, Goto
    <3> QED BY <1>7, <3>1, <3>2, <3>3 DEF WaitTerminationCondition
  <2>3. l \in Waiting
    BY DEF Waiting, InSleep
  <2>4. Moves
    BY <1>4, <1>7, <2>2, <2>3 DEF WaitTerminationCondition
  <2> QED BY <1>1, <2>1, <2>4 DEF Moves, Waiting, InSleep
<1>8. CASE LockSleep(p) \/ SpuriousWakeUp(p)
  <2>1. pc[p] \in {"lock", "wait"} /\ UNCHANGED todo
    BY <1>8 DEF LockSleep, SpuriousWakeUp
  <2>2. PICK l \in {"predEmpty", "lock"} : pc' = [pc EXCEPT ![p] = l]
    BY <1>8 DEF LockSleep, SpuriousWakeUp, Goto
  <2>3. Moves
    BY <1>4, <2>1, <2>2 DEF Waiting, InSleep
  <2> QED BY <1>1, <2>1, <2>3 DEF Moves, Waiting
<1> QED BY <1>5, <1>6, <1>7, <1>8 DEF SleeperStep, Sleep

\* The states and their owners.
LEMMA OwnerStep ==
  ASSUME IInv, OwnerInv, [Next]_vars
  PROVE  OwnerInv'
<1>1. ASSUME UNCHANGED <<stateMutex, readyList>> PROVE OwnerInv'
  BY <1>1 DEF OwnerInv
<1>2. ASSUME NEW m \in Manager, ManagerStep(m) PROVE OwnerInv'
  <2>0. /\ StateOf \in [Manager -> State] /\ NoProcess \notin Manager
        /\ stateMutex \in [State -> Manager \cup {NoProcess}]
    BY StateAssumption DEF IInv, TypeOK
  <2>1. ASSUME UNCHANGED stateMutex,
               \A s \in State, t \in Type :
                 s # StateOf[m] => readyList'[<<s, t>>] = readyList[<<s, t>>]
        PROVE  OwnerInv'
    BY <2>1 DEF OwnerInv
  <2>2. CASE Acquire(m)
    BY <2>0, <2>2 DEF Acquire, OwnerInv
  <2>3. CASE Release(m)
    BY <2>0, <2>3 DEF Release, OwnerInv
  <2>4. CASE Start(m)
    BY <2>1, <2>4, ExecuteTurn DEF Start, IInv
  <2>5. CASE Operate(m)
    <3>1. CASE UNCHANGED readyList
      BY <1>1, <2>5, <3>1 DEF Operate
    <3>2. CASE /\ queue[QueueAt(m)] # <<>>
               /\ ExecuteState(m, Head(queue[QueueAt(m)]))
      <4>1. QueueAt(m) \in Node \X Type
        BY QueueAtType DEF IInv, TypeOK, ScanOK
      <4>2. queue[QueueAt(m)] \in Seq(Data)
        BY <4>1 DEF IInv, TypeOK
      <4>3. Head(queue[QueueAt(m)]) \in Data
        BY <3>2, <4>2
      <4> QED BY <2>1, <2>5, <3>2, <4>3, ExecuteTurn DEF IInv, Operate
    <3> QED BY <2>5, <3>1, <3>2 DEF Operate
  <2>6. CASE EmptyReadyLists(m)
    <3>1. PICK i \in Unsent(m) :
            readyList' = [readyList EXCEPT ![<<StateOf[m], Outputs[m][i]>>] = Tail(@)]
      BY <2>6 DEF EmptyReadyLists
    <3>2. \A s \in State, t \in Type :
            s # StateOf[m] => readyList'[<<s, t>>] = readyList[<<s, t>>]
      BY <3>1 DEF IInv, TypeOK
    <3> QED BY <2>1, <2>6, <3>2 DEF EmptyReadyLists
  <2> QED BY <1>2, <2>2, <2>3, <2>4, <2>5, <2>6 DEF ManagerStep
<1>3. ASSUME NEW p \in Process, Sending(p) PROVE OwnerInv'
  BY <1>1, <1>3 DEF Sending, Send, WakeUp, EndNotify, Deliver, RemoveNotifier, EndRun
<1>4. ASSUME NEW p \in Sleeper, SleeperStep(p) \/ SpuriousWakeUp(p) PROVE OwnerInv'
  BY <1>1, <1>4, SleeperMoves DEF IInv
<1>5. ASSUME NEW w \in Worker, GetInputData(w) PROVE OwnerInv'
  BY <1>1, <1>5 DEF GetInputData
<1>6. CASE UNCHANGED vars
  BY <1>1, <1>6 DEF vars
<1> QED BY <1>2, <1>3, <1>4, <1>5, <1>6 DEF Next, ThreadStep, SleeperStep, Finished

LEMMA ElementsOf ==
  ASSUME NEW s \in Seq(Data), NEW r \in Seq(Data)
  PROVE  /\ Elements(s \o r) \subseteq Elements(s) \cup Elements(r)
         /\ s # <<>> => Head(s) \in Elements(s) /\ Elements(Tail(s)) \subseteq Elements(s)
<1>1. Elements(s \o r) \subseteq Elements(s) \cup Elements(r)
  <2> SUFFICES ASSUME NEW i \in DOMAIN (s \o r)
               PROVE  (s \o r)[i] \in Elements(s) \cup Elements(r)
    BY DEF Elements
  <2>1. /\ Len(s) \in Nat /\ Len(r) \in Nat /\ i \in 1 .. Len(s) + Len(r)
        /\ DOMAIN s = 1 .. Len(s) /\ DOMAIN r = 1 .. Len(r)
    BY ConcatProperties
  <2>2. CASE i <= Len(s)
    <3>1. i \in DOMAIN s /\ (s \o r)[i] = s[i]
      BY <2>1, <2>2, ConcatProperties
    <3> QED BY <3>1 DEF Elements
  <2>3. CASE i > Len(s)
    <3>1. i - Len(s) \in DOMAIN r /\ (s \o r)[i] = r[i - Len(s)]
      BY <2>1, <2>3, ConcatProperties
    <3> QED BY <3>1 DEF Elements
  <2> QED BY <2>1, <2>2, <2>3
<1>2. ASSUME s # <<>>
      PROVE  Head(s) \in Elements(s) /\ Elements(Tail(s)) \subseteq Elements(s)
  <2>1. /\ Len(s) \in Nat \ {0} /\ DOMAIN s = 1 .. Len(s) /\ Head(s) = s[1]
        /\ Tail(s) \in Seq(Data) /\ Len(Tail(s)) = Len(s) - 1
        /\ \A i \in 1 .. Len(s) - 1 : Tail(s)[i] = s[i + 1]
    BY <1>2, HeadTailProperties, EmptySeq
  <2>2. Head(s) \in Elements(s)
    BY <2>1 DEF Elements
  <2>3. ASSUME NEW i \in DOMAIN Tail(s) PROVE Tail(s)[i] \in Elements(s)
    <3>1. i \in 1 .. Len(s) - 1
      BY <2>1
    <3>2. i + 1 \in DOMAIN s /\ Tail(s)[i] = s[i + 1]
      BY <2>1, <3>1
    <3> QED BY <3>2 DEF Elements
  <2> QED BY <2>2, <2>3 DEF Elements
<1> QED BY <1>1, <1>2

\* A ready list only grows by results of its type.
LEMMA ReadyListStep ==
  ASSUME IInv, ReadyListInv, [Next]_vars
  PROVE  ReadyListInv'
<1>1. ASSUME UNCHANGED readyList PROVE ReadyListInv'
  BY <1>1 DEF ReadyListInv
<1>2. ASSUME NEW m \in Manager, NEW d \in Data \cup {Nullptr}, ExecuteState(m, d)
      PROVE  ReadyListInv'
  <2> DEFINE r == Execute[<<StateOf[m], user[StateOf[m]], d>>].results
  <2>1. user[StateOf[m]] \in User /\ StateOf[m] \in State
    BY StateAssumption DEF IInv, TypeOK
  <2>2. r \in [Type -> Seq(Data)]
    <3>1. Execute[<<StateOf[m], user[StateOf[m]], d>>]
            \in [next : User, results : [Type -> Seq(Data)]]
      BY <2>1, StateAssumption
    <3> QED BY <3>1
  <2>3. \A t \in Type : \A e \in Elements(r[t]) : TypeOf[e] = t
    BY <2>1, WiringAssumption
  <2>4. readyList' = Gathered(StateOf[m], r)
    BY <1>2 DEF ExecuteState
  <2> HIDE DEF r
  <2>5. SUFFICES ASSUME NEW s \in State, NEW t \in Type, NEW e \in Elements(readyList'[<<s, t>>])
                 PROVE  TypeOf[e] = t
    BY DEF ReadyListInv
  <2>6. readyList[<<s, t>>] \in Seq(Data) /\ r[t] \in Seq(Data)
    BY <2>2 DEF IInv, TypeOK
  <2>7. readyList'[<<s, t>>] \in {readyList[<<s, t>>], readyList[<<s, t>>] \o r[t]}
    BY <2>4 DEF Gathered
  <2>8. e \in Elements(readyList[<<s, t>>]) \cup Elements(r[t])
    BY <2>5, <2>6, <2>7, ElementsOf
  <2> QED BY <2>3, <2>8 DEF ReadyListInv
<1>3. ASSUME NEW m \in Manager, ManagerStep(m) PROVE ReadyListInv'
  <2>1. CASE Acquire(m) \/ Release(m)
    BY <1>1, <2>1 DEF Acquire, Release
  <2>2. CASE Start(m)
    BY <1>2, <2>2 DEF Start
  <2>3. CASE Operate(m)
    <3>1. CASE UNCHANGED readyList
      BY <1>1, <3>1
    <3>2. CASE /\ queue[QueueAt(m)] # <<>>
               /\ ExecuteState(m, Head(queue[QueueAt(m)]))
      <4>1. QueueAt(m) \in Node \X Type
        BY QueueAtType DEF IInv, TypeOK, ScanOK
      <4>2. queue[QueueAt(m)] \in Seq(Data)
        BY <4>1 DEF IInv, TypeOK
      <4>3. Head(queue[QueueAt(m)]) \in Data
        BY <3>2, <4>2
      <4> QED BY <1>2, <3>2, <4>3
    <3> QED BY <2>3, <3>1, <3>2 DEF Operate
  <2>4. CASE EmptyReadyLists(m)
    <3>1. PICK i \in Unsent(m) :
            readyList' = [readyList EXCEPT ![<<StateOf[m], Outputs[m][i]>>] = Tail(@)]
      BY <2>4 DEF EmptyReadyLists
    <3>2. \A s \in State, t \in Type :
            readyList'[<<s, t>>] # readyList[<<s, t>>] =>
              /\ readyList[<<s, t>>] # <<>>
              /\ readyList'[<<s, t>>] = Tail(readyList[<<s, t>>])
      BY <3>1 DEF Unsent, IInv, TypeOK
    <3>3. \A s \in State, t \in Type :
            Elements(readyList'[<<s, t>>]) \subseteq Elements(readyList[<<s, t>>])
      <4> SUFFICES ASSUME NEW s \in State, NEW t \in Type,
                          readyList'[<<s, t>>] # readyList[<<s, t>>]
                   PROVE  Elements(readyList'[<<s, t>>]) \subseteq Elements(readyList[<<s, t>>])
        OBVIOUS
      <4>1. readyList[<<s, t>>] \in Seq(Data) /\ readyList[<<s, t>>] # <<>>
        BY <3>2 DEF IInv, TypeOK
      <4>2. readyList'[<<s, t>>] = Tail(readyList[<<s, t>>])
        BY <3>2
      <4> QED BY <4>1, <4>2, ElementsOf
    <3> QED BY <3>3 DEF ReadyListInv
  <2> QED BY <1>3, <2>1, <2>2, <2>3, <2>4 DEF ManagerStep
<1>4. ASSUME NEW p \in Process, Sending(p) PROVE ReadyListInv'
  BY <1>1, <1>4 DEF Sending, Send, WakeUp, EndNotify, Deliver, RemoveNotifier, EndRun
<1>5. ASSUME NEW p \in Sleeper, SleeperStep(p) \/ SpuriousWakeUp(p) PROVE ReadyListInv'
  BY <1>1, <1>5, SleeperMoves DEF IInv
<1>6. ASSUME NEW w \in Worker, GetInputData(w) PROVE ReadyListInv'
  BY <1>1, <1>6 DEF GetInputData
<1>7. CASE UNCHANGED vars
  BY <1>1, <1>7 DEF vars
<1> QED BY <1>3, <1>4, <1>5, <1>6, <1>7 DEF Next, ThreadStep, SleeperStep, Finished

\* The steps of a thread of its own: the others keep their control, unless they
\* are woken, and what they send.
LEMMA OthersKept ==
  ASSUME IInv, NEW p \in Process,
         \/ Send(p) \/ EndNotify(p) \/ Deliver(p) \/ RemoveNotifier(p) \/ EndRun(p)
         \/ p \in Sleeper /\ (SleeperStep(p) \/ SpuriousWakeUp(p))
         \/ p \in Manager /\ ManagerStep(p)
         \/ p \in Worker /\ GetInputData(p)
  PROVE  \A q \in Process \ {p} :
           pc'[q] = pc[q] /\ todo'[q] = todo[q] /\ outbox'[q] = outbox[q]
<1>1. /\ pc \in [Process -> PC] /\ todo \in [Process -> SUBSET Node]
      /\ outbox \in [Process -> Seq(Data)]
  BY DEF IInv, TypeOK
<1>2. CASE Send(p)
  BY <1>1, <1>2 DEF Send, Goto
<1>3. CASE EndNotify(p)
  BY <1>1, <1>3 DEF EndNotify, Goto
<1>4. CASE Deliver(p)
  BY <1>1, <1>4 DEF Deliver, Goto, Leave
<1>5. CASE RemoveNotifier(p)
  BY <1>1, <1>5 DEF RemoveNotifier, Goto
<1>6. CASE EndRun(p)
  BY <1>1, <1>6 DEF EndRun, Goto
<1>7. CASE p \in Sleeper /\ (SleeperStep(p) \/ SpuriousWakeUp(p))
  BY <1>1, <1>7, SleeperMoves DEF IInv
<1>8. CASE p \in Manager /\ ManagerStep(p)
  BY <1>1, <1>8 DEF ManagerStep, Acquire, Start, Operate, EmptyReadyLists, Release, Goto
<1>9. CASE p \in Worker /\ GetInputData(p)
  BY <1>1, <1>9 DEF GetInputData, Goto
<1> QED BY <1>2, <1>3, <1>4, <1>5, <1>6, <1>7, <1>8, <1>9

LEMMA SendInvStep ==
  ASSUME IInv, ReadyListInv, SendInv, [Next]_vars
  PROVE  SendInv'
<1>0. /\ pc \in [Process -> PC] /\ todo \in [Process -> SUBSET Node]
      /\ outbox \in [Process -> Seq(Data)]
  BY DEF IInv, TypeOK
<1>1. ASSUME NEW p \in Process,
             \A q \in Process \ {p} :
               pc'[q] = pc[q] /\ todo'[q] = todo[q] /\ outbox'[q] = outbox[q],
             pc'[p] = "send" => todo'[p] \subseteq Receivers[<<p, TypeOf[Head(outbox'[p])]>>]
      PROVE  SendInv'
  BY <1>1 DEF SendInv
<1>2. ASSUME NEW p \in Process, Sending(p) PROVE SendInv'
  <2>1. CASE Send(p)
    <3>1. pc'[p] = "send" => todo'[p] \subseteq Receivers[<<p, TypeOf[Head(outbox'[p])]>>]
      BY <1>0, <2>1 DEF Send, SendInv, Goto
    <3> QED BY <1>1, <2>1, <3>1, OthersKept
  <2>2. CASE WakeUp(p)
    <3>1. \A q \in Process : pc'[q] = "send" =>
            pc[q] = "send" /\ todo'[q] = todo[q] /\ outbox'[q] = outbox[q]
      BY <1>0, <2>2 DEF WakeUp
    <3> QED BY <3>1 DEF SendInv
  <2>3. CASE EndNotify(p) \/ RemoveNotifier(p) \/ EndRun(p)
    <3>1. pc'[p] # "send"
      BY <1>0, <2>3 DEF EndNotify, RemoveNotifier, EndRun, Goto
    <3> QED BY <1>1, <2>3, <3>1, OthersKept
  <2>4. CASE Deliver(p)
    <3>1. pc'[p] = "send" => todo'[p] \subseteq Receivers[<<p, TypeOf[Head(outbox'[p])]>>]
      BY <1>0, <2>4 DEF Deliver, Goto
    <3> QED BY <1>1, <2>4, <3>1, OthersKept
  <2> QED BY <1>2, <2>1, <2>2, <2>3, <2>4 DEF Sending
<1>3. ASSUME NEW p \in Sleeper, SleeperStep(p) \/ SpuriousWakeUp(p) PROVE SendInv'
  <2>1. pc'[p] # "send"
    <3>1. PICK l \in Waiting \cup {"disconnect", "get", "acquire"} : pc' = [pc EXCEPT ![p] = l]
      BY <1>3, SleeperMoves DEF IInv
    <3> QED BY <1>0, <3>1 DEF Waiting, InSleep
  <2> QED BY <1>1, <1>3, <2>1, OthersKept
<1>4. ASSUME NEW m \in Manager, ManagerStep(m) PROVE SendInv'
  <2>0. m \in Process
    OBVIOUS
  <2>1. CASE Acquire(m) \/ Start(m) \/ Operate(m) \/ Release(m)
    <3>1. pc'[m] # "send"
      BY <1>0, <2>0, <2>1 DEF Acquire, Start, Operate, Release, Goto
    <3> QED BY <1>1, <1>4, <2>0, <3>1, OthersKept
  <2>2. CASE EmptyReadyLists(m)
    <3>1. PICK i \in Unsent(m) :
            /\ outbox' = [outbox EXCEPT ![m] = <<Head(readyList[<<StateOf[m], Outputs[m][i]>>])>>]
            /\ todo' = [todo EXCEPT ![m] = Receivers[<<m, Outputs[m][i]>>]]
      BY <2>2 DEF EmptyReadyLists
    <3>2. PICK t \in Type : t = Outputs[m][i] /\ readyList[<<StateOf[m], t>>] # <<>>
      <4>1. Outputs[m] \in Seq(Type) /\ i \in DOMAIN Outputs[m]
        BY StateAssumption DEF Unsent
      <4>2. Outputs[m][i] \in Type
        BY <4>1
      <4>3. readyList[<<StateOf[m], Outputs[m][i]>>] # <<>>
        BY DEF Unsent
      <4> QED BY <4>2, <4>3
    <3>3. StateOf[m] \in State
      BY StateAssumption
    <3>4. readyList[<<StateOf[m], t>>] \in Seq(Data)
      BY <3>3 DEF IInv, TypeOK
    <3>5. Head(readyList[<<StateOf[m], t>>]) \in Elements(readyList[<<StateOf[m], t>>])
      BY <3>2, <3>4, ElementsOf
    <3>6. TypeOf[Head(readyList[<<StateOf[m], t>>])] = t
      BY <3>3, <3>5 DEF ReadyListInv
    <3>7. /\ Head(outbox'[m]) = Head(readyList[<<StateOf[m], t>>])
          /\ todo'[m] = Receivers[<<m, t>>]
      BY <1>0, <2>0, <3>1, <3>2
    <3> QED BY <1>1, <1>4, <2>0, <3>6, <3>7, OthersKept
  <2> QED BY <1>4, <2>1, <2>2 DEF ManagerStep
<1>5. ASSUME NEW w \in Worker, GetInputData(w) PROVE SendInv'
  <2>1. pc'[w] # "send"
    BY <1>0, <1>5 DEF GetInputData, Goto
  <2> QED BY <1>1, <1>5, <2>1, OthersKept
<1>6. CASE UNCHANGED vars
  BY <1>6 DEF vars, SendInv
<1> QED BY <1>2, <1>3, <1>4, <1>5, <1>6 DEF Next, ThreadStep, SleeperStep, Finished

LEMMA NotifierStep ==
  ASSUME IInv, NotifierInv, [Next]_vars
  PROVE  NotifierInv'
<1>0. /\ pc \in [Process -> PC] /\ todo \in [Process -> SUBSET Node]
      /\ notifiers \in [Node -> SUBSET Process]
  BY DEF IInv, TypeOK
<1>1. ASSUME NEW p \in Process,
             \A q \in Process \ {p} : pc'[q] = pc[q] /\ todo'[q] = todo[q],
             UNCHANGED notifiers,
             pc[p] \notin Ended,
             \/ pc'[p] \notin Ended
             \/ pc'[p] = "disconnect" /\ todo'[p] = Slots(p)
      PROVE  NotifierInv'
  <2>1. \A q \in Process \ {p}, n \in Node :
          q \in notifiers'[n] <=> /\ n \in Slots(q)
                                  /\ pc'[q] \notin {"wakeAll", "done"}
                                  /\ pc'[q] = "disconnect" => n \in todo'[q]
    BY <1>1 DEF NotifierInv
  <2>2. \A n \in Node : p \in notifiers'[n] <=> n \in Slots(p)
    BY <1>1 DEF NotifierInv, Ended
  <2>3. \A n \in Node : n \in Slots(p) =>
          /\ pc'[p] \notin {"wakeAll", "done"}
          /\ pc'[p] = "disconnect" => n \in todo'[p]
    BY <1>1 DEF Ended
  <2> QED BY <2>1, <2>2, <2>3 DEF NotifierInv
<1>2. ASSUME NEW p \in Process, Sending(p) PROVE NotifierInv'
  <2>1. CASE Send(p) \/ EndNotify(p)
    <3>1. pc[p] \notin Ended /\ pc'[p] \notin Ended /\ UNCHANGED notifiers
      BY <1>0, <2>1 DEF Send, EndNotify, Goto, Ended
    <3> QED BY <1>1, <2>1, <3>1, OthersKept
  <2>2. CASE Deliver(p)
    <3>1. /\ pc[p] \notin Ended /\ UNCHANGED notifiers
          /\ pc'[p] \notin Ended \/ (pc'[p] = "disconnect" /\ todo'[p] = Slots(p))
      BY <1>0, <2>2 DEF Deliver, Leave, Goto, Ended
    <3> QED BY <1>1, <2>2, <3>1, OthersKept
  <2>3. CASE WakeUp(p)
    <3>1. /\ UNCHANGED notifiers
          /\ \A q \in Process : \/ pc'[q] = pc[q]
                                \/ pc[q] = "wait" /\ pc'[q] = "lock"
          /\ \A q \in Process : pc[q] = "disconnect" => todo'[q] = todo[q]
      BY <1>0, <2>3 DEF WakeUp
    <3> QED BY <3>1 DEF NotifierInv
  <2>4. CASE RemoveNotifier(p)
    <3>0. \A q \in Process \ {p} : pc'[q] = pc[q] /\ todo'[q] = todo[q]
      BY <2>4, OthersKept
    <3>1. ASSUME NEW n \in todo[p],
                 notifiers' = [notifiers EXCEPT ![n] = @ \ {p}],
                 todo' = [todo EXCEPT ![p] = @ \ {n}], UNCHANGED pc
          PROVE  NotifierInv'
      <4>1. pc[p] = "disconnect" /\ pc'[p] = "disconnect" /\ todo'[p] = todo[p] \ {n}
        BY <1>0, <2>4, <3>1 DEF RemoveNotifier
      <4>2. /\ \A q \in Process \ {p}, k \in Node : q \in notifiers'[k] <=> q \in notifiers[k]
            /\ \A k \in Node : p \in notifiers'[k] <=> p \in notifiers[k] /\ k # n
        BY <1>0, <3>1
      <4> QED BY <3>0, <4>1, <4>2 DEF NotifierInv
    <3>2. CASE /\ todo[p] = {}
               /\ Goto(p, "wakeAll")
               /\ UNCHANGED notifiers
      <4>1. pc[p] = "disconnect" /\ pc'[p] = "wakeAll"
        BY <1>0, <2>4, <3>2 DEF RemoveNotifier, Goto
      <4> QED BY <3>0, <3>2, <4>1 DEF NotifierInv
    <3> QED BY <2>4, <3>1, <3>2 DEF RemoveNotifier
  <2>5. CASE EndRun(p)
    <3>0. \A q \in Process \ {p} : pc'[q] = pc[q] /\ todo'[q] = todo[q]
      BY <2>5, OthersKept
    <3>1. pc[p] = "wakeAll" /\ pc'[p] = "done" /\ UNCHANGED notifiers
      BY <1>0, <2>5 DEF EndRun, Goto
    <3> QED BY <3>0, <3>1 DEF NotifierInv
  <2> QED BY <1>2, <2>1, <2>2, <2>3, <2>4, <2>5 DEF Sending
<1>3. ASSUME NEW p \in Sleeper, SleeperStep(p) \/ SpuriousWakeUp(p) PROVE NotifierInv'
  <2>1. PICK l \in Waiting \cup {"disconnect", "get", "acquire"} :
           /\ pc' = [pc EXCEPT ![p] = l]
           /\ l = "disconnect" => todo' = [todo EXCEPT ![p] = Slots(p)]
    BY <1>3, SleeperMoves DEF IInv
  <2>2. UNCHANGED notifiers /\ pc[p] \in Waiting
    BY <1>3, SleeperMoves DEF IInv
  <2>3. /\ pc[p] \notin Ended
        /\ pc'[p] \notin Ended \/ (pc'[p] = "disconnect" /\ todo'[p] = Slots(p))
    BY <1>0, <2>1, <2>2 DEF Waiting, InSleep, Ended
  <2> QED BY <1>1, <1>3, <2>2, <2>3, OthersKept
<1>4. ASSUME NEW m \in Manager, ManagerStep(m) PROVE NotifierInv'
  <2>1. m \in Process /\ pc[m] \notin Ended /\ pc'[m] \notin Ended /\ UNCHANGED notifiers
    BY <1>0, <1>4 DEF ManagerStep, Acquire, Start, Operate, EmptyReadyLists, Release,
      Goto, Ended
  <2> QED BY <1>1, <1>4, <2>1, OthersKept
<1>5. ASSUME NEW w \in Worker, GetInputData(w) PROVE NotifierInv'
  <2>1. w \in Process /\ pc[w] \notin Ended /\ pc'[w] \notin Ended /\ UNCHANGED notifiers
    BY <1>0, <1>5 DEF GetInputData, Goto, Ended
  <2> QED BY <1>1, <1>5, <2>1, OthersKept
<1>6. CASE UNCHANGED vars
  BY <1>6 DEF vars, NotifierInv
<1> QED BY <1>2, <1>3, <1>4, <1>5, <1>6 DEF Next, ThreadStep, SleeperStep, Finished

\* The queues a step changes: those a value goes to, of a node that still has
\* its sender as a notifier, and the one the thread itself takes from.
LEMMA SendStep ==
  ASSUME IInv, SendInv, NotifierInv, NEW p \in Process, Send(p)
  PROVE  /\ UNCHANGED <<scan, notifiers>>
         /\ \A n \in Sleeper, t \in Type : queue'[<<n, t>>] # queue[<<n, t>>] =>
              t \in Elements(Inputs[n]) /\ notifiers[n] # {}
         /\ \/ UNCHANGED pc
            \/ UNCHANGED queue /\ pc' = [pc EXCEPT ![p] = "notify"]
<1>0. UNCHANGED <<scan, notifiers>>
  BY DEF Send
<1>1. CASE UNCHANGED queue /\ Goto(p, "notify")
  BY <1>1 DEF Send, Goto
<1>2. ASSUME NEW n \in todo[p],
             queue' = [queue EXCEPT ![<<n, TypeOf[Head(outbox[p])]>>] =
                         Append(@, Head(outbox[p]))],
             UNCHANGED pc
      PROVE  \A k \in Sleeper, t \in Type : queue'[<<k, t>>] # queue[<<k, t>>] =>
               t \in Elements(Inputs[k]) /\ notifiers[k] # {}
  <2>1. pc[p] = "send" /\ outbox[p] \in Seq(Data) /\ outbox[p] # <<>>
    BY DEF Send, IInv, OutboxInv, TypeOK
  <2>2. PICK d \in Data : d = Head(outbox[p])
    BY <2>1
  <2>3. TypeOf[d] \in Type /\ n \in Receivers[<<p, TypeOf[d]>>]
    BY <2>1, <2>2, StateAssumption DEF SendInv
  <2>4. n \in Slots(p) /\ n \in Node
    BY <2>3, SlotsType DEF Slots
  <2>5. p \in notifiers[n]
    BY <2>1, <2>4 DEF NotifierInv
  <2>6. n \in Sleeper => TypeOf[d] \in Elements(Inputs[n])
    <3>1. \A u \in Type : \A k \in Receivers[<<p, u>>] \ {Sink} : u \in Elements(Inputs[k])
      BY WiringAssumption
    <3>2. n \in Sleeper => n # Sink
      BY StateAssumption
    <3> QED BY <2>3, <3>1, <3>2
  <2>7. \A k \in Sleeper, t \in Type : queue'[<<k, t>>] # queue[<<k, t>>] =>
          k = n /\ t = TypeOf[d]
    <3>1. PICK u, v : u = <<n, TypeOf[d]>> /\ queue' = [queue EXCEPT ![u] = v]
      BY <1>2, <2>2
    <3>2. \A x \in Node \X Type : queue'[x] # queue[x] => x = u
      BY <3>1 DEF IInv, TypeOK
    <3>3. \A k \in Sleeper, t \in Type : <<k, t>> \in Node \X Type
      OBVIOUS
    <3> QED BY <3>1, <3>2, <3>3
  <2> QED BY <2>5, <2>6, <2>7
<1> QED BY <1>0, <1>1, <1>2 DEF Send, Goto

LEMMA TakeStep ==
  ASSUME IInv, NEW p \in Sleeper,
         \/ p \in Manager /\ ManagerStep(p)
         \/ p \in Worker /\ GetInputData(p)
  PROVE  /\ UNCHANGED notifiers
         /\ \A n \in Sleeper, t \in Type : queue'[<<n, t>>] # queue[<<n, t>>] =>
              n = p /\ t \in Elements(Inputs[n])
         /\ \A n \in Sleeper \ {p} : pc'[n] = pc[n] /\ scan'[n] = scan[n]
         /\ pc'[p] \notin Reading \cup Ended
<1>0. /\ pc \in [Process -> PC] /\ scan \in [Sleeper -> Nat] /\ p \in Process
      /\ queue \in [Node \X Type -> Seq(Data)]
  BY DEF IInv, TypeOK
<1>1. UNCHANGED notifiers
  BY DEF ManagerStep, Acquire, Start, Operate, EmptyReadyLists, Release, GetInputData
<1>2. queue' # queue => queue' = [queue EXCEPT ![QueueAt(p)] = Tail(@)]
  BY DEF ManagerStep, Acquire, Start, Operate, EmptyReadyLists, Release, GetInputData
<1>3. \A n \in Sleeper, t \in Type : queue'[<<n, t>>] # queue[<<n, t>>] =>
        n = p /\ t \in Elements(Inputs[n])
  <2>1. QueueAt(p) = <<p, Inputs[p][scan[p]]>> /\ Inputs[p][scan[p]] \in Elements(Inputs[p])
    BY DEF QueueAt, Elements, IInv, TypeOK
  <2>2. \A n \in Sleeper, t \in Type : queue'[<<n, t>>] # queue[<<n, t>>] =>
          <<n, t>> = QueueAt(p)
    BY <1>0, <1>2
  <2> QED BY <2>1, <2>2
<1>4. \A n \in Sleeper \ {p} : pc'[n] = pc[n] /\ scan'[n] = scan[n]
  BY <1>0 DEF ManagerStep, Acquire, Start, Operate, EmptyReadyLists, Release,
    GetInputData, Goto, FromFirstType, NextType
<1>5. pc'[p] \notin Reading \cup Ended
  BY <1>0 DEF ManagerStep, Acquire, Start, Operate, EmptyReadyLists, Release,
    GetInputData, Goto, Reading, Ended
<1> QED BY <1>1, <1>3, <1>4, <1>5

LEMMA ReceiverStep ==
  ASSUME IInv, SendInv, NotifierInv, ReceiverInv, [Next]_vars
  PROVE  ReceiverInv'
<1>1. ASSUME \A n \in Sleeper, t \in Type : queue'[<<n, t>>] # queue[<<n, t>>] =>
               t \in Elements(Inputs[n])
      PROVE  ReceiverInv'
  BY <1>1 DEF ReceiverInv
<1>2. ASSUME NEW p \in Process, Sending(p) PROVE ReceiverInv'
  <2>1. CASE Send(p)
    BY <1>1, <2>1, SendStep
  <2>2. CASE UNCHANGED queue
    BY <1>1, <2>2
  <2> QED BY <1>2, <2>1, <2>2 DEF Sending, WakeUp, EndNotify, Deliver, RemoveNotifier, EndRun
<1>3. ASSUME NEW p \in Sleeper, SleeperStep(p) \/ SpuriousWakeUp(p) PROVE ReceiverInv'
  BY <1>1, <1>3, SleeperMoves DEF IInv
<1>4. ASSUME NEW p \in Sleeper,
             \/ p \in Manager /\ ManagerStep(p)
             \/ p \in Worker /\ GetInputData(p)
      PROVE  ReceiverInv'
  BY <1>1, <1>4, TakeStep
<1>5. CASE UNCHANGED vars
  BY <1>1, <1>5 DEF vars
<1> QED BY <1>2, <1>3, <1>4, <1>5 DEF Next, ThreadStep, SleeperStep, Finished

\* One read of receiversEmpty after others that found nothing.
LEMMA OneMoreEmpty ==
  ASSUME IInv, NEW p \in Sleeper, NEW here, NEW yes, NEW no,
         ReceiversEmpty(p, here, yes, no), UNCHANGED queue,
         \A i \in DOMAIN Inputs[p] : i < scan[p] => queue[<<p, Inputs[p][i]>>] = <<>>
  PROVE  \/ pc' = [pc EXCEPT ![p] = no]
         \/ /\ pc' = [pc EXCEPT ![p] = here]
            /\ \A i \in DOMAIN Inputs[p] : i < scan'[p] => queue'[<<p, Inputs[p][i]>>] = <<>>
         \/ /\ pc' = [pc EXCEPT ![p] = yes]
            /\ \A t \in Elements(Inputs[p]) : queue'[<<p, t>>] = <<>>
<1>1. CASE queue[QueueAt(p)] # <<>>
  BY <1>1 DEF ReceiversEmpty, Goto
<1>2. CASE queue[QueueAt(p)] = <<>>
  <2>1. /\ scan \in [Sleeper -> Nat] /\ scan[p] \in 1 .. Len(Inputs[p])
        /\ DOMAIN Inputs[p] = 1 .. Len(Inputs[p]) /\ Len(Inputs[p]) \in Nat
    BY InputsType DEF IInv, TypeOK
  <2>2. \A i \in 1 .. Len(Inputs[p]) : i <= scan[p] => queue[<<p, Inputs[p][i]>>] = <<>>
    <3>1. ASSUME NEW i \in 1 .. Len(Inputs[p]), i <= scan[p]
          PROVE  i < scan[p] \/ i = scan[p]
      BY <2>1, <3>1
    <3> QED BY <1>2, <2>1, <3>1 DEF QueueAt
  <2>3. CASE AtLastType(p)
    <3>1. \A i \in 1 .. Len(Inputs[p]) : queue[<<p, Inputs[p][i]>>] = <<>>
      BY <2>1, <2>2, <2>3 DEF AtLastType
    <3>2. \A t \in Elements(Inputs[p]) : queue[<<p, t>>] = <<>>
      BY <2>1, <3>1 DEF Elements
    <3>3. pc' = [pc EXCEPT ![p] = yes]
      BY <1>2, <2>3 DEF ReceiversEmpty, Goto
    <3> QED BY <3>2, <3>3
  <2>4. CASE ~AtLastType(p)
    <3>1. scan'[p] = scan[p] + 1
      BY <1>2, <2>1, <2>4 DEF ReceiversEmpty, NextType
    <3>2. \A i \in 1 .. Len(Inputs[p]) : i < scan[p] + 1 => i <= scan[p]
      BY <2>1
    <3>3. pc' = [pc EXCEPT ![p] = here]
      BY <1>2, <2>4 DEF ReceiversEmpty, Goto
    <3> QED BY <2>1, <2>2, <3>1, <3>2, <3>3
  <2> QED BY <2>3, <2>4
<1> QED BY <1>1, <1>2

\* The tests of a node that does not override canTerminate.
LEMMA TestsDrained ==
  ASSUME IInv, NEW p \in Sleeper \ Overrides, Drained(p),
         SleeperStep(p) \/ SpuriousWakeUp(p)
  PROVE  Drained(p)'
<1>0. /\ pc \in [Process -> PC] /\ scan \in [Sleeper -> Nat] /\ p \in Process /\ p \in Sleeper
  BY DEF IInv, TypeOK
<1>1. UNCHANGED <<queue, notifiers>>
  BY <1>0, SleeperMoves DEF IInv
<1>2. ASSUME NEW l \in {"lock", "wait", "acquire", "get", "predEmpty", "pred", "decide"},
             pc' = [pc EXCEPT ![p] = l]
      PROVE  Drained(p)'
  BY <1>0, <1>2 DEF Drained, Reading, Ended
<1>3. ASSUME NEW here, NEW yes, NEW no \in {"lock", "wait", "acquire", "get"},
             NEW next \in Reading,
             CanTerminate(p, here, yes, no, next)
      PROVE  Drained(p)'
  <2>1. CASE notifiers[p] = {}
    <3>1. pc' = [pc EXCEPT ![p] = next] /\ scan'[p] = 1
      BY <1>0, <1>3, <2>1 DEF CanTerminate, Goto, FromFirstType
    <3>2. \A i \in DOMAIN Inputs[p] : ~(i < 1)
      BY <1>0, InputsType
    <3>3. pc'[p] = next /\ next \notin Ended
      BY <1>0, <3>1 DEF Reading, Ended
    <3> QED BY <1>1, <2>1, <3>1, <3>2, <3>3 DEF Drained
  <2>2. CASE notifiers[p] # {}
    <3>1. pc' = [pc EXCEPT ![p] = no]
      BY <1>3, <2>2 DEF CanTerminate, Goto
    <3> QED BY <1>2, <3>1
  <2> QED BY <2>1, <2>2
<1>4. ASSUME NEW here \in Reading, NEW yes \in {"disconnect", "decide"},
             NEW no \in {"lock", "wait", "acquire", "get"},
             ReceiversEmpty(p, here, yes, no)
      PROVE  Drained(p)'
  <2>1. /\ notifiers[p] = {}
        /\ \A i \in DOMAIN Inputs[p] : i < scan[p] => queue[<<p, Inputs[p][i]>>] = <<>>
    BY <1>4 DEF Drained, ReceiversEmpty
  <2>2. CASE pc' = [pc EXCEPT ![p] = no]
    BY <1>2, <2>2
  <2>3. CASE /\ pc' = [pc EXCEPT ![p] = here]
             /\ \A i \in DOMAIN Inputs[p] : i < scan'[p] => queue'[<<p, Inputs[p][i]>>] = <<>>
    <3>1. pc'[p] = here /\ here \notin Ended
      BY <1>0, <2>3 DEF Reading, Ended
    <3> QED BY <1>1, <2>1, <2>3, <3>1 DEF Drained
  <2>4. CASE /\ pc' = [pc EXCEPT ![p] = yes]
             /\ \A t \in Elements(Inputs[p]) : queue'[<<p, t>>] = <<>>
    <3>1. pc'[p] = yes /\ yes \notin Reading
      BY <1>0, <2>4 DEF Reading
    <3> QED BY <1>1, <2>1, <2>4, <3>1 DEF Drained
  <2> QED BY <1>0, <1>1, <1>4, <2>1, <2>2, <2>3, <2>4, OneMoreEmpty
<1>5. CASE Check(p)
  BY <1>3, <1>4, <1>5 DEF Check, Reading
<1>6. CASE Decide(p)
  <2>1. Work(p) \in {"acquire", "get"}
    BY DEF Work
  <2> QED BY <1>3, <1>4, <1>6, <2>1 DEF Decide, Reading
<1>7. CASE WaitTerminationCondition(p)
  <2>1. CASE ReceiversEmpty(p, "predEmpty", "pred", "decide")
    <3>1. PICK l \in {"predEmpty", "pred", "decide"} : pc' = [pc EXCEPT ![p] = l]
      BY <2>1, Zenon DEF ReceiversEmpty, Goto
    <3> QED BY <1>2, <3>1
  <2>2. CASE CanTerminate(p, "pred", "decide", "wait", "predEmptyAgain")
    BY <1>3, <2>2 DEF Reading
  <2>3. CASE ReceiversEmpty(p, "predEmptyAgain", "decide", "wait")
    BY <1>4, <2>3 DEF Reading
  <2> QED BY <1>7, <2>1, <2>2, <2>3 DEF WaitTerminationCondition
<1>8. CASE LockSleep(p) \/ SpuriousWakeUp(p)
  BY <1>2, <1>8 DEF LockSleep, SpuriousWakeUp, Goto
<1> QED BY <1>5, <1>6, <1>7, <1>8 DEF SleeperStep, Sleep

\* The other steps take no value into the queues of a node without notifiers.
LEMMA DrainedFrame ==
  ASSUME NEW n \in Sleeper \ Overrides, Drained(n),
         \/ pc'[n] = pc[n] /\ scan'[n] = scan[n]
         \/ pc[n] \in Ended /\ pc'[n] \in Ended
         \/ pc'[n] \notin Reading \cup Ended,
         notifiers'[n] \subseteq notifiers[n],
         \A t \in Type : queue'[<<n, t>>] # queue[<<n, t>>] =>
           notifiers[n] # {} \/ pc'[n] \notin Reading \cup Ended
  PROVE  Drained(n)'
<1>1. \A i \in DOMAIN Inputs[n] : Inputs[n][i] \in Type
  BY InputsType
<1>2. \A t \in Elements(Inputs[n]) : t \in Type
  BY <1>1 DEF Elements
<1>3. CASE pc'[n] \notin Reading \cup Ended
  BY <1>3 DEF Drained
<1>4. CASE pc'[n] \in Reading \cup Ended
  <2>1. CASE pc[n] \in Ended /\ pc'[n] \in Ended
    <3>1. pc'[n] \notin Reading
      BY <2>1 DEF Reading, Ended
    <3> QED BY <1>2, <1>4, <2>1, <3>1 DEF Drained
  <2>2. CASE pc'[n] = pc[n] /\ scan'[n] = scan[n]
    BY <1>1, <1>2, <1>4, <2>2 DEF Drained
  <2> QED BY <1>4, <2>1, <2>2
<1> QED BY <1>3, <1>4

LEMMA DrainStep ==
  ASSUME IInv, SendInv, NotifierInv, DrainInv, [Next]_vars
  PROVE  DrainInv'
<1> SUFFICES ASSUME NEW n \in Sleeper \ Overrides PROVE Drained(n)'
  BY DEF DrainInv
<1>0. /\ pc \in [Process -> PC] /\ scan \in [Sleeper -> Nat] /\ n \in Process
      /\ n \in Sleeper /\ n \in Node /\ Drained(n) /\ n # Source
      /\ notifiers \in [Node -> SUBSET Process]
  BY StateAssumption DEF IInv, TypeOK, DrainInv
<1>1. ASSUME NEW p \in Process, Sending(p) PROVE Drained(n)'
  <2>1. CASE Send(p)
    <3>1. /\ UNCHANGED <<scan, notifiers>>
          /\ \A t \in Type : queue'[<<n, t>>] # queue[<<n, t>>] => notifiers[n] # {}
          /\ \/ UNCHANGED pc
             \/ UNCHANGED queue /\ pc' = [pc EXCEPT ![p] = "notify"]
      BY <1>0, <2>1, SendStep
    <3>2. pc'[n] = pc[n] \/ pc'[n] \notin Reading \cup Ended
      BY <1>0, <3>1 DEF Reading, Ended
    <3> QED BY <1>0, <3>1, <3>2, DrainedFrame
  <2>2. CASE WakeUp(p)
    <3>1. /\ UNCHANGED <<queue, scan, notifiers>>
          /\ pc'[n] = pc[n] \/ pc'[n] = "lock"
      BY <1>0, <2>2 DEF WakeUp
    <3> QED BY <1>0, <3>1, DrainedFrame DEF Reading, Ended
  <2>3. CASE EndNotify(p) \/ Deliver(p)
    <3>1. /\ UNCHANGED <<queue, notifiers>>
          /\ n # p => pc'[n] = pc[n] /\ scan'[n] = scan[n]
          /\ n = p => pc'[n] \notin Reading \cup Ended
      BY <1>0, <2>3 DEF EndNotify, Deliver, Goto, NextType, Reading, Ended
    <3> QED BY <1>0, <3>1, DrainedFrame
  <2>4. CASE RemoveNotifier(p) \/ EndRun(p)
    <3>1. UNCHANGED <<queue, scan>> /\ notifiers'[n] \subseteq notifiers[n]
      BY <1>0, <2>4 DEF RemoveNotifier, EndRun
    <3>2. \/ pc'[n] = pc[n]
          \/ pc[n] \in Ended /\ pc'[n] \in Ended
      BY <1>0, <2>4 DEF RemoveNotifier, EndRun, Goto, Ended
    <3> QED BY <1>0, <3>1, <3>2, DrainedFrame
  <2> QED BY <1>1, <2>1, <2>2, <2>3, <2>4 DEF Sending
<1>2. ASSUME NEW p \in Sleeper, SleeperStep(p) \/ SpuriousWakeUp(p) PROVE Drained(n)'
  <2>1. CASE p = n
    BY <1>0, <1>2, <2>1, TestsDrained
  <2>2. CASE p # n
    <3>1. UNCHANGED <<queue, notifiers>> /\ pc'[n] = pc[n]
      BY <1>0, <1>2, <2>2, SleeperMoves DEF IInv
    <3>2. scan'[n] = scan[n]
      BY <1>0, <1>2, <2>2 DEF SleeperStep, Check, Sleep, LockSleep,
        WaitTerminationCondition, Decide, SpuriousWakeUp, CanTerminate, ReceiversEmpty,
        FromFirstType, NextType
    <3> QED BY <1>0, <3>1, <3>2, DrainedFrame
  <2> QED BY <2>1, <2>2
<1>3. ASSUME NEW p \in Sleeper,
             \/ p \in Manager /\ ManagerStep(p)
             \/ p \in Worker /\ GetInputData(p)
      PROVE  Drained(n)'
  <2>1. /\ UNCHANGED notifiers
        /\ \A t \in Type : queue'[<<n, t>>] # queue[<<n, t>>] => n = p
        /\ n # p => pc'[n] = pc[n] /\ scan'[n] = scan[n]
        /\ pc'[p] \notin Reading \cup Ended
    BY <1>0, <1>3, TakeStep
  <2> QED BY <1>0, <2>1, DrainedFrame
<1>4. CASE UNCHANGED vars
  BY <1>0, <1>4, DrainedFrame DEF vars
<1> QED BY <1>1, <1>2, <1>3, <1>4 DEF Next, ThreadStep, SleeperStep, Finished

\* A node that has left its loop, unless its user decides when it does, has no
\* notifier left and nothing in its receivers.
EndedIsDrained ==
  \A n \in Sleeper \ Overrides : pc[n] \in Ended =>
    notifiers[n] = {} /\ \A t \in Type : queue[<<n, t>>] = <<>>

\* In the end nothing remains in a ready list, nor in these receivers.
NothingRemains ==
  AllDone =>
    /\ \A t \in Type, s \in State : readyList[<<s, t>>] = <<>>
    /\ \A t \in Type, n \in Sleeper \ Overrides : queue[<<n, t>>] = <<>>

LEMMA NothingAtTheEnd == IInv /\ EndInv => EndedIsDrained /\ NothingRemains
<1> SUFFICES ASSUME IInv, EndInv PROVE EndedIsDrained /\ NothingRemains
  OBVIOUS
<1>1. EndedIsDrained
  <2> SUFFICES ASSUME NEW n \in Sleeper \ Overrides, pc[n] \in Ended
               PROVE  notifiers[n] = {} /\ \A t \in Type : queue[<<n, t>>] = <<>>
    BY DEF EndedIsDrained
  <2>1. /\ notifiers[n] = {}
        /\ \A u \in Elements(Inputs[n]) : queue[<<n, u>>] = <<>>
    BY DEF EndInv, DrainInv, Drained
  <2> QED BY <2>1 DEF EndInv, ReceiverInv
<1>2. ASSUME AllDone, NEW s \in State, NEW t \in Type
      PROVE  readyList[<<s, t>>] = <<>>
  <2>1. CASE \A m \in Manager : StateOf[m] # s
    BY <2>1 DEF EndInv, OwnerInv
  <2>2. CASE \E m \in Manager : StateOf[m] = s
    <3>1. PICK m \in Manager : StateOf[m] = s
      BY <2>2
    <3>2. \A k \in Manager : pc[k] \notin InTurn
      BY <1>2 DEF AllDone, InTurn
    <3>3. stateMutex[s] \notin Manager
      <4> SUFFICES ASSUME NEW k \in Manager, stateMutex[s] = k PROVE FALSE
        OBVIOUS
      <4>1. StateOf[k] = s
        BY DEF EndInv, OwnerInv
      <4> QED BY <3>2, <4>1 DEF IInv, ResultsLeaveWithTheirManager
    <3>4. stateMutex[s] = NoProcess
      BY <3>3 DEF IInv, TypeOK
    <3> QED BY <3>1, <3>2, <3>4 DEF IInv, ResultsLeaveWithTheirManager
  <2> QED BY <2>1, <2>2
<1>3. AllDone => \A n \in Sleeper : pc[n] \in Ended
  BY DEF AllDone, Ended
<1> QED BY <1>1, <1>2, <1>3 DEF EndedIsDrained, NothingRemains

\* Nothing is left behind in a graph with states: a node that terminates by
\* StateManager::canTerminate or TaskInputsManagementAbstraction::canTerminate
\* has taken everything it was sent and will be sent nothing any more, and when
\* all threads have ended the states hold no result either, whatever the states
\* compute and whichever managers override canTerminate.
THEOREM NodesEndDrained == Spec => [](EndedIsDrained /\ NothingRemains)
<1>1. Init => EndInv
  BY EndInit
<1>2. IInv /\ EndInv /\ [Next]_vars => EndInv'
  BY SendInvStep, NotifierStep, ReceiverStep, ReadyListStep, OwnerStep, DrainStep
  DEF EndInv
<1>3. IInv /\ EndInv => EndedIsDrained /\ NothingRemains
  BY NothingAtTheEnd
<1> QED BY <1>1, <1>2, <1>3, Invariance, PTL DEF Spec
=============================================================================
