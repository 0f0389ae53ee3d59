--------------------------- MODULE AtomicSlotProofs ---------------------------
(***************************************************************************)
(* No wake-up of an AtomicSlot is lost although its threads clear one       *)
(* another's flag, and the slot does what a mailbox does: proofs for every  *)
(* group, every set of notifiers, whatever they send, and every capacity.   *)
(***************************************************************************)
EXTENDS AtomicSlot, TLAPS

Process == Thread \cup Notifier

\* What a notifier, and a thread of the group, does next.
NotifierPC ==
  {"run", "receiving", "wakeUp", "notifyOne", "lastWakeUp", "lastNotifyOne",
   "done"}

ThreadPC ==
  {"check", "checkEmpty", "predEmpty", "predNotifier", "predEmptyAgain", "wait",
   "blocked", "clear", "decide", "decideEmpty", "get", "taking", "finalWakeUp",
   "finalNotifyOne", "done"}

TypeOK ==
  /\ pc \in [Process -> NotifierPC \cup ThreadPC]
  /\ \A s \in Notifier : pc[s] \in NotifierPC
  /\ \A t \in Thread : pc[t] \in ThreadPC
  /\ toSend \in [Notifier -> Nat]
  /\ queued \in Nat
  /\ notifiers \subseteq Notifier
  /\ waitFlag_ \in BOOLEAN

(***************************************************************************)
(* The inductive invariant.                                                 *)
(***************************************************************************)

\* A notifier is connected until it calls notifyAllTerminated.
ConnectedInv ==
  \A s \in Notifier :
    pc[s] \in {"run", "receiving", "wakeUp", "notifyOne"} => s \in notifiers

\* A thread that will look at the queue before it waits again.  Between its two
\* looks it counts only if what it saw is still true.
Alert(t) ==
  \/ pc[t] \in {"check", "checkEmpty", "predEmpty", "clear", "decide",
                "decideEmpty", "get", "taking", "finalWakeUp"}
  \/ pc[t] \in {"predNotifier", "predEmptyAgain"} /\ queued = 0

\* There is something to do: data, or the end of the group.
Work == queued > 0 \/ notifiers = {}

\* Somebody is about to set the flag on behalf of the change it made.
Coming == \E s \in Notifier : pc[s] \in {"receiving", "wakeUp", "lastWakeUp"}

\* The flag is cleared only by a thread that then looks for itself, so that work
\* nobody announces any more is marked by the flag or known to a thread.
FlagInv ==
  Thread # {} /\ Work => Coming \/ waitFlag_ \/ \E t \in Thread : Alert(t)

\* Two tests of canTerminate have found that nothing can come any more.
EndInv ==
  \A t \in Thread :
    pc[t] \in {"checkEmpty", "predEmptyAgain", "decideEmpty", "finalWakeUp",
               "finalNotifyOne", "done"} => notifiers = {}

IInv == TypeOK /\ ConnectedInv /\ EndInv /\ FlagInv /\ NoLostWakeUp

(***************************************************************************)
(* The shape of the steps.                                                  *)
(***************************************************************************)

\* What wakeUp does to the control: p goes on, and a blocked thread may look at
\* the flag again; if there is a blocked thread, one does.
LEMMA NotifyOneEffect ==
  ASSUME TypeOK, NEW p \in Process, NotifyOne(p)
  PROVE  LET l == IF pc[p] = "notifyOne" THEN "run" ELSE "done" IN
         /\ pc[p] \in {"notifyOne", "lastNotifyOne", "finalNotifyOne"}
         /\ pc'[p] = l
         /\ \/ /\ \A t \in Thread : pc[t] # "blocked"
               /\ \A q \in Process \ {p} : pc'[q] = pc[q]
            \/ \E t \in Thread :
                 /\ t # p /\ pc[t] = "blocked" /\ pc'[t] = "wait"
                 /\ \A q \in Process \ {p, t} : pc'[q] = pc[q]
         /\ pc' \in [Process -> NotifierPC \cup ThreadPC]
         /\ UNCHANGED <<toSend, queued, notifiers, waitFlag_>>
<1> DEFINE l == IF pc[p] = "notifyOne" THEN "run" ELSE "done"
<1>1. pc[p] \in {"notifyOne", "lastNotifyOne", "finalNotifyOne"}
      /\ UNCHANGED <<toSend, queued, notifiers, waitFlag_>>
  BY DEF NotifyOne
<1>2. l \in NotifierPC \cup ThreadPC
  BY DEF NotifierPC
<1>3. CASE Blocked = {} /\ Goto(p, l)
  BY <1>1, <1>2, <1>3 DEF Blocked, Goto, TypeOK
<1>4. CASE \E t \in Blocked : pc' = [pc EXCEPT ![p] = l, ![t] = "wait"]
  <2>1. PICK t \in Blocked : pc' = [pc EXCEPT ![p] = l, ![t] = "wait"]
    BY <1>4
  <2>2. t \in Thread /\ pc[t] = "blocked" /\ t # p /\ t \in Process
    BY <1>1 DEF Blocked, Process
  <2>3. pc'[p] = l /\ pc'[t] = "wait" /\ \A q \in Process \ {p, t} : pc'[q] = pc[q]
    BY <2>1, <2>2 DEF TypeOK
  <2>4. pc' \in [Process -> NotifierPC \cup ThreadPC]
    BY <2>1, <2>2, <1>2 DEF TypeOK, ThreadPC
  <2> QED BY <1>1, <2>2, <2>3, <2>4
<1> QED BY <1>1, <1>3, <1>4 DEF NotifyOne

\* Every step, by the process that takes it.
LEMMA NextCases ==
  ASSUME [Next]_vars
  PROVE  \/ \E t \in Thread : ThreadStep(t) \/ SpuriousWakeUp(t)
         \/ \E s \in Notifier : NotifierStep(s)
         \/ UNCHANGED vars
BY DEF Next, Finished

(***************************************************************************)
(* Type correctness and the simple facts about the control.                 *)
(***************************************************************************)
LEMMA InitHolds == Init => IInv
<1> SUFFICES ASSUME Init PROVE IInv
  OBVIOUS
<1>1. TypeOK
  BY MailboxAssumption DEF Init, TypeOK, Process, NotifierPC, ThreadPC
<1>2. ConnectedInv /\ EndInv /\ FlagInv /\ NoLostWakeUp
  BY MailboxAssumption
  DEF Init, ConnectedInv, EndInv, FlagInv, NoLostWakeUp, Alert, Process
<1> QED BY <1>1, <1>2 DEF IInv

LEMMA TypeStep ==
  ASSUME IInv, [Next]_vars PROVE TypeOK' /\ ConnectedInv' /\ EndInv'
<1> USE MailboxAssumption DEF Process, NotifierPC, ThreadPC
<1> DEFINE Goal == TypeOK' /\ ConnectedInv' /\ EndInv'
<1>1. ASSUME NEW t \in Thread, ThreadStep(t) \/ SpuriousWakeUp(t) PROVE Goal
  <2> USE DEF IInv, TypeOK, ConnectedInv, EndInv, Goto
  <2>1. CASE Check(t) \/ CheckEmpty(t)
    BY <2>1 DEF Check, CheckEmpty
  <2>2. CASE PredEmpty(t) \/ PredNotifier(t) \/ PredEmptyAgain(t)
    BY <2>2 DEF PredEmpty, PredNotifier, PredEmptyAgain
  <2>3. CASE Wait(t) \/ Clear(t) \/ Decide(t) \/ DecideEmpty(t)
    BY <2>3 DEF Wait, Clear, Decide, DecideEmpty
  <2>4. CASE GetInputData(t) \/ EndGetInputData(t) \/ SpuriousWakeUp(t)
    BY <2>4 DEF GetInputData, EndGetInputData, SpuriousWakeUp
  <2>5. CASE SetFlag(t)
    BY <2>5 DEF SetFlag
  <2>6. CASE NotifyOne(t)
    BY <2>6, NotifyOneEffect
  <2> QED BY <1>1, <2>1, <2>2, <2>3, <2>4, <2>5, <2>6 DEF ThreadStep, Sleep, WakeUp
<1>2. ASSUME NEW s \in Notifier, NotifierStep(s) PROVE Goal
  <2> USE DEF IInv, TypeOK, ConnectedInv, EndInv, Goto
  <2>1. CASE Send(s) \/ EndReceive(s)
    BY <2>1 DEF Send, EndReceive
  <2>2. CASE RemoveNotifier(s)
    BY <2>2 DEF RemoveNotifier
  <2>3. CASE SetFlag(s)
    BY <2>3 DEF SetFlag
  <2>4. CASE NotifyOne(s)
    BY <2>4, NotifyOneEffect
  <2> QED BY <1>2, <2>1, <2>2, <2>3, <2>4 DEF NotifierStep, WakeUp
<1>3. CASE UNCHANGED vars
  BY <1>3 DEF vars, IInv, TypeOK, ConnectedInv, EndInv
<1> QED BY <1>1, <1>2, <1>3, NextCases

(***************************************************************************)
(* The flag.                                                                *)
(***************************************************************************)

\* Once nobody is about to announce anything, a thread that tests the queue sees
\* what is in it or what another thread takes out.
LEMMA SeesTheQueue ==
  ASSUME IInv, ~Coming
  PROVE  /\ MaySeeEmpty => queued = 0
         /\ \A t \in Thread : MaySeeData(t) =>
              queued > 0 \/ \E u \in Thread \ {t} : pc[u] = "taking"
BY DEF MaySeeEmpty, MaySeeData, Coming

\* A step of one thread that changes neither the queue nor the notifiers keeps
\* every other alert thread alert.
LEMMA FlagOfThreads ==
  ASSUME IInv, NEW t \in Thread, ThreadStep(t) \/ SpuriousWakeUp(t),
         Thread # {}, Work'
  PROVE  Coming' \/ waitFlag_' \/ \E u \in Thread : Alert(u)'
<1> USE DEF IInv, TypeOK, Process, Goto
<1> DEFINE Goal == Coming' \/ waitFlag_' \/ \E u \in Thread : Alert(u)'
           Others == \A q \in Process \ {t} :
                       pc'[q] = pc[q] \/ (pc[q] = "blocked" /\ q \in Thread)
<1>1. t \in Process /\ \A s \in Notifier : s \in Process /\ s # t
  BY MailboxAssumption
\* The threads that end, or go on without a doubt, are alert afterwards.
<1>2. CASE Check(t) \/ CheckEmpty(t) \/ Clear(t) \/ Decide(t) \/ DecideEmpty(t)
  BY <1>1, <1>2 DEF Check, CheckEmpty, Clear, Decide, DecideEmpty, Alert
<1>3. CASE GetInputData(t) \/ EndGetInputData(t)
  BY <1>1, <1>3 DEF GetInputData, EndGetInputData, Alert
<1>4. CASE SetFlag(t)
  BY <1>1, <1>4 DEF SetFlag
\* The others go on from a test that was negative, or from the flag.
<1>5. ASSUME UNCHANGED <<queued, notifiers, waitFlag_>>, Others,
             ~Alert(t) \/ Alert(t)' \/ \E u \in Thread \ {t} : pc[u] = "taking"
      PROVE  Goal
  <2>1. CASE waitFlag_
    BY <2>1, <1>5
  <2>2. CASE Coming
    <3>1. PICK s \in Notifier : pc[s] \in {"receiving", "wakeUp", "lastWakeUp"}
      BY <2>2 DEF Coming
    <3>2. pc'[s] = pc[s]
      BY <3>1, <1>1, <1>5, MailboxAssumption DEF NotifierPC
    <3> QED BY <3>1, <3>2 DEF Coming
  <2>3. CASE ~waitFlag_ /\ ~Coming
    <3>1. PICK u \in Thread : Alert(u)
      BY <2>3, <1>5 DEF FlagInv, Work
    <3>2. CASE u # t
      <4>1. pc'[u] = pc[u]
        BY <3>1, <3>2, <1>5 DEF Alert
      <4> QED BY <3>1, <4>1, <1>5 DEF Alert
    <3>3. CASE u = t
      <4>1. CASE Alert(t)'
        BY <4>1
      <4>2. CASE \E v \in Thread \ {t} : pc[v] = "taking"
        <5>1. PICK v \in Thread \ {t} : pc[v] = "taking"
          BY <4>2
        <5>2. pc'[v] = "taking"
          BY <5>1, <1>5
        <5> QED BY <5>1, <5>2 DEF Alert
      <4> QED BY <3>1, <3>3, <4>1, <4>2, <1>5
    <3> QED BY <3>2, <3>3
  <2> QED BY <2>1, <2>2, <2>3
<1>6. CASE PredEmpty(t) \/ PredNotifier(t) \/ PredEmptyAgain(t)
  <2>1. CASE ~Coming
    <3>1. UNCHANGED <<queued, notifiers, waitFlag_>> /\ Others
      BY <1>1, <1>6 DEF PredEmpty, PredNotifier, PredEmptyAgain
    <3>2. CASE PredEmpty(t)
      <4>1. Alert(t)'
        BY <1>1, <2>1, <3>2, SeesTheQueue DEF PredEmpty, Alert
      <4> QED BY <4>1
    <3>3. CASE PredNotifier(t)
      <4>1. ~Alert(t) \/ Alert(t)'
        BY <1>1, <3>3 DEF PredNotifier, Alert, Work
      <4> QED BY <4>1, <3>1, <1>5
    <3>4. CASE PredEmptyAgain(t)
      <4>1. ~Alert(t) \/ Alert(t)' \/ \E u \in Thread \ {t} : pc[u] = "taking"
        BY <1>1, <2>1, <3>4, SeesTheQueue DEF PredEmptyAgain, Alert
      <4> QED BY <4>1, <3>1, <1>5
    <3> QED BY <1>6, <3>2, <3>3, <3>4
  <2>2. CASE Coming
    BY <2>2, <1>1, <1>6 DEF PredEmpty, PredNotifier, PredEmptyAgain, Coming
  <2> QED BY <2>1, <2>2
<1>7. CASE Wait(t) \/ SpuriousWakeUp(t)
  <2>1. UNCHANGED <<queued, notifiers, waitFlag_>> /\ Others /\ ~Alert(t)
    BY <1>1, <1>7 DEF Wait, SpuriousWakeUp, Alert
  <2> QED BY <2>1, <1>5
<1>8. CASE NotifyOne(t)
  <2>1. UNCHANGED <<queued, notifiers, waitFlag_>> /\ ~Alert(t)
    BY <1>1, <1>8, NotifyOneEffect DEF Alert
  <2>2. Others
    BY <1>1, <1>8, NotifyOneEffect
  <2> QED BY <2>1, <2>2, <1>5
<1> QED BY <1>2, <1>3, <1>4, <1>6, <1>7, <1>8 DEF ThreadStep, Sleep, WakeUp

\* A notifier that adds data, or disconnects, announces it; whoever announced
\* something has set the flag.
LEMMA FlagOfNotifiers ==
  ASSUME IInv, NEW s \in Notifier, NotifierStep(s), Thread # {}, Work'
  PROVE  Coming' \/ waitFlag_' \/ \E u \in Thread : Alert(u)'
<1> USE DEF IInv, TypeOK, Process, Goto
<1>1. s \in Process /\ \A t \in Thread : t \in Process /\ s # t
  BY MailboxAssumption
<1>2. CASE Send(s) \/ EndReceive(s) \/ RemoveNotifier(s)
  BY <1>1, <1>2 DEF Send, EndReceive, RemoveNotifier, Coming
<1>3. CASE SetFlag(s)
  BY <1>1, <1>3 DEF SetFlag
<1>4. CASE NotifyOne(s)
  <2>1. UNCHANGED <<queued, notifiers, waitFlag_>>
    BY <1>1, <1>4, NotifyOneEffect
  <2>2. \A q \in Process : q # s => pc'[q] = pc[q] \/ (pc[q] = "blocked" /\ q \in Thread)
    BY <1>1, <1>4, NotifyOneEffect
  <2>3. pc[s] \in {"notifyOne", "lastNotifyOne"}
    BY <1>1, <1>4, NotifyOneEffect DEF NotifierPC
  <2>4. Coming => Coming'
    BY <1>1, <2>2, <2>3, MailboxAssumption DEF Coming
  <2>5. ASSUME NEW u \in Thread, Alert(u) PROVE Alert(u)'
    <3>1. pc'[u] = pc[u]
      BY <1>1, <2>2, <2>5 DEF Alert
    <3> QED BY <3>1, <2>1, <2>5 DEF Alert
  <2> QED BY <2>1, <2>4, <2>5 DEF FlagInv, Work
<1> QED BY <1>2, <1>3, <1>4 DEF NotifierStep, WakeUp

LEMMA FlagStep == ASSUME IInv, [Next]_vars PROVE FlagInv'
<1> SUFFICES ASSUME Thread # {}, Work'
             PROVE  Coming' \/ waitFlag_' \/ \E u \in Thread : Alert(u)'
  BY DEF FlagInv
<1>1. CASE UNCHANGED vars
  BY <1>1 DEF vars, IInv, FlagInv, Work, Coming, Alert
<1> QED BY <1>1, NextCases, FlagOfThreads, FlagOfNotifiers

(***************************************************************************)
(* The wake-up.                                                             *)
(***************************************************************************)
LEMMA WakeUpStep == ASSUME IInv, [Next]_vars PROVE NoLostWakeUp'
<1> USE DEF IInv, TypeOK, Process, Goto
<1> DEFINE Quiet == /\ \E t \in Thread : pc'[t] = "blocked"
                    /\ \A t \in Thread : pc'[t] \in {"blocked", "done"}
           Pending == \E s \in Notifier :
                        pc'[s] \in {"receiving", "wakeUp", "notifyOne",
                                    "lastWakeUp", "lastNotifyOne"}
<1> SUFFICES ASSUME Quiet, Work' PROVE Pending
  BY DEF NoLostWakeUp, Work
\* Whoever notifies leaves nobody blocked, or somebody awake.
<1>1. ASSUME NEW p \in Process, NotifyOne(p) PROVE FALSE
  <2>1. CASE \A t \in Thread : pc[t] # "blocked"
    <3>1. PICK t \in Thread : pc'[t] = "blocked"
      OBVIOUS
    <3> QED BY <1>1, <2>1, <3>1, NotifyOneEffect
  <2>2. CASE \E t \in Thread : pc'[t] = "wait"
    BY <2>2
  <2> QED BY <1>1, <2>1, <2>2, NotifyOneEffect
<1>2. ASSUME NEW t \in Thread, ThreadStep(t) \/ SpuriousWakeUp(t) PROVE Pending
  <2>1. CASE Wait(t)
    <3>1. /\ ~waitFlag_ /\ pc[t] = "wait"
          /\ UNCHANGED <<queued, notifiers>>
          /\ \A q \in Process \ {t} : pc'[q] = pc[q]
      <4>1. /\ pc[t] = "wait" /\ UNCHANGED <<queued, notifiers>>
            /\ \A q \in Process \ {t} : pc'[q] = pc[q]
        BY <2>1 DEF Wait
      <4>2. CASE waitFlag_
        <5>1. pc'[t] = "clear"
          BY <2>1, <4>2 DEF Wait
        <5> QED BY <5>1
      <4> QED BY <4>1, <4>2
    <3>2. \A u \in Thread : ~Alert(u)
      BY <3>1 DEF Alert
    <3>3. PICK s \in Notifier : pc[s] \in {"receiving", "wakeUp", "lastWakeUp"}
      BY <3>1, <3>2 DEF FlagInv, Work, Coming
    <3>4. pc'[s] = pc[s]
      BY <3>1, <3>3
    <3> QED BY <3>3, <3>4
  <2>2. CASE SetFlag(t) \/ Clear(t) \/ SpuriousWakeUp(t)
    BY <2>2 DEF SetFlag, Clear, SpuriousWakeUp
  <2>3. CASE Check(t) \/ CheckEmpty(t) \/ GetInputData(t) \/ EndGetInputData(t)
    BY <2>3 DEF Check, CheckEmpty, GetInputData, EndGetInputData
  <2>4. CASE PredEmpty(t) \/ PredNotifier(t) \/ PredEmptyAgain(t)
    BY <2>4 DEF PredEmpty, PredNotifier, PredEmptyAgain
  <2>5. CASE Decide(t) \/ DecideEmpty(t)
    BY <2>5 DEF Decide, DecideEmpty
  <2> QED
    BY <1>1, <1>2, <2>1, <2>2, <2>3, <2>4, <2>5 DEF ThreadStep, Sleep, WakeUp
<1>3. ASSUME NEW s \in Notifier, NotifierStep(s) PROVE Pending
  <2>1. CASE Send(s) \/ EndReceive(s) \/ RemoveNotifier(s)
    BY <2>1 DEF Send, EndReceive, RemoveNotifier
  <2>2. CASE SetFlag(s)
    BY <2>2 DEF SetFlag, NotifierPC
  <2> QED BY <1>1, <1>3, <2>1, <2>2 DEF NotifierStep, WakeUp
<1>4. CASE UNCHANGED vars
  BY <1>4 DEF vars, NoLostWakeUp, Work
<1> QED BY <1>2, <1>3, <1>4, NextCases

THEOREM Invariance == Spec => []IInv
<1>1. IInv /\ [Next]_vars => IInv'
  BY TypeStep, FlagStep, WakeUpStep DEF IInv
<1> QED BY InitHolds, <1>1, PTL DEF Spec

\* AtomicSlot::sleep and AtomicSlot::wakeUp: a group is never asleep over data,
\* or over its end, that nobody is about to announce, although wakeUp takes no
\* mutex and each thread of the group clears the flag for all.
THEOREM AtomicWakeUpsNotLost == Spec => []NoLostWakeUp
<1>1. IInv => NoLostWakeUp
  BY DEF IInv
<1> QED BY <1>1, Invariance, PTL

\* The end of an AtomicSlot reaches the whole group through the wakeUp of each
\* thread that terminates: CoreTask::run calls it after its loop.
THEOREM AtomicEndReachesTheGroup == Spec => []EndHandedOn
<1>1. IInv => EndHandedOn
  BY DEF IInv, ConnectedInv, NoLostWakeUp, EndHandedOn
<1> QED BY <1>1, Invariance, PTL

(***************************************************************************)
(* The slot is a mailbox: the safety part of ImplementsMailbox, of which    *)
(* the fairness stays out of the provers' reach.                            *)
(***************************************************************************)

\* Once the notifiers are gone nothing more arrives, and empty() is not misled
\* by a value that is still being received.
LEMMA EmptyIsTrueAtTheEnd ==
  ASSUME IInv, notifiers = {}, MaySeeEmpty PROVE queued = 0
BY DEF IInv, ConnectedInv, MaySeeEmpty

Terminated == {t \in Thread : pc[t] \in {"finalWakeUp", "finalNotifyOne", "done"}}

\* Whoever wakes a thread up changes nothing that the mailbox shows.
LEMMA WakeUpStutters ==
  ASSUME IInv, NEW p \in Process, WakeUp(p)
  PROVE  Terminated' = Terminated /\ UNCHANGED <<toSend, queued, notifiers>>
<1> USE DEF IInv, TypeOK, Goto
<1>1. CASE SetFlag(p)
  <2>1. \A t \in Thread : t # p => pc'[t] = pc[t]
    BY <1>1 DEF SetFlag, Process
  <2>2. p \in Thread => pc[p] = "finalWakeUp" /\ pc'[p] = "finalNotifyOne"
    BY <1>1 DEF SetFlag, ThreadPC, Process
  <2>3. UNCHANGED <<toSend, queued, notifiers>>
    BY <1>1 DEF SetFlag
  <2> QED BY <2>1, <2>2, <2>3 DEF Terminated
<1>2. CASE NotifyOne(p)
  <2>1. \A t \in Thread : t # p => pc'[t] = pc[t]
                                   \/ (pc[t] = "blocked" /\ pc'[t] = "wait")
    BY <1>2, NotifyOneEffect DEF Process
  <2>2. p \in Thread => pc[p] = "finalNotifyOne" /\ pc'[p] = "done"
    BY <1>2, NotifyOneEffect DEF ThreadPC
  <2>3. UNCHANGED <<toSend, queued, notifiers>>
    BY <1>2, NotifyOneEffect
  <2> QED BY <2>1, <2>2, <2>3 DEF Terminated
<1> QED BY <1>1, <1>2 DEF WakeUp

LEMMA ThreadsRefine ==
  ASSUME IInv, NEW t \in Thread, ThreadStep(t) \/ SpuriousWakeUp(t)
  PROVE  Group!Next \/ UNCHANGED Group!vars
<1> USE DEF IInv, TypeOK, Goto, Process
<1> DEFINE Same == UNCHANGED <<toSend, queued, notifiers>>
<1>0. (Terminated' = Terminated /\ Same) => UNCHANGED Group!vars
  BY DEF Group!vars, Terminated
\* The two outcomes of canTerminate that end a thread.
<1>1. ASSUME MaySeeEmpty, pc[t] \in {"checkEmpty", "decideEmpty"},
             Goto(t, "finalWakeUp"), Same
      PROVE  Group!Terminate(t)
  <2>1. notifiers = {} /\ queued = 0
    BY <1>1, EmptyIsTrueAtTheEnd DEF EndInv
  <2>2. t \notin Terminated /\ Terminated' = Terminated \cup {t}
    BY <1>1 DEF Terminated
  <2> QED BY <2>1, <2>2, <1>1 DEF Group!Terminate, Terminated
<1>2. ASSUME pc[t] \notin {"finalWakeUp", "finalNotifyOne", "done"},
             NEW l \in ThreadPC \ {"finalWakeUp", "finalNotifyOne", "done"},
             Goto(t, l)
      PROVE  Terminated' = Terminated
  BY <1>2 DEF Terminated
<1>3. CASE CheckEmpty(t) \/ DecideEmpty(t)
  <2>1. CASE MaySeeEmpty /\ Goto(t, "finalWakeUp")
    BY <1>1, <1>3, <2>1 DEF CheckEmpty, DecideEmpty, Group!Next
  <2>2. CASE Goto(t, "predEmpty") \/ Goto(t, "get")
    BY <1>0, <1>2, <1>3, <2>2 DEF CheckEmpty, DecideEmpty, ThreadPC
  <2> QED BY <1>3, <2>1, <2>2 DEF CheckEmpty, DecideEmpty
<1>4. CASE GetInputData(t)
  <2>1. CASE queued > 0
    <3>1. /\ pc[t] = "get" /\ Goto(t, "taking")
          /\ queued' = queued - 1 /\ UNCHANGED <<toSend, notifiers>>
      BY <1>4, <2>1 DEF GetInputData
    <3>2. Terminated' = Terminated /\ t \notin Terminated
      BY <1>2, <3>1 DEF ThreadPC, Terminated
    <3>3. Group!Execute
      BY <2>1, <3>1, <3>2 DEF Group!Execute, Terminated
    <3> QED BY <3>3 DEF Group!Next
  <2>2. CASE ~(queued > 0)
    BY <1>0, <1>2, <1>4, <2>2 DEF GetInputData, ThreadPC
  <2> QED BY <2>1, <2>2
<1>5. CASE Check(t) \/ EndGetInputData(t) \/ SpuriousWakeUp(t)
  BY <1>0, <1>2, <1>5 DEF Check, EndGetInputData, SpuriousWakeUp, ThreadPC
<1>6. CASE PredEmpty(t) \/ PredNotifier(t) \/ PredEmptyAgain(t)
  BY <1>0, <1>2, <1>6 DEF PredEmpty, PredNotifier, PredEmptyAgain, ThreadPC
<1>7. CASE Wait(t) \/ Clear(t) \/ Decide(t)
  BY <1>0, <1>2, <1>7 DEF Wait, Clear, Decide, ThreadPC
<1>8. CASE WakeUp(t)
  BY <1>0, <1>8, WakeUpStutters
<1> QED BY <1>3, <1>4, <1>5, <1>6, <1>7, <1>8 DEF ThreadStep, Sleep

LEMMA NotifiersRefine ==
  ASSUME IInv, NEW s \in Notifier, NotifierStep(s)
  PROVE  Group!Next \/ UNCHANGED Group!vars
<1> USE DEF IInv, TypeOK, Goto, Process
<1>1. ASSUME NEW l, Goto(s, l) PROVE Terminated' = Terminated
  BY <1>1, MailboxAssumption DEF Terminated
<1>2. CASE Send(s)
  <2>1. Terminated' = Terminated
    BY <1>1, <1>2 DEF Send
  <2>2. Group!Send(s)
    BY <1>2, <2>1 DEF Send, Group!Send, ConnectedInv, Terminated
  <2> QED BY <2>2 DEF Group!Next
<1>3. CASE RemoveNotifier(s)
  <2>1. Terminated' = Terminated
    BY <1>1, <1>3 DEF RemoveNotifier
  <2>2. Group!Disconnect(s)
    BY <1>3, <2>1 DEF RemoveNotifier, Group!Disconnect, Terminated
  <2> QED BY <2>2 DEF Group!Next
<1>4. CASE EndReceive(s)
  BY <1>1, <1>4 DEF EndReceive, Group!vars, Terminated
<1>5. CASE WakeUp(s)
  BY <1>5, WakeUpStutters DEF Group!vars, Terminated
<1> QED BY <1>2, <1>3, <1>4, <1>5 DEF NotifierStep

\* AtomicSlot is a mailbox: a value sent is executed once, and a thread of the
\* group terminates only when nothing is left and nobody can send any more,
\* although empty() may be wrong while a value is added or taken out.
THEOREM AtomicSlotIsAMailbox ==
  Spec => Group!Init /\ [][Group!Next]_(Group!vars)
<1>1. Init => Group!Init
  BY MailboxAssumption DEF Init, Group!Init
<1>2. IInv /\ [Next]_vars => [Group!Next]_(Group!vars)
  <2> SUFFICES ASSUME IInv, [Next]_vars PROVE Group!Next \/ UNCHANGED Group!vars
    OBVIOUS
  <2>1. CASE UNCHANGED vars
    BY <2>1 DEF vars, Group!vars
  <2> QED BY <2>1, NextCases, ThreadsRefine, NotifiersRefine
<1> QED BY <1>1, <1>2, Invariance, PTL DEF Spec
===============================================================================
