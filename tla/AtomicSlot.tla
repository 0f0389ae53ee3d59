------------------------------- MODULE AtomicSlot ------------------------------
(***************************************************************************)
(* A group of threads that sleep on one AtomicSlot, and the threads that     *)
(* send to it and notify it.  The slot has no mutex: a flag says that the    *)
(* slot was woken up, waiting on it and setting it are separate steps, and   *)
(* the threads of the group clear it for one another.  The queue is one of   *)
(* the two queues with atomics, whose empty() may be wrong while a value is  *)
(* being added or taken out.                                                 *)
(***************************************************************************)
EXTENDS Naturals

CONSTANTS
  Thread, Notifier, Sends,  \* as in module Mailbox
  Capacity                  \* how many values the queue holds at most

ASSUME MailboxAssumption ==
  /\ Thread \cap Notifier = {}
  /\ Sends \in [Notifier -> Nat]
  /\ Capacity \in Nat \ {0}

VARIABLES
  pc,         \* what each thread does next
  toSend,     \* what each notifier has yet to send
  queued,     \* how many values the queue holds
  notifiers,  \* AtomicSlot::notifiers_
  waitFlag_   \* AtomicSlot::waitFlag_

vars == <<pc, toSend, queued, notifiers, waitFlag_>>

Init ==
  /\ pc = [p \in Thread \cup Notifier |-> IF p \in Thread THEN "check" ELSE "run"]
  /\ toSend = Sends
  /\ queued = 0
  /\ notifiers = Notifier
  /\ waitFlag_ = FALSE

Goto(p, l) == pc' = [pc EXCEPT ![p] = l]

\* empty() may miss a value whose receive is not over, and may still count a
\* value that another thread is taking out.
MaySeeEmpty    == queued = 0 \/ \E s \in Notifier : pc[s] = "receiving"
MaySeeData(t)  == queued > 0 \/ \E u \in Thread \ {t} : pc[u] = "taking"
-----------------------------------------------------------------------------
(* AtomicSlot::wakeUp, called by the notifiers and, when it ends, by each    *)
(* thread of the group: the flag is set and one blocked thread, if there is  *)
(* any, looks at it again.                                                   *)

SetFlag(p) ==
  /\ pc[p] \in {"wakeUp", "lastWakeUp", "finalWakeUp"}
  /\ waitFlag_' = TRUE
  /\ Goto(p, CASE pc[p] = "wakeUp"      -> "notifyOne"
               [] pc[p] = "lastWakeUp"  -> "lastNotifyOne"
               [] pc[p] = "finalWakeUp" -> "finalNotifyOne")
  /\ UNCHANGED <<toSend, queued, notifiers>>

Blocked == {t \in Thread : pc[t] = "blocked"}

NotifyOne(p) ==
  /\ pc[p] \in {"notifyOne", "lastNotifyOne", "finalNotifyOne"}
  /\ LET l == IF pc[p] = "notifyOne" THEN "run" ELSE "done" IN
     \/ Blocked = {} /\ Goto(p, l)
     \/ \E t \in Blocked : pc' = [pc EXCEPT ![p] = l, ![t] = "wait"]
  /\ UNCHANGED <<toSend, queued, notifiers, waitFlag_>>
-----------------------------------------------------------------------------
(* The notifiers: send, then notify; at their end, notifyAllTerminated.      *)

\* The value is in the queue before receive returns.
Send(s) ==
  /\ pc[s] = "run"
  /\ toSend[s] > 0
  /\ queued < Capacity
  /\ queued' = queued + 1
  /\ toSend' = [toSend EXCEPT ![s] = @ - 1]
  /\ Goto(s, "receiving")
  /\ UNCHANGED <<notifiers, waitFlag_>>

EndReceive(s) ==
  /\ pc[s] = "receiving"
  /\ Goto(s, "wakeUp")
  /\ UNCHANGED <<toSend, queued, notifiers, waitFlag_>>

RemoveNotifier(s) ==
  /\ pc[s] = "run"
  /\ toSend[s] = 0
  /\ notifiers' = notifiers \ {s}
  /\ Goto(s, "lastWakeUp")
  /\ UNCHANGED <<toSend, queued, waitFlag_>>
-----------------------------------------------------------------------------
(* The threads of the group: CoreTask::run and AtomicSlot::sleep.            *)

Check(t) ==
  /\ pc[t] = "check"
  /\ Goto(t, IF notifiers # {} THEN "predEmpty" ELSE "checkEmpty")
  /\ UNCHANGED <<toSend, queued, notifiers, waitFlag_>>

\* Mutant of CheckEmpty: terminate as soon as no notifier is left.
CheckEmptySkipped(t) ==
  /\ pc[t] = "checkEmpty"
  /\ Goto(t, "finalWakeUp")
  /\ UNCHANGED <<toSend, queued, notifiers, waitFlag_>>

CheckEmpty(t) ==
  /\ pc[t] = "checkEmpty"
  /\ \/ MaySeeEmpty /\ Goto(t, "finalWakeUp")
     \/ MaySeeData(t) /\ Goto(t, "predEmpty")
  /\ UNCHANGED <<toSend, queued, notifiers, waitFlag_>>

\* The loop of sleep ends when waitTerminationCondition holds.
PredEmpty(t) ==
  /\ pc[t] = "predEmpty"
  /\ \/ MaySeeData(t) /\ Goto(t, "decide")
     \/ MaySeeEmpty /\ Goto(t, "predNotifier")
  /\ UNCHANGED <<toSend, queued, notifiers, waitFlag_>>

PredNotifier(t) ==
  /\ pc[t] = "predNotifier"
  /\ Goto(t, IF notifiers # {} THEN "wait" ELSE "predEmptyAgain")
  /\ UNCHANGED <<toSend, queued, notifiers, waitFlag_>>

PredEmptyAgain(t) ==
  /\ pc[t] = "predEmptyAgain"
  /\ \/ MaySeeEmpty /\ Goto(t, "decide")
     \/ MaySeeData(t) /\ Goto(t, "wait")
  /\ UNCHANGED <<toSend, queued, notifiers, waitFlag_>>

\* Mutant of Wait: the flag is cleared before the thread waits on it.
WaitAfterClear(t) ==
  /\ pc[t] = "wait"
  /\ waitFlag_' = FALSE
  /\ Goto(t, "blocked")
  /\ UNCHANGED <<toSend, queued, notifiers>>

\* waitFlag_.wait(false) returns once it has read true.
Wait(t) ==
  /\ pc[t] = "wait"
  /\ Goto(t, IF waitFlag_ THEN "clear" ELSE "blocked")
  /\ UNCHANGED <<toSend, queued, notifiers, waitFlag_>>

Clear(t) ==
  /\ pc[t] = "clear"
  /\ waitFlag_' = FALSE
  /\ Goto(t, "predEmpty")
  /\ UNCHANGED <<toSend, queued, notifiers>>

\* sleep returns canTerminate.
Decide(t) ==
  /\ pc[t] = "decide"
  /\ Goto(t, IF notifiers # {} THEN "get" ELSE "decideEmpty")
  /\ UNCHANGED <<toSend, queued, notifiers, waitFlag_>>

\* Mutant of DecideEmpty: the thread ends without the wakeUp of its own slot.
DecideEmptySilent(t) ==
  /\ pc[t] = "decideEmpty"
  /\ \/ MaySeeEmpty /\ Goto(t, "done")
     \/ MaySeeData(t) /\ Goto(t, "get")
  /\ UNCHANGED <<toSend, queued, notifiers, waitFlag_>>

DecideEmpty(t) ==
  /\ pc[t] = "decideEmpty"
  /\ \/ MaySeeEmpty /\ Goto(t, "finalWakeUp")
     \/ MaySeeData(t) /\ Goto(t, "get")
  /\ UNCHANGED <<toSend, queued, notifiers, waitFlag_>>

\* operateReceivers: there may be nothing left, then run tests again.
GetInputData(t) ==
  /\ pc[t] = "get"
  /\ IF queued > 0
       THEN queued' = queued - 1 /\ Goto(t, "taking")
       ELSE Goto(t, "check") /\ UNCHANGED queued
  /\ UNCHANGED <<toSend, notifiers, waitFlag_>>

EndGetInputData(t) ==
  /\ pc[t] = "taking"
  /\ Goto(t, "check")
  /\ UNCHANGED <<toSend, queued, notifiers, waitFlag_>>

\* A blocked thread may look at the flag without having been notified.
SpuriousWakeUp(t) ==
  /\ pc[t] = "blocked"
  /\ Goto(t, "wait")
  /\ UNCHANGED <<toSend, queued, notifiers, waitFlag_>>
-----------------------------------------------------------------------------
WakeUp(p) == SetFlag(p) \/ NotifyOne(p)

Sleep(t) ==
  \/ PredEmpty(t) \/ PredNotifier(t) \/ PredEmptyAgain(t) \/ Wait(t)
  \/ Clear(t) \/ Decide(t) \/ DecideEmpty(t)

ThreadStep(t) ==
  \/ Check(t) \/ CheckEmpty(t) \/ Sleep(t) \/ GetInputData(t)
  \/ EndGetInputData(t) \/ WakeUp(t)

NotifierStep(s) ==
  Send(s) \/ EndReceive(s) \/ RemoveNotifier(s) \/ WakeUp(s)

AllDone == \A p \in Thread \cup Notifier : pc[p] = "done"

\* The group and everything that sends to it have ended.
Finished == AllDone /\ UNCHANGED vars

Next ==
  \/ \E t \in Thread : ThreadStep(t) \/ SpuriousWakeUp(t)
  \/ \E s \in Notifier : NotifierStep(s)
  \/ Finished

Spec == Init /\ [][Next]_vars

\* Every thread that can run is scheduled; no spurious wake-up is owed.
FairSpec ==
  /\ Spec
  /\ \A t \in Thread : WF_vars(ThreadStep(t))
  /\ \A s \in Notifier : WF_vars(NotifierStep(s))
-----------------------------------------------------------------------------
(* Properties.                                                               *)

\* No lost wake-up: when all the threads that have not ended are blocked
\* although there is data, or nothing can send any more, some thread is between
\* its change and the end of its wakeUp.
NoLostWakeUp ==
  /\ \E t \in Thread : pc[t] = "blocked"
  /\ \A t \in Thread : pc[t] \in {"blocked", "done"}
  /\ queued > 0 \/ notifiers = {}
  => \E s \in Notifier : pc[s] \in {"receiving", "wakeUp", "notifyOne",
                                    "lastWakeUp", "lastNotifyOne"}

\* A thread that terminates leaves no data behind for which nobody is awake, and
\* no thread of its group asleep: the last wakeUp of the group reaches it.
EndHandedOn ==
  \A t \in Thread : pc[t] = "blocked" /\ notifiers = {} =>
    \/ \E s \in Notifier : pc[s] \in {"lastWakeUp", "lastNotifyOne"}
    \/ \E u \in Thread : pc[u] \notin {"blocked", "done"}

\* The slot with atomics does for a group what a mutex and a condition variable
\* do: all that is sent is executed and every thread terminates, once nothing
\* can come any more.
Group == INSTANCE Mailbox WITH
  terminated <- {t \in Thread : pc[t] \in {"finalWakeUp", "finalNotifyOne",
                                           "done"}}

ImplementsMailbox == Group!Spec
=============================================================================
