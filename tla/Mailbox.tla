-------------------------------- MODULE Mailbox --------------------------------
(***************************************************************************)
(* What a slot and a receiver promise to a group of threads, whatever they   *)
(* are made of: all that is sent is executed, and each thread of the group   *)
(* terminates, once everything that could send has gone and nothing is left. *)
(***************************************************************************)
EXTENDS Naturals

CONSTANTS
  Thread,    \* the threads of the group
  Notifier,  \* the threads that send to it
  Sends      \* Sends[s] is how many values s sends

VARIABLES
  toSend,      \* what each notifier has yet to send
  queued,      \* how many values wait to be executed
  notifiers,   \* the connected notifiers
  terminated   \* the threads that will execute nothing any more

vars == <<toSend, queued, notifiers, terminated>>

Init ==
  /\ toSend = Sends
  /\ queued = 0
  /\ notifiers = Notifier
  /\ terminated = {}

Send(s) ==
  /\ toSend[s] > 0
  /\ s \in notifiers
  /\ toSend' = [toSend EXCEPT ![s] = @ - 1]
  /\ queued' = queued + 1
  /\ UNCHANGED <<notifiers, terminated>>

Disconnect(s) ==
  /\ toSend[s] = 0
  /\ notifiers' = notifiers \ {s}
  /\ UNCHANGED <<toSend, queued, terminated>>

Execute ==
  /\ terminated # Thread
  /\ queued > 0
  /\ queued' = queued - 1
  /\ UNCHANGED <<toSend, notifiers, terminated>>

Terminate(t) ==
  /\ notifiers = {}
  /\ queued = 0
  /\ t \notin terminated
  /\ terminated' = terminated \cup {t}
  /\ UNCHANGED <<toSend, queued, notifiers>>

Next ==
  \/ \E s \in Notifier : Send(s) \/ Disconnect(s)
  \/ Execute
  \/ \E t \in Thread : Terminate(t)

Spec ==
  /\ Init
  /\ [][Next]_vars
  /\ WF_vars(Execute)
  /\ \A t \in Thread : WF_vars(Terminate(t))
=============================================================================
