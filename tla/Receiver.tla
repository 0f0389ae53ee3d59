-------------------------------- MODULE Receiver -------------------------------
(***************************************************************************)
(* What a receiver promises to the threads that share it, whatever queue     *)
(* implements it: every value a sender has added is handed to exactly one    *)
(* of the threads that take values out.                                      *)
(***************************************************************************)
EXTENDS Naturals, Sequences, SequencesExt

CONSTANTS
  Producer,  \* the threads that call receive
  Consumer,  \* the threads that call getInputData
  Offers,    \* what the producers may add: in each, a sequence of values for each of them
  Capacity   \* how many values the receiver holds at most

VARIABLES
  fifo,      \* whether the values leave in the order in which they came
  offered,   \* what each producer has yet to add
  queue,     \* the values in the receiver
  got        \* the values each consumer has taken

vars == <<offered, queue, got>>

Init ==
  /\ offered \in Offers
  /\ queue = <<>>
  /\ got = [c \in Consumer |-> <<>>]

Receive(p) ==
  /\ offered[p] # <<>>
  /\ Len(queue) < Capacity
  /\ queue' = Append(queue, Head(offered[p]))
  /\ offered' = [offered EXCEPT ![p] = Tail(@)]
  /\ UNCHANGED got

GetInputData(c) ==
  \E i \in 1..Len(queue) :
    /\ fifo => i = 1
    /\ got' = [got EXCEPT ![c] = Append(@, queue[i])]
    /\ queue' = RemoveAt(queue, i)
    /\ UNCHANGED offered

Next == (\E p \in Producer : Receive(p)) \/ (\E c \in Consumer : GetInputData(c))

Spec == Init /\ [][Next]_vars
=============================================================================
