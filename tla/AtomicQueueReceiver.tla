-------------------------- MODULE AtomicQueueReceiver --------------------------
(***************************************************************************)
(* AtomicQueueReceiver: a linked list whose first node is a dummy.  Those    *)
(* who add values exclude each other with producerLock_, those who take      *)
(* values out with consumerLock_, and a value can be added while another is  *)
(* taken out.  The list, and the counter empty() relies on, are updated in   *)
(* separate steps.                                                           *)
(***************************************************************************)
EXTENDS Integers, Sequences, FiniteSets

CONSTANTS
  Producer, Consumer, Offer,  \* as in module Receiver
  Data,                       \* what can be received: receive asserts that it is not nullptr
  Address,                    \* the addresses operator new returns
  NULL                        \* no node, and no data

ASSUME OfferAssumption == NULL \notin Data /\ Offer \in [Producer -> Seq(Data)]

ASSUME AddressAssumption == NULL \notin Address /\ IsFiniteSet(Address)

ASSUME ThreadAssumption == Producer \cap Consumer = {}

VARIABLES
  pc,            \* what each thread does next
  offered, got,  \* as in module Receiver
  newNode,       \* the node a producer adds
  oldQS,         \* the counter before a producer incremented it
  next,          \* the next node a consumer read
  oldFirst,      \* the node a consumer deletes
  allocated,     \* the nodes that exist
  next_, data_,  \* Node::next_ and Node::data_
  head_, tail_, producerLock_, consumerLock_, queueSize_, maxQueueSize_,
  list           \* auxiliary: the nodes linked and not taken out, oldest first

local  == <<newNode, oldQS, next, oldFirst>>
client == <<offered, got, list>>
heap   == <<allocated, next_, data_>>
vars   == <<pc, client, local, heap, head_, tail_, producerLock_,
            consumerLock_, queueSize_, maxQueueSize_>>

Init ==
  /\ pc = [t \in Producer \cup Consumer |-> "idle"]
  /\ offered = Offer
  /\ got = [c \in Consumer |-> <<>>]
  /\ newNode = [p \in Producer |-> NULL]
  /\ oldQS = [p \in Producer |-> 0]
  /\ next = [c \in Consumer |-> NULL]
  /\ oldFirst = [c \in Consumer |-> NULL]
  /\ \E a \in Address : allocated = {a} /\ head_ = a /\ tail_ = a
  /\ next_ = [a \in Address |-> NULL]
  /\ data_ = [a \in Address |-> NULL]
  /\ producerLock_ = FALSE
  /\ consumerLock_ = FALSE
  /\ queueSize_ = 0
  /\ maxQueueSize_ = 0
  /\ list = <<>>

Goto(t, l) == pc' = [pc EXCEPT ![t] = l]

\* The values in the list, from the oldest to the newest.
Contents == [i \in DOMAIN list |-> data_[list[i]]]

\* empty(): the counter may be negative.
Empty == queueSize_ <= 0
-----------------------------------------------------------------------------
(* receive.                                                                  *)

Allocate(p) ==
  /\ pc[p] = "idle"
  /\ offered[p] # <<>>
  /\ \E a \in Address \ allocated :
       /\ allocated' = allocated \cup {a}
       /\ next_' = [next_ EXCEPT ![a] = NULL]
       /\ data_' = [data_ EXCEPT ![a] = Head(offered[p])]
       /\ newNode' = [newNode EXCEPT ![p] = a]
  /\ Goto(p, "lockProducer")
  /\ UNCHANGED <<client, oldQS, next, oldFirst, head_, tail_, producerLock_,
                 consumerLock_, queueSize_, maxQueueSize_>>

\* Mutant of LockProducer: the lock is not tested.
LockProducerAnyway(p) ==
  /\ pc[p] = "lockProducer"
  /\ producerLock_' = TRUE
  /\ Goto(p, "link")
  /\ UNCHANGED <<client, local, heap, head_, tail_, consumerLock_, queueSize_,
                 maxQueueSize_>>

LockProducer(p) ==
  /\ pc[p] = "lockProducer"
  /\ ~producerLock_
  /\ producerLock_' = TRUE
  /\ Goto(p, "link")
  /\ UNCHANGED <<client, local, heap, head_, tail_, consumerLock_, queueSize_,
                 maxQueueSize_>>

\* From here on a consumer finds the value.
Link(p) ==
  /\ pc[p] = "link"
  /\ next_' = [next_ EXCEPT ![tail_] = newNode[p]]
  /\ offered' = [offered EXCEPT ![p] = Tail(@)]
  /\ list' = Append(list, newNode[p])
  /\ Goto(p, "moveTail")
  /\ UNCHANGED <<got, local, allocated, data_, head_, tail_, producerLock_,
                 consumerLock_, queueSize_, maxQueueSize_>>

MoveTail(p) ==
  /\ pc[p] = "moveTail"
  /\ tail_' = newNode[p]
  /\ Goto(p, "count")
  /\ UNCHANGED <<client, local, heap, head_, producerLock_, consumerLock_,
                 queueSize_, maxQueueSize_>>

Count(p) ==
  /\ pc[p] = "count"
  /\ oldQS' = [oldQS EXCEPT ![p] = queueSize_]
  /\ queueSize_' = queueSize_ + 1
  /\ Goto(p, "recordMax")
  /\ UNCHANGED <<client, newNode, next, oldFirst, heap, head_, tail_,
                 producerLock_, consumerLock_, maxQueueSize_>>

\* A compare-and-exchange whose failure is ignored.
RecordMax(p) ==
  /\ pc[p] = "recordMax"
  /\ maxQueueSize_' = IF maxQueueSize_ = oldQS[p] THEN oldQS[p] + 1
                      ELSE maxQueueSize_
  /\ Goto(p, "unlockProducer")
  /\ UNCHANGED <<client, local, heap, head_, tail_, producerLock_,
                 consumerLock_, queueSize_>>

\* Mutant of UnlockProducer: an early return when the counter was negative.
UnlockProducerUnlessNegative(p) ==
  /\ pc[p] = "unlockProducer"
  /\ producerLock_' = (oldQS[p] < 0)
  /\ newNode' = [newNode EXCEPT ![p] = NULL]
  /\ oldQS' = [oldQS EXCEPT ![p] = 0]
  /\ Goto(p, "idle")
  /\ UNCHANGED <<client, next, oldFirst, heap, head_, tail_, consumerLock_,
                 queueSize_, maxQueueSize_>>

UnlockProducer(p) ==
  /\ pc[p] = "unlockProducer"
  /\ producerLock_' = FALSE
  /\ newNode' = [newNode EXCEPT ![p] = NULL]
  /\ oldQS' = [oldQS EXCEPT ![p] = 0]
  /\ Goto(p, "idle")
  /\ UNCHANGED <<client, next, oldFirst, heap, head_, tail_, consumerLock_,
                 queueSize_, maxQueueSize_>>
-----------------------------------------------------------------------------
(* getInputData.                                                             *)

\* Mutant of LockConsumer: the lock is not tested.
LockConsumerAnyway(c) ==
  /\ pc[c] = "idle"
  /\ consumerLock_' = TRUE
  /\ Goto(c, "readNext")
  /\ UNCHANGED <<client, local, heap, head_, tail_, producerLock_, queueSize_,
                 maxQueueSize_>>

LockConsumer(c) ==
  /\ pc[c] = "idle"
  /\ ~consumerLock_
  /\ consumerLock_' = TRUE
  /\ Goto(c, "readNext")
  /\ UNCHANGED <<client, local, heap, head_, tail_, producerLock_, queueSize_,
                 maxQueueSize_>>

\* Mutant of ReadNext: the counter goes down when there was nothing to take.
ReadNextCountingDown(c) ==
  /\ pc[c] = "readNext"
  /\ next' = [next EXCEPT ![c] = next_[head_]]
  /\ Goto(c, IF next_[head_] = NULL THEN "countDown" ELSE "advance")
  /\ UNCHANGED <<client, newNode, oldQS, oldFirst, heap, head_, tail_,
                 producerLock_, consumerLock_, queueSize_, maxQueueSize_>>

\* With no next node the function returns false, once the lock is released.
ReadNext(c) ==
  /\ pc[c] = "readNext"
  /\ next' = [next EXCEPT ![c] = next_[head_]]
  /\ Goto(c, IF next_[head_] = NULL THEN "unlockConsumer" ELSE "advance")
  /\ UNCHANGED <<client, newNode, oldQS, oldFirst, heap, head_, tail_,
                 producerLock_, consumerLock_, queueSize_, maxQueueSize_>>

\* The next node becomes the dummy, and gives its data away.
Advance(c) ==
  /\ pc[c] = "advance"
  /\ oldFirst' = [oldFirst EXCEPT ![c] = head_]
  /\ head_' = next[c]
  /\ got' = [got EXCEPT ![c] = Append(@, data_[next[c]])]
  /\ data_' = [data_ EXCEPT ![next[c]] = NULL]
  /\ list' = SubSeq(list, 2, Len(list))
  /\ Goto(c, "countDown")
  /\ UNCHANGED <<offered, newNode, oldQS, next, allocated, next_, tail_,
                 producerLock_, consumerLock_, queueSize_, maxQueueSize_>>

CountDown(c) ==
  /\ pc[c] = "countDown"
  /\ queueSize_' = queueSize_ - 1
  /\ Goto(c, "unlockConsumer")
  /\ UNCHANGED <<client, local, heap, head_, tail_, producerLock_,
                 consumerLock_, maxQueueSize_>>

UnlockConsumer(c) ==
  /\ pc[c] = "unlockConsumer"
  /\ consumerLock_' = FALSE
  /\ next' = [next EXCEPT ![c] = NULL]
  /\ Goto(c, IF next[c] = NULL THEN "idle" ELSE "delete")
  /\ UNCHANGED <<client, newNode, oldQS, oldFirst, heap, head_, tail_,
                 producerLock_, queueSize_, maxQueueSize_>>

\* The node that was the dummy is deleted after the lock is released.
Delete(c) ==
  /\ pc[c] = "delete"
  /\ allocated' = allocated \ {oldFirst[c]}
  /\ next_' = [next_ EXCEPT ![oldFirst[c]] = NULL]
  /\ oldFirst' = [oldFirst EXCEPT ![c] = NULL]
  /\ Goto(c, "idle")
  /\ UNCHANGED <<client, newNode, oldQS, next, data_, head_, tail_,
                 producerLock_, consumerLock_, queueSize_, maxQueueSize_>>
-----------------------------------------------------------------------------
Receive(p) ==
  \/ Allocate(p) \/ LockProducer(p) \/ Link(p) \/ MoveTail(p) \/ Count(p)
  \/ RecordMax(p) \/ UnlockProducer(p)

GetInputData(c) ==
  \/ LockConsumer(c) \/ ReadNext(c) \/ Advance(c) \/ CountDown(c)
  \/ UnlockConsumer(c) \/ Delete(c)

Next == (\E p \in Producer : Receive(p)) \/ (\E c \in Consumer : GetInputData(c))

Spec == Init /\ [][Next]_vars

\* A thread that can run is scheduled, and whoever spins on a lock that is free
\* again and again obtains it.
Fairness ==
  /\ \A p \in Producer : WF_vars(Receive(p)) /\ SF_vars(LockProducer(p))
  /\ \A c \in Consumer : WF_vars(GetInputData(c)) /\ SF_vars(LockConsumer(c))

FairSpec == Spec /\ Fairness
-----------------------------------------------------------------------------
(* Properties.                                                               *)

\* The list is a first-in first-out receiver: every value that was linked is
\* handed to exactly one consumer, in the order of the links: what a consumer
\* finds by following the pointers is the value that was linked first.
Fifo == INSTANCE Receiver WITH
  Capacity <- Cardinality(Address), Offers <- {Offer}, fifo <- TRUE, queue <- Contents

ImplementsReceiver == Fifo!Spec

\* A value whose receive has counted it is never hidden by the counter, though
\* the counter goes below zero: when empty() answers true, the list holds
\* nothing but a value whose sender is still inside receive, and so has not
\* called notify.
EmptyIsReliable ==
  Empty => \A i \in DOMAIN list :
             \E p \in Producer :
               pc[p] \in {"moveTail", "count"} /\ newNode[p] = list[i]

\* No thread reads or writes a node after it was deleted, and none is deleted
\* twice: tail_ still points at the old last node while a consumer may already
\* have deleted it, and is moved before the next producer follows it.
NoDanglingAccess ==
  /\ \A p \in Producer : pc[p] = "link" => tail_ \in allocated
  /\ \A c \in Consumer :
       /\ pc[c] \in {"readNext", "advance"} => head_ \in allocated
       /\ pc[c] = "advance" => next[c] \in allocated
       /\ pc[c] = "delete" =>
            /\ oldFirst[c] \in allocated \ {head_}
            /\ \A d \in Consumer \ {c} : oldFirst[d] # oldFirst[c]

\* Everything offered is taken out: no lock is left closed.
EverythingTaken ==
  <>[](\A p \in Producer : offered[p] = <<>> /\ pc[p] = "idle" /\ list = <<>>)
=============================================================================
