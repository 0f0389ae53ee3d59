--------------------------- MODULE AtomicQueueProofs ---------------------------
(***************************************************************************)
(* The memory safety of the linked list of an AtomicQueueReceiver: proofs   *)
(* for every number of producers and consumers, every set of addresses and  *)
(* whatever is offered.                                                     *)
(***************************************************************************)
EXTENDS AtomicQueueReceiver, FiniteSetTheorems, SequenceTheorems, TLAPS

ProducerPC ==
  {"idle", "lockProducer", "link", "moveTail", "count", "recordMax",
   "unlockProducer"}
ConsumerPC ==
  {"idle", "readNext", "advance", "countDown", "unlockConsumer", "delete"}

\* Where a thread owns the lock of its side.
InProducerLock ==
  {"link", "moveTail", "count", "recordMax", "unlockProducer"}
InConsumerLock == {"readNext", "advance", "countDown", "unlockConsumer"}

Pointer == Address \cup {NULL}

TypeOK ==
  /\ pc \in [Producer \cup Consumer -> ProducerPC \cup ConsumerPC]
  /\ newNode \in [Producer -> Pointer]
  /\ next \in [Consumer -> Pointer]
  /\ oldFirst \in [Consumer -> Pointer]
  /\ allocated \subseteq Address
  /\ next_ \in [Address -> Pointer]
  /\ head_ \in Address /\ tail_ \in Address

(***************************************************************************)
(* The inductive invariant.                                                 *)
(***************************************************************************)

\* Each side of the list has one thread at a time.
LockInv ==
  /\ \A p \in Producer : pc[p] \in InProducerLock =>
       producerLock_ /\ \A q \in Producer : pc[q] \in InProducerLock => q = p
  /\ \A c \in Consumer : pc[c] \in InConsumerLock =>
       consumerLock_ /\ \A d \in Consumer : pc[d] \in InConsumerLock => d = c

\* A node belongs to the producer that made it until it is linked, to the
\* consumer that took it out once it is not the dummy any more, and to the list
\* in between.
Private == {newNode[p] : p \in {q \in Producer : pc[q] \in {"lockProducer", "link"}}}
Garbage == {oldFirst[c] : c \in Consumer} \ {NULL}
Linked  == allocated \ (Private \cup Garbage)

PrivateInv ==
  \A p \in Producer : pc[p] \in {"lockProducer", "link"} =>
    /\ newNode[p] \in allocated \ Garbage
    /\ next_[newNode[p]] = NULL
    /\ \A q \in Producer :
         pc[q] \in {"lockProducer", "link"} /\ newNode[q] = newNode[p] => q = p

\* A consumer keeps the old dummy from the moment it moves the head until it
\* deletes it, and nobody else keeps the same one.
GarbageInv ==
  \A c \in Consumer :
    /\ pc[c] \in {"idle", "readNext", "advance"} => oldFirst[c] = NULL
    /\ pc[c] = "delete" => oldFirst[c] # NULL
    /\ pc[c] = "countDown" => oldFirst[c] # NULL /\ next[c] # NULL
    /\ pc[c] = "unlockConsumer" => (oldFirst[c] = NULL <=> next[c] = NULL)
    /\ oldFirst[c] # NULL =>
         /\ oldFirst[c] \in allocated
         /\ \A d \in Consumer : oldFirst[d] = oldFirst[c] => d = c

\* The list: it is closed under next_, its pointers do not meet, and none of
\* them leads back to the dummy.
ListInv ==
  /\ head_ \in Linked
  /\ \A a \in Linked : next_[a] # NULL =>
       /\ next_[a] \in Linked \ {head_}
       /\ \A b \in Linked : next_[b] = next_[a] => b = a

\* The tail is the last node, except between the two assignments of receive.
TailInv ==
  /\ \/ tail_ \in Linked /\ next_[tail_] = NULL
     \/ \E p \in Producer : pc[p] = "moveTail"
  /\ \A p \in Producer : pc[p] = "moveTail" =>
       newNode[p] \in Linked /\ next_[newNode[p]] = NULL

\* The next node a consumer has read is still the next one when it uses it.
AdvanceInv ==
  \A c \in Consumer : pc[c] = "advance" => next[c] = next_[head_] /\ next[c] # NULL

IInv ==
  /\ TypeOK /\ LockInv /\ PrivateInv /\ GarbageInv /\ ListInv /\ TailInv
  /\ AdvanceInv

(***************************************************************************)
(* Control, types and locks.                                                *)
(***************************************************************************)

\* A step moves one thread.
LEMMA Move ==
  ASSUME TypeOK, NEW r \in Producer \cup Consumer, NEW l, Goto(r, l)
  PROVE  pc'[r] = l /\ \A q \in (Producer \cup Consumer) \ {r} : pc'[q] = pc[q]
BY DEF TypeOK, Goto

LEMMA SidesDiffer == \A p \in Producer, c \in Consumer : p # c
BY ThreadAssumption

LEMMA InitHolds == Init => IInv
<1> SUFFICES ASSUME Init PROVE IInv
  OBVIOUS
<1> USE AddressAssumption DEF Init
<1>1. TypeOK
  BY DEF TypeOK, ProducerPC, ConsumerPC, Pointer
<1>2. Private = {} /\ Garbage = {} /\ Linked = allocated
  BY DEF Private, Garbage, Linked
<1>3. LockInv /\ PrivateInv /\ GarbageInv /\ AdvanceInv
  BY DEF LockInv, PrivateInv, GarbageInv, AdvanceInv, InProducerLock,
    InConsumerLock
<1>4. ListInv /\ TailInv
  BY <1>2 DEF ListInv, TailInv
<1> QED BY <1>1, <1>3, <1>4 DEF IInv

LEMMA ControlOfProducer ==
  ASSUME IInv, NEW p \in Producer, Receive(p)
  PROVE  pc' \in [Producer \cup Consumer -> ProducerPC \cup ConsumerPC] /\ LockInv'
<1> USE SidesDiffer DEF IInv, LockInv, InProducerLock, InConsumerLock, ProducerPC,
      Goto
<1>1. CASE Allocate(p)
  BY <1>1 DEF Allocate, TypeOK
<1>2. CASE LockProducer(p)
  BY <1>2 DEF LockProducer, TypeOK
<1>3. CASE Link(p) \/ MoveTail(p)
  BY <1>3 DEF Link, MoveTail, TypeOK
<1>4. CASE Count(p) \/ RecordMax(p)
  BY <1>4 DEF Count, RecordMax, TypeOK
<1>5. CASE UnlockProducer(p)
  BY <1>5 DEF UnlockProducer, TypeOK
<1> QED BY <1>1, <1>2, <1>3, <1>4, <1>5 DEF Receive

LEMMA ControlOfConsumer ==
  ASSUME IInv, NEW c \in Consumer, GetInputData(c)
  PROVE  pc' \in [Producer \cup Consumer -> ProducerPC \cup ConsumerPC] /\ LockInv'
<1> USE SidesDiffer DEF IInv, LockInv, InProducerLock, InConsumerLock, ConsumerPC,
      Goto
<1>1. CASE LockConsumer(c)
  BY <1>1 DEF LockConsumer, TypeOK
<1>2. CASE ReadNext(c) \/ Advance(c)
  BY <1>2 DEF ReadNext, Advance, TypeOK
<1>3. CASE CountDown(c)
  BY <1>3 DEF CountDown, TypeOK
<1>4. CASE UnlockConsumer(c) \/ Delete(c)
  BY <1>4 DEF UnlockConsumer, Delete, TypeOK
<1> QED BY <1>1, <1>2, <1>3, <1>4 DEF GetInputData

(***************************************************************************)
(* The nodes.                                                               *)
(***************************************************************************)

\* What the sets say of a single node.
LEMMA Belongs ==
  /\ \A a : a \in Private <=> \E p \in Producer : /\ pc[p] \in {"lockProducer", "link"}
                                                 /\ a = newNode[p]
  /\ \A a : a \in Garbage <=> a # NULL /\ \E c \in Consumer : a = oldFirst[c]
  /\ \A a : a \in Linked <=> a \in allocated /\ a \notin Private /\ a \notin Garbage
BY DEF Private, Garbage, Linked

LEMMA BelongsNext ==
  /\ \A a : a \in Private' <=> \E p \in Producer : /\ pc'[p] \in {"lockProducer", "link"}
                                                  /\ a = newNode'[p]
  /\ \A a : a \in Garbage' <=> a # NULL /\ \E c \in Consumer : a = oldFirst'[c]
  /\ \A a : a \in Linked' <=> a \in allocated' /\ a \notin Private' /\ a \notin Garbage'
BY DEF Private, Garbage, Linked

\* The steps that touch no node: the list and whom its nodes belong to stay.
LEMMA QuietStep ==
  ASSUME IInv, UNCHANGED <<allocated, next_, oldFirst, head_>>,
         \A p \in Producer :
           /\ pc'[p] \in {"lockProducer", "link"} <=> pc[p] \in {"lockProducer", "link"}
           /\ pc[p] \in {"lockProducer", "link"} => newNode'[p] = newNode[p]
  PROVE  /\ Private' = Private /\ Garbage' = Garbage /\ Linked' = Linked
         /\ PrivateInv' /\ ListInv'
<1>1. Private' = Private
  BY Belongs, BelongsNext
<1>2. Garbage' = Garbage
  BY DEF Garbage
<1>3. Linked' = Linked
  BY <1>1, <1>2 DEF Linked
<1>4. PrivateInv'
  BY <1>2 DEF IInv, PrivateInv
<1>5. ListInv'
  BY <1>3 DEF IInv, ListInv
<1> QED BY <1>1, <1>2, <1>3, <1>4, <1>5

\* A consumer that keeps the pointers of the others and its own old dummy.
LEMMA GarbageOfOthers ==
  ASSUME IInv, NEW c \in Consumer, UNCHANGED <<allocated, oldFirst>>,
         \A d \in Consumer \ {c} : pc'[d] = pc[d] /\ next'[d] = next[d],
         /\ pc'[c] \in {"idle", "readNext", "advance"} => oldFirst[c] = NULL
         /\ pc'[c] = "delete" => oldFirst[c] # NULL
         /\ pc'[c] = "countDown" => oldFirst[c] # NULL /\ next'[c] # NULL
         /\ pc'[c] = "unlockConsumer" => (oldFirst[c] = NULL <=> next'[c] = NULL)
  PROVE  GarbageInv'
BY DEF IInv, GarbageInv

(***************************************************************************)
(* receive.                                                                 *)
(***************************************************************************)
Nodewise == TypeOK' /\ PrivateInv' /\ GarbageInv' /\ ListInv' /\ TailInv' /\ AdvanceInv'

LEMMA AllocateStep ==
  ASSUME IInv, NEW p \in Producer, Allocate(p), Receive(p)
  PROVE  Nodewise /\ Linked' = Linked
<1> USE AddressAssumption DEF IInv
<1>1. PICK a \in Address \ allocated :
        /\ allocated' = allocated \cup {a}
        /\ next_' = [next_ EXCEPT ![a] = NULL]
        /\ newNode' = [newNode EXCEPT ![p] = a]
  BY DEF Allocate
<1>2. /\ pc[p] = "idle" /\ Goto(p, "lockProducer")
      /\ UNCHANGED <<next, oldFirst, head_, tail_>>
  BY DEF Allocate
<1>3. pc'[p] = "lockProducer" /\ \A q \in (Producer \cup Consumer) \ {p} : pc'[q] = pc[q]
  BY <1>2, Move
<1>4. /\ newNode'[p] = a /\ \A q \in Producer \ {p} : newNode'[q] = newNode[q]
      /\ next_'[a] = NULL /\ \A b \in Address \ {a} : next_'[b] = next_[b]
      /\ a # NULL /\ a \notin allocated
  BY <1>1 DEF TypeOK
<1>5. TypeOK'
  BY <1>1, <1>2, ControlOfProducer DEF TypeOK, Pointer
<1>6. \A c \in Consumer : pc'[c] = pc[c] /\ oldFirst[c] # a
  BY <1>3, <1>4, SidesDiffer DEF GarbageInv
<1>7. Garbage' = Garbage /\ a \notin Garbage /\ a \notin Private
  <2>1. Garbage' = Garbage
    BY <1>2 DEF Garbage
  <2>2. a \notin Garbage
    BY <1>6, Belongs
  <2>3. a \notin Private
    BY <1>4, Belongs DEF PrivateInv
  <2> QED BY <2>1, <2>2, <2>3
<1>8. Linked' = Linked
  <2>1. Private' = Private \cup {a}
    BY <1>2, <1>3, <1>4, Belongs, BelongsNext
  <2> QED BY <1>1, <1>7, <2>1 DEF Linked
<1>9. Linked \subseteq Address \ {a} /\ head_ # a
  BY <1>4 DEF Linked, TypeOK, ListInv
<1>10. PrivateInv'
  <2>1. ASSUME NEW q \in Producer, pc'[q] \in {"lockProducer", "link"}, q # p
        PROVE  /\ newNode'[q] = newNode[q] /\ pc[q] \in {"lockProducer", "link"}
               /\ newNode[q] \in allocated \ Garbage /\ newNode[q] # a
               /\ next_'[newNode[q]] = NULL
    <3>1. newNode'[q] = newNode[q] /\ pc[q] \in {"lockProducer", "link"}
      BY <1>3, <1>4, <2>1
    <3>2. newNode[q] \in allocated \ Garbage /\ next_[newNode[q]] = NULL
      BY <3>1 DEF PrivateInv
    <3> QED BY <1>4, <3>1, <3>2 DEF TypeOK
  <2> QED BY <1>1, <1>4, <1>7, <2>1 DEF PrivateInv
<1>11. GarbageInv'
  BY <1>1, <1>2, <1>6 DEF GarbageInv
<1>12. ListInv'
  BY <1>2, <1>4, <1>8, <1>9 DEF ListInv
<1>13. TailInv'
  <2>1. \A q \in Producer : pc'[q] = "moveTail" <=> pc[q] = "moveTail"
    BY <1>2, <1>3
  <2>2. \A q \in Producer : pc[q] = "moveTail" => newNode'[q] = newNode[q]
    BY <1>2, <1>4
  <2> QED BY <1>2, <1>4, <1>8, <1>9, <2>1, <2>2 DEF TailInv
<1>14. AdvanceInv'
  BY <1>2, <1>4, <1>6, <1>9 DEF AdvanceInv, TypeOK
<1> QED BY <1>5, <1>8, <1>10, <1>11, <1>12, <1>13, <1>14 DEF Nodewise

\* The new node enters the list behind its last node.
LEMMA LinkStep ==
  ASSUME IInv, NEW p \in Producer, Link(p), Receive(p)
  PROVE  /\ Nodewise /\ Linked' = Linked \cup {newNode[p]}
         /\ newNode[p] \in Address \ Linked /\ next_[newNode[p]] = NULL
         /\ tail_ \in Linked /\ next_[tail_] = NULL
<1> USE AddressAssumption DEF IInv
<1> DEFINE n == newNode[p]
<1>1. /\ pc[p] = "link" /\ Goto(p, "moveTail")
      /\ next_' = [next_ EXCEPT ![tail_] = n]
      /\ UNCHANGED <<newNode, next, oldFirst, allocated, head_, tail_>>
  BY DEF Link, local
<1>2. pc'[p] = "moveTail" /\ \A q \in (Producer \cup Consumer) \ {p} : pc'[q] = pc[q]
  BY <1>1, Move
<1>3. tail_ \in Linked /\ next_[tail_] = NULL
  BY <1>1 DEF TailInv, LockInv, InProducerLock
<1>4. /\ n \in allocated /\ n \notin Garbage /\ next_[n] = NULL /\ n # NULL
      /\ n \in Private /\ n \notin Linked /\ n # tail_ /\ n # head_
  BY <1>1, <1>3, Belongs DEF PrivateInv, ListInv, TypeOK
<1>5. next_'[tail_] = n /\ \A b \in Address \ {tail_} : next_'[b] = next_[b]
  BY <1>1 DEF TypeOK
<1>6. TypeOK'
  BY <1>1, ControlOfProducer DEF TypeOK, Pointer
<1>7. \A c \in Consumer : pc'[c] = pc[c]
  BY <1>2, SidesDiffer
<1>8. Garbage' = Garbage /\ Private' = Private \ {n} /\ Linked' = Linked \cup {n}
  <2>1. Garbage' = Garbage
    BY <1>1 DEF Garbage
  <2>2. Private' = Private \ {n}
    BY <1>1, <1>2, Belongs, BelongsNext DEF PrivateInv
  <2> QED BY <1>1, <1>4, <2>1, <2>2 DEF Linked
<1>9. Linked \subseteq Address
  BY DEF Linked, TypeOK
<1>10. PrivateInv'
  <2>1. ASSUME NEW q \in Producer, pc'[q] \in {"lockProducer", "link"}
        PROVE  /\ pc[q] \in {"lockProducer", "link"} /\ newNode[q] # tail_
               /\ newNode[q] \in Address
    <3>1. pc[q] \in {"lockProducer", "link"}
      BY <1>2, <2>1
    <3>2. newNode[q] \in Private
      BY <3>1, Belongs
    <3> QED BY <1>3, <3>1, <3>2, Belongs DEF PrivateInv, TypeOK
  <2> QED BY <1>1, <1>5, <1>8, <2>1 DEF PrivateInv
<1>11. GarbageInv'
  BY <1>1, <1>7 DEF GarbageInv
<1>12. ListInv'
  <2>1. head_' \in Linked'
    BY <1>1, <1>8 DEF ListInv
  <2>2. ASSUME NEW a \in Linked', next_'[a] # NULL
        PROVE  /\ a \in Linked /\ next_'[a] \in Linked' \ {head_}
               /\ next_'[a] = n <=> a = tail_
               /\ a # tail_ => next_'[a] = next_[a]
    <3>1. a \in Linked
      BY <1>4, <1>5, <1>8, <2>2 DEF TypeOK
    <3>2. CASE a = tail_
      BY <1>4, <1>5, <1>8, <3>1, <3>2
    <3>3. CASE a # tail_
      <4>1. next_'[a] = next_[a]
        BY <1>5, <1>9, <3>1, <3>3
      <4>2. next_[a] \in Linked \ {head_}
        BY <2>2, <3>1, <4>1 DEF ListInv
      <4> QED BY <1>4, <1>8, <3>1, <3>3, <4>1, <4>2
    <3> QED BY <3>2, <3>3
  <2>3. ASSUME NEW a \in Linked', next_'[a] # NULL,
               NEW b \in Linked', next_'[b] = next_'[a]
        PROVE  b = a
    BY <2>2, <2>3 DEF ListInv
  <2> QED BY <1>1, <2>1, <2>2, <2>3 DEF ListInv
<1>13. TailInv'
  <2>1. \A q \in Producer : pc'[q] = "moveTail" => q = p
    BY <1>1, <1>2 DEF LockInv, InProducerLock
  <2>2. next_'[n] = NULL
    BY <1>4, <1>5 DEF TypeOK
  <2> QED BY <1>1, <1>2, <1>8, <2>1, <2>2 DEF TailInv
<1>14. AdvanceInv'
  BY <1>1, <1>3, <1>5, <1>7 DEF AdvanceInv, TypeOK
<1>15. n \in Address
  BY <1>4 DEF TypeOK
<1> QED BY <1>3, <1>4, <1>6, <1>8, <1>10, <1>11, <1>12, <1>13, <1>14, <1>15 DEF Nodewise

LEMMA OtherReceiveSteps ==
  ASSUME IInv, NEW p \in Producer, Receive(p),
         \/ LockProducer(p) \/ MoveTail(p) \/ Count(p) \/ RecordMax(p)
         \/ UnlockProducer(p)
  PROVE  Nodewise /\ Linked' = Linked
<1> USE AddressAssumption DEF IInv
<1>1. /\ UNCHANGED <<allocated, next_, oldFirst, head_, next>>
      /\ tail_' = IF pc[p] = "moveTail" THEN newNode[p] ELSE tail_
      /\ \A q \in Producer \ {p} : newNode'[q] = newNode[q]
      /\ newNode' \in [Producer -> Pointer]
      /\ pc[p] # "unlockProducer" => newNode' = newNode
  BY DEF LockProducer, MoveTail, Count, RecordMax, UnlockProducer, TypeOK, Pointer,
    local, heap
<1>2. PICK l : /\ Goto(p, l)
               /\ l # "moveTail" /\ pc[p] # "idle"
               /\ l \in {"lockProducer", "link"} <=> pc[p] \in {"lockProducer", "link"}
  BY DEF LockProducer, MoveTail, Count, RecordMax, UnlockProducer
<1>3. pc'[p] = l /\ \A q \in (Producer \cup Consumer) \ {p} : pc'[q] = pc[q]
  BY <1>2, Move
<1>4. \A q \in Producer :
        /\ pc'[q] \in {"lockProducer", "link"} <=> pc[q] \in {"lockProducer", "link"}
        /\ pc[q] \in {"lockProducer", "link"} => newNode'[q] = newNode[q]
  BY <1>1, <1>2, <1>3
<1>5. PrivateInv' /\ ListInv' /\ Linked' = Linked
  BY <1>1, <1>4, QuietStep
<1>6. \A c \in Consumer : pc'[c] = pc[c]
  BY <1>3, SidesDiffer
<1>7. GarbageInv' /\ AdvanceInv'
  BY <1>1, <1>6 DEF GarbageInv, AdvanceInv
<1>8. TypeOK'
  <2>1. pc[p] = "moveTail" => newNode[p] \in Address
    BY DEF TailInv, Linked, TypeOK
  <2> QED BY <1>1, <2>1, ControlOfProducer DEF TypeOK
<1>9. TailInv'
  <2>1. CASE pc[p] = "moveTail"
    <3>1. \A q \in Producer : pc'[q] # "moveTail"
      BY <1>2, <1>3, <2>1 DEF LockInv, InProducerLock
    <3> QED BY <1>1, <1>5, <2>1, <3>1 DEF TailInv
  <2>2. CASE pc[p] # "moveTail"
    <3>1. \A q \in Producer : pc'[q] = "moveTail" <=> pc[q] = "moveTail"
      BY <1>2, <1>3, <2>2
    <3>2. \A q \in Producer : pc[q] = "moveTail" => newNode'[q] = newNode[q]
      BY <1>1, <2>2
    <3> QED BY <1>1, <1>5, <2>2, <3>1, <3>2 DEF TailInv
  <2> QED BY <2>1, <2>2
<1> QED BY <1>5, <1>7, <1>8, <1>9 DEF Nodewise

(***************************************************************************)
(* getInputData.                                                            *)
(***************************************************************************)

\* The steps of a consumer that change no node.
LEMMA OtherGetSteps ==
  ASSUME IInv, NEW c \in Consumer, GetInputData(c),
         LockConsumer(c) \/ ReadNext(c) \/ CountDown(c) \/ UnlockConsumer(c)
  PROVE  Nodewise /\ Linked' = Linked
<1> USE AddressAssumption DEF IInv
<1>1. /\ UNCHANGED <<newNode, oldFirst, allocated, next_, head_, tail_>>
      /\ next' = [next EXCEPT ![c] = next'[c]]
      /\ next'[c] = CASE pc[c] = "readNext" -> next_[head_]
                      [] pc[c] = "unlockConsumer" -> NULL
                      [] pc[c] \in {"idle", "countDown"} -> next[c]
  <2>1. CASE LockConsumer(c) \/ CountDown(c)
    BY <2>1 DEF LockConsumer, CountDown, local, heap, TypeOK
  <2>2. CASE ReadNext(c)
    BY <2>2 DEF ReadNext, heap, TypeOK
  <2>3. CASE UnlockConsumer(c)
    BY <2>3 DEF UnlockConsumer, heap, TypeOK
  <2> QED BY <2>1, <2>2, <2>3
<1>2. PICK l : /\ Goto(c, l)
               /\ pc[c] = "idle" => l = "readNext"
               /\ pc[c] = "readNext" => l = IF next_[head_] = NULL
                                            THEN "unlockConsumer" ELSE "advance"
               /\ pc[c] = "countDown" => l = "unlockConsumer"
               /\ pc[c] = "unlockConsumer" => l = IF next[c] = NULL
                                                  THEN "idle" ELSE "delete"
               /\ pc[c] \in {"idle", "readNext", "countDown", "unlockConsumer"}
  BY DEF LockConsumer, ReadNext, CountDown, UnlockConsumer
<1>3. pc'[c] = l /\ \A q \in (Producer \cup Consumer) \ {c} : pc'[q] = pc[q]
  BY <1>2, Move
<1>4. \A p \in Producer : pc'[p] = pc[p]
  BY <1>3, SidesDiffer
<1>5. \A d \in Consumer \ {c} : pc'[d] = pc[d] /\ next'[d] = next[d]
  BY <1>1, <1>3 DEF TypeOK
<1>6. PrivateInv' /\ ListInv' /\ Linked' = Linked
  BY <1>1, <1>4, QuietStep
<1>7. GarbageInv'
  BY <1>1, <1>2, <1>3, <1>5, GarbageOfOthers DEF GarbageInv
<1>8. AdvanceInv'
  BY <1>1, <1>2, <1>3, <1>5 DEF AdvanceInv
<1>9. TailInv'
  BY <1>1, <1>4, <1>6 DEF TailInv
<1>10. TypeOK'
  <2>1. next'[c] \in Pointer
    BY <1>1, <1>2 DEF TypeOK, Pointer
  <2> QED BY <1>1, <2>1, ControlOfConsumer DEF TypeOK
<1> QED BY <1>6, <1>7, <1>8, <1>9, <1>10 DEF Nodewise

\* The old dummy leaves the list: nothing in the list leads to it.
LEMMA AdvanceStep ==
  ASSUME IInv, NEW c \in Consumer, Advance(c), GetInputData(c)
  PROVE  Nodewise /\ Linked' = Linked \ {head_}
<1> USE AddressAssumption DEF IInv
<1>1. /\ pc[c] = "advance" /\ Goto(c, "countDown")
      /\ oldFirst' = [oldFirst EXCEPT ![c] = head_]
      /\ head_' = next[c]
      /\ UNCHANGED <<newNode, next, allocated, next_, tail_>>
  BY DEF Advance
<1>2. pc'[c] = "countDown" /\ \A q \in (Producer \cup Consumer) \ {c} : pc'[q] = pc[q]
  BY <1>1, Move
<1>3. next[c] = next_[head_] /\ next[c] # NULL /\ oldFirst[c] = NULL
  BY <1>1 DEF AdvanceInv, GarbageInv
<1>4. /\ head_ \in Linked /\ head_ # NULL /\ head_ \in allocated
      /\ head_ \notin Private /\ head_ \notin Garbage
      /\ next[c] \in Linked \ {head_}
  BY <1>3, Belongs DEF ListInv, TypeOK
<1>5. /\ oldFirst'[c] = head_
      /\ \A d \in Consumer \ {c} : oldFirst'[d] = oldFirst[d] /\ pc'[d] = pc[d]
  BY <1>1, <1>2 DEF TypeOK
<1>6. \A p \in Producer : pc'[p] = pc[p]
  BY <1>2, SidesDiffer
<1>7. Private' = Private
  BY <1>1, <1>6 DEF Private
<1>8. Garbage' = Garbage \cup {head_}
  BY <1>3, <1>4, <1>5, Belongs, BelongsNext
<1>9. Linked' = Linked \ {head_}
  BY <1>1, <1>7, <1>8 DEF Linked
<1>10. TypeOK'
  <2>1. next[c] \in Address
    BY <1>3 DEF TypeOK, Pointer
  <2> QED BY <1>1, <2>1, ControlOfConsumer DEF TypeOK, Pointer
<1>11. PrivateInv'
  <2>1. ASSUME NEW p \in Producer, pc[p] \in {"lockProducer", "link"}
        PROVE  newNode[p] # head_
    BY <1>4, <2>1, Belongs
  <2> QED BY <1>1, <1>6, <1>8, <2>1 DEF PrivateInv
<1>12. GarbageInv'
  <2>1. \A d \in Consumer \ {c} : oldFirst'[d] # head_
    BY <1>4, <1>5, Belongs
  <2>2. \A d \in Consumer \ {c} : pc'[d] = pc[d] /\ oldFirst'[d] = oldFirst[d]
    BY <1>5
  <2> QED BY <1>1, <1>2, <1>3, <1>4, <1>5, <2>1, <2>2 DEF GarbageInv
<1>13. ListInv'
  <2>1. head_' \in Linked'
    BY <1>1, <1>4, <1>9
  <2>2. ASSUME NEW a \in Linked', next_[a] # NULL
        PROVE  /\ next_[a] \in Linked' \ {head_'}
               /\ \A b \in Linked' : next_[b] = next_[a] => b = a
    <3>1. a \in Linked /\ a # head_
      BY <1>9
    <3>2. next_[a] \in Linked \ {head_}
      BY <2>2, <3>1 DEF ListInv
    <3>3. \A b \in Linked : next_[b] = next_[a] => b = a
      BY <2>2, <3>1 DEF ListInv
    <3>4. next_[a] # head_'
      BY <1>1, <1>3, <1>4, <3>1, <3>3
    <3> QED BY <1>9, <3>2, <3>3, <3>4
  <2> QED BY <1>1, <2>1, <2>2 DEF ListInv
<1>14. TailInv'
  <2>1. ASSUME NEW a, next_[a] = NULL, a \in Linked PROVE a \in Linked'
    BY <1>3, <1>9, <2>1
  <2> QED BY <1>1, <1>6, <2>1 DEF TailInv
<1>15. AdvanceInv'
  <2>1. \A d \in Consumer : pc'[d] # "advance"
    BY <1>1, <1>2 DEF LockInv, InConsumerLock
  <2> QED BY <2>1 DEF AdvanceInv
<1> QED BY <1>9, <1>10, <1>11, <1>12, <1>13, <1>14, <1>15 DEF Nodewise

\* A deleted node was nobody else's, so that its address can be used again.
LEMMA DeleteStep ==
  ASSUME IInv, NEW c \in Consumer, Delete(c), GetInputData(c)
  PROVE  Nodewise /\ Linked' = Linked
<1> USE AddressAssumption DEF IInv
<1> DEFINE n == oldFirst[c]
<1>1. /\ pc[c] = "delete" /\ Goto(c, "idle")
      /\ allocated' = allocated \ {n}
      /\ next_' = [next_ EXCEPT ![n] = NULL]
      /\ oldFirst' = [oldFirst EXCEPT ![c] = NULL]
      /\ UNCHANGED <<newNode, next, head_, tail_>>
  BY DEF Delete
<1>2. pc'[c] = "idle" /\ \A q \in (Producer \cup Consumer) \ {c} : pc'[q] = pc[q]
  BY <1>1, Move
<1>3. /\ n # NULL /\ n \in allocated /\ n \in Address
      /\ n \in Garbage /\ n \notin Linked
      /\ \A d \in Consumer : oldFirst[d] = n => d = c
  BY <1>1, Belongs DEF GarbageInv, TypeOK
<1>4. /\ oldFirst'[c] = NULL
      /\ \A d \in Consumer \ {c} : oldFirst'[d] = oldFirst[d] /\ pc'[d] = pc[d]
      /\ next_'[n] = NULL /\ \A b \in Address \ {n} : next_'[b] = next_[b]
  BY <1>1, <1>2, <1>3 DEF TypeOK
<1>5. \A p \in Producer : pc'[p] = pc[p]
  BY <1>2, SidesDiffer
<1>6. Private' = Private
  BY <1>1, <1>5 DEF Private
<1>7. Garbage' = Garbage \ {n}
  BY <1>3, <1>4, Belongs, BelongsNext
<1>8. Linked' = Linked
  BY <1>1, <1>3, <1>6, <1>7 DEF Linked
<1>9. Linked \subseteq Address \ {n} /\ head_ \in Linked
  BY <1>3 DEF Linked, TypeOK, ListInv
<1>10. TypeOK'
  BY <1>1, ControlOfConsumer DEF TypeOK, Pointer
<1>11. PrivateInv'
  <2>1. ASSUME NEW p \in Producer, pc[p] \in {"lockProducer", "link"}
        PROVE  newNode[p] # n /\ newNode[p] \in Address
    BY <1>3, <2>1 DEF PrivateInv, TypeOK
  <2> QED BY <1>1, <1>4, <1>5, <1>7, <2>1 DEF PrivateInv
<1>12. GarbageInv'
  <2>1. \A d \in Consumer \ {c} : oldFirst'[d] # n
    BY <1>3, <1>4
  <2> QED BY <1>1, <1>2, <1>4, <2>1 DEF GarbageInv
<1>13. ListInv'
  BY <1>1, <1>4, <1>8, <1>9 DEF ListInv
<1>14. TailInv'
  BY <1>1, <1>4, <1>5, <1>8, <1>9 DEF TailInv
<1>15. AdvanceInv'
  BY <1>1, <1>2, <1>4, <1>9 DEF AdvanceInv
<1> QED BY <1>8, <1>10, <1>11, <1>12, <1>13, <1>14, <1>15 DEF Nodewise

(***************************************************************************)
(* The theorems.                                                            *)
(***************************************************************************)
LEMMA InvariantStep == IInv /\ [Next]_vars => IInv'
<1> SUFFICES ASSUME IInv, [Next]_vars PROVE IInv'
  OBVIOUS
<1>1. ASSUME NEW p \in Producer, Receive(p) PROVE IInv'
  <2>1. Nodewise
    BY <1>1, AllocateStep, LinkStep, OtherReceiveSteps DEF Receive
  <2> QED BY <1>1, <2>1, ControlOfProducer DEF IInv, Nodewise
<1>2. ASSUME NEW c \in Consumer, GetInputData(c) PROVE IInv'
  <2>1. Nodewise
    BY <1>2, OtherGetSteps, AdvanceStep, DeleteStep DEF GetInputData
  <2> QED BY <1>2, <2>1, ControlOfConsumer DEF IInv, Nodewise
<1>3. CASE UNCHANGED vars
  <2>1. UNCHANGED <<pc, newNode, next, oldFirst, allocated, next_, head_, tail_,
                    producerLock_, consumerLock_>>
    BY <1>3 DEF vars, local, heap
  <2>2. PrivateInv' /\ ListInv' /\ Linked' = Linked
    BY <2>1, QuietStep
  <2> QED BY <2>1, <2>2
        DEF IInv, TypeOK, LockInv, GarbageInv, TailInv, AdvanceInv
<1> QED BY <1>1, <1>2, <1>3 DEF Next

THEOREM Invariance == Spec => []IInv
BY InitHolds, InvariantStep, PTL DEF Spec

\* AtomicQueueReceiver::receive and getInputData: although a node is deleted
\* after the consumers' lock is released, while tail_ may still lead to it, no
\* thread uses a node that was deleted, and none is deleted twice.
THEOREM NoNodeIsUsedAfterDelete == Spec => []NoDanglingAccess
<1>1. IInv => NoDanglingAccess
  <2> SUFFICES ASSUME IInv PROVE NoDanglingAccess
    OBVIOUS
  <2> USE DEF IInv
  <2>1. \A p \in Producer : pc[p] = "link" => tail_ \in allocated
    BY DEF TailInv, LockInv, InProducerLock, Linked
  <2>2. head_ \in allocated /\ head_ \notin Garbage
    BY Belongs DEF ListInv
  <2>3. \A c \in Consumer : pc[c] = "advance" => next[c] \in allocated
    BY Belongs DEF AdvanceInv, ListInv
  <2>4. ASSUME NEW c \in Consumer, pc[c] = "delete"
        PROVE  /\ oldFirst[c] \in allocated \ {head_}
               /\ \A d \in Consumer \ {c} : oldFirst[d] # oldFirst[c]
    BY <2>2, <2>4, Belongs DEF GarbageInv
  <2> QED BY <2>1, <2>2, <2>3, <2>4 DEF NoDanglingAccess
<1> QED BY <1>1, Invariance, PTL

(***************************************************************************)
(* What the list contains.                                                  *)
(***************************************************************************)

\* The nodes of the list in their order; the first one is the dummy.
Node(i) == IF i = 0 THEN head_ ELSE list[i]

\* Following the pointers from the head one passes the linked nodes in the order
\* in which they were linked, each of them once, and no others.
ChainInv ==
  /\ list \in Seq(Address)
  /\ \A i, j \in 0..Len(list) : Node(i) = Node(j) => i = j
  /\ Linked = {Node(i) : i \in 0..Len(list)}
  /\ \A i \in 0..(Len(list) - 1) : next_[Node(i)] = Node(i + 1)
  /\ next_[Node(Len(list))] = NULL

\* A new node holds the value its producer has to add.
ValueInv ==
  /\ offered \in [Producer -> Seq(Data)]
  /\ data_ \in [Address -> Data \cup {NULL}]
  /\ \A p \in Producer : pc[p] \in {"lockProducer", "link"} =>
       offered[p] # <<>> /\ data_[newNode[p]] = Head(offered[p])

Adding == \E p \in Producer : pc[p] \in {"moveTail", "count"}
Taking == \E c \in Consumer : pc[c] = "countDown"

\* The counter misses the node that a producer has linked and not counted, which
\* is the last one, and still has the one that a consumer has taken.
CountInv ==
  /\ \A p \in Producer :
       pc[p] \in {"moveTail", "count"} => newNode[p] = Node(Len(list))
  /\ queueSize_ =
       (Len(list) - (IF Adding THEN 1 ELSE 0)) + (IF Taking THEN 1 ELSE 0)

ContentInv == ChainInv /\ ValueInv /\ CountInv

LEMMA ContentInit == Init => ContentInv
<1> SUFFICES ASSUME Init PROVE ContentInv
  OBVIOUS
<1>1. list = <<>> /\ Len(list) = 0 /\ 0..Len(list) = {0}
  BY DEF Init
<1>2. Linked = {head_}
  BY DEF Init, Linked, Private, Garbage
<1>3. ChainInv
  BY <1>1, <1>2 DEF Init, ChainInv, Node
<1>4. ValueInv
  BY OfferAssumption DEF Init, ValueInv
<1>5. CountInv
  BY <1>1, SidesDiffer DEF Init, CountInv, Adding, Taking
<1> QED BY <1>3, <1>4, <1>5 DEF ContentInv

LEMMA ChainIs ==
  ASSUME TypeOK, ChainInv
  PROVE  /\ Len(list) \in Nat /\ DOMAIN list = 1..Len(list)
         /\ \A i \in 0..Len(list) : Node(i) \in Linked /\ Node(i) \in Address
         /\ \A i \in 1..Len(list) : Node(i) = list[i]
         /\ Node(0) = head_ /\ Linked \subseteq Address
<1>1. Len(list) \in Nat /\ DOMAIN list = 1..Len(list)
  BY LenProperties DEF ChainInv
<1>2. Linked \subseteq Address
  BY DEF TypeOK, Linked
<1>3. \A i \in 0..Len(list) : Node(i) \in Linked
  BY DEF ChainInv
<1> QED BY <1>1, <1>2, <1>3 DEF Node

\* A step that leaves the linked nodes alone.
LEMMA ChainKept ==
  ASSUME TypeOK, ChainInv, UNCHANGED <<list, head_>>, Linked' = Linked,
         \A a \in Linked : next_'[a] = next_[a]
  PROVE  ChainInv' /\ \A i : Node(i)' = Node(i)
<1>1. \A i : Node(i)' = Node(i)
  BY DEF Node
<1>2. Linked' = {Node(i)' : i \in 0..Len(list')}
  BY <1>1 DEF ChainInv
<1>3. /\ \A i \in 0..Len(list) : Node(i) \in Linked
      /\ Len(list) \in Nat
  BY ChainIs
<1>4. \A i \in 0..(Len(list) - 1) : next_'[Node(i)] = Node(i + 1)
  BY <1>3 DEF ChainInv
<1>5. next_'[Node(Len(list))] = NULL
  BY <1>3 DEF ChainInv
<1>6. \A i, j \in 0..Len(list') : Node(i)' = Node(j)' => i = j
  BY <1>1 DEF ChainInv
<1> QED BY <1>1, <1>2, <1>4, <1>5, <1>6 DEF ChainInv

ContentsOf(d, l) == [i \in DOMAIN l |-> d[l[i]]]

LEMMA ContentsAre ==
  ASSUME NEW d \in [Address -> Data \cup {NULL}], NEW l \in Seq(Address)
  PROVE  /\ ContentsOf(d, l) \in Seq(Data \cup {NULL})
         /\ Len(ContentsOf(d, l)) = Len(l)
         /\ \A i \in 1..Len(l) : ContentsOf(d, l)[i] = d[l[i]]
<1>1. /\ DOMAIN l = 1..Len(l) /\ Len(l) \in Nat
      /\ \A i \in 1..Len(l) : l[i] \in Address
  BY LenProperties
<1>2. ContentsOf(d, l) \in [1..Len(l) -> Data \cup {NULL}]
  BY <1>1 DEF ContentsOf
<1>3. ContentsOf(d, l) \in Seq(Data \cup {NULL})
  BY <1>1, <1>2
<1>4. Len(ContentsOf(d, l)) = Len(l)
  BY <1>1, <1>2, <1>3
<1> QED BY <1>1, <1>3, <1>4 DEF ContentsOf

LEMMA ContentsIs == Contents = ContentsOf(data_, list)
BY DEF Contents, ContentsOf

\* Neither the nodes of the list nor what is in them changes.
LEMMA ContentsKept ==
  ASSUME TypeOK, ChainInv, list' = list, \A a \in Linked : data_'[a] = data_[a]
  PROVE  Contents' = Contents
<1>1. \A i \in DOMAIN list : list[i] \in Linked
  BY ChainIs
<1> QED BY <1>1 DEF Contents

\* One thread at a time is between the link and the count, or between the head and
\* the count.
LEMMA AddingIs ==
  ASSUME IInv, NEW p \in Producer, pc[p] \in InProducerLock
  PROVE  Adding <=> pc[p] \in {"moveTail", "count"}
BY DEF IInv, LockInv, Adding, InProducerLock

LEMMA TakingIs ==
  ASSUME IInv, NEW c \in Consumer, pc[c] \in InConsumerLock
  PROVE  Taking <=> pc[c] = "countDown"
BY DEF IInv, LockInv, Taking, InConsumerLock

LEMMA AddingNext ==
  ASSUME IInv, NEW p \in Producer, pc[p] \in InProducerLock,
         \A q \in Producer \ {p} : pc'[q] = pc[q]
  PROVE  /\ Adding' <=> pc'[p] \in {"moveTail", "count"}
         /\ \A q \in Producer : pc'[q] \in {"moveTail", "count"} => q = p
BY DEF IInv, LockInv, Adding, InProducerLock

LEMMA TakingNext ==
  ASSUME IInv, NEW c \in Consumer, pc[c] \in InConsumerLock,
         \A d \in Consumer \ {c} : pc'[d] = pc[d]
  PROVE  Taking' <=> pc'[c] = "countDown"
BY DEF IInv, LockInv, Taking, InConsumerLock

LEMMA AllocateContent ==
  ASSUME IInv, ContentInv, NEW p \in Producer, Allocate(p), Receive(p)
  PROVE  ContentInv' /\ Contents' = Contents
<1>1. PICK a \in Address \ allocated :
        /\ next_' = [next_ EXCEPT ![a] = NULL]
        /\ data_' = [data_ EXCEPT ![a] = Head(offered[p])]
        /\ newNode' = [newNode EXCEPT ![p] = a]
  BY DEF Allocate
<1>2. /\ pc[p] = "idle" /\ Goto(p, "lockProducer") /\ offered[p] # <<>>
      /\ UNCHANGED <<offered, list, head_, queueSize_>>
  BY DEF Allocate, client
<1>3. /\ TypeOK /\ ChainInv /\ ValueInv /\ CountInv /\ Linked' = Linked /\ PrivateInv
  BY AllocateStep DEF IInv, ContentInv
<1>4. /\ pc'[p] = "lockProducer"
      /\ \A q \in Producer \ {p} : pc'[q] = pc[q] /\ newNode'[q] = newNode[q]
      /\ \A c \in Consumer : pc'[c] = pc[c]
      /\ newNode'[p] = a
  BY <1>1, <1>2, <1>3, Move, SidesDiffer DEF TypeOK
<1>5. /\ \A b \in allocated : next_'[b] = next_[b] /\ data_'[b] = data_[b]
      /\ data_'[a] = Head(offered[p])
      /\ data_' \in [Address -> Data \cup {NULL}]
  <2>1. Head(offered[p]) \in Data
    BY <1>2, <1>3 DEF ValueInv
  <2> QED BY <1>1, <1>3, <2>1 DEF TypeOK, ValueInv
<1>6. Linked \subseteq allocated
  BY DEF Linked
<1>7. ChainInv' /\ \A i : Node(i)' = Node(i)
  BY <1>2, <1>3, <1>5, <1>6, ChainKept
<1>8. Contents' = Contents
  BY <1>2, <1>3, <1>5, <1>6, ContentsKept
<1>9. ValueInv'
  <2>1. ASSUME NEW q \in Producer, q # p, pc[q] \in {"lockProducer", "link"}
        PROVE  offered[q] # <<>> /\ data_'[newNode[q]] = Head(offered[q])
    <3>1. newNode[q] \in allocated
      BY <1>3, <2>1 DEF PrivateInv
    <3> QED BY <1>3, <1>5, <2>1, <3>1 DEF ValueInv
  <2> QED BY <1>2, <1>3, <1>4, <1>5, <2>1 DEF ValueInv
<1>10. CountInv'
  <2>1. (Adding' <=> Adding) /\ (Taking' <=> Taking)
    BY <1>2, <1>4 DEF Adding, Taking
  <2>2. \A q \in Producer : pc'[q] \in {"moveTail", "count"} =>
                              newNode'[q] = Node(Len(list))'
    BY <1>2, <1>3, <1>4, <1>7 DEF CountInv
  <2> QED BY <1>2, <1>3, <2>1, <2>2 DEF CountInv
<1> QED BY <1>7, <1>8, <1>9, <1>10 DEF ContentInv

\* The new node becomes the last one.
LEMMA LinkContent ==
  ASSUME IInv, ContentInv, NEW p \in Producer, Link(p), Receive(p)
  PROVE  /\ ContentInv' /\ Contents' = Append(Contents, Head(offered[p]))
         /\ offered[p] # <<>> /\ Len(list) < Cardinality(Address)
<1>new. PICK n : n = newNode[p]
  OBVIOUS
<1>len. PICK m : m = Len(list)
  OBVIOUS
<1>1. /\ pc[p] = "link" /\ Goto(p, "moveTail")
      /\ next_' = [next_ EXCEPT ![tail_] = n]
      /\ offered' = [offered EXCEPT ![p] = Tail(@)]
      /\ list' = Append(list, n)
      /\ UNCHANGED <<newNode, data_, head_, queueSize_>>
  BY <1>new DEF Link, local
<1>2. /\ TypeOK /\ ChainInv /\ ValueInv /\ CountInv /\ LockInv
      /\ Linked' = Linked \cup {n} /\ n \in Address \ Linked /\ next_[n] = NULL
      /\ tail_ \in Linked /\ next_[tail_] = NULL
  BY <1>new, LinkStep DEF IInv, ContentInv
<1>3. /\ pc'[p] = "moveTail" /\ \A q \in Producer \ {p} : pc'[q] = pc[q]
      /\ \A c \in Consumer : pc'[c] = pc[c]
  BY <1>1, <1>2, Move, SidesDiffer
<1>4. /\ m \in Nat /\ \A i \in 0..m : Node(i) \in Linked /\ Node(i) \in Address
      /\ Linked \subseteq Address /\ list \in Seq(Address)
      /\ \A i \in 1..m : list[i] = Node(i)
  BY <1>2, <1>len, ChainIs DEF ChainInv
<1>5. /\ list' \in Seq(Address) /\ Len(list') = m + 1
      /\ \A i \in 1..m : list'[i] = list[i]
      /\ list'[m + 1] = n
  BY <1>1, <1>2, <1>4, <1>len, AppendProperties
<1>6. /\ \A i \in 0..m : Node(i)' = Node(i)
      /\ Node(m + 1)' = n /\ Node(Len(list))' = n
  BY <1>1, <1>4, <1>5 DEF Node
<1>7. tail_ = Node(m)
  <2>1. PICK i \in 0..m : tail_ = Node(i)
    BY <1>2, <1>len DEF ChainInv
  <2>2. CASE i < m
    <3>1. i \in 0..(m - 1) /\ i + 1 \in 0..m
      BY <1>4, <2>2
    <3>2. next_[Node(i)] = Node(i + 1) /\ Node(i + 1) # NULL
      BY <1>2, <1>4, <3>1, AddressAssumption, <1>len DEF ChainInv
    <3> QED BY <1>2, <2>1, <3>2
  <2> QED BY <1>4, <2>1, <2>2
<1>8. ChainInv'
  <2>1. \A i \in 0..(m + 1) : i \in 0..m \/ i = m + 1
    BY <1>4
  <2>2. ASSUME NEW i \in 0..Len(list'), NEW j \in 0..Len(list'), Node(i)' = Node(j)'
        PROVE  i = j
    <3>1. \A k, l \in 0..m : Node(k) = Node(l) => k = l
      BY <1>2, <1>len DEF ChainInv
    <3> QED BY <1>2, <1>4, <1>5, <1>6, <2>1, <2>2, <3>1
  <2>3. Linked' = {Node(i)' : i \in 0..Len(list')}
    <3>1. Linked = {Node(i) : i \in 0..m}
      BY <1>2, <1>len DEF ChainInv
    <3>2. {Node(i)' : i \in 0..(m + 1)} = {Node(i) : i \in 0..m} \cup {n}
      <4>1. m + 1 \in 0..(m + 1) /\ \A i \in 0..m : i \in 0..(m + 1)
        BY <1>4
      <4> QED BY <1>6, <2>1, <4>1
    <3> QED BY <1>2, <1>5, <3>1, <3>2
  <2>4. ASSUME NEW i \in 0..(Len(list') - 1) PROVE next_'[Node(i)'] = Node(i + 1)'
    <3>1. i \in 0..m
      BY <1>4, <1>5
    <3>2. CASE i = m
      BY <1>1, <1>2, <1>4, <1>6, <1>7, <3>2 DEF TypeOK
    <3>3. CASE i # m
      <4>1. i \in 0..(m - 1) /\ i + 1 \in 0..m /\ m \in 0..m
        BY <1>4, <3>1, <3>3
      <4>2. Node(i) # tail_ /\ next_[Node(i)] = Node(i + 1)
        BY <1>2, <1>7, <3>1, <3>3, <4>1, <1>len DEF ChainInv
      <4> QED BY <1>1, <1>2, <1>4, <1>6, <3>1, <4>1, <4>2 DEF TypeOK
    <3> QED BY <3>2, <3>3
  <2>5. next_'[Node(Len(list))'] = NULL
    <3>1. n # tail_
      BY <1>2
    <3> QED BY <1>1, <1>2, <1>5, <1>6, <3>1 DEF TypeOK
  <2> QED BY <1>5, <2>2, <2>3, <2>4, <2>5 DEF ChainInv
<1>9. ValueInv'
  <2>1. offered' \in [Producer -> Seq(Data)]
    <3>1. offered[p] \in Seq(Data) /\ offered[p] # <<>>
      BY <1>1, <1>2 DEF ValueInv
    <3>2. Tail(offered[p]) \in Seq(Data)
      BY <3>1
    <3> QED BY <1>1, <1>2, <3>2 DEF ValueInv
  <2>2. \A q \in Producer \ {p} : offered'[q] = offered[q]
    BY <1>1, <1>2 DEF ValueInv
  <2> QED BY <1>1, <1>2, <1>3, <2>1, <2>2 DEF ValueInv
<1>10. CountInv'
  <2>1. ~Adding /\ Adding' /\ \A q \in Producer : pc'[q] \in {"moveTail", "count"} => q = p
    BY <1>1, <1>3, AddingIs, AddingNext DEF InProducerLock
  <2>2. Taking' <=> Taking
    BY <1>3 DEF Taking
  <2>3. newNode'[p] = Node(Len(list))'
    BY <1>1, <1>5, <1>6, <1>new
  <2>4. queueSize_' = (Len(list') - 1) + (IF Taking THEN 1 ELSE 0)
    BY <1>1, <1>2, <1>4, <1>5, <2>1, <1>len DEF CountInv
  <2> QED BY <2>1, <2>2, <2>3, <2>4 DEF CountInv
<1>11. offered[p] # <<>> /\ data_[n] = Head(offered[p])
  BY <1>1, <1>2, <1>new DEF ValueInv
<1>12. Contents' = Append(Contents, Head(offered[p]))
  <2>1. data_ \in [Address -> Data \cup {NULL}] /\ Head(offered[p]) \in Data
    BY <1>2, <1>11 DEF ValueInv
  <2>2. /\ ContentsOf(data_, list) \in Seq(Data \cup {NULL})
        /\ Len(ContentsOf(data_, list)) = m
        /\ \A i \in 1..m : ContentsOf(data_, list)[i] = data_[list[i]]
    BY <1>4, <2>1, ContentsAre, <1>len
  <2>3. /\ ContentsOf(data_, list') \in Seq(Data \cup {NULL})
        /\ Len(ContentsOf(data_, list')) = m + 1
        /\ \A i \in 1..(m + 1) : ContentsOf(data_, list')[i] = data_[list'[i]]
    BY <1>5, <2>1, ContentsAre
  <2>4. /\ Append(ContentsOf(data_, list), Head(offered[p])) \in Seq(Data \cup {NULL})
        /\ Len(Append(ContentsOf(data_, list), Head(offered[p]))) = m + 1
        /\ \A i \in 1..m : Append(ContentsOf(data_, list), Head(offered[p]))[i]
                             = ContentsOf(data_, list)[i]
        /\ Append(ContentsOf(data_, list), Head(offered[p]))[m + 1] = Head(offered[p])
    BY <2>1, <2>2, AppendProperties
  <2>5. ASSUME NEW i \in 1..(m + 1)
        PROVE  ContentsOf(data_, list')[i]
                 = Append(ContentsOf(data_, list), Head(offered[p]))[i]
    <3>1. i \in 1..m \/ i = m + 1
      BY <1>4
    <3> QED BY <1>5, <1>11, <2>2, <2>3, <2>4, <3>1
  <2>6. ContentsOf(data_, list') = Append(ContentsOf(data_, list), Head(offered[p]))
    BY <2>3, <2>4, <2>5, SeqEqual
  <2>7. Contents' = ContentsOf(data_, list')
    BY <1>1 DEF Contents, ContentsOf
  <2> QED BY <2>6, <2>7, ContentsIs
<1>13. m < Cardinality(Address)
  <2>1. /\ list' \in [1..(m + 1) -> Address] /\ m + 1 \in Nat
        /\ \A i \in 1..(m + 1) : list'[i] = Node(i)' /\ i \in 0..Len(list')
    BY <1>4, <1>5, LenProperties DEF Node
  <2>2. \A i, j \in 1..(m + 1) : list'[i] = list'[j] => i = j
    BY <1>8, <2>1 DEF ChainInv
  <2>3. IsFiniteSet(1..(m + 1)) /\ Cardinality(1..(m + 1)) = m + 1
    BY <2>1, FS_Interval
  <2>4. Cardinality(Address) \in Nat
    BY AddressAssumption, FS_CardinalityType
  <2> QED BY <1>4, <2>1, <2>2, <2>3, <2>4, AddressAssumption, FS_PigeonHole
<1> QED BY <1>8, <1>9, <1>10, <1>11, <1>12, <1>13, <1>len DEF ContentInv

LEMMA OtherReceiveContent ==
  ASSUME IInv, ContentInv, NEW p \in Producer, Receive(p),
         \/ LockProducer(p) \/ MoveTail(p) \/ Count(p) \/ RecordMax(p)
         \/ UnlockProducer(p)
  PROVE  ContentInv' /\ Contents' = Contents
<1>1. /\ TypeOK /\ ChainInv /\ ValueInv /\ CountInv /\ Linked' = Linked
  BY OtherReceiveSteps DEF IInv, ContentInv
<1>2. /\ UNCHANGED <<offered, got, list, data_, next_, head_>>
      /\ \A q \in Producer \ {p} : newNode'[q] = newNode[q]
      /\ pc[p] # "unlockProducer" => newNode' = newNode
  BY <1>1 DEF LockProducer, MoveTail, Count, RecordMax, UnlockProducer, client, local,
     heap, TypeOK
<1>3. PICK l : /\ Goto(p, l)
               /\ l \in {"lockProducer", "link"} => pc[p] \in {"lockProducer", "link"}
               /\ pc[p] = "lockProducer" => l = "link"
               /\ pc[p] = "moveTail" => l = "count"
               /\ pc[p] \in {"count", "recordMax", "unlockProducer"} =>
                    l \in {"idle", "recordMax", "unlockProducer"}
               /\ pc[p] \in {"lockProducer", "moveTail", "count", "recordMax",
                             "unlockProducer"}
               /\ queueSize_' = IF pc[p] = "count" THEN queueSize_ + 1 ELSE queueSize_
  BY DEF LockProducer, MoveTail, Count, RecordMax, UnlockProducer
<1>4. /\ pc'[p] = l /\ \A q \in Producer \ {p} : pc'[q] = pc[q]
      /\ \A c \in Consumer : pc'[c] = pc[c]
  BY <1>1, <1>3, Move, SidesDiffer
<1>5. ChainInv' /\ Node(Len(list))' = Node(Len(list))
  <2>1. ChainInv'
    BY <1>1, <1>2, ChainKept
  <2> QED BY <1>2, <2>1 DEF Node
<1>6. Contents' = Contents
  BY <1>2 DEF Contents
<1>7. ValueInv'
  <2>1. ASSUME NEW q \in Producer, pc'[q] \in {"lockProducer", "link"}
        PROVE  pc[q] \in {"lockProducer", "link"} /\ newNode'[q] = newNode[q]
    BY <1>2, <1>3, <1>4, <2>1
  <2> QED BY <1>1, <1>2, <2>1 DEF ValueInv
<1>8. CountInv'
  <2>1. Taking' <=> Taking
    BY <1>4 DEF Taking
  <2>2. Len(list) \in Nat /\ Len(list') = Len(list)
    BY <1>1, <1>2, ChainIs
  <2>3. CASE pc[p] = "lockProducer"
    <3>1. Adding' <=> Adding
      BY <1>3, <1>4, <2>3 DEF Adding
    <3>2. ASSUME NEW q \in Producer, pc'[q] \in {"moveTail", "count"}
          PROVE  newNode'[q] = Node(Len(list))'
      BY <1>1, <1>2, <1>3, <1>4, <1>5, <2>3, <3>2 DEF CountInv
    <3> QED BY <1>1, <1>2, <1>3, <2>1, <2>3, <3>1, <3>2 DEF CountInv
  <2>4. CASE pc[p] # "lockProducer"
    <3>1. /\ Adding <=> pc[p] \in {"moveTail", "count"}
          /\ Adding' <=> l = "count"
          /\ \A q \in Producer : pc'[q] \in {"moveTail", "count"} => q = p
      BY <1>3, <1>4, <2>4, AddingIs, AddingNext DEF InProducerLock
    <3>2. pc[p] = "moveTail" <=> l = "count"
      BY <1>3, <2>4
    <3>3. ASSUME NEW q \in Producer, pc'[q] \in {"moveTail", "count"}
          PROVE  newNode'[q] = Node(Len(list))'
      BY <1>1, <1>2, <1>3, <1>4, <1>5, <3>1, <3>2, <3>3 DEF CountInv
    <3>4. queueSize_' = (Len(list) - (IF l = "count" THEN 1 ELSE 0))
                          + (IF Taking THEN 1 ELSE 0)
      <4>1. queueSize_ = (Len(list) - (IF Adding THEN 1 ELSE 0))
                           + (IF Taking THEN 1 ELSE 0)
        BY <1>1 DEF CountInv
      <4>2. CASE pc[p] = "moveTail"
        BY <1>3, <3>1, <3>2, <4>1, <4>2
      <4>3. CASE pc[p] = "count"
        BY <1>3, <2>2, <3>1, <3>2, <4>1, <4>3
      <4>4. CASE pc[p] \in {"recordMax", "unlockProducer"}
        BY <1>3, <3>1, <3>2, <4>1, <4>4
      <4> QED BY <1>3, <2>4, <4>2, <4>3, <4>4
    <3> QED BY <2>1, <2>2, <3>1, <3>3, <3>4 DEF CountInv
  <2> QED BY <2>3, <2>4
<1> QED BY <1>5, <1>6, <1>7, <1>8 DEF ContentInv

\* A consumer that leaves the nodes of the list alone.
LEMMA OtherGetContent ==
  ASSUME IInv, ContentInv, NEW c \in Consumer, GetInputData(c),
         \/ LockConsumer(c) \/ ReadNext(c) \/ CountDown(c) \/ UnlockConsumer(c)
         \/ Delete(c)
  PROVE  ContentInv' /\ Contents' = Contents
<1>1. /\ TypeOK /\ ChainInv /\ ValueInv /\ CountInv /\ GarbageInv /\ Linked' = Linked
  BY OtherGetSteps, DeleteStep DEF IInv, ContentInv
<1>2. UNCHANGED <<offered, got, list, data_, newNode, head_>>
  BY DEF LockConsumer, ReadNext, CountDown, UnlockConsumer, Delete, client, local, heap
<1>3. \A a \in Linked : next_'[a] = next_[a]
  <2>1. CASE Delete(c)
    <3>1. /\ next_' = [next_ EXCEPT ![oldFirst[c]] = NULL]
          /\ oldFirst[c] \in Garbage
      BY <1>1, <2>1, Belongs DEF Delete, GarbageInv
    <3> QED BY <1>1, <3>1 DEF TypeOK, Linked
  <2>2. CASE ~Delete(c)
    BY <2>2 DEF LockConsumer, ReadNext, CountDown, UnlockConsumer, heap
  <2> QED BY <2>1, <2>2
<1>4. PICK l : /\ Goto(c, l) /\ l # "countDown"
               /\ pc[c] \in {"idle", "readNext", "countDown", "unlockConsumer", "delete"}
               /\ queueSize_' = IF pc[c] = "countDown" THEN queueSize_ - 1
                                ELSE queueSize_
  BY DEF LockConsumer, ReadNext, CountDown, UnlockConsumer, Delete
<1>5. /\ pc'[c] = l /\ \A d \in Consumer \ {c} : pc'[d] = pc[d]
      /\ \A p \in Producer : pc'[p] = pc[p]
  BY <1>1, <1>4, Move, SidesDiffer
<1>6. ChainInv' /\ Node(Len(list))' = Node(Len(list))
  <2>1. ChainInv'
    BY <1>1, <1>2, <1>3, ChainKept
  <2> QED BY <1>2, <2>1 DEF Node
<1>7. Contents' = Contents
  BY <1>2 DEF Contents
<1>8. ValueInv'
  BY <1>1, <1>2, <1>5 DEF ValueInv
<1>9. CountInv'
  <2>1. Adding' <=> Adding
    BY <1>5 DEF Adding
  <2>2. Len(list) \in Nat /\ Len(list') = Len(list)
    BY <1>1, <1>2, ChainIs
  <2>3. \A p \in Producer : pc'[p] \in {"moveTail", "count"} =>
                              newNode'[p] = Node(Len(list))'
    BY <1>1, <1>2, <1>5, <1>6 DEF CountInv
  <2>4. CASE pc[c] = "countDown"
    <3>1. Taking /\ ~Taking'
      BY <1>4, <1>5, <2>4, TakingIs, TakingNext DEF InConsumerLock
    <3> QED BY <1>1, <1>4, <2>1, <2>2, <2>3, <2>4, <3>1 DEF CountInv
  <2>5. CASE pc[c] # "countDown"
    <3>1. Taking' <=> Taking
      BY <1>4, <1>5, <2>5 DEF Taking
    <3> QED BY <1>1, <1>4, <2>1, <2>2, <2>3, <2>5, <3>1 DEF CountInv
  <2> QED BY <2>4, <2>5
<1> QED BY <1>6, <1>7, <1>8, <1>9 DEF ContentInv

\* Taking out the first element leaves what is behind it.
LEMMA RestIs ==
  ASSUME NEW S, NEW q \in Seq(S), q # <<>>
  PROVE  SubSeq(q, 2, Len(q)) = Tail(q)
<1>1. /\ Len(q) \in Nat \ {0} /\ Tail(q) \in Seq(S) /\ Len(Tail(q)) = Len(q) - 1
      /\ \A i \in 1..(Len(q) - 1) : Tail(q)[i] = q[i + 1]
  BY EmptySeq, HeadTailProperties, LenProperties
<1>2. /\ SubSeq(q, 2, Len(q)) \in Seq(S) /\ Len(SubSeq(q, 2, Len(q))) = Len(q) - 1
      /\ \A i \in 1..(Len(q) - 1) : SubSeq(q, 2, Len(q))[i] = q[i + 1]
  <2>1. /\ SubSeq(q, 2, Len(q)) \in Seq(S)
        /\ Len(SubSeq(q, 2, Len(q))) = IF 2 <= Len(q) THEN Len(q) - 2 + 1 ELSE 0
        /\ \A i \in 1..(Len(q) - 2 + 1) : SubSeq(q, 2, Len(q))[i] = q[2 + i - 1]
    BY <1>1, SubSeqProperties, LenProperties
  <2> QED BY <1>1, <2>1
<1> QED BY <1>1, <1>2, SeqEqual

LEMMA RemoveFirst ==
  ASSUME NEW S, NEW q \in Seq(S), q # <<>>
  PROVE  Fifo!RemoveAt(q, 1) = Tail(q)
<1>1. SubSeq(q, 1, 1 - 1) = <<>>
  BY EmptySeq, SubSeqEmpty
<1>2. Tail(q) \in Seq(S)
  BY HeadTailProperties
<1>3. Fifo!RemoveAt(q, 1) = SubSeq(q, 1, 1 - 1) \o SubSeq(q, 2, Len(q))
  BY DEF Fifo!RemoveAt
<1> QED BY <1>1, <1>2, <1>3, RestIs, ConcatEmptySeq

\* The consumer follows the pointer to the value that was linked first.
LEMMA AdvanceContent ==
  ASSUME IInv, ContentInv, NEW c \in Consumer, Advance(c), GetInputData(c)
  PROVE  /\ ContentInv' /\ Len(Contents) \in Nat \ {0}
         /\ data_[next[c]] = Contents[1] /\ Contents' = Fifo!RemoveAt(Contents, 1)
<1>first. PICK n : n = next[c]
  OBVIOUS
<1>len. PICK m : m = Len(list)
  OBVIOUS
<1>1. /\ pc[c] = "advance" /\ Goto(c, "countDown") /\ head_' = n
      /\ data_' = [data_ EXCEPT ![n] = NULL] /\ list' = SubSeq(list, 2, Len(list))
      /\ UNCHANGED <<offered, newNode, next_, queueSize_>>
  BY <1>first DEF Advance
<1>2. /\ TypeOK /\ ChainInv /\ ValueInv /\ CountInv /\ PrivateInv
      /\ Linked' = Linked \ {head_} /\ n = next_[head_] /\ n # NULL
  BY <1>1, <1>first, AdvanceStep DEF IInv, ContentInv, AdvanceInv
<1>3. /\ pc'[c] = "countDown" /\ \A d \in Consumer \ {c} : pc'[d] = pc[d]
      /\ \A p \in Producer : pc'[p] = pc[p]
  BY <1>1, <1>2, Move, SidesDiffer
<1>4. /\ m \in Nat /\ \A i \in 0..m : Node(i) \in Linked /\ Node(i) \in Address
      /\ Linked \subseteq Address /\ list \in Seq(Address)
      /\ \A i \in 1..m : list[i] = Node(i)
      /\ Node(0) = head_
  BY <1>2, <1>len, ChainIs DEF ChainInv
<1>5. /\ \A i, j \in 0..m : Node(i) = Node(j) => i = j
      /\ Linked = {Node(i) : i \in 0..m}
      /\ \A i \in 0..(m - 1) : next_[Node(i)] = Node(i + 1)
      /\ next_[Node(m)] = NULL
  BY <1>2, <1>len DEF ChainInv
<1>6. m >= 1 /\ n = Node(1) /\ list # <<>> /\ n = list[1]
  <2>1. m # 0
    BY <1>2, <1>4, <1>5
  <2>2. 0 \in 0..(m - 1) /\ 0 + 1 = 1 /\ 1 \in 1..m /\ m >= 1
    BY <1>4, <2>1
  <2> QED BY <1>2, <1>4, <1>5, <1>len, <2>1, <2>2, EmptySeq
<1>7. /\ list' \in Seq(Address) /\ Len(list') = m - 1
      /\ \A i \in 1..(m - 1) : list'[i] = list[i + 1]
  BY <1>1, <1>4, <1>6, <1>len, RestIs, HeadTailProperties
<1>8. \A i \in 0..(m - 1) : Node(i)' = Node(i + 1)
  <2>1. Node(0)' = Node(0 + 1)
    BY <1>1, <1>6 DEF Node
  <2>2. ASSUME NEW i \in 1..(m - 1) PROVE Node(i)' = Node(i + 1)
    <3>1. i # 0 /\ i + 1 # 0
      BY <1>4
    <3> QED BY <1>7, <3>1 DEF Node
  <2>3. \A i \in 0..(m - 1) : i = 0 \/ i \in 1..(m - 1)
    BY <1>4
  <2> QED BY <2>1, <2>2, <2>3
<1>9. Node(Len(list))' = Node(m)
  <2>1. m - 1 \in 0..(m - 1) /\ (m - 1) + 1 = m
    BY <1>4, <1>6
  <2>2. Node(Len(list))' = Node(m - 1)'
    BY <1>7 DEF Node
  <2> QED BY <1>8, <2>1, <2>2
<1>10. ChainInv'
  <2>1. ASSUME NEW i \in 0..Len(list'), NEW j \in 0..Len(list'), Node(i)' = Node(j)'
        PROVE  i = j
    <3>1. i \in 0..(m - 1) /\ j \in 0..(m - 1) /\ i + 1 \in 0..m /\ j + 1 \in 0..m
      BY <1>4, <1>6, <1>7
    <3>2. i + 1 = j + 1
      BY <1>5, <1>8, <2>1, <3>1
    <3> QED BY <1>4, <3>1, <3>2
  <2>2. Linked' = {Node(i)' : i \in 0..Len(list')}
    <3>1. ASSUME NEW a \in Linked' PROVE \E i \in 0..(m - 1) : a = Node(i)'
      <4>1. PICK i \in 0..m : a = Node(i)
        BY <1>2, <1>5
      <4>2. i # 0
        BY <1>2, <1>4, <4>1
      <4>3. i - 1 \in 0..(m - 1) /\ (i - 1) + 1 = i
        BY <1>4, <4>2
      <4> QED BY <1>8, <4>1, <4>3
    <3>2. ASSUME NEW i \in 0..(m - 1) PROVE Node(i)' \in Linked'
      <4>1. i + 1 \in 0..m /\ i + 1 # 0 /\ 0 \in 0..m
        BY <1>4
      <4> QED BY <1>2, <1>4, <1>5, <1>8, <4>1
    <3> QED BY <1>7, <3>1, <3>2
  <2>3. ASSUME NEW i \in 0..(Len(list') - 1) PROVE next_'[Node(i)'] = Node(i + 1)'
    <3>1. i \in 0..(m - 1) /\ i + 1 \in 0..(m - 1)
      BY <1>4, <1>7
    <3> QED BY <1>1, <1>5, <1>8, <3>1
  <2>4. next_'[Node(Len(list))'] = NULL
    BY <1>1, <1>5, <1>9
  <2> QED BY <1>7, <2>1, <2>2, <2>3, <2>4 DEF ChainInv
<1>11. 1 \in 0..m /\ n \in Linked /\ n \in Address
  BY <1>4, <1>6
<1>12. ValueInv'
  <2>1. ASSUME NEW p \in Producer, pc[p] \in {"lockProducer", "link"}
        PROVE  newNode[p] # n /\ newNode[p] \in Address
    <3>1. newNode[p] \in Private
      BY <2>1, Belongs
    <3> QED BY <1>2, <1>11, <2>1, <3>1, Belongs DEF PrivateInv, TypeOK
  <2>2. data_' \in [Address -> Data \cup {NULL}]
    BY <1>1, <1>2 DEF ValueInv
  <2> QED BY <1>1, <1>2, <1>3, <2>1, <2>2 DEF ValueInv
<1>13. CountInv'
  <2>1. ~Taking /\ Taking'
    BY <1>1, <1>3, TakingIs, TakingNext DEF InConsumerLock
  <2>2. Adding' <=> Adding
    BY <1>3 DEF Adding
  <2>3. \A p \in Producer : pc'[p] \in {"moveTail", "count"} =>
                              newNode'[p] = Node(Len(list))'
    BY <1>1, <1>2, <1>3, <1>9, <1>len DEF CountInv
  <2>4. queueSize_ = m - (IF Adding THEN 1 ELSE 0)
    BY <1>2, <1>4, <1>len, <2>1 DEF CountInv
  <2>5. queueSize_' = (Len(list') - (IF Adding THEN 1 ELSE 0)) + 1
    BY <1>1, <1>4, <1>7, <2>4
  <2> QED BY <2>1, <2>2, <2>3, <2>5 DEF CountInv
<1>14. /\ Len(Contents) = m /\ Contents[1] = data_[n]
       /\ Contents \in Seq(Data \cup {NULL})
       /\ \A i \in 1..m : Contents[i] = data_[list[i]]
  <2>1. /\ ContentsOf(data_, list) \in Seq(Data \cup {NULL})
        /\ Len(ContentsOf(data_, list)) = m
        /\ \A i \in 1..m : ContentsOf(data_, list)[i] = data_[list[i]]
    BY <1>2, <1>4, <1>len, ContentsAre DEF ValueInv
  <2>2. 1 \in 1..m
    BY <1>4, <1>6
  <2> QED BY <1>6, <2>1, <2>2, ContentsIs
<1>15. /\ Contents' \in Seq(Data \cup {NULL}) /\ Len(Contents') = m - 1
       /\ \A i \in 1..(m - 1) : Contents'[i] = Contents[i + 1]
  <2>1. /\ ContentsOf(data_', list') \in Seq(Data \cup {NULL})
        /\ Len(ContentsOf(data_', list')) = m - 1
        /\ \A i \in 1..(m - 1) : ContentsOf(data_', list')[i] = data_'[list'[i]]
    <3>1. data_' \in [Address -> Data \cup {NULL}]
      BY <1>12 DEF ValueInv
    <3> QED BY <1>7, <3>1, ContentsAre
  <2>2. Contents' = ContentsOf(data_', list')
    BY DEF Contents, ContentsOf
  <2>3. ASSUME NEW i \in 1..(m - 1) PROVE data_'[list'[i]] = Contents[i + 1]
    <3>1. i + 1 \in 1..m /\ i + 1 \in 0..m /\ i + 1 # 1 /\ 1 \in 0..m
      BY <1>4
    <3>2. list'[i] = Node(i + 1) /\ Node(i + 1) # n /\ Node(i + 1) \in Address
      BY <1>4, <1>5, <1>6, <1>7, <3>1
    <3>3. data_'[list'[i]] = data_[list[i + 1]]
      BY <1>1, <1>2, <1>4, <3>1, <3>2 DEF ValueInv
    <3> QED BY <1>14, <3>1, <3>3
  <2> QED BY <2>1, <2>2, <2>3
<1>16. Contents' = Tail(Contents)
  <2>1. /\ Tail(Contents) \in Seq(Data \cup {NULL}) /\ Len(Tail(Contents)) = m - 1
        /\ \A i \in 1..(m - 1) : Tail(Contents)[i] = Contents[i + 1]
    BY <1>4, <1>6, <1>14, EmptySeq, HeadTailProperties
  <2> QED BY <1>15, <2>1, SeqEqual
<1>17. Contents' = Fifo!RemoveAt(Contents, 1)
  BY <1>4, <1>6, <1>14, <1>16, EmptySeq, RemoveFirst
<1> QED BY <1>4, <1>6, <1>10, <1>12, <1>13, <1>14, <1>17, <1>first DEF ContentInv

LEMMA ContentStep == ASSUME IInv, ContentInv, [Next]_vars PROVE ContentInv'
<1>1. CASE UNCHANGED vars
  <2>1. /\ TypeOK /\ ChainInv /\ ValueInv /\ CountInv
        /\ UNCHANGED <<pc, offered, list, data_, next_, newNode, oldFirst, allocated,
                       head_, queueSize_>>
    BY <1>1 DEF IInv, ContentInv, vars, client, local, heap
  <2>2. Linked' = Linked
    BY <2>1 DEF Linked, Private, Garbage
  <2>3. ChainInv'
    BY <2>1, <2>2, ChainKept
  <2>4. ValueInv' /\ CountInv'
    BY <2>1 DEF ValueInv, CountInv, Adding, Taking, Node
  <2> QED BY <2>3, <2>4 DEF ContentInv
<1>2. ASSUME NEW p \in Producer, Receive(p) PROVE ContentInv'
  BY <1>2, AllocateContent, LinkContent, OtherReceiveContent DEF Receive
<1>3. ASSUME NEW c \in Consumer, GetInputData(c) PROVE ContentInv'
  BY <1>3, OtherGetContent, AdvanceContent DEF GetInputData
<1> QED BY <1>1, <1>2, <1>3 DEF Next

LEMMA ContentInvariance == Spec => [](IInv /\ ContentInv)
<1>1. IInv /\ ContentInv /\ [Next]_vars => (IInv /\ ContentInv)'
  BY InvariantStep, ContentStep
<1> QED BY InitHolds, ContentInit, <1>1, PTL DEF Spec

\* AtomicQueueReceiver::empty reads a counter that the two ends update after the
\* list: it never hides a value whose receive has counted it.
THEOREM CounterHidesNothing == Spec => []EmptyIsReliable
<1>1. ASSUME IInv, ContentInv PROVE EmptyIsReliable
  <2> SUFFICES ASSUME Empty, NEW i \in DOMAIN list
               PROVE  \E p \in Producer :
                        pc[p] \in {"moveTail", "count"} /\ newNode[p] = list[i]
    BY DEF EmptyIsReliable
  <2>1. /\ Len(list) \in Nat /\ i \in 1..Len(list) /\ CountInv
        /\ \A j \in 1..Len(list) : Node(j) = list[j]
    BY <1>1, ChainIs DEF IInv, ContentInv
  <2>2. queueSize_ <= 0
    BY DEF Empty
  <2>3. Adding /\ i = Len(list)
    BY <2>1, <2>2 DEF CountInv
  <2> QED BY <2>1, <2>3 DEF Adding, CountInv
<1> QED BY <1>1, ContentInvariance, PTL

(***************************************************************************)
(* The refinement of Receiver.                                              *)
(***************************************************************************)
LEMMA FifoInit == Init => Fifo!Init
<1> SUFFICES ASSUME Init PROVE Fifo!Init
  OBVIOUS
<1>1. Contents = <<>>
  BY DEF Init, Contents
<1> QED BY <1>1 DEF Init, Fifo!Init

LEMMA FifoNext ==
  ASSUME IInv, ContentInv, [Next]_vars PROVE [Fifo!Next]_(Fifo!vars)
<1>1. ASSUME NEW p \in Producer, Receive(p) PROVE [Fifo!Next]_(Fifo!vars)
  <2>1. CASE Link(p)
    <3>1. /\ Contents' = Append(Contents, Head(offered[p])) /\ offered[p] # <<>>
          /\ Len(Contents) < Cardinality(Address)
      <4>1. Len(Contents) = Len(list)
        BY ContentsAre, ContentsIs DEF ContentInv, ChainInv, ValueInv
      <4> QED BY <1>1, <2>1, <4>1, LinkContent
    <3>2. Fifo!Receive(p)
      BY <2>1, <3>1 DEF Link, Fifo!Receive
    <3> QED BY <3>2 DEF Fifo!Next
  <2>2. CASE ~Link(p)
    <3>1. UNCHANGED <<offered, got>>
      BY <1>1, <2>2 DEF Receive, Allocate, LockProducer, MoveTail, Count, RecordMax,
         UnlockProducer, client
    <3>2. Contents' = Contents
      BY <1>1, <2>2, AllocateContent, OtherReceiveContent DEF Receive
    <3> QED BY <3>1, <3>2 DEF Fifo!vars
  <2> QED BY <2>1, <2>2
<1>2. ASSUME NEW c \in Consumer, GetInputData(c) PROVE [Fifo!Next]_(Fifo!vars)
  <2>1. CASE Advance(c)
    <3>1. /\ Len(Contents) \in Nat \ {0} /\ data_[next[c]] = Contents[1]
          /\ Contents' = Fifo!RemoveAt(Contents, 1)
      BY <1>2, <2>1, AdvanceContent
    <3>2. 1 \in 1..Len(Contents)
      BY <3>1
    <3>3. Fifo!GetInputData(c)
      BY <2>1, <3>1, <3>2 DEF Advance, Fifo!GetInputData
    <3> QED BY <3>3 DEF Fifo!Next
  <2>2. CASE ~Advance(c)
    <3>1. UNCHANGED <<offered, got>>
      BY <1>2, <2>2 DEF GetInputData, LockConsumer, ReadNext, CountDown,
         UnlockConsumer, Delete, client
    <3>2. Contents' = Contents
      BY <1>2, <2>2, OtherGetContent DEF GetInputData
    <3> QED BY <3>1, <3>2 DEF Fifo!vars
  <2> QED BY <2>1, <2>2
<1>3. CASE UNCHANGED vars
  BY <1>3 DEF vars, client, heap, Contents, Fifo!vars
<1> QED BY <1>1, <1>2, <1>3 DEF Next

\* AtomicQueueReceiver::receive and getInputData: although the two ends have a
\* lock each, what a consumer finds behind the dummy is the value that was linked
\* first, each value is handed out once, and none is lost.
THEOREM ListIsAReceiver == Spec => ImplementsReceiver
BY FifoInit, FifoNext, ContentInvariance, PTL DEF Spec, ImplementsReceiver, Fifo!Spec
===============================================================================
