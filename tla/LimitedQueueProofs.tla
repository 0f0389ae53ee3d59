--------------------------- MODULE LimitedQueueProofs --------------------------
(***************************************************************************)
(* Whoever waits for a slot of a LimitedAtomicQueueReceiver is served, and  *)
(* empty() is not believed too early: proofs for every number of producers, *)
(* consumers and observers, every capacity and whatever is offered.         *)
(***************************************************************************)
EXTENDS LimitedAtomicQueueReceiver, FiniteSetTheorems, SequenceTheorems, TLAPS

ProducerPC ==
  {"idle", "checkRoom", "claim", "store", "measure", "compareMax", "storeMax"}
ConsumerPC == {"idle", "checkData", "claimData", "exchange"}
ObserverPC == {"idle", "firstTail", "secondHead", "secondTail"}

TypeOK ==
  /\ pc \in [Threads -> ProducerPC \cup ConsumerPC \cup ObserverPC]
  /\ \A p \in Producer : pc[p] \in ProducerPC
  /\ \A c \in Consumer : pc[c] \in ConsumerPC
  /\ \A o \in Observer : pc[o] \in ObserverPC
  /\ offered \in [Producer -> Seq(Data)]
  /\ index \in [Producer \cup Consumer -> Nat]
  /\ h \in [Observer -> Nat] /\ t \in [Observer -> Nat]
  /\ emptyAtLoad \in [Observer -> BOOLEAN]
  /\ head_ \in Nat /\ tail_ \in Nat
  /\ data_ \in [0..(MaxCapacity - 1) -> Data \cup {NULL}]

(***************************************************************************)
(* The inductive invariant.                                                 *)
(***************************************************************************)

\* A producer that has not stored its value yet has one.
OfferInv ==
  \A p \in Producer :
    pc[p] \in {"checkRoom", "claim", "store"} => offered[p] # <<>>

\* What a thread found when it compared its index stays true until it claims the
\* index: room only grows for a producer, data only grows for a consumer.
IndexInv ==
  /\ tail_ <= head_ /\ head_ <= tail_ + MaxCapacity
  /\ \A p \in Producer : pc[p] = "claim" => index[p] < tail_ + MaxCapacity
  /\ \A c \in Consumer : pc[c] = "claimData" => index[c] < head_

\* A slot is live while an index that designates it was claimed by a producer
\* and not yet by a consumer.
Live(s) == \E k \in tail_..(head_ - 1) : k % MaxCapacity = s

Holds(s) == IF data_[s] = NULL THEN 0 ELSE 1

\* What is in a slot or on its way there is what is on its way out, and the live
\* index of the slot, if it has one.
RingInv ==
  \A s \in DOMAIN data_ :
    Cardinality(Storing(s)) + Holds(s)
      = Cardinality(Taking(s)) + (IF Live(s) THEN 1 ELSE 0)

\* Between its loads an observer knows that the tail has not gone back.
ObserverInv ==
  \A o \in Observer :
    /\ pc[o] \in {"secondHead", "secondTail"} => h[o] = t[o] /\ t[o] <= tail_
    /\ pc[o] = "secondTail" /\ ~emptyAtLoad[o] => t[o] < tail_

IInv == TypeOK /\ OfferInv /\ IndexInv /\ RingInv /\ ObserverInv

(***************************************************************************)
(* Facts about the ring: two indices less than its capacity apart designate *)
(* different slots.                                                         *)
(***************************************************************************)
LEMMA DivisionOf ==
  ASSUME NEW m \in Nat \ {0}, NEW a \in Nat
  PROVE  /\ a = m * (a \div m) + (a % m)
         /\ a \div m \in Nat /\ a % m \in 0..(m - 1)
OBVIOUS

LEMMA NoSmallMultiple ==
  ASSUME NEW m \in Nat \ {0}, NEW x \in Int, 0 < m * x, m * x < m PROVE FALSE
<1>1. CASE x <= 0
  BY <1>1
<1>2. CASE x >= 1
  BY <1>2
<1> QED BY <1>1, <1>2

LEMMA SlotsDiffer ==
  ASSUME NEW m \in Nat \ {0}, NEW a \in Nat, NEW b \in Nat, a < b, b < a + m
  PROVE  a % m # b % m
<1> DEFINE qa == a \div m
           qb == b \div m
<1>1. /\ a = m * qa + (a % m) /\ b = m * qb + (b % m)
      /\ qa \in Nat /\ qb \in Nat /\ a % m \in Int /\ b % m \in Int
  BY DivisionOf
<1> HIDE DEF qa, qb
<1> SUFFICES ASSUME a % m = b % m PROVE FALSE
  OBVIOUS
<1>2. m * (qb - qa) = b - a
  BY <1>1
<1>3. qb - qa \in Int
  BY <1>1
<1> QED BY <1>2, <1>3, NoSmallMultiple

LEMMA SlotType ==
  ASSUME TypeOK, NEW r \in Producer \cup Consumer
  PROVE  Slot(r) \in 0..(MaxCapacity - 1) /\ DOMAIN data_ = 0..(MaxCapacity - 1)
BY DivisionOf, CapacityAssumption DEF TypeOK, Slot

LEMMA CountsAreNaturals ==
  \A s : /\ IsFiniteSet(Storing(s)) /\ Cardinality(Storing(s)) \in Nat
         /\ IsFiniteSet(Taking(s)) /\ Cardinality(Taking(s)) \in Nat
<1> TAKE s
<1>1. Storing(s) \subseteq Producer /\ Taking(s) \subseteq Consumer
  BY DEF Storing, Taking
<1> QED BY <1>1, ThreadAssumption, FS_Subset, FS_CardinalityType

(***************************************************************************)
(* Type correctness and what a thread knows.                                *)
(***************************************************************************)
LEMMA TailType ==
  ASSUME NEW q \in Seq(Data), q # <<>>
  PROVE  Head(q) \in Data /\ Tail(q) \in Seq(Data) /\ Head(q) # NULL
BY StartsAssumption

LEMMA InitHolds == Init => IInv
<1> SUFFICES ASSUME Init PROVE IInv
  OBVIOUS
<1> USE CapacityAssumption, StartsAssumption
<1>1. TypeOK
  BY DEF Init, TypeOK, Threads, ProducerPC, ConsumerPC, ObserverPC
<1>2. OfferInv /\ IndexInv /\ ObserverInv
  BY DEF Init, OfferInv, IndexInv, ObserverInv, Threads
<1>3. RingInv
  <2>1. \A s : Storing(s) = {} /\ Taking(s) = {} /\ ~Live(s)
    BY DEF Init, Storing, Taking, Live, Threads
  <2>2. \A s \in DOMAIN data_ : Holds(s) = 0
    BY DEF Init, Holds
  <2> QED BY <2>1, <2>2, FS_EmptySet DEF RingInv
<1> QED BY <1>1, <1>2, <1>3 DEF IInv

LEMMA MoveOfProducer ==
  ASSUME TypeOK, NEW p \in Producer, NEW l \in ProducerPC, Goto(p, l)
  PROVE  /\ pc' \in [Threads -> ProducerPC \cup ConsumerPC \cup ObserverPC]
         /\ pc'[p] = l /\ \A r \in Threads \ {p} : pc'[r] = pc[r]
         /\ \A q \in Producer : pc'[q] \in ProducerPC
         /\ \A q \in Consumer \cup Observer : pc'[q] = pc[q]
BY ThreadAssumption DEF TypeOK, Goto, Threads

LEMMA MoveOfConsumer ==
  ASSUME TypeOK, NEW c \in Consumer, NEW l \in ConsumerPC, Goto(c, l)
  PROVE  /\ pc' \in [Threads -> ProducerPC \cup ConsumerPC \cup ObserverPC]
         /\ pc'[c] = l /\ \A r \in Threads \ {c} : pc'[r] = pc[r]
         /\ \A q \in Consumer : pc'[q] \in ConsumerPC
         /\ \A q \in Producer \cup Observer : pc'[q] = pc[q]
BY ThreadAssumption DEF TypeOK, Goto, Threads

LEMMA MoveOfObserver ==
  ASSUME TypeOK, NEW o \in Observer, NEW l \in ObserverPC, Goto(o, l)
  PROVE  /\ pc' \in [Threads -> ProducerPC \cup ConsumerPC \cup ObserverPC]
         /\ pc'[o] = l /\ \A r \in Threads \ {o} : pc'[r] = pc[r]
         /\ \A q \in Observer : pc'[q] \in ObserverPC
         /\ \A q \in Producer \cup Consumer : pc'[q] = pc[q]
BY ThreadAssumption DEF TypeOK, Goto, Threads

LEMMA ProducerStep ==
  ASSUME IInv, NEW p \in Producer, Receive(p)
  PROVE  TypeOK' /\ OfferInv' /\ IndexInv' /\ ObserverInv'
<1> USE CapacityAssumption DEF IInv, OfferInv, IndexInv, ObserverInv, observed
<1>1. ASSUME NEW l \in ProducerPC, Goto(p, l), UNCHANGED <<tail_, data_, observed>>,
             head_' \in Nat, tail_ <= head_' /\ head_' <= tail_ + MaxCapacity,
             head_ <= head_',
             index' \in [Producer \cup Consumer -> Nat],
             \A q \in (Producer \cup Consumer) \ {p} : index'[q] = index[q],
             offered' = offered, offered[p] # <<>> \/ l \notin {"checkRoom", "claim", "store"},
             l = "claim" => index'[p] < tail_ + MaxCapacity
      PROVE  TypeOK' /\ OfferInv' /\ IndexInv' /\ ObserverInv'
  <2>1. /\ pc' \in [Threads -> ProducerPC \cup ConsumerPC \cup ObserverPC]
        /\ pc'[p] = l
        /\ \A q \in Producer : pc'[q] \in ProducerPC
        /\ \A q \in Producer \ {p} : pc'[q] = pc[q]
        /\ \A q \in Consumer \cup Observer : pc'[q] = pc[q]
    BY <1>1, MoveOfProducer DEF Threads
  <2>2. TypeOK'
    BY <1>1, <2>1 DEF TypeOK
  <2>3. OfferInv'
    BY <1>1, <2>1
  <2>4. IndexInv'
    <3>1. \A q \in Producer : pc'[q] = "claim" => index'[q] < tail_ + MaxCapacity
      BY <1>1, <2>1
    <3>2. ASSUME NEW q \in Consumer, pc'[q] = "claimData" PROVE index'[q] < head_'
      <4>1. index[q] < head_ /\ index'[q] = index[q]
        BY <1>1, <2>1, <3>2, ThreadAssumption
      <4>2. index[q] \in Nat /\ head_ \in Nat
        BY DEF TypeOK
      <4> QED BY <1>1, <4>1, <4>2
    <3> QED BY <1>1, <3>1, <3>2
  <2>5. ObserverInv'
    BY <1>1, <2>1
  <2> QED BY <2>2, <2>3, <2>4, <2>5
<1> USE DEF TypeOK
<1>2. CASE LoadHead(p)
  BY <1>1, <1>2 DEF LoadHead, ProducerPC
<1>3. CASE CheckRoom(p)
  <2>1. index[p] - tail_ >= MaxCapacity \/ index[p] < tail_ + MaxCapacity
    OBVIOUS
  <2> QED BY <1>1, <1>3, <2>1 DEF CheckRoom, ProducerPC
<1>4. CASE Claim(p)
  <2>1. CASE head_ = index[p]
    BY <1>1, <1>4, <2>1 DEF Claim, ProducerPC
  <2>2. CASE head_ # index[p]
    <3>1. /\ Goto(p, "checkRoom") /\ index' = [index EXCEPT ![p] = head_]
          /\ UNCHANGED <<offered, head_, tail_, data_, observed>>
          /\ offered[p] # <<>>
      BY <1>4, <2>2 DEF Claim
    <3>2. /\ index' \in [Producer \cup Consumer -> Nat]
          /\ \A q \in (Producer \cup Consumer) \ {p} : index'[q] = index[q]
      BY <3>1
    <3> QED BY <1>1, <3>1, <3>2 DEF ProducerPC
  <2> QED BY <2>1, <2>2
<1>5. CASE Store(p)
  <2>1. Head(offered[p]) \in Data /\ Tail(offered[p]) \in Seq(Data)
    BY <1>5, TailType DEF Store
  <2>2. /\ data_' \in [0..(MaxCapacity - 1) -> Data \cup {NULL}]
        /\ offered' \in [Producer -> Seq(Data)]
        /\ \A q \in Producer \ {p} : offered'[q] = offered[q]
    BY <1>5, <2>1, SlotType DEF Store
  <2>3. /\ pc' \in [Threads -> ProducerPC \cup ConsumerPC \cup ObserverPC]
        /\ pc'[p] = "measure"
        /\ \A q \in Producer : pc'[q] \in ProducerPC
        /\ \A q \in Producer \ {p} : pc'[q] = pc[q]
        /\ \A q \in Consumer \cup Observer : pc'[q] = pc[q]
    BY <1>5, MoveOfProducer DEF Store, ProducerPC, Threads
  <2>4. UNCHANGED <<index, head_, tail_, observed>>
    BY <1>5 DEF Store
  <2>5. TypeOK'
    BY <2>2, <2>3, <2>4
  <2>6. OfferInv' /\ IndexInv' /\ ObserverInv'
    BY <2>2, <2>3, <2>4
  <2> QED BY <2>5, <2>6
<1>6. CASE Measure(p) \/ CompareMax(p) \/ StoreMax(p)
  BY <1>1, <1>6 DEF Measure, CompareMax, StoreMax, ProducerPC
<1> QED BY <1>2, <1>3, <1>4, <1>5, <1>6 DEF Receive

LEMMA RoomGrows ==
  \A a, b, c \in Nat : a <= b + MaxCapacity /\ b <= c => a <= c + MaxCapacity
BY CapacityAssumption

LEMMA ConsumerStep ==
  ASSUME IInv, NEW c \in Consumer, GetInputData(c)
  PROVE  TypeOK' /\ OfferInv' /\ IndexInv' /\ ObserverInv'
<1> USE CapacityAssumption DEF IInv, OfferInv, IndexInv, ObserverInv, observed
<1>1. ASSUME NEW l \in ConsumerPC, Goto(c, l), UNCHANGED <<head_, offered, observed>>,
             data_' \in [0..(MaxCapacity - 1) -> Data \cup {NULL}],
             tail_' \in Nat, tail_ <= tail_', tail_' <= head_,
             index' \in [Producer \cup Consumer -> Nat],
             \A q \in (Producer \cup Consumer) \ {c} : index'[q] = index[q],
             l = "claimData" => index'[c] < head_
      PROVE  TypeOK' /\ OfferInv' /\ IndexInv' /\ ObserverInv'
  <2>1. /\ pc' \in [Threads -> ProducerPC \cup ConsumerPC \cup ObserverPC]
        /\ pc'[c] = l
        /\ \A q \in Consumer : pc'[q] \in ConsumerPC
        /\ \A q \in Consumer \ {c} : pc'[q] = pc[q]
        /\ \A q \in Producer \cup Observer : pc'[q] = pc[q]
    BY <1>1, MoveOfConsumer DEF Threads
  <2>2. TypeOK'
    BY <1>1, <2>1 DEF TypeOK
  <2>3. OfferInv'
    BY <1>1, <2>1
  <2>4. IndexInv'
    <3>1. \A q \in Consumer : pc'[q] = "claimData" => index'[q] < head_
      BY <1>1, <2>1
    <3>0. head_ \in Nat /\ tail_ \in Nat /\ head_ <= tail_ + MaxCapacity
      BY DEF TypeOK
    <3>2. ASSUME NEW q \in Producer, pc'[q] = "claim"
          PROVE  index'[q] < tail_' + MaxCapacity
      <4>1. index[q] < tail_ + MaxCapacity /\ index'[q] = index[q]
        BY <1>1, <2>1, <3>2, ThreadAssumption
      <4>2. index[q] \in Nat
        BY DEF TypeOK
      <4> QED BY <1>1, <3>0, <4>1, <4>2
    <3>3. head_ <= tail_' + MaxCapacity
      <4>1. tail_' \in Nat /\ tail_ <= tail_'
        BY <1>1
      <4> QED BY <3>0, <4>1, RoomGrows
    <3> QED BY <1>1, <3>1, <3>2, <3>3
  <2>5. ObserverInv'
    BY <1>1, <2>1 DEF TypeOK
  <2> QED BY <2>2, <2>3, <2>4, <2>5
<1> USE DEF TypeOK
<1>2. CASE LoadTail(c)
  BY <1>1, <1>2 DEF LoadTail, ConsumerPC
<1>3. CASE CheckData(c)
  <2>1. head_ - index[c] <= 0 \/ index[c] < head_
    OBVIOUS
  <2> QED BY <1>1, <1>3, <2>1 DEF CheckData, ConsumerPC
<1>4. CASE ClaimData(c)
  <2>1. CASE tail_ = index[c]
    BY <1>1, <1>4, <2>1 DEF ClaimData, ConsumerPC
  <2>2. CASE tail_ # index[c]
    <3>1. /\ Goto(c, "checkData") /\ index' = [index EXCEPT ![c] = tail_]
          /\ UNCHANGED <<offered, head_, tail_, data_, observed>>
      BY <1>4, <2>2 DEF ClaimData
    <3>2. /\ index' \in [Producer \cup Consumer -> Nat]
          /\ \A q \in (Producer \cup Consumer) \ {c} : index'[q] = index[q]
      BY <3>1
    <3> QED BY <1>1, <3>1, <3>2 DEF ConsumerPC
  <2> QED BY <2>1, <2>2
<1>5. CASE Exchange(c)
  <2>1. data_' \in [0..(MaxCapacity - 1) -> Data \cup {NULL}]
    BY <1>5, SlotType DEF Exchange
  <2> QED BY <1>1, <1>5, <2>1 DEF Exchange, ConsumerPC
<1> QED BY <1>2, <1>3, <1>4, <1>5 DEF GetInputData

\* An observer changes its own record of the indices only.
LEMMA ObserverStep ==
  ASSUME IInv, NEW o \in Observer, NumberElementsReceived(o)
  PROVE  /\ TypeOK' /\ OfferInv' /\ IndexInv' /\ ObserverInv'
         /\ UNCHANGED <<index, head_, tail_, data_>>
         /\ \A q \in Producer \cup Consumer : pc'[q] = pc[q]
<1> USE DEF IInv, OfferInv, IndexInv, ObserverInv, observed, TypeOK
<1>1. ASSUME NEW l \in ObserverPC, Goto(o, l),
             UNCHANGED <<index, head_, tail_, data_, offered>>,
             h' \in [Observer -> Nat], t' \in [Observer -> Nat],
             emptyAtLoad' \in [Observer -> BOOLEAN],
             \A q \in Observer \ {o} : /\ h'[q] = h[q] /\ t'[q] = t[q]
                                       /\ emptyAtLoad'[q] = emptyAtLoad[q],
             l \in {"secondHead", "secondTail"} => h'[o] = t'[o] /\ t'[o] <= tail_,
             l = "secondTail" /\ ~emptyAtLoad'[o] => t'[o] < tail_
      PROVE  /\ TypeOK' /\ OfferInv' /\ IndexInv' /\ ObserverInv'
             /\ UNCHANGED <<index, head_, tail_, data_>>
             /\ \A q \in Producer \cup Consumer : pc'[q] = pc[q]
  <2>1. /\ pc' \in [Threads -> ProducerPC \cup ConsumerPC \cup ObserverPC]
        /\ pc'[o] = l
        /\ \A q \in Observer : pc'[q] \in ObserverPC
        /\ \A q \in Observer \ {o} : pc'[q] = pc[q]
        /\ \A q \in Producer \cup Consumer : pc'[q] = pc[q]
    BY <1>1, MoveOfObserver DEF Threads
  <2>2. TypeOK'
    BY <1>1, <2>1
  <2>3. OfferInv' /\ IndexInv'
    BY <1>1, <2>1
  <2>4. ObserverInv'
    BY <1>1, <2>1
  <2> QED BY <1>1, <2>1, <2>2, <2>3, <2>4
<1>2. CASE FirstHead(o)
  BY <1>1, <1>2 DEF FirstHead, ObserverPC
<1>3. CASE FirstTail(o)
  <2>1. CASE h[o] = tail_
    BY <1>1, <1>3, <2>1 DEF FirstTail, ObserverPC
  <2>2. CASE h[o] # tail_
    BY <1>1, <1>3, <2>2 DEF FirstTail, ObserverPC
  <2> QED BY <2>1, <2>2
<1>4. CASE SecondHead(o)
  <2>1. CASE head_ = h[o]
    <3>1. /\ Goto(o, "secondTail") /\ UNCHANGED <<h, t, offered>>
          /\ UNCHANGED <<index, head_, tail_, data_>>
          /\ emptyAtLoad' = [emptyAtLoad EXCEPT ![o] = (head_ = tail_)]
          /\ h[o] = t[o] /\ t[o] <= tail_
      BY <1>4, <2>1 DEF SecondHead
    <3>2. /\ emptyAtLoad' \in [Observer -> BOOLEAN]
          /\ emptyAtLoad'[o] = (head_ = tail_)
          /\ \A q \in Observer \ {o} : emptyAtLoad'[q] = emptyAtLoad[q]
      BY <3>1
    <3>3. ~emptyAtLoad'[o] => t'[o] < tail_
      <4>1. ~emptyAtLoad'[o] => head_ # tail_
        BY <3>2, Zenon
      <4>2. t'[o] = head_ /\ head_ <= tail_
        BY <2>1, <3>1
      <4> QED BY <4>1, <4>2
    <3>4. /\ h' \in [Observer -> Nat] /\ t' \in [Observer -> Nat]
          /\ h'[o] = t'[o] /\ t'[o] <= tail_
          /\ \A q \in Observer \ {o} : /\ h'[q] = h[q] /\ t'[q] = t[q]
                                     /\ emptyAtLoad'[q] = emptyAtLoad[q]
      BY <3>1, <3>2
    <3>5. "secondTail" \in ObserverPC
      BY DEF ObserverPC
    <3> QED BY <1>1, <3>1, <3>2, <3>3, <3>4, <3>5
  <2>2. CASE head_ # h[o]
    BY <1>1, <1>4, <2>2 DEF SecondHead, ObserverPC
  <2> QED BY <2>1, <2>2
<1>5. CASE SecondTail(o)
  BY <1>1, <1>5 DEF SecondTail, ObserverPC
<1> QED BY <1>2, <1>3, <1>4, <1>5 DEF NumberElementsReceived

(***************************************************************************)
(* The balance of a slot.                                                   *)
(***************************************************************************)

\* Most steps move no thread to a slot or away from one.
LEMMA OtherStepsKeepTheRing ==
  ASSUME IInv, UNCHANGED <<head_, tail_, data_>>,
         \A p \in Producer :
           /\ pc'[p] = "store" <=> pc[p] = "store"
           /\ pc[p] = "store" => index'[p] = index[p],
         \A c \in Consumer :
           /\ pc'[c] = "exchange" <=> pc[c] = "exchange"
           /\ pc[c] = "exchange" => index'[c] = index[c]
  PROVE  RingInv'
<1>1. ASSUME NEW s \in DOMAIN data_
      PROVE  /\ Storing(s)' = Storing(s) /\ Taking(s)' = Taking(s)
             /\ Live(s)' = Live(s) /\ Holds(s)' = Holds(s)
  BY DEF Storing, Taking, Live, Holds, Slot
<1> QED BY <1>1 DEF RingInv, IInv

\* A claimed index makes its slot live: no other live index designates it.
LEMMA ClaimBringsToLife ==
  ASSUME IInv, head_ < tail_ + MaxCapacity,
         tail_' = tail_, head_' = head_ + 1, NEW s \in DOMAIN data_
  PROVE  /\ s = head_ % MaxCapacity => ~Live(s) /\ Live(s)'
         /\ s # head_ % MaxCapacity => (Live(s)' <=> Live(s))
<1> USE DEF IInv, TypeOK, IndexInv
<1> DEFINE s0 == head_ % MaxCapacity
<1>1. \A k \in tail_..(head_ - 1) : k % MaxCapacity # s0
  <2> TAKE k \in tail_..(head_ - 1)
  <2>1. k \in Nat /\ k < head_ /\ head_ < k + MaxCapacity
    BY CapacityAssumption
  <2> QED BY <2>1, SlotsDiffer, CapacityAssumption
<1>2. tail_'..(head_' - 1) = (tail_..(head_ - 1)) \cup {head_}
  OBVIOUS
<1> QED BY <1>1, <1>2 DEF Live

\* The oldest index is the only live one of its slot.
LEMMA ClaimDataEndsLife ==
  ASSUME IInv, tail_ < head_,
         head_' = head_, tail_' = tail_ + 1, NEW s \in DOMAIN data_
  PROVE  /\ s = tail_ % MaxCapacity => Live(s) /\ ~Live(s)'
         /\ s # tail_ % MaxCapacity => (Live(s)' <=> Live(s))
<1> USE DEF IInv, TypeOK, IndexInv
<1> DEFINE s0 == tail_ % MaxCapacity
<1>1. \A k \in (tail_ + 1)..(head_ - 1) : k % MaxCapacity # s0
  <2> TAKE k \in (tail_ + 1)..(head_ - 1)
  <2>1. k \in Nat /\ tail_ < k /\ k < tail_ + MaxCapacity
    BY CapacityAssumption
  <2> QED BY <2>1, SlotsDiffer, CapacityAssumption
<1>2. tail_..(head_ - 1) = (tail_'..(head_' - 1)) \cup {tail_}
  OBVIOUS
<1> QED BY <1>1, <1>2 DEF Live

LEMMA ClaimKeepsTheRing ==
  ASSUME IInv, NEW p \in Producer, Claim(p) PROVE RingInv'
<1> USE DEF IInv
<1>1. CASE head_ # index[p]
  <2>1. /\ UNCHANGED <<head_, tail_, data_>> /\ Goto(p, "checkRoom")
        /\ pc[p] = "claim" /\ index' = [index EXCEPT ![p] = head_]
    BY <1>1 DEF Claim
  <2> QED BY <2>1, OtherStepsKeepTheRing, ThreadAssumption DEF TypeOK, Goto, Threads
<1>2. CASE head_ = index[p]
  <2>1. /\ head_' = head_ + 1 /\ UNCHANGED <<index, tail_, data_>>
        /\ pc[p] = "claim" /\ Goto(p, "store") /\ head_ < tail_ + MaxCapacity
    BY <1>2 DEF Claim, IndexInv
  <2>2. pc'[p] = "store" /\ \A r \in Threads \ {p} : pc'[r] = pc[r]
    BY <2>1 DEF TypeOK, Goto, Threads
  <2>3. p \notin Consumer
    BY ThreadAssumption
  <2>4. ASSUME NEW s \in DOMAIN data_
        PROVE  /\ Taking(s)' = Taking(s) /\ Holds(s)' = Holds(s)
               /\ p \notin Storing(s)
               /\ Storing(s)' = IF s = head_ % MaxCapacity THEN Storing(s) \cup {p}
                                ELSE Storing(s)
    BY <1>2, <2>1, <2>2, <2>3 DEF Storing, Taking, Holds, Slot, Threads
  <2>5. ASSUME NEW s \in DOMAIN data_
        PROVE  Cardinality(Storing(s))' + Holds(s)'
                 = Cardinality(Taking(s))' + (IF Live(s)' THEN 1 ELSE 0)
    <3>1. Cardinality(Storing(s)) + Holds(s)
            = Cardinality(Taking(s)) + (IF Live(s) THEN 1 ELSE 0)
      BY DEF RingInv
    <3>2. CASE s = head_ % MaxCapacity
      <4>1. Storing(s)' = Storing(s) \cup {p} /\ ~Live(s) /\ Live(s)'
        BY <2>1, <2>4, <3>2, ClaimBringsToLife
      <4>2. Cardinality(Storing(s)') = Cardinality(Storing(s)) + 1
        BY <2>4, <4>1, CountsAreNaturals, FS_AddElement
      <4>3. Holds(s) \in {0, 1}
        BY DEF Holds
      <4> QED BY <2>4, <3>1, <4>1, <4>2, <4>3, CountsAreNaturals
    <3>3. CASE s # head_ % MaxCapacity
      BY <2>1, <2>4, <3>1, <3>3, ClaimBringsToLife
    <3> QED BY <3>2, <3>3
  <2> QED BY <2>1, <2>5 DEF RingInv
<1> QED BY <1>1, <1>2

\* A store fills the slot the producer was on its way to.
LEMMA StoreKeepsTheRing ==
  ASSUME IInv, NEW p \in Producer, Store(p) PROVE RingInv'
<1> USE DEF IInv
<1>1. /\ UNCHANGED <<index, head_, tail_>> /\ pc[p] = "store"
      /\ Goto(p, "measure") /\ data_[Slot(p)] = NULL
      /\ data_' = [data_ EXCEPT ![Slot(p)] = Head(offered[p])]
      /\ Head(offered[p]) # NULL
  BY TailType DEF Store, OfferInv, TypeOK
<1>2. pc'[p] = "measure" /\ \A r \in Threads \ {p} : pc'[r] = pc[r]
  BY <1>1 DEF TypeOK, Goto, Threads
<1>3. Slot(p) \in DOMAIN data_ /\ DOMAIN data_' = DOMAIN data_ /\ p \notin Consumer
  BY <1>1, SlotType, ThreadAssumption
<1>4. ASSUME NEW s \in DOMAIN data_
      PROVE  /\ Taking(s)' = Taking(s) /\ Live(s)' = Live(s)
             /\ s = Slot(p) => /\ Holds(s) = 0 /\ Holds(s)' = 1
                               /\ p \in Storing(s) /\ Storing(s)' = Storing(s) \ {p}
             /\ s # Slot(p) => Holds(s)' = Holds(s) /\ Storing(s)' = Storing(s)
  <2>1. Taking(s)' = Taking(s) /\ Live(s)' = Live(s)
    BY <1>1, <1>2, <1>3 DEF Taking, Live, Slot, Threads
  <2>2. s = Slot(p) => Holds(s) = 0 /\ Holds(s)' = 1
    BY <1>1, <1>3 DEF Holds
  <2>3. s # Slot(p) => Holds(s)' = Holds(s)
    BY <1>1, <1>3 DEF Holds
  <2>4. /\ s = Slot(p) => p \in Storing(s) /\ Storing(s)' = Storing(s) \ {p}
        /\ s # Slot(p) => Storing(s)' = Storing(s)
    BY <1>1, <1>2 DEF Storing, Slot, Threads
  <2> QED BY <2>1, <2>2, <2>3, <2>4
<1>5. ASSUME NEW s \in DOMAIN data_
      PROVE  Cardinality(Storing(s))' + Holds(s)'
               = Cardinality(Taking(s))' + (IF Live(s)' THEN 1 ELSE 0)
  <2>1. Cardinality(Storing(s)) + Holds(s)
          = Cardinality(Taking(s)) + (IF Live(s) THEN 1 ELSE 0)
    BY DEF RingInv
  <2>2. CASE s = Slot(p)
    <3>1. Cardinality(Storing(s)') = Cardinality(Storing(s)) - 1
      BY <1>4, <2>2, CountsAreNaturals, FS_RemoveElement
    <3> QED BY <1>4, <2>1, <2>2, <3>1, CountsAreNaturals
  <2>3. CASE s # Slot(p)
    BY <1>4, <2>1, <2>3
  <2> QED BY <2>2, <2>3
<1> QED BY <1>3, <1>5 DEF RingInv

LEMMA ClaimDataKeepsTheRing ==
  ASSUME IInv, NEW c \in Consumer, ClaimData(c) PROVE RingInv'
<1> USE DEF IInv
<1>1. CASE tail_ # index[c]
  <2>1. /\ UNCHANGED <<head_, tail_, data_>> /\ Goto(c, "checkData")
        /\ pc[c] = "claimData" /\ index' = [index EXCEPT ![c] = tail_]
    BY <1>1 DEF ClaimData
  <2> QED BY <2>1, OtherStepsKeepTheRing, ThreadAssumption DEF TypeOK, Goto, Threads
<1>2. CASE tail_ = index[c]
  <2>1. /\ tail_' = tail_ + 1 /\ UNCHANGED <<index, head_, data_>>
        /\ pc[c] = "claimData" /\ Goto(c, "exchange") /\ tail_ < head_
    BY <1>2 DEF ClaimData, IndexInv
  <2>2. pc'[c] = "exchange" /\ \A r \in Threads \ {c} : pc'[r] = pc[r]
    BY <2>1 DEF TypeOK, Goto, Threads
  <2>3. c \notin Producer
    BY ThreadAssumption
  <2>4. ASSUME NEW s \in DOMAIN data_
        PROVE  /\ Storing(s)' = Storing(s) /\ Holds(s)' = Holds(s)
               /\ c \notin Taking(s)
               /\ Taking(s)' = IF s = tail_ % MaxCapacity THEN Taking(s) \cup {c}
                               ELSE Taking(s)
    BY <1>2, <2>1, <2>2, <2>3 DEF Storing, Taking, Holds, Slot, Threads
  <2>5. ASSUME NEW s \in DOMAIN data_
        PROVE  Cardinality(Storing(s))' + Holds(s)'
                 = Cardinality(Taking(s))' + (IF Live(s)' THEN 1 ELSE 0)
    <3>1. Cardinality(Storing(s)) + Holds(s)
            = Cardinality(Taking(s)) + (IF Live(s) THEN 1 ELSE 0)
      BY DEF RingInv
    <3>2. CASE s = tail_ % MaxCapacity
      <4>1. Taking(s)' = Taking(s) \cup {c} /\ Live(s) /\ ~Live(s)'
        BY <2>1, <2>4, <3>2, ClaimDataEndsLife
      <4>2. Cardinality(Taking(s)') = Cardinality(Taking(s)) + 1
        BY <2>4, <4>1, CountsAreNaturals, FS_AddElement
      <4>3. Holds(s) \in {0, 1}
        BY DEF Holds
      <4> QED BY <2>4, <3>1, <4>1, <4>2, <4>3, CountsAreNaturals
    <3>3. CASE s # tail_ % MaxCapacity
      BY <2>1, <2>4, <3>1, <3>3, ClaimDataEndsLife
    <3> QED BY <3>2, <3>3
  <2> QED BY <2>1, <2>5 DEF RingInv
<1> QED BY <1>1, <1>2

\* An exchange empties the slot the consumer was on its way to.
LEMMA ExchangeKeepsTheRing ==
  ASSUME IInv, NEW c \in Consumer, Exchange(c) PROVE RingInv'
<1> USE DEF IInv
<1>1. /\ UNCHANGED <<index, head_, tail_>> /\ pc[c] = "exchange"
      /\ Goto(c, "idle") /\ data_[Slot(c)] # NULL
      /\ data_' = [data_ EXCEPT ![Slot(c)] = NULL]
  BY DEF Exchange
<1>2. pc'[c] = "idle" /\ \A r \in Threads \ {c} : pc'[r] = pc[r]
  BY <1>1 DEF TypeOK, Goto, Threads
<1>3. Slot(c) \in DOMAIN data_ /\ DOMAIN data_' = DOMAIN data_ /\ c \notin Producer
  BY <1>1, SlotType, ThreadAssumption
<1>4. ASSUME NEW s \in DOMAIN data_
      PROVE  /\ Storing(s)' = Storing(s) /\ Live(s)' = Live(s)
             /\ s = Slot(c) => /\ Holds(s) = 1 /\ Holds(s)' = 0
                               /\ c \in Taking(s) /\ Taking(s)' = Taking(s) \ {c}
             /\ s # Slot(c) => Holds(s)' = Holds(s) /\ Taking(s)' = Taking(s)
  <2>1. Storing(s)' = Storing(s) /\ Live(s)' = Live(s)
    BY <1>1, <1>2, <1>3 DEF Storing, Live, Slot, Threads
  <2>2. s = Slot(c) => Holds(s) = 1 /\ Holds(s)' = 0
    BY <1>1, <1>3 DEF Holds
  <2>3. s # Slot(c) => Holds(s)' = Holds(s)
    BY <1>1, <1>3 DEF Holds
  <2>4. /\ s = Slot(c) => c \in Taking(s) /\ Taking(s)' = Taking(s) \ {c}
        /\ s # Slot(c) => Taking(s)' = Taking(s)
    BY <1>1, <1>2 DEF Taking, Slot, Threads
  <2> QED BY <2>1, <2>2, <2>3, <2>4
<1>5. ASSUME NEW s \in DOMAIN data_
      PROVE  Cardinality(Storing(s))' + Holds(s)'
               = Cardinality(Taking(s))' + (IF Live(s)' THEN 1 ELSE 0)
  <2>1. Cardinality(Storing(s)) + Holds(s)
          = Cardinality(Taking(s)) + (IF Live(s) THEN 1 ELSE 0)
    BY DEF RingInv
  <2>2. CASE s = Slot(c)
    <3>1. Cardinality(Taking(s)') = Cardinality(Taking(s)) - 1
      BY <1>4, <2>2, CountsAreNaturals, FS_RemoveElement
    <3> QED BY <1>4, <2>1, <2>2, <3>1, CountsAreNaturals
  <2>3. CASE s # Slot(c)
    BY <1>4, <2>1, <2>3
  <2> QED BY <2>2, <2>3
<1> QED BY <1>3, <1>5 DEF RingInv

LEMMA RingStep == ASSUME IInv, [Next]_vars PROVE RingInv'
<1> USE ThreadAssumption DEF IInv, TypeOK, Goto, Threads
<1>1. ASSUME NEW p \in Producer, Receive(p) PROVE RingInv'
  <2>1. CASE LoadHead(p)
    BY <2>1, OtherStepsKeepTheRing DEF LoadHead
  <2>2. CASE CheckRoom(p)
    BY <2>2, OtherStepsKeepTheRing DEF CheckRoom
  <2>3. CASE Measure(p) \/ CompareMax(p) \/ StoreMax(p)
    BY <2>3, OtherStepsKeepTheRing DEF Measure, CompareMax, StoreMax
  <2> QED
    BY <1>1, <2>1, <2>2, <2>3, ClaimKeepsTheRing, StoreKeepsTheRing DEF Receive
<1>2. ASSUME NEW c \in Consumer, GetInputData(c) PROVE RingInv'
  <2>1. CASE LoadTail(c)
    BY <2>1, OtherStepsKeepTheRing DEF LoadTail
  <2>2. CASE CheckData(c)
    BY <2>2, OtherStepsKeepTheRing DEF CheckData
  <2> QED
    BY <1>2, <2>1, <2>2, ClaimDataKeepsTheRing, ExchangeKeepsTheRing DEF GetInputData
<1>3. ASSUME NEW o \in Observer, NumberElementsReceived(o) PROVE RingInv'
  BY <1>3, ObserverStep, OtherStepsKeepTheRing
<1>4. CASE UNCHANGED vars
  BY <1>4, OtherStepsKeepTheRing DEF vars
<1> QED BY <1>1, <1>2, <1>3, <1>4 DEF Next

(***************************************************************************)
(* The theorems.                                                            *)
(***************************************************************************)
LEMMA KnowledgeStep ==
  ASSUME IInv, [Next]_vars
  PROVE  TypeOK' /\ OfferInv' /\ IndexInv' /\ ObserverInv'
<1>1. CASE UNCHANGED vars
  BY <1>1 DEF vars, observed, IInv, TypeOK, OfferInv, IndexInv, ObserverInv
<1> QED BY <1>1, ProducerStep, ConsumerStep, ObserverStep DEF Next

THEOREM Invariance == Spec => []IInv
<1>1. IInv /\ [Next]_vars => IInv'
  BY KnowledgeStep, RingStep DEF IInv
<1> QED BY InitHolds, <1>1, PTL DEF Spec

\* LimitedAtomicQueueReceiver::receive and getInputData: a thread that has
\* claimed an index waits for a slot that another thread is bound to fill, or to
\* empty, and never for one that two threads want to fill.
THEOREM SlotsAreNotOverrun == Spec => []NoSlotOverrun
<1>1. ASSUME IInv, NEW s \in DOMAIN data_
      PROVE  Cardinality(Storing(s)) + (IF data_[s] = NULL THEN 0 ELSE 1)
               - Cardinality(Taking(s)) \in {0, 1}
  <2>1. Cardinality(Storing(s)) + Holds(s)
          = Cardinality(Taking(s)) + (IF Live(s) THEN 1 ELSE 0)
    BY <1>1 DEF IInv, RingInv
  <2> QED BY <2>1, CountsAreNaturals DEF Holds
<1>2. IInv => NoSlotOverrun
  BY <1>1 DEF NoSlotOverrun
<1> QED BY <1>2, Invariance, PTL

\* LimitedAtomicQueueReceiver::numberElementsReceived repeats its two loads: the
\* answer zero means that the queue was empty between them.
THEOREM LimitedEmptyIsReliable == Spec => []EmptyIsReliable
<1>1. IInv => EmptyIsReliable
  BY DEF IInv, TypeOK, ObserverInv, EmptyIsReliable, AnswersEmpty
<1> QED BY <1>1, Invariance, PTL

(***************************************************************************)
(* The refinement of Receiver.                                              *)
(***************************************************************************)

\* Who takes no part stays where it is.
AwayInv ==
  /\ \A r \in away : pc[r] = "idle"
  /\ \A p \in Producer \cap away : offered[p] = <<>>
  /\ away \subseteq Threads

\* The slots in the order of the stores are those that hold a value, once each.
OrderInv ==
  /\ order \in Seq(0..(MaxCapacity - 1))
  /\ \A i, j \in 1..Len(order) : order[i] = order[j] => i = j
  /\ \A s \in 0..(MaxCapacity - 1) :
       data_[s] # NULL <=> \E i \in 1..Len(order) : order[i] = s

\* One thread on either side.
Pair == Cardinality(Producer \ away) = 1 /\ Cardinality(Consumer \ away) = 1

\* The oldest index whose value is still in the ring, and the next one to be
\* stored.
Oldest(c) == IF pc[c] = "exchange" THEN tail_ - 1 ELSE tail_
Newest(p) == IF pc[p] = "store" THEN head_ - 1 ELSE head_

\* A pair stores and takes in the order of the indices.
PairInv ==
  Pair => \A p \in Producer \ away, c \in Consumer \ away :
    /\ pc[p] = "store" => index[p] = head_ - 1
    /\ pc[c] = "exchange" => index[c] = tail_ - 1
    /\ Len(order) = Newest(p) - Oldest(c)
    /\ \A i \in 1..Len(order) : order[i] = ((Oldest(c) + i) - 1) % MaxCapacity

StoreInv == AwayInv /\ OrderInv /\ PairInv

\* Removing an element moves those behind it up by one.
LEMMA RemoveAtIs ==
  ASSUME NEW S, NEW q \in Seq(S), NEW i \in 1..Len(q)
  PROVE  /\ RemoveAt(q, i) \in Seq(S) /\ Len(RemoveAt(q, i)) = Len(q) - 1
         /\ \A j \in 1..(Len(q) - 1) :
              RemoveAt(q, i)[j] = IF j < i THEN q[j] ELSE q[j + 1]
<1> DEFINE a == SubSeq(q, 1, i - 1)
           b == SubSeq(q, i + 1, Len(q))
<1>1. /\ Len(q) \in Nat /\ i \in Nat /\ 1 <= i /\ i <= Len(q)
      /\ \A j \in 1..Len(q) : q[j] \in S
  OBVIOUS
<1>2. /\ a \in Seq(S) /\ Len(a) = i - 1
      /\ \A j \in 1..(i - 1) : a[j] = q[j]
  BY <1>1, SubSeqProperties
<1>3. /\ b \in Seq(S) /\ Len(b) = Len(q) - i
      /\ \A j \in 1..(Len(q) - i) : b[j] = q[i + j]
  BY <1>1, SubSeqProperties
<1> HIDE DEF a, b
<1>4. /\ a \o b \in Seq(S) /\ Len(a \o b) = Len(q) - 1
      /\ \A j \in 1..(Len(q) - 1) : (a \o b)[j] = IF j < i THEN q[j] ELSE q[j + 1]
  <2>1. /\ a \o b \in Seq(S) /\ Len(a \o b) = Len(a) + Len(b)
        /\ \A j \in 1..(Len(a) + Len(b)) :
             (a \o b)[j] = IF j <= Len(a) THEN a[j] ELSE b[j - Len(a)]
    BY <1>2, <1>3, ConcatProperties
  <2>2. ASSUME NEW j \in 1..(Len(q) - 1), j < i PROVE (a \o b)[j] = q[j]
    <3>1. j \in 1..(i - 1) /\ j \in 1..(Len(a) + Len(b)) /\ j <= Len(a)
      BY <1>1, <1>2, <1>3, <2>2
    <3> QED BY <1>2, <2>1, <3>1
  <2>3. ASSUME NEW j \in 1..(Len(q) - 1), ~(j < i) PROVE (a \o b)[j] = q[j + 1]
    <3>1. /\ j \in 1..(Len(a) + Len(b)) /\ ~(j <= Len(a))
          /\ j - Len(a) \in 1..(Len(q) - i) /\ i + (j - Len(a)) = j + 1
      BY <1>1, <1>2, <1>3, <2>3
    <3> QED BY <1>3, <2>1, <3>1
  <2>4. Len(a \o b) = Len(q) - 1
    BY <1>1, <1>2, <1>3, <2>1
  <2> QED BY <2>1, <2>2, <2>3, <2>4
<1> QED BY <1>4 DEF RemoveAt, a, b

LEMMA StoreInit == Init => StoreInv
<1> SUFFICES ASSUME Init PROVE StoreInv
  OBVIOUS
<1>1. order = <<>> /\ Len(order) = 0 /\ head_ = 0 /\ tail_ = 0
  BY DEF Init
<1>2. \A r \in Threads : pc[r] = "idle"
  BY DEF Init
<1>3. AwayInv
  BY <1>2, StartsAssumption DEF Init, AwayInv
<1>4. OrderInv
  BY <1>1, CapacityAssumption DEF Init, OrderInv
<1>5. PairInv
  BY <1>1, <1>2 DEF PairInv, Oldest, Newest, Threads
<1> QED BY <1>3, <1>4, <1>5 DEF StoreInv

\* Whoever moves takes part.
LEMMA ProducerMoves ==
  ASSUME TypeOK, AwayInv, NEW p \in Producer, Receive(p)
  PROVE  /\ p \notin away /\ away' = away /\ AwayInv'
         /\ \A r \in Threads \ {p} : pc'[r] = pc[r]
<1>1. p \notin away /\ away' = away
  BY DEF Receive, AwayInv, LoadHead, CheckRoom, Claim, Store, Measure, CompareMax,
         StoreMax
<1>2. \A r \in Threads \ {p} : pc'[r] = pc[r]
  <2>1. ASSUME NEW l, Goto(p, l) PROVE \A r \in Threads \ {p} : pc'[r] = pc[r]
    BY <2>1 DEF TypeOK, Goto
  <2>2. \E l : Goto(p, l)
    BY Zenon DEF Receive, LoadHead, CheckRoom, Claim, Store, Measure, CompareMax,
       StoreMax
  <2> QED BY <2>1, <2>2
<1>3. \A q \in Producer \ {p} : offered'[q] = offered[q]
  BY DEF Receive, LoadHead, CheckRoom, Claim, Store, Measure, CompareMax, StoreMax,
         TypeOK
<1> QED BY <1>1, <1>2, <1>3 DEF AwayInv

LEMMA ConsumerMoves ==
  ASSUME TypeOK, AwayInv, NEW c \in Consumer, GetInputData(c)
  PROVE  /\ c \notin away /\ away' = away /\ AwayInv'
         /\ \A r \in Threads \ {c} : pc'[r] = pc[r]
<1>1. c \notin away /\ away' = away /\ offered' = offered
  BY DEF GetInputData, AwayInv, LoadTail, CheckData, ClaimData, Exchange
<1>2. \A r \in Threads \ {c} : pc'[r] = pc[r]
  <2>1. ASSUME NEW l, Goto(c, l) PROVE \A r \in Threads \ {c} : pc'[r] = pc[r]
    BY <2>1 DEF TypeOK, Goto
  <2>2. \E l : Goto(c, l)
    BY Zenon DEF GetInputData, LoadTail, CheckData, ClaimData, Exchange
  <2> QED BY <2>1, <2>2
<1> QED BY <1>1, <1>2 DEF AwayInv

LEMMA ObserverMoves ==
  ASSUME TypeOK, AwayInv, NEW o \in Observer, NumberElementsReceived(o)
  PROVE  /\ away' = away /\ AwayInv' /\ UNCHANGED <<offered, got, order>>
         /\ \A r \in Threads \ {o} : pc'[r] = pc[r]
<1>1. o \notin away /\ away' = away /\ UNCHANGED <<offered, got, order>>
  BY DEF NumberElementsReceived, AwayInv, FirstHead, FirstTail, SecondHead, SecondTail
<1>2. \A r \in Threads \ {o} : pc'[r] = pc[r]
  <2>1. ASSUME NEW l, Goto(o, l) PROVE \A r \in Threads \ {o} : pc'[r] = pc[r]
    BY <2>1 DEF TypeOK, Goto
  <2>2. \E l : Goto(o, l)
    BY Zenon DEF NumberElementsReceived, FirstHead, FirstTail, SecondHead, SecondTail
  <2> QED BY <2>1, <2>2
<1> QED BY <1>1, <1>2 DEF AwayInv

\* Steps that neither store nor take, nor claim.
LEMMA NothingStored ==
  ASSUME OrderInv, PairInv, UNCHANGED <<order, data_, head_, tail_, away>>,
         \A p \in Producer :
           /\ pc'[p] = "store" <=> pc[p] = "store"
           /\ pc[p] = "store" => index'[p] = index[p],
         \A c \in Consumer :
           /\ pc'[c] = "exchange" <=> pc[c] = "exchange"
           /\ pc[c] = "exchange" => index'[c] = index[c]
  PROVE  OrderInv' /\ PairInv'
<1>1. OrderInv'
  BY DEF OrderInv
<1>2. Pair' = Pair
  BY DEF Pair
<1>3. \A p \in Producer : Newest(p)' = Newest(p)
  BY DEF Newest
<1>4. \A c \in Consumer : Oldest(c)' = Oldest(c)
  BY DEF Oldest
<1>5. PairInv'
  BY <1>2, <1>3, <1>4 DEF PairInv
<1> QED BY <1>1, <1>5

LEMMA Only ==
  ASSUME NEW S, Cardinality(S) = 1, IsFiniteSet(S), NEW x \in S, NEW y \in S
  PROVE  x = y
<1>1. PICK z : S = {z}
  BY FS_Singleton
<1> QED BY <1>1

LEMMA PlaceIs ==
  ASSUME OrderInv, NEW s \in 0..(MaxCapacity - 1), data_[s] # NULL
  PROVE  Place(s) \in 1..Len(order) /\ order[Place(s)] = s
<1>1. DOMAIN order = 1..Len(order)
  BY DEF OrderInv
<1>2. \E i \in 1..Len(order) : order[i] = s
  BY DEF OrderInv
<1> QED BY <1>1, <1>2 DEF Place

LEMMA PairOf ==
  ASSUME Pair, NEW p \in Producer \ away, NEW c \in Consumer \ away
  PROVE  /\ \A q \in Producer \ away : q = p
         /\ \A d \in Consumer \ away : d = c
<1>1. IsFiniteSet(Producer \ away) /\ IsFiniteSet(Consumer \ away)
  BY ThreadAssumption, FS_Difference
<1> QED BY <1>1, Only DEF Pair

\* The claim of an index.
LEMMA ClaimKeepsTheOrder ==
  ASSUME IInv, StoreInv, NEW p \in Producer, Receive(p), Claim(p)
  PROVE  OrderInv' /\ PairInv'
<1>1. /\ TypeOK /\ OrderInv /\ PairInv /\ AwayInv
      /\ p \notin away /\ away' = away /\ p \notin Consumer
      /\ \A r \in Threads \ {p} : pc'[r] = pc[r]
      /\ pc[p] = "claim" /\ UNCHANGED <<order, data_, tail_>>
  BY ProducerMoves, ThreadAssumption DEF IInv, StoreInv, Claim
<1>2. CASE head_ # index[p]
  <2>1. /\ Goto(p, "checkRoom") /\ head_' = head_
        /\ index' = [index EXCEPT ![p] = head_]
    BY <1>2 DEF Claim
  <2>2. pc'[p] = "checkRoom"
    BY <1>1, <2>1 DEF TypeOK, Goto, Threads
  <2>3. \A r \in (Producer \cup Consumer) \ {p} : index'[r] = index[r] /\ pc'[r] = pc[r]
    BY <1>1, <2>1 DEF TypeOK, Threads
  <2> QED BY <1>1, <2>1, <2>2, <2>3, NothingStored
<1>3. CASE head_ = index[p]
  <2>1. Goto(p, "store") /\ head_' = head_ + 1 /\ index' = index
    BY <1>3 DEF Claim
  <2>2. pc'[p] = "store" /\ \A c \in Consumer : pc'[c] = pc[c]
    BY <1>1, <2>1 DEF TypeOK, Goto, Threads
  <2>3. OrderInv'
    BY <1>1 DEF OrderInv
  <2>4. ASSUME Pair', NEW q \in Producer \ away, NEW c \in Consumer \ away
        PROVE  /\ pc'[q] = "store" => index'[q] = head_' - 1
               /\ pc'[c] = "exchange" => index'[c] = tail_' - 1
               /\ Len(order') = Newest(q)' - Oldest(c)'
               /\ \A i \in 1..Len(order') :
                    order'[i] = ((Oldest(c)' + i) - 1) % MaxCapacity
    <3>1. Pair /\ q = p
      BY <1>1, <2>4, PairOf DEF Pair
    <3>2. /\ pc[c] = "exchange" => index[c] = tail_ - 1
          /\ Len(order) = Newest(p) - Oldest(c)
          /\ \A i \in 1..Len(order) : order[i] = ((Oldest(c) + i) - 1) % MaxCapacity
      BY <1>1, <3>1 DEF PairInv
    <3>3. Newest(p)' = Newest(p) /\ Oldest(c)' = Oldest(c)
      BY <1>1, <2>1, <2>2 DEF Newest, Oldest, TypeOK
    <3>4. index'[p] = head_' - 1
      BY <1>3, <2>1, <1>1 DEF TypeOK
    <3> QED BY <1>1, <2>1, <2>2, <3>1, <3>2, <3>3, <3>4
  <2>5. PairInv'
    BY <1>1, <2>4 DEF PairInv
  <2> QED BY <2>3, <2>5
<1> QED BY <1>2, <1>3

LEMMA ClaimDataKeepsTheOrder ==
  ASSUME IInv, StoreInv, NEW c \in Consumer, GetInputData(c), ClaimData(c)
  PROVE  OrderInv' /\ PairInv'
<1>1. /\ TypeOK /\ OrderInv /\ PairInv /\ AwayInv
      /\ c \notin away /\ away' = away /\ c \notin Producer
      /\ \A r \in Threads \ {c} : pc'[r] = pc[r]
      /\ pc[c] = "claimData" /\ UNCHANGED <<order, data_, head_>>
  BY ConsumerMoves, ThreadAssumption DEF IInv, StoreInv, ClaimData
<1>2. CASE tail_ # index[c]
  <2>1. /\ Goto(c, "checkData") /\ tail_' = tail_
        /\ index' = [index EXCEPT ![c] = tail_]
    BY <1>2 DEF ClaimData
  <2>2. pc'[c] = "checkData"
    BY <1>1, <2>1 DEF TypeOK, Goto, Threads
  <2>3. \A r \in (Producer \cup Consumer) \ {c} : index'[r] = index[r] /\ pc'[r] = pc[r]
    BY <1>1, <2>1 DEF TypeOK, Threads
  <2> QED BY <1>1, <2>1, <2>2, <2>3, NothingStored
<1>3. CASE tail_ = index[c]
  <2>1. Goto(c, "exchange") /\ tail_' = tail_ + 1 /\ index' = index
    BY <1>3 DEF ClaimData
  <2>2. pc'[c] = "exchange" /\ \A p \in Producer : pc'[p] = pc[p]
    BY <1>1, <2>1 DEF TypeOK, Goto, Threads
  <2>3. OrderInv'
    BY <1>1 DEF OrderInv
  <2>4. ASSUME Pair', NEW p \in Producer \ away, NEW d \in Consumer \ away
        PROVE  /\ pc'[p] = "store" => index'[p] = head_' - 1
               /\ pc'[d] = "exchange" => index'[d] = tail_' - 1
               /\ Len(order') = Newest(p)' - Oldest(d)'
               /\ \A i \in 1..Len(order') :
                    order'[i] = ((Oldest(d)' + i) - 1) % MaxCapacity
    <3>1. Pair /\ d = c
      BY <1>1, <2>4, PairOf DEF Pair
    <3>2. /\ pc[p] = "store" => index[p] = head_ - 1
          /\ Len(order) = Newest(p) - Oldest(c)
          /\ \A i \in 1..Len(order) : order[i] = ((Oldest(c) + i) - 1) % MaxCapacity
      BY <1>1, <3>1 DEF PairInv
    <3>3. Newest(p)' = Newest(p) /\ Oldest(c)' = Oldest(c)
      BY <1>1, <2>1, <2>2 DEF Newest, Oldest, TypeOK
    <3>4. index'[c] = tail_' - 1
      BY <1>3, <2>1, <1>1 DEF TypeOK
    <3> QED BY <1>1, <2>1, <2>2, <3>1, <3>2, <3>3, <3>4
  <2>5. PairInv'
    BY <1>1, <2>4 DEF PairInv
  <2> QED BY <2>3, <2>5
<1> QED BY <1>2, <1>3

\* A slot that is empty is not in the order of the stores.
LEMMA StoreKeepsTheOrder ==
  ASSUME IInv, StoreInv, NEW p \in Producer, Receive(p), Store(p)
  PROVE  OrderInv' /\ PairInv'
<1>1. /\ TypeOK /\ OrderInv /\ PairInv /\ AwayInv /\ OfferInv
      /\ p \notin away /\ away' = away /\ p \notin Consumer
      /\ pc[p] = "store" /\ UNCHANGED <<index, head_, tail_>>
      /\ Goto(p, "measure") /\ order' = Append(order, Slot(p))
      /\ data_' = [data_ EXCEPT ![Slot(p)] = Head(offered[p])]
      /\ data_[Slot(p)] = NULL
  BY ProducerMoves, ThreadAssumption DEF IInv, StoreInv, Store
<1>2. /\ Slot(p) \in 0..(MaxCapacity - 1) /\ Head(offered[p]) # NULL
      /\ order \in Seq(0..(MaxCapacity - 1))
  BY <1>1, SlotType, TailType DEF OrderInv, OfferInv, TypeOK
<1>3. /\ order' \in Seq(0..(MaxCapacity - 1)) /\ Len(order') = Len(order) + 1
      /\ \A i \in 1..Len(order) : order'[i] = order[i]
      /\ order'[Len(order) + 1] = Slot(p) /\ Len(order) \in Nat
  BY <1>1, <1>2, AppendProperties
<1>4. pc'[p] = "measure" /\ \A c \in Consumer : pc'[c] = pc[c]
  BY <1>1 DEF TypeOK, Goto, Threads
<1>5. OrderInv'
  <2>1. \A i \in 1..Len(order) : order[i] # Slot(p)
    BY <1>1, <1>2 DEF OrderInv
  <2>2. ASSUME NEW i \in 1..Len(order'), NEW j \in 1..Len(order'),
               order'[i] = order'[j]
        PROVE  i = j
    <3>1. i \in 1..Len(order) \/ i = Len(order) + 1
      BY <1>3
    <3>2. j \in 1..Len(order) \/ j = Len(order) + 1
      BY <1>3
    <3> QED BY <1>1, <1>3, <2>1, <2>2, <3>1, <3>2 DEF OrderInv
  <2>3. ASSUME NEW s \in 0..(MaxCapacity - 1)
        PROVE  data_'[s] # NULL <=> \E i \in 1..Len(order') : order'[i] = s
    <3>1. data_[s] # NULL <=> \E i \in 1..Len(order) : order[i] = s
      BY <1>1 DEF OrderInv
    <3>2. CASE s = Slot(p)
      <4>1. data_'[s] # NULL
        BY <1>1, <1>2, <3>2 DEF TypeOK
      <4>2. Len(order) + 1 \in 1..Len(order')
        BY <1>3
      <4> QED BY <1>3, <3>2, <4>1, <4>2
    <3>3. CASE s # Slot(p)
      <4>1. data_'[s] = data_[s]
        BY <1>1, <3>3 DEF TypeOK
      <4>2. \A i \in 1..Len(order') : i \in 1..Len(order) \/ i = Len(order) + 1
        BY <1>3
      <4>3. \A i \in 1..Len(order) : i \in 1..Len(order')
        BY <1>3
      <4> QED BY <1>3, <3>1, <3>3, <4>1, <4>2, <4>3
    <3> QED BY <3>2, <3>3
  <2> QED BY <1>3, <2>2, <2>3 DEF OrderInv
<1>6. ASSUME Pair', NEW q \in Producer \ away, NEW c \in Consumer \ away
      PROVE  /\ pc'[q] = "store" => index'[q] = head_' - 1
             /\ pc'[c] = "exchange" => index'[c] = tail_' - 1
             /\ Len(order') = Newest(q)' - Oldest(c)'
             /\ \A i \in 1..Len(order') :
                  order'[i] = ((Oldest(c)' + i) - 1) % MaxCapacity
  <2>1. Pair /\ q = p
    BY <1>1, <1>6, PairOf DEF Pair
  <2>2. /\ index[p] = head_ - 1
        /\ pc[c] = "exchange" => index[c] = tail_ - 1
        /\ Len(order) = Newest(p) - Oldest(c)
        /\ \A i \in 1..Len(order) : order[i] = ((Oldest(c) + i) - 1) % MaxCapacity
    BY <1>1, <2>1 DEF PairInv
  <2>3. /\ Newest(p) = head_ - 1 /\ Newest(p)' = head_ /\ Oldest(c)' = Oldest(c)
        /\ head_ \in Nat /\ Oldest(c) \in Int
    BY <1>1, <1>4 DEF Newest, Oldest, TypeOK
  <2>4. Slot(p) = ((Oldest(c) + (Len(order) + 1)) - 1) % MaxCapacity
    <3>1. index[p] = (Oldest(c) + (Len(order) + 1)) - 1
      BY <1>3, <2>2, <2>3
    <3> QED BY <3>1 DEF Slot
  <2>5. \A i \in 1..Len(order') : i \in 1..Len(order) \/ i = Len(order) + 1
    BY <1>3
  <2>6. \A i \in 1..Len(order') : order'[i] = ((Oldest(c)' + i) - 1) % MaxCapacity
    BY <1>3, <2>2, <2>3, <2>4, <2>5
  <2>7. Len(order') = Newest(p)' - Oldest(c)'
    BY <1>3, <2>2, <2>3
  <2> QED BY <1>1, <1>4, <2>1, <2>2, <2>6, <2>7
<1>7. PairInv'
  BY <1>1, <1>6 DEF PairInv
<1> QED BY <1>5, <1>7

LEMMA ExchangeKeepsTheOrder ==
  ASSUME IInv, StoreInv, NEW c \in Consumer, GetInputData(c), Exchange(c)
  PROVE  OrderInv' /\ PairInv' /\ (Pair => Place(Slot(c)) = 1)
<1> DEFINE k == Place(Slot(c))
<1>1. /\ TypeOK /\ OrderInv /\ PairInv /\ AwayInv
      /\ c \notin away /\ away' = away /\ c \notin Producer
      /\ pc[c] = "exchange" /\ UNCHANGED <<index, head_, tail_>>
      /\ Goto(c, "idle") /\ order' = RemoveAt(order, k)
      /\ data_' = [data_ EXCEPT ![Slot(c)] = NULL]
      /\ data_[Slot(c)] # NULL
  BY ConsumerMoves, ThreadAssumption DEF IInv, StoreInv, Exchange
<1>2. /\ Slot(c) \in 0..(MaxCapacity - 1) /\ order \in Seq(0..(MaxCapacity - 1))
      /\ k \in 1..Len(order) /\ order[k] = Slot(c) /\ Len(order) \in Nat
  BY <1>1, SlotType, PlaceIs DEF OrderInv
<1> HIDE DEF k
<1>3. /\ order' \in Seq(0..(MaxCapacity - 1)) /\ Len(order') = Len(order) - 1
      /\ \A i \in 1..(Len(order) - 1) :
           order'[i] = IF i < k THEN order[i] ELSE order[i + 1]
  BY <1>1, <1>2, RemoveAtIs
<1>4. pc'[c] = "idle" /\ \A p \in Producer : pc'[p] = pc[p]
  BY <1>1 DEF TypeOK, Goto, Threads
<1>5. OrderInv'
  <2>1. \A i \in 1..Len(order) : order[i] = Slot(c) => i = k
    BY <1>1, <1>2 DEF OrderInv
  <2>2. ASSUME NEW i \in 1..Len(order'), NEW j \in 1..Len(order'),
               order'[i] = order'[j]
        PROVE  i = j
    <3>1. /\ i \in 1..(Len(order) - 1) /\ j \in 1..(Len(order) - 1)
          /\ i \in 1..Len(order) /\ i + 1 \in 1..Len(order)
          /\ j \in 1..Len(order) /\ j + 1 \in 1..Len(order)
      BY <1>2, <1>3
    <3>2. \A a, b \in 1..Len(order) : order[a] = order[b] => a = b
      BY <1>1 DEF OrderInv
    <3>3. k \in Int
      BY <1>2
    <3> QED BY <1>3, <2>2, <3>1, <3>2, <3>3
  <2>3. ASSUME NEW s \in 0..(MaxCapacity - 1)
        PROVE  data_'[s] # NULL <=> \E i \in 1..Len(order') : order'[i] = s
    <3>1. data_[s] # NULL <=> \E i \in 1..Len(order) : order[i] = s
      BY <1>1 DEF OrderInv
    <3>2. CASE s = Slot(c)
      <4>1. data_'[s] = NULL
        BY <1>1, <1>2, <3>2 DEF TypeOK
      <4>2. ASSUME NEW i \in 1..Len(order'), order'[i] = s PROVE FALSE
        <5>1. i \in 1..(Len(order) - 1) /\ i \in 1..Len(order) /\ i + 1 \in 1..Len(order)
          BY <1>2, <1>3
        <5>2. k \in Int
          BY <1>2
        <5> QED BY <1>3, <2>1, <3>2, <4>2, <5>1, <5>2
      <4> QED BY <4>1, <4>2
    <3>3. CASE s # Slot(c)
      <4>1. data_'[s] = data_[s]
        BY <1>1, <3>3 DEF TypeOK
      <4>2. ASSUME NEW i \in 1..Len(order), order[i] = s
            PROVE  \E j \in 1..Len(order') : order'[j] = s
        <5>1. i # k
          BY <1>2, <3>3, <4>2
        <5>2. CASE i < k
          <6>1. i \in 1..(Len(order) - 1) /\ order'[i] = order[i]
            BY <1>2, <1>3, <5>2
          <6> QED BY <1>3, <4>2, <6>1
        <5>3. CASE i > k
          <6>1. /\ i - 1 \in 1..(Len(order) - 1) /\ ~(i - 1 < k) /\ (i - 1) + 1 = i
            BY <1>2, <1>3, <5>3
          <6>2. order'[i - 1] = order[i]
            BY <1>3, <6>1
          <6> QED BY <1>3, <4>2, <6>1, <6>2
        <5> QED BY <1>2, <5>1, <5>2, <5>3
      <4>3. ASSUME NEW j \in 1..Len(order'), order'[j] = s
            PROVE  \E i \in 1..Len(order) : order[i] = s
        <5>1. j \in 1..(Len(order) - 1) /\ j \in 1..Len(order) /\ j + 1 \in 1..Len(order)
          BY <1>2, <1>3
        <5> QED BY <1>3, <4>3, <5>1
      <4> QED BY <3>1, <4>1, <4>2, <4>3
    <3> QED BY <3>2, <3>3
  <2> QED BY <1>3, <2>2, <2>3 DEF OrderInv
<1>6. ASSUME Pair, NEW p \in Producer \ away, NEW d \in Consumer \ away
      PROVE  /\ k = 1
             /\ pc'[p] = "store" => index'[p] = head_' - 1
             /\ pc'[d] = "exchange" => index'[d] = tail_' - 1
             /\ Len(order') = Newest(p)' - Oldest(d)'
             /\ \A i \in 1..Len(order') :
                  order'[i] = ((Oldest(d)' + i) - 1) % MaxCapacity
  <2>1. d = c
    BY <1>1, <1>6, PairOf
  <2>2. /\ index[c] = tail_ - 1
        /\ pc[p] = "store" => index[p] = head_ - 1
        /\ Len(order) = Newest(p) - Oldest(c)
        /\ \A i \in 1..Len(order) : order[i] = ((Oldest(c) + i) - 1) % MaxCapacity
    BY <1>1, <1>6 DEF PairInv
  <2>3. /\ Oldest(c) = tail_ - 1 /\ Oldest(c)' = tail_ /\ Newest(p)' = Newest(p)
        /\ tail_ \in Nat /\ Newest(p) \in Int
    BY <1>1, <1>4 DEF Newest, Oldest, TypeOK
  <2>4. k = 1
    <3>1. 1 \in 1..Len(order) /\ (Oldest(c) + 1) - 1 = tail_ - 1
      BY <1>2, <2>3
    <3>2. order[1] = index[c] % MaxCapacity
      BY <2>2, <3>1
    <3> QED BY <1>1, <1>2, <3>1, <3>2 DEF OrderInv, Slot
  <2>5. ASSUME NEW i \in 1..Len(order')
        PROVE  order'[i] = ((Oldest(c)' + i) - 1) % MaxCapacity
    <3>1. /\ i \in 1..(Len(order) - 1) /\ i + 1 \in 1..Len(order)
          /\ (Oldest(c) + (i + 1)) - 1 = (Oldest(c)' + i) - 1
      BY <1>2, <1>3, <2>3
    <3>2. order'[i] = order[i + 1]
      BY <1>3, <2>4, <3>1
    <3>3. order[i + 1] = ((Oldest(c) + (i + 1)) - 1) % MaxCapacity
      BY <2>2, <3>1
    <3> QED BY <3>1, <3>2, <3>3
  <2>6. Len(order') = Newest(p)' - Oldest(c)'
    BY <1>2, <1>3, <2>2, <2>3
  <2> QED BY <1>1, <1>4, <2>1, <2>2, <2>4, <2>5, <2>6
<1>7. PairInv'
  <2>1. Pair' <=> Pair
    BY <1>1 DEF Pair
  <2> QED BY <1>1, <1>6, <2>1 DEF PairInv
<1>8. Pair => k = 1
  <2>1. ASSUME Pair PROVE \E p : p \in Producer \ away
    <3>1. IsFiniteSet(Producer \ away) /\ Cardinality(Producer \ away) = 1
      BY <2>1, ThreadAssumption, FS_Difference DEF Pair
    <3>2. PICK p : Producer \ away = {p}
      BY <3>1, FS_Singleton
    <3> QED BY <3>2
  <2>2. c \in Consumer \ away
    BY <1>1
  <2> QED BY <1>6, <2>1, <2>2
<1> QED BY <1>5, <1>7, <1>8 DEF k

LEMMA StoreStep == ASSUME IInv, StoreInv, [Next]_vars PROVE StoreInv'
<1>1. TypeOK /\ AwayInv /\ OrderInv /\ PairInv
  BY DEF IInv, StoreInv
<1>2. ASSUME NEW p \in Producer, Receive(p) PROVE StoreInv'
  <2>1. AwayInv' /\ away' = away /\ \A r \in Threads \ {p} : pc'[r] = pc[r]
    BY <1>1, <1>2, ProducerMoves
  <2>2. CASE ~Claim(p) /\ ~Store(p)
    <3>1. /\ UNCHANGED <<order, data_, head_, tail_>>
          /\ \/ LoadHead(p) \/ CheckRoom(p) \/ Measure(p) \/ CompareMax(p)
             \/ StoreMax(p)
      BY <1>2, <2>2
      DEF Receive, LoadHead, CheckRoom, Measure, CompareMax, StoreMax
    <3>2. /\ pc[p] # "store" /\ pc'[p] # "store"
          /\ \A q \in Producer \ {p} : index'[q] = index[q]
          /\ \A c \in Consumer : index'[c] = index[c]
      BY <1>1, <3>1, ThreadAssumption
      DEF LoadHead, CheckRoom, Measure, CompareMax, StoreMax, Goto, TypeOK, Threads
    <3>3. p \notin Consumer
      BY ThreadAssumption
    <3> QED BY <1>1, <2>1, <3>1, <3>2, <3>3, NothingStored DEF StoreInv, Threads
  <2> QED
    BY <1>2, <2>1, <2>2, ClaimKeepsTheOrder, StoreKeepsTheOrder DEF StoreInv
<1>3. ASSUME NEW c \in Consumer, GetInputData(c) PROVE StoreInv'
  <2>1. AwayInv' /\ away' = away /\ \A r \in Threads \ {c} : pc'[r] = pc[r]
    BY <1>1, <1>3, ConsumerMoves
  <2>2. CASE LoadTail(c) \/ CheckData(c)
    <3>1. UNCHANGED <<order, data_, head_, tail_>>
      BY <2>2 DEF LoadTail, CheckData
    <3>2. /\ pc[c] # "exchange" /\ pc'[c] # "exchange"
          /\ \A q \in Consumer \ {c} : index'[q] = index[q]
          /\ \A p \in Producer : index'[p] = index[p]
      BY <1>1, <2>2, ThreadAssumption DEF LoadTail, CheckData, Goto, TypeOK, Threads
    <3>3. c \notin Producer
      BY ThreadAssumption
    <3> QED BY <1>1, <2>1, <3>1, <3>2, <3>3, NothingStored DEF StoreInv, Threads
  <2> QED
    BY <1>3, <2>1, <2>2, ClaimDataKeepsTheOrder, ExchangeKeepsTheOrder
    DEF StoreInv, GetInputData
<1>4. ASSUME NEW o \in Observer, NumberElementsReceived(o) PROVE StoreInv'
  BY <1>1, <1>4, ObserverMoves, ObserverStep, NothingStored DEF StoreInv
<1>5. CASE UNCHANGED vars
  BY <1>1, <1>5, NothingStored DEF vars, StoreInv, AwayInv
<1> QED BY <1>2, <1>3, <1>4, <1>5 DEF Next

LEMMA StoreInvariance == Spec => [](IInv /\ StoreInv)
<1>1. IInv /\ StoreInv /\ [Next]_vars => (IInv /\ StoreInv)'
  BY KnowledgeStep, RingStep, StoreStep DEF IInv
<1> QED BY InitHolds, StoreInit, <1>1, PTL DEF Spec

\* What the ring holds, as the receiver sees it.
ValuesOf(d, o) == [i \in DOMAIN o |-> d[o[i]]]
Values == ValuesOf(data_, order)

LEMMA ValuesAre ==
  ASSUME NEW d \in [0..(MaxCapacity - 1) -> Data \cup {NULL}],
         NEW o \in Seq(0..(MaxCapacity - 1)),
         \A i \in 1..Len(o) : d[o[i]] # NULL
  PROVE  /\ ValuesOf(d, o) \in Seq(Data) /\ Len(ValuesOf(d, o)) = Len(o)
         /\ \A i \in 1..Len(o) : ValuesOf(d, o)[i] = d[o[i]]
<1>1. /\ DOMAIN o = 1..Len(o) /\ Len(o) \in Nat
      /\ \A i \in 1..Len(o) : o[i] \in 0..(MaxCapacity - 1)
  BY LenProperties
<1>2. ValuesOf(d, o) \in [1..Len(o) -> Data]
  BY <1>1 DEF ValuesOf
<1>3. ValuesOf(d, o) \in Seq(Data)
  BY <1>1, <1>2
<1>4. Len(ValuesOf(d, o)) = Len(o)
  BY <1>1, <1>2, <1>3
<1> QED BY <1>1, <1>3, <1>4 DEF ValuesOf

LEMMA HeldIsData ==
  ASSUME OrderInv PROVE \A i \in 1..Len(order) : data_[order[i]] # NULL
BY ElementOfSeq DEF OrderInv

\* Distinct slots are not more than the capacity.
LEMMA DistinctSlots ==
  ASSUME NEW n \in Nat, NEW f \in [1..n -> 0..(MaxCapacity - 1)],
         \A i, j \in 1..n : f[i] = f[j] => i = j
  PROVE  n <= MaxCapacity
<1>1. /\ IsFiniteSet(1..n) /\ Cardinality(1..n) = n
      /\ IsFiniteSet(0..(MaxCapacity - 1))
      /\ Cardinality(0..(MaxCapacity - 1)) = MaxCapacity
  BY CapacityAssumption, FS_Interval
<1> QED BY <1>1, CapacityAssumption, FS_PigeonHole

(***************************************************************************)
(* The steps of the ring are steps of a receiver.                           *)
(***************************************************************************)
LEMMA RingInitMaps == Init => Ring!Init
<1> SUFFICES ASSUME Init PROVE Ring!Init
  OBVIOUS
<1>1. Values = <<>>
  BY DEF Init, Values, ValuesOf
<1> QED BY <1>1 DEF Init, Ring!Init, Values, ValuesOf

LEMMA StoreMaps ==
  ASSUME IInv, StoreInv, StoreInv', TypeOK', NEW p \in Producer, Receive(p), Store(p)
  PROVE  Ring!Receive(p)
<1>1. /\ TypeOK /\ OrderInv /\ OfferInv /\ OrderInv' /\ pc[p] = "store"
      /\ data_[Slot(p)] = NULL /\ order' = Append(order, Slot(p))
      /\ data_' = [data_ EXCEPT ![Slot(p)] = Head(offered[p])]
      /\ offered' = [offered EXCEPT ![p] = Tail(@)] /\ got' = got
  BY DEF IInv, StoreInv, Store
<1>2. /\ Slot(p) \in 0..(MaxCapacity - 1) /\ offered[p] # <<>>
      /\ Head(offered[p]) \in Data
      /\ order \in Seq(0..(MaxCapacity - 1)) /\ order' \in Seq(0..(MaxCapacity - 1))
  BY <1>1, SlotType, TailType DEF OrderInv, OfferInv, TypeOK
<1>3. /\ Len(order') = Len(order) + 1 /\ Len(order) \in Nat
      /\ \A i \in 1..Len(order) : order'[i] = order[i]
      /\ order'[Len(order) + 1] = Slot(p)
  BY <1>1, <1>2, AppendProperties
<1>4. /\ Values \in Seq(Data) /\ Len(Values) = Len(order)
      /\ \A i \in 1..Len(order) : Values[i] = data_[order[i]]
  BY <1>1, <1>2, HeldIsData, ValuesAre DEF Values, TypeOK
<1>5. /\ Values' \in Seq(Data) /\ Len(Values') = Len(order')
      /\ \A i \in 1..Len(order') : Values'[i] = data_'[order'[i]]
  <2>1. \A i \in 1..Len(order') : data_'[order'[i]] # NULL
    BY <1>1, <1>2, ElementOfSeq DEF OrderInv
  <2> QED BY <1>2, <2>1, ValuesAre DEF Values, TypeOK
<1>6. Len(Values) < MaxCapacity
  <2>1. /\ order' \in [1..Len(order') -> 0..(MaxCapacity - 1)] /\ Len(order') \in Nat
        /\ \A i, j \in 1..Len(order') : order'[i] = order'[j] => i = j
    BY <1>1, <1>2, <1>3, LenProperties DEF OrderInv
  <2>2. Len(order') <= MaxCapacity
    BY <2>1, DistinctSlots
  <2> QED BY <1>3, <1>4, <2>2, CapacityAssumption
<1>7. Values' = Append(Values, Head(offered[p]))
  <2>1. /\ Append(Values, Head(offered[p])) \in Seq(Data)
        /\ Len(Append(Values, Head(offered[p]))) = Len(order) + 1
        /\ \A i \in 1..Len(order) : Append(Values, Head(offered[p]))[i] = Values[i]
        /\ Append(Values, Head(offered[p]))[Len(order) + 1] = Head(offered[p])
    BY <1>2, <1>4, AppendProperties
  <2>2. ASSUME NEW i \in 1..(Len(order) + 1)
        PROVE  Values'[i] = Append(Values, Head(offered[p]))[i]
    <3>1. CASE i \in 1..Len(order)
      <4>1. order[i] # Slot(p) /\ order[i] \in 0..(MaxCapacity - 1)
        BY <1>1, <1>2, <3>1, ElementOfSeq DEF OrderInv
      <4>2. data_'[order[i]] = data_[order[i]]
        BY <1>1, <4>1 DEF TypeOK
      <4> QED BY <1>3, <1>4, <1>5, <2>1, <3>1, <4>2
    <3>2. CASE i = Len(order) + 1
      <4>1. data_'[Slot(p)] = Head(offered[p])
        BY <1>1, <1>2 DEF TypeOK
      <4> QED BY <1>3, <1>5, <2>1, <3>2, <4>1
    <3>3. i \in 1..Len(order) \/ i = Len(order) + 1
      BY <1>3
    <3> QED BY <3>1, <3>2, <3>3
  <2> QED BY <1>3, <1>4, <1>5, <2>1, <2>2, SeqEqual
<1> QED BY <1>1, <1>2, <1>6, <1>7 DEF Ring!Receive, Values, ValuesOf

LEMMA ExchangeMaps ==
  ASSUME IInv, StoreInv, StoreInv', TypeOK', NEW c \in Consumer, GetInputData(c),
         Exchange(c)
  PROVE  Ring!GetInputData(c)
<1> DEFINE k == Place(Slot(c))
<1>1. /\ TypeOK /\ OrderInv /\ OrderInv' /\ data_[Slot(c)] # NULL
      /\ order' = RemoveAt(order, k) /\ data_' = [data_ EXCEPT ![Slot(c)] = NULL]
      /\ got' = [got EXCEPT ![c] = Append(@, data_[Slot(c)])] /\ offered' = offered
  BY DEF IInv, StoreInv, Exchange
<1>2. /\ Slot(c) \in 0..(MaxCapacity - 1) /\ order \in Seq(0..(MaxCapacity - 1))
      /\ k \in 1..Len(order) /\ order[k] = Slot(c) /\ (Pair => k = 1)
  BY <1>1, SlotType, PlaceIs, ExchangeKeepsTheOrder DEF OrderInv
<1> HIDE DEF k
<1>3. /\ Len(order') = Len(order) - 1
      /\ \A i \in 1..(Len(order) - 1) :
           order'[i] = IF i < k THEN order[i] ELSE order[i + 1]
  BY <1>1, <1>2, RemoveAtIs
<1>4. /\ Values \in Seq(Data) /\ Len(Values) = Len(order) /\ Len(order) \in Nat
      /\ \A i \in 1..Len(order) : Values[i] = data_[order[i]]
  <2>1. \A i \in 1..Len(order) : data_[order[i]] # NULL
    BY <1>1, HeldIsData
  <2>2. Len(order) \in Nat
    BY <1>2, LenProperties
  <2> QED BY <1>1, <1>2, <2>1, <2>2, ValuesAre DEF Values, TypeOK
<1>5. /\ Values' \in Seq(Data) /\ Len(Values') = Len(order')
      /\ \A i \in 1..Len(order') :
           /\ Values'[i] = data_'[order'[i]]
           /\ order'[i] \in 0..(MaxCapacity - 1)
  <2>1. /\ order' \in Seq(0..(MaxCapacity - 1))
        /\ \A i \in 1..Len(order') : data_'[order'[i]] # NULL
    BY <1>1, ElementOfSeq DEF OrderInv
  <2> QED BY <2>1, ValuesAre, ElementOfSeq DEF Values, TypeOK
<1>6. /\ RemoveAt(Values, k) \in Seq(Data) /\ Len(RemoveAt(Values, k)) = Len(order) - 1
      /\ \A i \in 1..(Len(order) - 1) :
           RemoveAt(Values, k)[i] = IF i < k THEN Values[i] ELSE Values[i + 1]
  BY <1>2, <1>4, RemoveAtIs
<1>7. ASSUME NEW i \in 1..(Len(order) - 1) PROVE Values'[i] = RemoveAt(Values, k)[i]
  <2>1. /\ i \in 1..Len(order) /\ i + 1 \in 1..Len(order) /\ k \in Int /\ i \in Int
        /\ order'[i] \in 0..(MaxCapacity - 1)
    BY <1>2, <1>3, <1>4, <1>5
  <2>2. order'[i] # Slot(c)
    BY <1>1, <1>2, <1>3, <2>1 DEF OrderInv
  <2>3. data_'[order'[i]] = data_[order'[i]]
    BY <1>1, <2>1, <2>2 DEF TypeOK
  <2> QED BY <1>3, <1>4, <1>5, <1>6, <2>1, <2>3
<1>8. Values' = RemoveAt(Values, k)
  BY <1>3, <1>4, <1>5, <1>6, <1>7, SeqEqual
<1>9. Values' = Ring!RemoveAt(Values, k)
  BY <1>8 DEF RemoveAt, Ring!RemoveAt
<1>10. k \in 1..Len(Values) /\ Values[k] = data_[Slot(c)]
  BY <1>2, <1>4
<1> QED BY <1>1, <1>2, <1>9, <1>10 DEF Ring!GetInputData, Values, ValuesOf, Pair

LEMMA RingNext ==
  ASSUME IInv, StoreInv, IInv', StoreInv', [Next]_vars
  PROVE  [Ring!Next]_(Ring!vars)
<1>1. ASSUME NEW p \in Producer, Receive(p) PROVE [Ring!Next]_(Ring!vars)
  <2>1. CASE Store(p)
    BY <1>1, <2>1, StoreMaps DEF IInv, Ring!Next
  <2>2. CASE ~Store(p)
    BY <1>1, <2>2
    DEF Receive, LoadHead, CheckRoom, Claim, Measure, CompareMax, StoreMax, Ring!vars
  <2> QED BY <2>1, <2>2
<1>2. ASSUME NEW c \in Consumer, GetInputData(c) PROVE [Ring!Next]_(Ring!vars)
  <2>1. CASE Exchange(c)
    BY <1>2, <2>1, ExchangeMaps DEF IInv, Ring!Next
  <2>2. CASE ~Exchange(c)
    BY <1>2, <2>2 DEF GetInputData, LoadTail, CheckData, ClaimData, Ring!vars
  <2> QED BY <2>1, <2>2
<1>3. ASSUME NEW o \in Observer, NumberElementsReceived(o)
      PROVE  [Ring!Next]_(Ring!vars)
  <2>1. TypeOK /\ AwayInv
    BY DEF IInv, StoreInv
  <2>2. UNCHANGED <<offered, got, order, data_>>
    BY <1>3, <2>1, ObserverMoves, ObserverStep
  <2> QED BY <2>2 DEF Ring!vars
<1>4. CASE UNCHANGED vars
  BY <1>4 DEF vars, Ring!vars
<1> QED BY <1>1, <1>2, <1>3, <1>4 DEF Next

\* LimitedAtomicQueueReceiver::receive and getInputData: whatever the threads that
\* wait for one slot do, every value is taken by one consumer, no more than the
\* capacity is held, and with one thread on either side the values leave in the
\* order in which they came.
THEOREM RingIsAReceiver == Spec => ImplementsReceiver
BY RingInitMaps, RingNext, StoreInvariance, PTL DEF Spec, ImplementsReceiver, Ring!Spec
===============================================================================
