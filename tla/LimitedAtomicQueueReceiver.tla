----------------------- MODULE LimitedAtomicQueueReceiver ----------------------
(***************************************************************************)
(* LimitedAtomicQueueReceiver: a ring of MaxCapacity atomic pointers with a  *)
(* head and a tail index.  A thread first claims an index with a             *)
(* compare-and-exchange and then exchanges the pointer of that index, for    *)
(* which it waits until the slot is empty, or full.  Atomic accesses are     *)
(* interleaved one at a time.                                                *)
(***************************************************************************)
EXTENDS Integers, SequencesExt

CONSTANTS
  Producer, Consumer,  \* as in module Receiver
  Observer,            \* threads that ask whether the queue is empty
  Data,                \* what can be received: receive asserts that it is not nullptr
  Starts,              \* what the producers may add, and who takes no part then
  MaxCapacity,
  NULL                 \* no data

Threads == Producer \cup Consumer \cup Observer

ASSUME CapacityAssumption == MaxCapacity \in Nat \ {0}

ASSUME ThreadAssumption ==
  /\ IsFiniteSet(Producer) /\ IsFiniteSet(Consumer)
  /\ Producer \cap Consumer = {} /\ (Producer \cup Consumer) \cap Observer = {}

ASSUME StartsAssumption ==
  /\ NULL \notin Data
  /\ Starts \subseteq [offer : [Producer -> Seq(Data)], away : SUBSET Threads]
  /\ \A s \in Starts : \A p \in Producer \cap s.away : s.offer[p] = <<>>

VARIABLES
  pc,            \* what each thread does next
  offered, got,  \* as in module Receiver
  away,          \* the threads that take no part; they have nothing to add
  index,         \* the local head of receive, the local tail of getInputData
  prevSize,      \* the size receive computes
  h, t,          \* the first loads of numberElementsReceived
  head_, tail_, maxSize_, data_,
  order,         \* auxiliary: the slots that hold a value, oldest store first
  emptyAtLoad    \* auxiliary: was the queue empty when head_ was loaded again

observed == <<h, t, emptyAtLoad>>
vars == <<pc, offered, got, away, index, prevSize, observed, head_, tail_,
          maxSize_, data_, order>>

Init ==
  /\ pc = [r \in Threads |-> "idle"]
  /\ \E s \in Starts : offered = s.offer /\ away = s.away
  /\ got = [c \in Consumer |-> <<>>]
  /\ index = [r \in Producer \cup Consumer |-> 0]
  /\ prevSize = [p \in Producer |-> 0]
  /\ h = [o \in Observer |-> 0]
  /\ t = [o \in Observer |-> 0]
  /\ emptyAtLoad = [o \in Observer |-> FALSE]
  /\ head_ = 0
  /\ tail_ = 0
  /\ maxSize_ = 0
  /\ data_ = [s \in 0..(MaxCapacity - 1) |-> NULL]
  /\ order = <<>>

Goto(r, l) == pc' = [pc EXCEPT ![r] = l]

\* The slot of the ring that a thread's index designates.
Slot(r) == index[r] % MaxCapacity
-----------------------------------------------------------------------------
(* receive.                                                                  *)

LoadHead(p) ==
  /\ pc[p] = "idle"
  /\ offered[p] # <<>>
  /\ index' = [index EXCEPT ![p] = head_]
  /\ Goto(p, "checkRoom")
  /\ UNCHANGED <<offered, got, prevSize, observed, head_, tail_, maxSize_,
                 data_, order>>

\* Mutant of CheckRoom: one value too many is let in.
CheckRoomLate(p) ==
  /\ pc[p] = "checkRoom"
  /\ Goto(p, IF index[p] - tail_ > MaxCapacity THEN "idle" ELSE "claim")
  /\ UNCHANGED <<offered, got, index, prevSize, observed, head_, tail_,
                 maxSize_, data_, order>>

\* A full queue refuses the value; the sender will call receive again.
CheckRoom(p) ==
  /\ pc[p] = "checkRoom"
  /\ Goto(p, IF index[p] - tail_ >= MaxCapacity THEN "idle" ELSE "claim")
  /\ UNCHANGED <<offered, got, index, prevSize, observed, head_, tail_,
                 maxSize_, data_, order>>

\* The compare-and-exchange of head_, which reloads the index when it fails.
Claim(p) ==
  /\ pc[p] = "claim"
  /\ IF head_ = index[p]
       THEN head_' = head_ + 1 /\ Goto(p, "store") /\ UNCHANGED index
       ELSE /\ index' = [index EXCEPT ![p] = head_]
            /\ Goto(p, "checkRoom")
            /\ UNCHANGED head_
  /\ UNCHANGED <<offered, got, prevSize, observed, tail_, maxSize_, data_,
                 order>>

\* The compare-and-exchange of the pointer, retried until the slot is empty.
Store(p) ==
  /\ pc[p] = "store"
  /\ data_[Slot(p)] = NULL
  /\ data_' = [data_ EXCEPT ![Slot(p)] = Head(offered[p])]
  /\ offered' = [offered EXCEPT ![p] = Tail(@)]
  /\ order' = Append(order, Slot(p))
  /\ Goto(p, "measure")
  /\ UNCHANGED <<got, index, prevSize, observed, head_, tail_, maxSize_>>

\* The size before this value, less what was taken out in the meantime.
Measure(p) ==
  /\ pc[p] = "measure"
  /\ prevSize' = [prevSize EXCEPT ![p] = IF index[p] > tail_
                                         THEN index[p] - tail_ ELSE 0]
  /\ Goto(p, IF index[p] > tail_ THEN "compareMax" ELSE "idle")
  /\ UNCHANGED <<offered, got, index, observed, head_, tail_, maxSize_, data_,
                 order>>

CompareMax(p) ==
  /\ pc[p] = "compareMax"
  /\ Goto(p, IF prevSize[p] > maxSize_ THEN "storeMax" ELSE "idle")
  /\ UNCHANGED <<offered, got, index, prevSize, observed, head_, tail_,
                 maxSize_, data_, order>>

StoreMax(p) ==
  /\ pc[p] = "storeMax"
  /\ maxSize_' = prevSize[p]
  /\ Goto(p, "idle")
  /\ UNCHANGED <<offered, got, index, prevSize, observed, head_, tail_, data_,
                 order>>
-----------------------------------------------------------------------------
(* getInputData.                                                             *)

LoadTail(c) ==
  /\ pc[c] = "idle" /\ c \notin away
  /\ index' = [index EXCEPT ![c] = tail_]
  /\ Goto(c, "checkData")
  /\ UNCHANGED <<offered, got, prevSize, observed, head_, tail_, maxSize_,
                 data_, order>>

CheckData(c) ==
  /\ pc[c] = "checkData"
  /\ Goto(c, IF head_ - index[c] <= 0 THEN "idle" ELSE "claimData")
  /\ UNCHANGED <<offered, got, index, prevSize, observed, head_, tail_,
                 maxSize_, data_, order>>

ClaimData(c) ==
  /\ pc[c] = "claimData"
  /\ IF tail_ = index[c]
       THEN tail_' = tail_ + 1 /\ Goto(c, "exchange") /\ UNCHANGED index
       ELSE /\ index' = [index EXCEPT ![c] = tail_]
            /\ Goto(c, "checkData")
            /\ UNCHANGED tail_
  /\ UNCHANGED <<offered, got, prevSize, observed, head_, maxSize_, data_,
                 order>>

\* Mutant of Exchange: the pointer is read and left in the ring.
ExchangeLoad(c) ==
  /\ pc[c] = "exchange"
  /\ data_[Slot(c)] # NULL
  /\ got' = [got EXCEPT ![c] = Append(@, data_[Slot(c)])]
  /\ Goto(c, "idle")
  /\ UNCHANGED <<offered, index, prevSize, observed, head_, tail_, maxSize_,
                 data_, order>>

\* Where a slot comes in the order of the stores.
Place(s) == CHOOSE i \in DOMAIN order : order[i] = s

\* The exchange of the pointer with nullptr, retried until it returns data.
Exchange(c) ==
  /\ pc[c] = "exchange"
  /\ data_[Slot(c)] # NULL
  /\ got' = [got EXCEPT ![c] = Append(@, data_[Slot(c)])]
  /\ data_' = [data_ EXCEPT ![Slot(c)] = NULL]
  /\ order' = RemoveAt(order, Place(Slot(c)))
  /\ Goto(c, "idle")
  /\ UNCHANGED <<offered, index, prevSize, observed, head_, tail_, maxSize_>>
-----------------------------------------------------------------------------
(* numberElementsReceived, on which empty relies.                            *)

FirstHead(o) ==
  /\ pc[o] = "idle" /\ o \notin away
  /\ h' = [h EXCEPT ![o] = head_]
  /\ Goto(o, "firstTail")
  /\ UNCHANGED <<offered, got, index, prevSize, t, emptyAtLoad, head_, tail_,
                 maxSize_, data_, order>>

\* Two equal loads are not believed before they have been repeated.
FirstTail(o) ==
  /\ pc[o] = "firstTail"
  /\ t' = [t EXCEPT ![o] = tail_]
  /\ Goto(o, IF h[o] = tail_ THEN "secondHead" ELSE "idle")
  /\ UNCHANGED <<offered, got, index, prevSize, h, emptyAtLoad, head_, tail_,
                 maxSize_, data_, order>>

\* Mutant of SecondHead: the head is not compared with the first load.
SecondHeadIgnored(o) ==
  /\ pc[o] = "secondHead"
  /\ emptyAtLoad' = [emptyAtLoad EXCEPT ![o] = (head_ = tail_)]
  /\ Goto(o, "secondTail")
  /\ UNCHANGED <<offered, got, index, prevSize, h, t, head_, tail_, maxSize_,
                 data_, order>>

SecondHead(o) ==
  /\ pc[o] = "secondHead"
  /\ emptyAtLoad' = [emptyAtLoad EXCEPT ![o] = (head_ = tail_)]
  /\ Goto(o, IF head_ = h[o] THEN "secondTail" ELSE "idle")
  /\ UNCHANGED <<offered, got, index, prevSize, h, t, head_, tail_, maxSize_,
                 data_, order>>

\* The answer is zero exactly if the tail is still the same.
AnswersEmpty(o) == pc[o] = "secondTail" /\ tail_ = t[o]

SecondTail(o) ==
  /\ pc[o] = "secondTail"
  /\ Goto(o, "idle")
  /\ UNCHANGED <<offered, got, index, prevSize, observed, head_, tail_,
                 maxSize_, data_, order>>
-----------------------------------------------------------------------------
Receive(p) ==
  /\ \/ LoadHead(p) \/ CheckRoom(p) \/ Claim(p) \/ Store(p) \/ Measure(p)
     \/ CompareMax(p) \/ StoreMax(p)
  /\ UNCHANGED away

GetInputData(c) ==
  /\ LoadTail(c) \/ CheckData(c) \/ ClaimData(c) \/ Exchange(c)
  /\ UNCHANGED away

NumberElementsReceived(o) ==
  /\ FirstHead(o) \/ FirstTail(o) \/ SecondHead(o) \/ SecondTail(o)
  /\ UNCHANGED away

Next ==
  \/ \E p \in Producer : Receive(p)
  \/ \E c \in Consumer : GetInputData(c)
  \/ \E o \in Observer : NumberElementsReceived(o)

Spec == Init /\ [][Next]_vars

\* Every thread that can run is scheduled.
FairSpec ==
  /\ Spec
  /\ \A p \in Producer : WF_vars(Receive(p))
  /\ \A c \in Consumer : WF_vars(GetInputData(c))
-----------------------------------------------------------------------------
(* Properties.                                                               *)

\* Without an order between threads that wait for the same slot, the ring is
\* still a receiver of its capacity that loses and duplicates nothing; with one
\* thread on either side it is first-in first-out.
Ring == INSTANCE Receiver WITH
  Capacity <- MaxCapacity,
  Offers <- {s.offer : s \in Starts},
  fifo <- Cardinality(Producer \ away) = 1 /\ Cardinality(Consumer \ away) = 1,
  queue <- [i \in DOMAIN order |-> data_[order[i]]]

ImplementsReceiver == Ring!Spec

Storing(s) == {p \in Producer : pc[p] = "store" /\ Slot(p) = s}
Taking(s)  == {c \in Consumer : pc[c] = "exchange" /\ Slot(c) = s}

\* However many threads wait for a slot, the values stored or on their way
\* exceed the threads on their way to take one by none or one, so that each of
\* them is served and none waits for another that waits for it.
NoSlotOverrun ==
  \A s \in DOMAIN data_ :
    Cardinality(Storing(s)) + (IF data_[s] = NULL THEN 0 ELSE 1)
      - Cardinality(Taking(s)) \in {0, 1}

\* empty() answers true only if the queue was empty at one instant during the
\* call, namely when head_ was loaded for the second time.
EmptyIsReliable == \A o \in Observer : AnswersEmpty(o) => emptyAtLoad[o]

\* Everything offered is taken out: nobody spins on a slot for ever.
EverythingTaken ==
  <>[](/\ \A p \in Producer : offered[p] = <<>> /\ pc[p] = "idle"
       /\ order = <<>>)
=============================================================================
