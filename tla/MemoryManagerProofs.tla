-------------------------- MODULE MemoryManagerProofs --------------------------
(***************************************************************************)
(* A memory manager keeps what ManagedPool promises, and its pool never     *)
(* overflows: proofs for every number of threads, pieces of memory, uses    *)
(* and calls.                                                               *)
(***************************************************************************)
EXTENDS MemoryManager, FiniteSetTheorems, SequenceTheorems, TLAPS

GetterPC ==
  {"initialize", "initialized", "fill", "get", "wait", "woken", "use", "done"}
ReturnerPC ==
  {"idle", "lock", "postProcess", "canBeRecycled", "pushBack", "notifyOne",
   "unlock", "thrown"}

Threads == Getter \cup Returner

TypeOK ==
  /\ pc \in [Threads -> GetterPC \cup ReturnerPC]
  /\ \A t \in Getter : pc[t] \in GetterPC
  /\ \A r \in Returner : pc[r] \in ReturnerPC
  /\ pool \in Seq(Data \cup {NULL})
  /\ initialized_ \in BOOLEAN
  /\ filled \in [Getter -> 0..Capacity]
  /\ memory \in [Threads -> Data \cup {NULL}]
  /\ count \in [Data -> Nat] /\ due \in [Data -> Nat]

(***************************************************************************)
(* The inductive invariant.                                                 *)
(***************************************************************************)

\* memoryManagerMutex_ excludes the thread that fills the pool and the one that
\* recycles.
Recycling == {"postProcess", "canBeRecycled", "pushBack", "notifyOne", "unlock"}

MutexInv ==
  /\ \A t \in Getter : pc[t] \in {"fill", "initialized"} => memoryManagerMutex_ = t
  /\ \A r \in Returner : pc[r] \in Recycling => memoryManagerMutex_ = r

\* No piece is in the pool twice.
Distinct ==
  \A i, j \in 1..Len(pool) : pool[i] = pool[j] /\ pool[i] # NULL => i = j

\* Nothing is obtained or given back before the pool is filled: every thread of
\* the group waits for the mutex of the one that fills it, in order.
FillInv ==
  ~Filled =>
    /\ Len(pool) = Capacity
    /\ \A t \in Getter : pc[t] \in {"initialize", "fill"}
    /\ \A r \in Returner : pc[r] = "idle"
    /\ \A d \in Data : count[d] = 0 /\ due[d] = 0
    /\ ~initialized_ => \A t \in Getter : pc[t] = "initialize" /\ filled[t] = 0
    /\ ~initialized_ => \A i \in 1..Capacity : pool[i] = NULL
    /\ \A t \in Getter : pc[t] = "fill" =>
         \A i \in 1..Capacity : pool[i] = NULL <=> i > filled[t]

FilledInv == Filled => \A i \in 1..Len(pool) : pool[i] # NULL

\* Only a thread that fills the pool has begun to.
StartInv == \A t \in Getter : pc[t] = "initialize" => filled[t] = 0

In(d)      == \E i \in 1..Len(pool) : pool[i] = d
HeldBy(d)  == {t \in Getter : pc[t] = "use" /\ memory[t] = d}
Pending(d) == {r \in Returner : pc[r] \in {"lock", "postProcess"} /\ memory[r] = d}

\* A piece has one user, whose returns it counts; it is in the pool only if
\* nobody has it and no return is due or under way.
UseInv ==
  /\ \A t \in Getter : pc[t] = "use" =>
       /\ memory[t] \in Data /\ ~In(memory[t]) /\ count[memory[t]] = 0
       /\ HeldBy(memory[t]) = {t}
  /\ \A d \in Data : count[d] = due[d] + Cardinality(Pending(d))
  /\ \A d \in Data : count[d] > 0 => ~In(d) /\ HeldBy(d) = {}

\* Whoever has counted the last return, and only it, puts the piece back.
RecycleInv ==
  \A r \in Returner :
    /\ pc[r] \in {"lock"} \cup Recycling => memory[r] \in Data
    /\ \/ pc[r] = "canBeRecycled" /\ count[memory[r]] = 0
       \/ pc[r] = "pushBack"
       => /\ count[memory[r]] = 0 /\ ~In(memory[r]) /\ HeldBy(memory[r]) = {}

NoOverflow == poolMutex_ = NoThread /\ \A r \in Returner : pc[r] # "thrown"

IInv ==
  /\ TypeOK /\ MutexInv /\ Distinct /\ FillInv /\ FilledInv /\ StartInv /\ UseInv
  /\ RecycleInv /\ NoOverflow

(***************************************************************************)
(* Facts about the pool.                                                    *)
(***************************************************************************)

\* Where no piece occurs twice, counting occurrences is asking for one.
LEMMA OneOccurrence ==
  ASSUME NEW q \in Seq(Data \cup {NULL}), NEW d \in Data,
         \A i, j \in 1..Len(q) : q[i] = q[j] /\ q[i] # NULL => i = j
  PROVE  LET occurs == {i \in 1..Len(q) : q[i] = d} IN
         Cardinality(occurs) = IF \E i \in 1..Len(q) : q[i] = d THEN 1 ELSE 0
<1> DEFINE occurs == {i \in 1..Len(q) : q[i] = d}
<1>1. CASE \E i \in 1..Len(q) : q[i] = d
  <2>1. PICK i \in 1..Len(q) : q[i] = d
    BY <1>1
  <2>2. occurs = {i}
    BY <2>1, MemoryAssumption
  <2> QED BY <1>1, <2>2, FS_Singleton
<1>2. CASE ~ \E i \in 1..Len(q) : q[i] = d
  <2>1. occurs = {}
    BY <1>2
  <2> QED BY <1>2, <2>1, FS_EmptySet
<1> QED BY <1>1, <1>2

LEMMA InPoolIs ==
  ASSUME pool \in Seq(Data \cup {NULL}), Distinct, NEW d \in Data
  PROVE  InPool(d) = IF In(d) THEN 1 ELSE 0
BY OneOccurrence DEF InPool, In, Distinct

LEMMA InPoolNext ==
  ASSUME pool' \in Seq(Data \cup {NULL}), Distinct', NEW d \in Data
  PROVE  InPool(d)' = IF In(d)' THEN 1 ELSE 0
BY OneOccurrence DEF InPool, In, Distinct

LEMMA CapacityType == Capacity \in Nat /\ IsFiniteSet(Data)
BY MemoryAssumption, FS_CardinalityType DEF Capacity

\* Distinct pieces are not more than there are, and as many as there are leave
\* none out.
LEMMA DistinctPieces ==
  ASSUME NEW n \in Nat, NEW f \in [1..n -> Data],
         \A i, j \in 1..n : f[i] = f[j] => i = j
  PROVE  /\ n <= Capacity
         /\ n = Capacity => \A d \in Data : \E i \in 1..n : f[i] = d
<1> DEFINE T == {f[i] : i \in 1..n}
<1>1. T \subseteq Data
  OBVIOUS
<1>2. IsFiniteSet(T) /\ Cardinality(T) <= Capacity
      /\ (Cardinality(T) = Capacity => T = Data)
  BY <1>1, MemoryAssumption, FS_Subset DEF Capacity
<1>3. f \in Bijection(1..n, T)
  BY DEF Bijection, Injection, Surjection, IsInjective
<1>4. IsFiniteSet(1..n) /\ Cardinality(1..n) = n
  BY FS_Interval
<1>5. Cardinality(T) = n
  BY <1>3, <1>4, FS_Bijection DEF ExistsBijection
<1> QED BY <1>2, <1>5

(***************************************************************************)
(* Types and control.                                                       *)
(***************************************************************************)
LEMMA SidesDiffer ==
  /\ \A t \in Getter : t \in Threads /\ t # NoThread
  /\ \A r \in Returner : r \in Threads /\ r # NoThread
  /\ \A t \in Getter, r \in Returner : t # r
BY MemoryAssumption DEF Threads

LEMMA Move ==
  ASSUME TypeOK, NEW u \in Threads, NEW l, Goto(u, l)
  PROVE  pc'[u] = l /\ \A v \in Threads \ {u} : pc'[v] = pc[v]
BY DEF TypeOK, Goto

\* A thread other than the one that is being filled for moves only once the pool
\* is filled, and then the pool stays filled.
LEMMA FilledStays ==
  ASSUME IInv, Filled, [Next]_vars PROVE Filled'
<1> USE SidesDiffer DEF IInv, TypeOK, Filled, Goto, Threads
<1>1. ASSUME NEW t \in Getter, Initialize(t) \/ GetManagedMemory(t) \/ SpuriousWakeUp(t)
      PROVE  Filled'
  <2>1. CASE LockToInitialize(t)
    BY <2>1 DEF LockToInitialize
  <2>2. CASE Fill(t) \/ EndInitialize(t)
    BY <2>2 DEF Fill, EndInitialize
  <2>3. CASE PopFront(t)
    BY <2>3 DEF PopFront
  <2>4. CASE Use(t) \/ SpuriousWakeUp(t)
    BY <2>4 DEF Use, SpuriousWakeUp
  <2> QED BY <1>1, <2>1, <2>2, <2>3, <2>4 DEF Initialize, GetManagedMemory
<1>2. ASSUME NEW r \in Returner, ReturnToMemoryManager(r) \/ RecycleMemory(r)
      PROVE  Filled'
  <2>1. CASE ReturnToMemoryManager(r) \/ LockManager(r) \/ PostProcess(r)
    BY <2>1 DEF ReturnToMemoryManager, LockManager, PostProcess
  <2>2. CASE CanBeRecycled(r) \/ UnlockManager(r)
    BY <2>2 DEF CanBeRecycled, UnlockManager
  <2>3. CASE PushBack(r)
    BY <2>3 DEF PushBack
  <2>4. CASE NotifyOne(r)
    BY <2>4 DEF NotifyOne, Waiting
  <2> QED BY <1>2, <2>1, <2>2, <2>3, <2>4 DEF RecycleMemory
<1>3. CASE UNCHANGED vars
  BY <1>3 DEF vars
<1> QED BY <1>1, <1>2, <1>3 DEF Next, Finished

\* The steps that move no piece and count nothing.
LEMMA UseKept ==
  ASSUME UseInv, UNCHANGED <<pool, count, due>>,
         \A t \in Getter :
           /\ pc'[t] = "use" <=> pc[t] = "use"
           /\ pc[t] = "use" => memory'[t] = memory[t],
         \A r \in Returner :
           /\ pc'[r] \in {"lock", "postProcess"} <=> pc[r] \in {"lock", "postProcess"}
           /\ pc[r] \in {"lock", "postProcess"} => memory'[r] = memory[r]
  PROVE  UseInv' /\ \A d : In(d)' = In(d) /\ HeldBy(d)' = HeldBy(d)
<1>1. \A d : In(d)' = In(d) /\ HeldBy(d)' = HeldBy(d) /\ Pending(d)' = Pending(d)
  BY DEF In, HeldBy, Pending
<1> QED BY <1>1 DEF UseInv

LEMMA InitHolds == Init => IInv
<1> SUFFICES ASSUME Init PROVE IInv
  OBVIOUS
<1> USE MemoryAssumption, CapacityType, SidesDiffer
<1>1. pool \in Seq(Data \cup {NULL}) /\ Len(pool) = Capacity
      /\ \A i \in 1..Capacity : pool[i] = NULL
  BY DEF Init
<1>2. TypeOK
  <2>1. /\ pc \in [Threads -> {"initialize", "idle"}]
        /\ \A t \in Getter : pc[t] = "initialize"
        /\ \A r \in Returner : pc[r] = "idle"
    BY DEF Init, Threads
  <2>2. pc \in [Threads -> GetterPC \cup ReturnerPC]
    BY <2>1 DEF GetterPC, ReturnerPC
  <2>3. initialized_ \in BOOLEAN /\ memory \in [Threads -> Data \cup {NULL}]
    BY DEF Init, Threads
  <2>4. count \in [Data -> Nat] /\ due \in [Data -> Nat]
    BY DEF Init
  <2>5. filled \in [Getter -> 0..Capacity]
    <3>1. 0 \in 0..Capacity
      BY CapacityType
    <3> QED BY <3>1 DEF Init
  <2> QED BY <1>1, <2>1, <2>2, <2>3, <2>4, <2>5 DEF TypeOK, GetterPC, ReturnerPC
<1>3. MutexInv /\ Distinct /\ StartInv /\ NoOverflow /\ RecycleInv
  <2>1. Distinct
    BY <1>1 DEF Distinct
  <2>2. /\ \A t \in Getter : pc[t] = "initialize" /\ filled[t] = 0
        /\ \A r \in Returner : pc[r] = "idle"
        /\ poolMutex_ = NoThread
    BY DEF Init, Threads
  <2> QED BY <2>1, <2>2 DEF MutexInv, StartInv, NoOverflow, RecycleInv, Recycling
<1>4. FillInv /\ FilledInv
  BY <1>1 DEF Init, FillInv, FilledInv, Filled
<1>5. UseInv
  <2>1. \A d : Pending(d) = {} /\ HeldBy(d) = {}
    BY DEF Init, Pending, HeldBy
  <2>2. \A t \in Getter : pc[t] # "use"
    BY DEF Init
  <2>3. \A d \in Data : count[d] = 0 /\ due[d] = 0
    BY DEF Init
  <2> QED BY <2>1, <2>2, <2>3, FS_EmptySet DEF UseInv
<1> QED BY <1>2, <1>3, <1>4, <1>5 DEF IInv

\* Whoever obtains memory, or gives it back, finds the pool filled.
LEMMA ActiveIsFilled ==
  ASSUME IInv
  PROVE  /\ \A t \in Getter : pc[t] \notin {"initialize", "fill"} => Filled
         /\ \A r \in Returner : pc[r] # "idle" => Filled
         /\ \A d \in Data : due[d] > 0 => Filled
BY DEF IInv, FillInv

\* The control of the steps, by who takes them.
Control ==
  /\ pc' \in [Threads -> GetterPC \cup ReturnerPC]
  /\ \A t \in Getter : pc'[t] \in GetterPC
  /\ \A r \in Returner : pc'[r] \in ReturnerPC

LEMMA ControlOfMove ==
  ASSUME TypeOK, NEW u \in Threads, NEW l, Goto(u, l),
         u \in Getter => l \in GetterPC, u \in Returner => l \in ReturnerPC
  PROVE  Control
BY DEF TypeOK, Goto, Control, Threads

(***************************************************************************)
(* initialize.                                                              *)
(***************************************************************************)
LEMMA LockToInitializeStep ==
  ASSUME IInv, NEW t \in Getter, LockToInitialize(t) PROVE IInv'
<1>1. /\ TypeOK /\ MutexInv /\ Distinct /\ FillInv /\ FilledInv /\ StartInv
      /\ UseInv /\ RecycleInv /\ NoOverflow
  BY DEF IInv
<1>2. /\ pc[t] = "initialize" /\ memoryManagerMutex_ = NoThread
      /\ memoryManagerMutex_' = t /\ initialized_'
      /\ UNCHANGED <<pool, poolMutex_, filled, memory, count, due>>
  BY DEF LockToInitialize
<1>3. PICK l \in {"initialized", "fill"} : /\ Goto(t, l)
                                           /\ l = "initialized" => initialized_
                                           /\ l = "fill" => ~initialized_
  BY Zenon DEF LockToInitialize
<1>4. /\ pc'[t] = l
      /\ \A u \in Getter : u # t => pc'[u] = pc[u]
      /\ \A r \in Returner : pc'[r] = pc[r]
  BY <1>1, <1>3, Move, SidesDiffer
<1>5. Control
  BY <1>1, <1>3, SidesDiffer, ControlOfMove DEF GetterPC, ReturnerPC, Threads
<1>6. TypeOK'
  BY <1>1, <1>2, <1>5 DEF TypeOK, Control
<1>7. MutexInv'
  BY <1>1, <1>2, <1>4, SidesDiffer DEF MutexInv
<1>8. Distinct' /\ StartInv' /\ NoOverflow'
  BY <1>1, <1>2, <1>3, <1>4 DEF Distinct, StartInv, NoOverflow
<1>9. UseInv' /\ \A d : In(d)' = In(d) /\ HeldBy(d)' = HeldBy(d)
  BY <1>1, <1>2, <1>3, <1>4, UseKept
<1>10. RecycleInv'
  BY <1>1, <1>2, <1>4, <1>9 DEF RecycleInv
<1>11. FillInv' /\ FilledInv'
  <2>1. CASE initialized_
    <3>1. Filled
      BY <1>1, <1>2, <2>1, SidesDiffer DEF Filled, MutexInv
    <3>2. Filled'
      BY <1>2, <1>3, <1>4, <2>1, <3>1 DEF Filled
    <3> QED BY <1>1, <1>2, <3>1, <3>2 DEF FillInv, FilledInv
  <2>2. CASE ~initialized_
    <3>1. ~Filled
      BY <2>2 DEF Filled
    <3>2. /\ \A u \in Getter : pc[u] = "initialize" /\ filled[u] = 0
          /\ \A i \in 1..Capacity : pool[i] = NULL
          /\ Len(pool) = Capacity
          /\ \A r \in Returner : pc[r] = "idle"
          /\ \A d \in Data : count[d] = 0 /\ due[d] = 0
      BY <1>1, <2>2, <3>1 DEF FillInv
    <3>3. \A i \in 1..Capacity : i > 0
      BY CapacityType
    <3>4. /\ \A u \in Getter : pc'[u] = "fill" => u = t
          /\ \A u \in Getter : pc'[u] \in {"initialize", "fill"}
          /\ \A r \in Returner : pc'[r] = "idle"
      BY <1>3, <1>4, <2>2, <3>2
    <3>5. ~Filled'
      BY <1>3, <1>4, <2>2 DEF Filled
    <3> QED BY <1>2, <3>2, <3>3, <3>4, <3>5 DEF FillInv, FilledInv
  <2> QED BY <2>1, <2>2
<1> QED BY <1>6, <1>7, <1>8, <1>9, <1>10, <1>11 DEF IInv

LEMMA FillStep ==
  ASSUME IInv, NEW t \in Getter, Fill(t) PROVE IInv'
<1>1. /\ TypeOK /\ MutexInv /\ Distinct /\ FillInv /\ FilledInv /\ StartInv
      /\ UseInv /\ RecycleInv /\ NoOverflow
  BY DEF IInv
<1>2. PICK d \in Data : InPool(d) = 0 /\ pool' = [pool EXCEPT ![filled[t] + 1] = d]
  BY DEF Fill
<1>3. /\ pc[t] = "fill" /\ filled[t] < Capacity /\ filled[t] \in Nat
      /\ filled' = [filled EXCEPT ![t] = @ + 1]
      /\ UNCHANGED <<pc, initialized_, memoryManagerMutex_, poolMutex_, memory,
                     count, due>>
  BY <1>1, CapacityType DEF Fill, TypeOK
<1>4. ~Filled
  BY <1>3 DEF Filled
<1>5. /\ Len(pool) = Capacity /\ initialized_
      /\ \A u \in Getter : pc[u] \in {"initialize", "fill"}
      /\ \A r \in Returner : pc[r] = "idle"
      /\ \A e \in Data : count[e] = 0 /\ due[e] = 0
      /\ \A i \in 1..Capacity : pool[i] = NULL <=> i > filled[t]
  BY <1>1, <1>3, <1>4 DEF FillInv, TypeOK
<1>6. ~In(d)
  BY <1>1, <1>2, InPoolIs DEF TypeOK
<1>7. /\ pool' \in Seq(Data \cup {NULL}) /\ Len(pool') = Capacity
      /\ pool'[filled[t] + 1] = d
      /\ \A i \in 1..Capacity : i # filled[t] + 1 => pool'[i] = pool[i]
  BY <1>1, <1>2, <1>3, <1>5, CapacityType DEF TypeOK
<1>8. /\ filled' \in [Getter -> 0..Capacity] /\ filled'[t] = filled[t] + 1
      /\ \A u \in Getter : u # t => filled'[u] = filled[u]
  BY <1>1, <1>3, CapacityType DEF TypeOK
<1>9. TypeOK'
  BY <1>1, <1>3, <1>7, <1>8 DEF TypeOK
<1>10. MutexInv' /\ StartInv' /\ NoOverflow' /\ ~Filled' /\ FilledInv'
  BY <1>1, <1>3, <1>4, <1>8
  DEF MutexInv, StartInv, NoOverflow, Filled, FilledInv
<1>11. Distinct'
  BY <1>1, <1>5, <1>6, <1>7 DEF Distinct, In
<1>12. FillInv'
  <2>1. \A u \in Getter : pc[u] = "fill" => u = t
    BY <1>1, <1>3 DEF MutexInv
  <2>2. \A i \in 1..Capacity : pool'[i] = NULL <=> i > filled'[t]
    BY <1>3, <1>5, <1>7, <1>8, MemoryAssumption, CapacityType
  <2> QED BY <1>3, <1>5, <1>7, <2>1, <2>2 DEF FillInv
<1>13. UseInv'
  <2>1. \A e : Pending(e)' = Pending(e)
    BY <1>3 DEF Pending
  <2> QED BY <1>1, <1>3, <1>5, <2>1 DEF UseInv
<1>14. RecycleInv'
  BY <1>3, <1>5 DEF RecycleInv, Recycling
<1> QED BY <1>9, <1>10, <1>11, <1>12, <1>13, <1>14 DEF IInv

LEMMA EndInitializeStep ==
  ASSUME IInv, NEW t \in Getter, EndInitialize(t) PROVE IInv' /\ Filled'
<1>1. /\ TypeOK /\ MutexInv /\ Distinct /\ FillInv /\ FilledInv /\ StartInv
      /\ UseInv /\ RecycleInv /\ NoOverflow
  BY DEF IInv
<1>2. /\ pc[t] \in {"initialized", "fill"} /\ Goto(t, "get")
      /\ pc[t] = "fill" => filled[t] = Capacity
      /\ memoryManagerMutex_' = NoThread
      /\ UNCHANGED <<pool, initialized_, poolMutex_, filled, memory, count, due>>
  BY DEF EndInitialize
<1>3. /\ pc'[t] = "get"
      /\ \A u \in Getter : u # t => pc'[u] = pc[u]
      /\ \A r \in Returner : pc'[r] = pc[r]
  BY <1>1, <1>2, Move, SidesDiffer
<1>4. Control
  BY <1>1, <1>2, SidesDiffer, ControlOfMove DEF GetterPC
<1>5. TypeOK'
  BY <1>1, <1>2, <1>4 DEF TypeOK, Control
<1>6. memoryManagerMutex_ = t
  BY <1>1, <1>2 DEF MutexInv
<1>7. MutexInv'
  BY <1>1, <1>3, <1>6, SidesDiffer DEF MutexInv
<1>8. Distinct' /\ StartInv' /\ NoOverflow'
  BY <1>1, <1>2, <1>3 DEF Distinct, StartInv, NoOverflow
<1>9. UseInv' /\ \A d : In(d)' = In(d) /\ HeldBy(d)' = HeldBy(d)
  BY <1>1, <1>2, <1>3, UseKept
<1>10. RecycleInv'
  BY <1>1, <1>2, <1>3, <1>9 DEF RecycleInv
<1>11. Filled' /\ FilledInv'
  <2>1. \A u \in Getter : pc'[u] # "fill"
    BY <1>1, <1>3, <1>6 DEF MutexInv
  <2>2. initialized_
    BY <1>1, <1>2 DEF Filled, FillInv, TypeOK
  <2>3. \A i \in 1..Len(pool) : pool[i] # NULL
    <3>1. CASE Filled
      BY <1>1, <3>1 DEF FilledInv
    <3>2. CASE ~Filled
      <4>1. pc[t] = "fill" /\ Len(pool) = Capacity
        BY <1>1, <1>2, <3>2 DEF FillInv
      <4>2. \A i \in 1..Capacity : pool[i] = NULL <=> i > Capacity
        BY <1>1, <1>2, <3>2, <4>1 DEF FillInv
      <4> QED BY <4>1, <4>2, CapacityType
    <3> QED BY <3>1, <3>2
  <2> QED BY <1>2, <2>1, <2>2, <2>3 DEF Filled, FilledInv
<1>12. FillInv'
  BY <1>11 DEF FillInv
<1> QED BY <1>5, <1>7, <1>8, <1>9, <1>10, <1>11, <1>12 DEF IInv

(***************************************************************************)
(* getManagedMemory.                                                        *)
(***************************************************************************)
LEMMA PendingType ==
  ASSUME NEW d PROVE /\ IsFiniteSet(Pending(d)) /\ Cardinality(Pending(d)) \in Nat
                     /\ Cardinality(Pending(d)) = 0 <=> Pending(d) = {}
<1>1. IsFiniteSet(Pending(d))
  BY MemoryAssumption, FS_Subset DEF Pending
<1> QED BY <1>1, FS_CardinalityType, FS_EmptySet

\* Taking the first piece takes it out of the pool.
LEMMA TailOfThePool ==
  ASSUME pool \in Seq(Data \cup {NULL}), Distinct, pool # <<>>, pool' = Tail(pool),
         \A i \in 1..Len(pool) : pool[i] # NULL
  PROVE  /\ Head(pool) \in Data /\ In(Head(pool))
         /\ pool' \in Seq(Data \cup {NULL}) /\ Distinct'
         /\ \A i \in 1..Len(pool') : pool'[i] # NULL
         /\ \A d : In(d)' <=> In(d) /\ d # Head(pool)
<1>1. /\ pool' \in Seq(Data \cup {NULL}) /\ Len(pool) \in Nat
      /\ Len(pool') = Len(pool) - 1
      /\ \A i \in 1..Len(pool') : pool'[i] = pool[i + 1] /\ i + 1 \in 1..Len(pool)
      /\ 1 \in 1..Len(pool) /\ Head(pool) = pool[1] /\ pool[1] \in Data \cup {NULL}
  OBVIOUS
<1>2. \A i, j \in 1..Len(pool) : pool[i] = pool[j] => i = j
  BY DEF Distinct
<1>3. Distinct'
  <2> SUFFICES ASSUME NEW i \in 1..Len(pool'), NEW j \in 1..Len(pool'),
                      pool'[i] = pool'[j]
               PROVE  i = j
    BY DEF Distinct
  <2>1. i + 1 = j + 1
    BY <1>1, <1>2
  <2> QED BY <1>1, <2>1
<1>4. ASSUME NEW d, In(d)' PROVE In(d) /\ d # Head(pool)
  <2>1. PICK i \in 1..Len(pool') : pool'[i] = d
    BY <1>4 DEF In
  <2>2. pool[i + 1] = d /\ i + 1 \in 1..Len(pool) /\ i + 1 # 1
    BY <1>1, <2>1
  <2> QED BY <1>1, <1>2, <2>2 DEF In
<1>5. ASSUME NEW d, In(d), d # Head(pool) PROVE In(d)'
  <2>1. PICK i \in 1..Len(pool) : pool[i] = d
    BY <1>5 DEF In
  <2>2. i - 1 \in 1..Len(pool') /\ (i - 1) + 1 = i
    BY <1>1, <1>5, <2>1
  <2> QED BY <1>1, <2>1, <2>2 DEF In
<1> QED BY <1>1, <1>3, <1>4, <1>5 DEF In

LEMMA PopFrontStep ==
  ASSUME IInv, NEW t \in Getter, PopFront(t) PROVE IInv' /\ Filled'
<1>1. /\ TypeOK /\ MutexInv /\ Distinct /\ FillInv /\ FilledInv /\ StartInv
      /\ UseInv /\ RecycleInv /\ NoOverflow
  BY DEF IInv
<1>2. /\ pc[t] \in {"get", "woken"}
      /\ UNCHANGED <<initialized_, memoryManagerMutex_, filled, poolMutex_,
                     count, due>>
  BY DEF PopFront
<1>3. Filled
  BY <1>2, ActiveIsFilled
<1>4. PICK l \in {"wait", "use"} : Goto(t, l)
  BY Zenon DEF PopFront
<1>5. /\ l = "wait" => UNCHANGED <<pool, memory>>
      /\ l = "use" => /\ pool # <<>> /\ pool' = Tail(pool)
                      /\ memory' = [memory EXCEPT ![t] = Head(pool)]
  <2>1. pc'[t] = l
    BY <1>1, <1>4, Move, SidesDiffer
  <2>2. CASE pool = <<>>
    <3>1. Goto(t, "wait") /\ UNCHANGED <<pool, memory>>
      BY <2>2 DEF PopFront
    <3> QED BY <1>1, <2>1, <3>1, Move, SidesDiffer
  <2>3. CASE pool # <<>>
    <3>1. /\ Goto(t, "use") /\ pool' = Tail(pool)
          /\ memory' = [memory EXCEPT ![t] = Head(pool)]
      BY <2>3 DEF PopFront
    <3> QED BY <1>1, <2>1, <2>3, <3>1, Move, SidesDiffer
  <2> QED BY <2>2, <2>3
<1>6. /\ pc'[t] = l
      /\ \A u \in Getter : u # t => pc'[u] = pc[u]
      /\ \A r \in Returner : pc'[r] = pc[r]
  BY <1>1, <1>4, Move, SidesDiffer
<1>7. Control
  BY <1>1, <1>4, SidesDiffer, ControlOfMove DEF GetterPC
<1>8. Filled' /\ FillInv'
  BY <1>2, <1>3, <1>6 DEF Filled, FillInv
<1>9. MutexInv' /\ StartInv' /\ NoOverflow'
  BY <1>1, <1>2, <1>6 DEF MutexInv, StartInv, NoOverflow
<1>10. CASE l = "wait"
  <2>1. UseInv' /\ \A d : In(d)' = In(d) /\ HeldBy(d)' = HeldBy(d)
    BY <1>1, <1>2, <1>5, <1>6, <1>10, UseKept
  <2>2. RecycleInv'
    BY <1>1, <1>2, <1>5, <1>6, <1>10, <2>1 DEF RecycleInv
  <2>3. Distinct' /\ FilledInv'
    BY <1>1, <1>3, <1>5, <1>10 DEF Distinct, FilledInv
  <2>4. TypeOK'
    BY <1>1, <1>2, <1>5, <1>7, <1>10 DEF TypeOK, Control
  <2> QED BY <1>8, <1>9, <2>1, <2>2, <2>3, <2>4 DEF IInv
<1>11. CASE l = "use"
  <2>0. PICK d : d = Head(pool)
    OBVIOUS
  <2>1. /\ d \in Data /\ In(d)
        /\ pool' \in Seq(Data \cup {NULL}) /\ Distinct' /\ FilledInv'
        /\ \A e : In(e)' <=> In(e) /\ e # d
    BY <1>1, <1>3, <1>5, <1>8, <1>11, <2>0, TailOfThePool DEF FilledInv, TypeOK
  <2>2. /\ memory'[t] = d /\ memory' \in [Threads -> Data \cup {NULL}]
        /\ \A u \in Getter : u # t => memory'[u] = memory[u]
        /\ \A r \in Returner : memory'[r] = memory[r]
    BY <1>1, <1>5, <1>11, <2>0, <2>1, SidesDiffer DEF TypeOK
  <2>3. TypeOK'
    BY <1>1, <1>2, <1>7, <2>1, <2>2 DEF TypeOK, Control
  <2>4. HeldBy(d) = {} /\ count[d] = 0
    <3>1. count[d] \in Nat
      BY <1>1, <2>1 DEF TypeOK
    <3> QED BY <1>1, <2>1, <3>1 DEF UseInv, HeldBy
  <2>5. HeldBy(d)' = {t} /\ \A e : e # d => HeldBy(e)' = HeldBy(e)
    <3>1. HeldBy(d)' = {t}
      BY <1>6, <1>11, <2>2, <2>4 DEF HeldBy
    <3>2. ASSUME NEW e, e # d PROVE HeldBy(e)' = HeldBy(e)
      BY <1>2, <1>6, <1>11, <2>2, <3>2 DEF HeldBy
    <3> QED BY <3>1, <3>2
  <2>6. \A e : Pending(e)' = Pending(e)
    BY <1>6, <2>2 DEF Pending
  <2>7. UseInv'
    <3>1. ASSUME NEW u \in Getter, pc'[u] = "use", NEW e, e = memory'[u]
          PROVE  e \in Data /\ ~In(e)' /\ count'[e] = 0 /\ HeldBy(e)' = {u}
      <4>1. CASE u = t
        BY <1>2, <2>1, <2>2, <2>4, <2>5, <3>1, <4>1
      <4>2. CASE u # t
        <5>1. /\ pc[u] = "use" /\ e = memory[u] /\ e \in Data
              /\ ~In(e) /\ count[e] = 0 /\ HeldBy(e) = {u}
          BY <1>1, <1>6, <2>2, <3>1, <4>2 DEF UseInv
        <5> QED BY <1>2, <2>1, <2>5, <5>1
      <4> QED BY <4>1, <4>2
    <3>2. ASSUME NEW e \in Data
          PROVE  /\ count'[e] = due'[e] + Cardinality(Pending(e)')
                 /\ count'[e] > 0 => ~In(e)' /\ HeldBy(e)' = {}
      <4>1. count[e] > 0 => e # d
        BY <2>4
      <4> QED BY <1>1, <1>2, <2>1, <2>5, <2>6, <4>1 DEF UseInv
    <3> QED BY <3>1, <3>2 DEF UseInv
  <2>8. RecycleInv'
    BY <1>1, <1>2, <1>6, <2>1, <2>2, <2>5 DEF RecycleInv
  <2> QED BY <1>8, <1>9, <2>1, <2>3, <2>7, <2>8 DEF IInv
<1> QED BY <1>8, <1>10, <1>11

LEMMA SpuriousWakeUpStep ==
  ASSUME IInv, NEW t \in Getter, SpuriousWakeUp(t) PROVE IInv' /\ Filled'
<1>1. /\ TypeOK /\ MutexInv /\ Distinct /\ FillInv /\ FilledInv /\ StartInv
      /\ UseInv /\ RecycleInv /\ NoOverflow
  BY DEF IInv
<1>2. /\ pc[t] = "wait" /\ Goto(t, "woken")
      /\ UNCHANGED <<pool, initialized_, memoryManagerMutex_, filled, poolMutex_,
                     memory, count, due>>
  BY DEF SpuriousWakeUp
<1>3. /\ pc'[t] = "woken"
      /\ \A u \in Getter : u # t => pc'[u] = pc[u]
      /\ \A r \in Returner : pc'[r] = pc[r]
  BY <1>1, <1>2, Move, SidesDiffer
<1>4. Control
  BY <1>1, <1>2, SidesDiffer, ControlOfMove DEF GetterPC
<1>5. Filled
  BY <1>2, ActiveIsFilled
<1>6. Filled' /\ FillInv' /\ FilledInv'
  BY <1>1, <1>2, <1>3, <1>5 DEF Filled, FillInv, FilledInv
<1>7. TypeOK'
  BY <1>1, <1>2, <1>4 DEF TypeOK, Control
<1>8. MutexInv' /\ Distinct' /\ StartInv' /\ NoOverflow'
  BY <1>1, <1>2, <1>3 DEF MutexInv, Distinct, StartInv, NoOverflow
<1>9. UseInv' /\ \A d : In(d)' = In(d) /\ HeldBy(d)' = HeldBy(d)
  BY <1>1, <1>2, <1>3, UseKept
<1>10. RecycleInv'
  BY <1>1, <1>2, <1>3, <1>9 DEF RecycleInv
<1> QED BY <1>6, <1>7, <1>8, <1>9, <1>10 DEF IInv

LEMMA UseStep ==
  ASSUME IInv, NEW t \in Getter, Use(t) PROVE IInv' /\ Filled'
<1>1. /\ TypeOK /\ MutexInv /\ Distinct /\ FillInv /\ FilledInv /\ StartInv
      /\ UseInv /\ RecycleInv /\ NoOverflow
  BY DEF IInv
<1>2. PICK d : d = memory[t]
  OBVIOUS
<1>3. /\ pc[t] = "use"
      /\ count' = [count EXCEPT ![d] = Uses] /\ due' = [due EXCEPT ![d] = Uses]
      /\ memory' = [memory EXCEPT ![t] = NULL]
      /\ UNCHANGED <<pool, initialized_, memoryManagerMutex_, filled, poolMutex_>>
  BY <1>2 DEF Use
<1>4. d \in Data /\ ~In(d) /\ count[d] = 0 /\ HeldBy(d) = {t}
  BY <1>1, <1>2, <1>3 DEF UseInv
<1>5. PICK l \in {"done", "get"} : Goto(t, l)
  BY Zenon DEF Use
<1>6. /\ pc'[t] = l
      /\ \A u \in Getter : u # t => pc'[u] = pc[u]
      /\ \A r \in Returner : pc'[r] = pc[r]
  BY <1>1, <1>5, Move, SidesDiffer
<1>7. Control
  BY <1>1, <1>5, SidesDiffer, ControlOfMove DEF GetterPC
<1>8. /\ memory' \in [Threads -> Data \cup {NULL}]
      /\ \A u \in Getter : u # t => memory'[u] = memory[u]
      /\ \A r \in Returner : memory'[r] = memory[r]
  BY <1>1, <1>3, SidesDiffer DEF TypeOK
<1>9. /\ count' \in [Data -> Nat] /\ due' \in [Data -> Nat]
      /\ count'[d] = Uses /\ due'[d] = Uses
      /\ \A e \in Data : e # d => count'[e] = count[e] /\ due'[e] = due[e]
  BY <1>1, <1>3, <1>4, MemoryAssumption DEF TypeOK
<1>10. Filled
  BY <1>3, ActiveIsFilled
<1>11. Filled' /\ FillInv' /\ FilledInv'
  BY <1>1, <1>3, <1>5, <1>6, <1>10 DEF Filled, FillInv, FilledInv
<1>12. TypeOK'
  BY <1>1, <1>3, <1>7, <1>8, <1>9 DEF TypeOK, Control
<1>13. MutexInv' /\ Distinct' /\ StartInv' /\ NoOverflow'
  BY <1>1, <1>3, <1>5, <1>6 DEF MutexInv, Distinct, StartInv, NoOverflow
<1>14. \A e : Pending(e)' = Pending(e) /\ In(e)' = In(e)
  BY <1>3, <1>6, <1>8 DEF Pending, In
<1>15. HeldBy(d)' = {} /\ \A e \in Data : e # d => HeldBy(e)' = HeldBy(e)
  <2>1. HeldBy(d)' = {}
    BY <1>4, <1>5, <1>6, <1>8 DEF HeldBy
  <2>2. ASSUME NEW e \in Data, e # d PROVE HeldBy(e)' = HeldBy(e)
    BY <1>2, <1>5, <1>6, <1>8, <2>2 DEF HeldBy
  <2> QED BY <2>1, <2>2
<1>16. due[d] = 0 /\ Cardinality(Pending(d)) = 0
  BY <1>1, <1>4, PendingType DEF UseInv, TypeOK
<1>17. UseInv'
  <2>1. ASSUME NEW u \in Getter, pc'[u] = "use", NEW e, e = memory'[u]
        PROVE  e \in Data /\ ~In(e)' /\ count'[e] = 0 /\ HeldBy(e)' = {u}
    <3>1. u # t
      BY <1>5, <1>6, <2>1
    <3>2. /\ pc[u] = "use" /\ e = memory[u] /\ e \in Data
          /\ ~In(e) /\ count[e] = 0 /\ HeldBy(e) = {u}
      BY <1>1, <1>6, <1>8, <2>1, <3>1 DEF UseInv
    <3>3. e # d
      BY <1>4, <3>1, <3>2
    <3> QED BY <1>9, <1>14, <1>15, <3>2, <3>3
  <2>2. ASSUME NEW e \in Data
        PROVE  /\ count'[e] = due'[e] + Cardinality(Pending(e)')
               /\ count'[e] > 0 => ~In(e)' /\ HeldBy(e)' = {}
    <3>1. CASE e = d
      BY <1>4, <1>9, <1>14, <1>15, <1>16, <3>1, MemoryAssumption
    <3>2. CASE e # d
      BY <1>1, <1>9, <1>14, <1>15, <3>2 DEF UseInv
    <3> QED BY <3>1, <3>2
  <2> QED BY <2>1, <2>2 DEF UseInv
<1>18. RecycleInv'
  <2> SUFFICES ASSUME NEW r \in Returner, NEW e, e = memory'[r]
               PROVE  /\ pc'[r] \in {"lock"} \cup Recycling => e \in Data
                      /\ \/ pc'[r] = "canBeRecycled" /\ count'[e] = 0
                         \/ pc'[r] = "pushBack"
                         => count'[e] = 0 /\ ~In(e)' /\ HeldBy(e)' = {}
    BY DEF RecycleInv
  <2>1. /\ pc'[r] = pc[r] /\ e = memory[r]
        /\ pc[r] \in {"lock"} \cup Recycling => e \in Data
    BY <1>1, <1>6, <1>8 DEF RecycleInv
  <2>2. ASSUME \/ pc'[r] = "canBeRecycled" /\ count'[e] = 0
               \/ pc'[r] = "pushBack"
        PROVE  count'[e] = 0 /\ ~In(e)' /\ HeldBy(e)' = {}
    <3>1. e \in Data
      BY <2>1, <2>2 DEF Recycling
    <3>2. CASE e = d
      <4>1. pc[r] = "pushBack"
        BY <1>9, <2>1, <2>2, <3>2, MemoryAssumption
      <4> QED BY <1>1, <1>4, <2>1, <3>2, <4>1 DEF RecycleInv
    <3>3. CASE e # d
      <4>1. count'[e] = count[e]
        BY <1>9, <3>1, <3>3
      <4>2. count[e] = 0 /\ ~In(e) /\ HeldBy(e) = {}
        BY <1>1, <2>1, <2>2, <4>1 DEF RecycleInv
      <4> QED BY <1>14, <1>15, <3>1, <3>3, <4>1, <4>2
    <3> QED BY <3>2, <3>3
  <2> QED BY <2>1, <2>2
<1> QED BY <1>11, <1>12, <1>13, <1>17, <1>18 DEF IInv

(***************************************************************************)
(* returnToMemoryManager.                                                   *)
(***************************************************************************)
LEMMA ReturnToMemoryManagerStep ==
  ASSUME IInv, NEW r \in Returner, ReturnToMemoryManager(r) PROVE IInv' /\ Filled'
<1>1. /\ TypeOK /\ MutexInv /\ Distinct /\ FillInv /\ FilledInv /\ StartInv
      /\ UseInv /\ RecycleInv /\ NoOverflow
  BY DEF IInv
<1>2. PICK d \in Data : /\ due[d] > 0 /\ due' = [due EXCEPT ![d] = @ - 1]
                        /\ memory' = [memory EXCEPT ![r] = d]
  BY DEF ReturnToMemoryManager
<1>3. /\ pc[r] = "idle" /\ Goto(r, "lock")
      /\ UNCHANGED <<pool, initialized_, memoryManagerMutex_, filled, poolMutex_,
                     count>>
  BY DEF ReturnToMemoryManager
<1>4. /\ pc'[r] = "lock"
      /\ \A s \in Returner : s # r => pc'[s] = pc[s]
      /\ \A t \in Getter : pc'[t] = pc[t]
  BY <1>1, <1>3, Move, SidesDiffer
<1>5. Control
  BY <1>1, <1>3, SidesDiffer, ControlOfMove DEF ReturnerPC
<1>6. /\ memory' \in [Threads -> Data \cup {NULL}] /\ memory'[r] = d
      /\ \A s \in Returner : s # r => memory'[s] = memory[s]
      /\ \A t \in Getter : memory'[t] = memory[t]
  BY <1>1, <1>2, SidesDiffer DEF TypeOK
<1>7. /\ due' \in [Data -> Nat] /\ due[d] \in Nat /\ due'[d] = due[d] - 1
      /\ \A e \in Data : e # d => due'[e] = due[e]
  BY <1>1, <1>2 DEF TypeOK
<1>8. Filled
  BY <1>2, ActiveIsFilled
<1>9. Filled' /\ FillInv' /\ FilledInv'
  BY <1>1, <1>3, <1>4, <1>8 DEF Filled, FillInv, FilledInv
<1>10. TypeOK'
  BY <1>1, <1>3, <1>5, <1>6, <1>7 DEF TypeOK, Control
<1>11. MutexInv' /\ Distinct' /\ StartInv' /\ NoOverflow'
  BY <1>1, <1>3, <1>4
  DEF MutexInv, Distinct, StartInv, NoOverflow, Recycling
<1>12. \A e : HeldBy(e)' = HeldBy(e) /\ In(e)' = In(e)
  BY <1>3, <1>4, <1>6 DEF HeldBy, In
<1>13. /\ Pending(d)' = Pending(d) \cup {r} /\ r \notin Pending(d)
       /\ \A e : e # d => Pending(e)' = Pending(e)
  <2>1. Pending(d)' = Pending(d) \cup {r} /\ r \notin Pending(d)
    BY <1>3, <1>4, <1>6 DEF Pending
  <2>2. ASSUME NEW e, e # d PROVE Pending(e)' = Pending(e)
    BY <1>3, <1>4, <1>6, <2>2 DEF Pending
  <2> QED BY <2>1, <2>2
<1>14. Cardinality(Pending(d)') = Cardinality(Pending(d)) + 1
  BY <1>13, PendingType, FS_AddElement
<1>15. UseInv'
  <2>1. ASSUME NEW u \in Getter, pc'[u] = "use", NEW e, e = memory'[u]
        PROVE  e \in Data /\ ~In(e)' /\ count'[e] = 0 /\ HeldBy(e)' = {u}
    BY <1>1, <1>3, <1>4, <1>6, <1>12, <2>1 DEF UseInv
  <2>2. ASSUME NEW e \in Data
        PROVE  /\ count'[e] = due'[e] + Cardinality(Pending(e)')
               /\ count'[e] > 0 => ~In(e)' /\ HeldBy(e)' = {}
    <3>1. count[e] > 0 => ~In(e) /\ HeldBy(e) = {}
      BY <1>1 DEF UseInv
    <3>2. count[e] = due[e] + Cardinality(Pending(e)) /\ count'[e] = count[e]
      BY <1>1, <1>3 DEF UseInv
    <3>3. count'[e] = due'[e] + Cardinality(Pending(e)')
      <4>1. CASE e = d
        BY <1>7, <1>14, <3>2, <4>1, PendingType
      <4>2. CASE e # d
        BY <1>7, <1>13, <3>2, <4>2
      <4> QED BY <4>1, <4>2
    <3> QED BY <1>12, <3>1, <3>2, <3>3
  <2> QED BY <2>1, <2>2 DEF UseInv
<1>16. RecycleInv'
  BY <1>1, <1>3, <1>4, <1>6, <1>12 DEF RecycleInv, Recycling
<1> QED BY <1>9, <1>10, <1>11, <1>15, <1>16 DEF IInv

LEMMA LockManagerStep ==
  ASSUME IInv, NEW r \in Returner, LockManager(r) PROVE IInv' /\ Filled'
<1>1. /\ TypeOK /\ MutexInv /\ Distinct /\ FillInv /\ FilledInv /\ StartInv
      /\ UseInv /\ RecycleInv /\ NoOverflow
  BY DEF IInv
<1>2. /\ pc[r] = "lock" /\ Goto(r, "postProcess")
      /\ memoryManagerMutex_ = NoThread /\ memoryManagerMutex_' = r
      /\ UNCHANGED <<pool, initialized_, filled, poolMutex_, memory, count, due>>
  BY DEF LockManager
<1>3. /\ pc'[r] = "postProcess"
      /\ \A s \in Returner : s # r => pc'[s] = pc[s]
      /\ \A t \in Getter : pc'[t] = pc[t]
  BY <1>1, <1>2, Move, SidesDiffer
<1>4. Control
  BY <1>1, <1>2, SidesDiffer, ControlOfMove DEF ReturnerPC
<1>5. Filled
  BY <1>2, ActiveIsFilled
<1>6. Filled' /\ FillInv' /\ FilledInv'
  BY <1>1, <1>2, <1>3, <1>5 DEF Filled, FillInv, FilledInv
<1>7. TypeOK'
  BY <1>1, <1>2, <1>4 DEF TypeOK, Control
<1>8. Distinct' /\ StartInv' /\ NoOverflow'
  BY <1>1, <1>2, <1>3 DEF Distinct, StartInv, NoOverflow
<1>9. MutexInv'
  BY <1>1, <1>2, <1>3, SidesDiffer DEF MutexInv, Recycling
<1>10. UseInv' /\ \A d : In(d)' = In(d) /\ HeldBy(d)' = HeldBy(d)
  BY <1>1, <1>2, <1>3, UseKept
<1>11. RecycleInv'
  BY <1>1, <1>2, <1>3, <1>10 DEF RecycleInv, Recycling
<1> QED BY <1>6, <1>7, <1>8, <1>9, <1>10, <1>11 DEF IInv

LEMMA PostProcessStep ==
  ASSUME IInv, NEW r \in Returner, PostProcess(r) PROVE IInv' /\ Filled'
<1>1. /\ TypeOK /\ MutexInv /\ Distinct /\ FillInv /\ FilledInv /\ StartInv
      /\ UseInv /\ RecycleInv /\ NoOverflow
  BY DEF IInv
<1>2. PICK d : d = memory[r]
  OBVIOUS
<1>3. /\ pc[r] = "postProcess" /\ Goto(r, "canBeRecycled")
      /\ count' = [count EXCEPT ![d] = @ - 1]
      /\ UNCHANGED <<pool, initialized_, memoryManagerMutex_, filled, poolMutex_,
                     memory, due>>
  BY <1>2 DEF PostProcess
<1>4. /\ pc'[r] = "canBeRecycled"
      /\ \A s \in Returner : s # r => pc'[s] = pc[s]
      /\ \A t \in Getter : pc'[t] = pc[t]
  BY <1>1, <1>3, Move, SidesDiffer
<1>5. Control
  BY <1>1, <1>3, SidesDiffer, ControlOfMove DEF ReturnerPC
<1>6. d \in Data /\ r \in Pending(d)
  BY <1>1, <1>2, <1>3 DEF RecycleInv, Recycling, Pending
<1>7. /\ count[d] \in Nat /\ count[d] > 0 /\ ~In(d) /\ HeldBy(d) = {}
  BY <1>1, <1>6, PendingType DEF UseInv, TypeOK
<1>8. /\ count' \in [Data -> Nat] /\ count'[d] = count[d] - 1
      /\ \A e \in Data : e # d => count'[e] = count[e]
  BY <1>1, <1>3, <1>6, <1>7 DEF TypeOK
<1>9. Filled
  BY <1>3, ActiveIsFilled
<1>10. Filled' /\ FillInv' /\ FilledInv'
  BY <1>1, <1>3, <1>4, <1>9 DEF Filled, FillInv, FilledInv
<1>11. TypeOK'
  BY <1>1, <1>3, <1>5, <1>8 DEF TypeOK, Control
<1>12. MutexInv' /\ Distinct' /\ StartInv' /\ NoOverflow'
  BY <1>1, <1>3, <1>4
  DEF MutexInv, Distinct, StartInv, NoOverflow, Recycling
<1>13. \A e : HeldBy(e)' = HeldBy(e) /\ In(e)' = In(e)
  BY <1>3, <1>4 DEF HeldBy, In
<1>14. /\ Pending(d)' = Pending(d) \ {r}
       /\ \A e : e # d => Pending(e)' = Pending(e)
  <2>1. Pending(d)' = Pending(d) \ {r}
    BY <1>3, <1>4 DEF Pending
  <2>2. ASSUME NEW e, e # d PROVE Pending(e)' = Pending(e)
    BY <1>2, <1>3, <1>4, <2>2 DEF Pending
  <2> QED BY <2>1, <2>2
<1>15. Cardinality(Pending(d)') = Cardinality(Pending(d)) - 1
  BY <1>6, <1>14, PendingType, FS_RemoveElement
<1>16. UseInv'
  <2>1. ASSUME NEW u \in Getter, pc'[u] = "use", NEW e, e = memory'[u]
        PROVE  e \in Data /\ ~In(e)' /\ count'[e] = 0 /\ HeldBy(e)' = {u}
    <3>1. /\ e \in Data /\ ~In(e) /\ count[e] = 0 /\ HeldBy(e) = {u}
      BY <1>1, <1>3, <1>4, <2>1 DEF UseInv
    <3> QED BY <1>7, <1>8, <1>13, <3>1
  <2>2. ASSUME NEW e \in Data
        PROVE  /\ count'[e] = due'[e] + Cardinality(Pending(e)')
               /\ count'[e] > 0 => ~In(e)' /\ HeldBy(e)' = {}
    <3>1. count[e] > 0 => ~In(e) /\ HeldBy(e) = {}
      BY <1>1 DEF UseInv
    <3>2. /\ count[e] = due[e] + Cardinality(Pending(e)) /\ due'[e] = due[e]
          /\ due[e] \in Nat
      BY <1>1, <1>3 DEF UseInv, TypeOK
    <3>3. CASE e = d
      BY <1>7, <1>8, <1>13, <1>15, <3>2, <3>3, PendingType
    <3>4. CASE e # d
      BY <1>8, <1>13, <1>14, <3>1, <3>2, <3>4
    <3> QED BY <3>3, <3>4
  <2> QED BY <2>1, <2>2 DEF UseInv
<1>17. RecycleInv'
  <2> SUFFICES ASSUME NEW s \in Returner, NEW e, e = memory'[s]
               PROVE  /\ pc'[s] \in {"lock"} \cup Recycling => e \in Data
                      /\ \/ pc'[s] = "canBeRecycled" /\ count'[e] = 0
                         \/ pc'[s] = "pushBack"
                         => count'[e] = 0 /\ ~In(e)' /\ HeldBy(e)' = {}
    BY DEF RecycleInv
  <2>1. CASE s = r
    BY <1>2, <1>3, <1>4, <1>6, <1>7, <1>13, <2>1
  <2>2. CASE s # r
    <3>1. pc[s] \notin Recycling
      BY <1>1, <1>3, <2>2 DEF MutexInv, Recycling
    <3> QED BY <1>1, <1>3, <1>4, <2>2, <3>1 DEF RecycleInv, Recycling
  <2> QED BY <2>1, <2>2
<1> QED BY <1>10, <1>11, <1>12, <1>16, <1>17 DEF IInv

LEMMA CanBeRecycledStep ==
  ASSUME IInv, NEW r \in Returner, CanBeRecycled(r) PROVE IInv' /\ Filled'
<1>1. /\ TypeOK /\ MutexInv /\ Distinct /\ FillInv /\ FilledInv /\ StartInv
      /\ UseInv /\ RecycleInv /\ NoOverflow
  BY DEF IInv
<1>2. /\ pc[r] = "canBeRecycled"
      /\ UNCHANGED <<pool, initialized_, memoryManagerMutex_, filled, poolMutex_,
                     memory, count, due>>
  BY DEF CanBeRecycled
<1>3. PICK l \in {"pushBack", "unlock"} : /\ Goto(r, l)
                                          /\ l = "pushBack" => count[memory[r]] = 0
  BY Zenon DEF CanBeRecycled
<1>4. /\ pc'[r] = l
      /\ \A s \in Returner : s # r => pc'[s] = pc[s]
      /\ \A t \in Getter : pc'[t] = pc[t]
  BY <1>1, <1>3, Move, SidesDiffer
<1>5. Control
  BY <1>1, <1>3, SidesDiffer, ControlOfMove DEF ReturnerPC
<1>6. Filled
  BY <1>2, ActiveIsFilled
<1>7. Filled' /\ FillInv' /\ FilledInv'
  BY <1>1, <1>2, <1>4, <1>6 DEF Filled, FillInv, FilledInv
<1>8. TypeOK'
  BY <1>1, <1>2, <1>5 DEF TypeOK, Control
<1>9. MutexInv' /\ Distinct' /\ StartInv' /\ NoOverflow'
  BY <1>1, <1>2, <1>3, <1>4
  DEF MutexInv, Distinct, StartInv, NoOverflow, Recycling
<1>10. UseInv' /\ \A d : In(d)' = In(d) /\ HeldBy(d)' = HeldBy(d)
  BY <1>1, <1>2, <1>3, <1>4, UseKept
<1>11. RecycleInv'
  BY <1>1, <1>2, <1>3, <1>4, <1>10 DEF RecycleInv, Recycling
<1> QED BY <1>7, <1>8, <1>9, <1>10, <1>11 DEF IInv

\* A piece that is not in the pool finds room in it.
LEMMA RoomInThePool ==
  ASSUME pool \in Seq(Data \cup {NULL}), Distinct, NEW d \in Data, ~In(d),
         pool' = Append(pool, d), \A i \in 1..Len(pool) : pool[i] # NULL
  PROVE  /\ pool' \in Seq(Data \cup {NULL}) /\ Distinct' /\ Len(pool') <= Capacity
         /\ \A i \in 1..Len(pool') : pool'[i] # NULL
         /\ \A e : In(e)' <=> In(e) \/ e = d
<1>1. /\ pool' \in Seq(Data \cup {NULL}) /\ Len(pool) \in Nat
      /\ Len(pool') = Len(pool) + 1 /\ pool'[Len(pool) + 1] = d
      /\ \A i \in 1..Len(pool) : pool'[i] = pool[i] /\ i \in 1..Len(pool')
      /\ \A i \in 1..Len(pool') : i \in 1..Len(pool) \/ i = Len(pool) + 1
      /\ Len(pool) + 1 \in 1..Len(pool')
  OBVIOUS
<1>2. \A i \in 1..Len(pool) : pool[i] # d
  BY DEF In
<1>3. \A i \in 1..Len(pool') : pool'[i] # NULL
  BY <1>1, MemoryAssumption
<1>4. \A i, j \in 1..Len(pool') : pool'[i] = pool'[j] => i = j
  BY <1>1, <1>2 DEF Distinct
<1>5. Len(pool') <= Capacity
  <2>1. \A i \in 1..Len(pool') : pool'[i] \in Data
    BY <1>1, <1>3
  <2>2. pool' \in [1..Len(pool') -> Data] /\ Len(pool') \in Nat
    <3>1. pool' \in [1..Len(pool') -> Data \cup {NULL}] /\ Len(pool') \in Nat
      BY <1>1, LenProperties
    <3> QED BY <2>1, <3>1
  <2> QED BY <1>4, <2>2, DistinctPieces
<1>6. ASSUME NEW e PROVE In(e)' <=> In(e) \/ e = d
  BY <1>1 DEF In
<1> QED BY <1>1, <1>3, <1>4, <1>5, <1>6 DEF Distinct

LEMMA PushBackStep ==
  ASSUME IInv, NEW r \in Returner, PushBack(r) PROVE IInv' /\ Filled'
<1>1. /\ TypeOK /\ MutexInv /\ Distinct /\ FillInv /\ FilledInv /\ StartInv
      /\ UseInv /\ RecycleInv /\ NoOverflow
  BY DEF IInv
<1>2. PICK d : d = memory[r]
  OBVIOUS
<1>3. /\ pc[r] = "pushBack" /\ pool' = Append(pool, d)
      /\ UNCHANGED <<initialized_, memoryManagerMutex_, filled, memory, count, due>>
  BY <1>2 DEF PushBack
<1>4. Filled
  BY <1>3, ActiveIsFilled
<1>5. d \in Data /\ count[d] = 0 /\ ~In(d) /\ HeldBy(d) = {}
  BY <1>1, <1>2, <1>3 DEF RecycleInv, Recycling
<1>6. /\ pool' \in Seq(Data \cup {NULL}) /\ Distinct' /\ Len(pool') <= Capacity
      /\ \A i \in 1..Len(pool') : pool'[i] # NULL
      /\ \A e : In(e)' <=> In(e) \/ e = d
  BY <1>1, <1>3, <1>4, <1>5, RoomInThePool DEF FilledInv, TypeOK
<1>7. UNCHANGED poolMutex_ /\ Goto(r, "notifyOne")
  <2>1. ~ Len(pool') > Capacity
    <3>1. Len(pool') \in Nat
      BY <1>6
    <3> QED BY <1>6, <3>1, CapacityType
  <2> QED BY <2>1, Zenon DEF PushBack
<1>8. /\ pc'[r] = "notifyOne"
      /\ \A s \in Returner : s # r => pc'[s] = pc[s]
      /\ \A t \in Getter : pc'[t] = pc[t]
  BY <1>1, <1>7, Move, SidesDiffer
<1>9. Control
  BY <1>1, <1>7, SidesDiffer, ControlOfMove DEF ReturnerPC
<1>10. Filled' /\ FillInv' /\ FilledInv'
  BY <1>3, <1>4, <1>6, <1>8 DEF Filled, FillInv, FilledInv
<1>11. TypeOK'
  BY <1>1, <1>3, <1>6, <1>9 DEF TypeOK, Control
<1>12. MutexInv' /\ StartInv' /\ NoOverflow'
  BY <1>1, <1>3, <1>7, <1>8 DEF MutexInv, StartInv, NoOverflow, Recycling
<1>13. \A e : HeldBy(e)' = HeldBy(e) /\ Pending(e)' = Pending(e)
  BY <1>3, <1>8 DEF HeldBy, Pending
<1>14. UseInv'
  <2>1. ASSUME NEW u \in Getter, pc'[u] = "use", NEW e, e = memory'[u]
        PROVE  e \in Data /\ ~In(e)' /\ count'[e] = 0 /\ HeldBy(e)' = {u}
    <3>1. /\ e \in Data /\ ~In(e) /\ count[e] = 0 /\ HeldBy(e) = {u}
      BY <1>1, <1>3, <1>8, <2>1 DEF UseInv
    <3> QED BY <1>3, <1>5, <1>6, <1>13, <3>1
  <2>2. ASSUME NEW e \in Data
        PROVE  /\ count'[e] = due'[e] + Cardinality(Pending(e)')
               /\ count'[e] > 0 => ~In(e)' /\ HeldBy(e)' = {}
    BY <1>1, <1>3, <1>5, <1>6, <1>13 DEF UseInv
  <2> QED BY <2>1, <2>2 DEF UseInv
<1>15. RecycleInv'
  <2> SUFFICES ASSUME NEW s \in Returner, NEW e, e = memory'[s]
               PROVE  /\ pc'[s] \in {"lock"} \cup Recycling => e \in Data
                      /\ \/ pc'[s] = "canBeRecycled" /\ count'[e] = 0
                         \/ pc'[s] = "pushBack"
                         => count'[e] = 0 /\ ~In(e)' /\ HeldBy(e)' = {}
    BY DEF RecycleInv
  <2>1. CASE s = r
    BY <1>2, <1>3, <1>5, <1>8, <2>1
  <2>2. CASE s # r
    <3>1. pc[s] \notin Recycling
      BY <1>1, <1>3, <2>2 DEF MutexInv, Recycling
    <3> QED BY <1>1, <1>3, <1>8, <2>2, <3>1 DEF RecycleInv, Recycling
  <2> QED BY <2>1, <2>2
<1> QED BY <1>6, <1>10, <1>11, <1>12, <1>14, <1>15 DEF IInv

LEMMA NotifyOneStep ==
  ASSUME IInv, NEW r \in Returner, NotifyOne(r) PROVE IInv' /\ Filled'
<1>1. /\ TypeOK /\ MutexInv /\ Distinct /\ FillInv /\ FilledInv /\ StartInv
      /\ UseInv /\ RecycleInv /\ NoOverflow
  BY DEF IInv
<1>2. /\ pc[r] = "notifyOne"
      /\ UNCHANGED <<pool, initialized_, memoryManagerMutex_, filled, poolMutex_,
                     memory, count, due>>
  BY DEF NotifyOne
<1>3. PICK p : pc' = [p EXCEPT ![r] = "unlock"]
               /\ \/ p = pc
                  \/ \E t \in Getter : pc[t] = "wait" /\ p = [pc EXCEPT ![t] = "woken"]
  BY DEF NotifyOne, Goto, Waiting
<1>4. /\ p \in [Threads -> GetterPC \cup ReturnerPC]
      /\ \A s \in Returner : p[s] = pc[s]
      /\ \A t \in Getter : p[t] = pc[t] \/ (pc[t] = "wait" /\ p[t] = "woken")
  BY <1>1, <1>3, SidesDiffer DEF TypeOK, GetterPC
<1>5. /\ pc'[r] = "unlock"
      /\ \A s \in Returner : s # r => pc'[s] = pc[s]
      /\ \A t \in Getter : pc'[t] = pc[t] \/ (pc[t] = "wait" /\ pc'[t] = "woken")
  BY <1>3, <1>4, SidesDiffer
<1>6. Control
  <2>1. pc' \in [Threads -> GetterPC \cup ReturnerPC]
    BY <1>3, <1>4, SidesDiffer DEF ReturnerPC
  <2> QED BY <1>1, <1>5, <2>1 DEF Control, TypeOK, GetterPC, ReturnerPC
<1>7. Filled
  BY <1>2, ActiveIsFilled
<1>8. Filled' /\ FillInv' /\ FilledInv'
  BY <1>1, <1>2, <1>5, <1>7 DEF Filled, FillInv, FilledInv
<1>9. TypeOK'
  BY <1>1, <1>2, <1>6 DEF TypeOK, Control
<1>10. MutexInv' /\ Distinct' /\ StartInv' /\ NoOverflow'
  BY <1>1, <1>2, <1>5
  DEF MutexInv, Distinct, StartInv, NoOverflow, Recycling
<1>11. UseInv' /\ \A d : In(d)' = In(d) /\ HeldBy(d)' = HeldBy(d)
  BY <1>1, <1>2, <1>5, UseKept
<1>12. RecycleInv'
  BY <1>1, <1>2, <1>5, <1>11 DEF RecycleInv, Recycling
<1> QED BY <1>8, <1>9, <1>10, <1>11, <1>12 DEF IInv

LEMMA UnlockManagerStep ==
  ASSUME IInv, NEW r \in Returner, UnlockManager(r) PROVE IInv' /\ Filled'
<1>1. /\ TypeOK /\ MutexInv /\ Distinct /\ FillInv /\ FilledInv /\ StartInv
      /\ UseInv /\ RecycleInv /\ NoOverflow
  BY DEF IInv
<1>2. /\ pc[r] = "unlock" /\ Goto(r, "idle")
      /\ memoryManagerMutex_' = NoThread
      /\ memory' = [memory EXCEPT ![r] = NULL]
      /\ UNCHANGED <<pool, initialized_, filled, poolMutex_, count, due>>
  BY DEF UnlockManager
<1>3. /\ pc'[r] = "idle"
      /\ \A s \in Returner : s # r => pc'[s] = pc[s]
      /\ \A t \in Getter : pc'[t] = pc[t]
  BY <1>1, <1>2, Move, SidesDiffer
<1>4. Control
  BY <1>1, <1>2, SidesDiffer, ControlOfMove DEF ReturnerPC
<1>5. /\ memory' \in [Threads -> Data \cup {NULL}]
      /\ \A s \in Returner : s # r => memory'[s] = memory[s]
      /\ \A t \in Getter : memory'[t] = memory[t]
  BY <1>1, <1>2, SidesDiffer DEF TypeOK
<1>6. Filled
  BY <1>2, ActiveIsFilled
<1>7. Filled' /\ FillInv' /\ FilledInv'
  BY <1>1, <1>2, <1>3, <1>6 DEF Filled, FillInv, FilledInv
<1>8. TypeOK'
  BY <1>1, <1>2, <1>4, <1>5 DEF TypeOK, Control
<1>9. MutexInv'
  <2>1. \A s \in Returner : s # r => pc[s] \notin Recycling
    BY <1>1, <1>2 DEF MutexInv, Recycling
  <2>2. \A t \in Getter : pc[t] \notin {"fill", "initialized"}
    BY <1>1, <1>2, SidesDiffer DEF MutexInv, Recycling
  <2> QED BY <1>3, <2>1, <2>2 DEF MutexInv, Recycling
<1>10. Distinct' /\ StartInv' /\ NoOverflow'
  BY <1>1, <1>2, <1>3 DEF Distinct, StartInv, NoOverflow
<1>11. UseInv' /\ \A d : In(d)' = In(d) /\ HeldBy(d)' = HeldBy(d)
  BY <1>1, <1>2, <1>3, <1>5, UseKept
<1>12. RecycleInv'
  BY <1>1, <1>2, <1>3, <1>5, <1>11 DEF RecycleInv, Recycling
<1> QED BY <1>7, <1>8, <1>9, <1>10, <1>11, <1>12 DEF IInv

(***************************************************************************)
(* The invariant.                                                           *)
(***************************************************************************)
LEMMA NextHolds == IInv /\ [Next]_vars => IInv'
<1> SUFFICES ASSUME IInv, [Next]_vars PROVE IInv'
  OBVIOUS
<1>1. ASSUME NEW t \in Getter,
             Initialize(t) \/ GetManagedMemory(t) \/ SpuriousWakeUp(t)
      PROVE  IInv'
  BY <1>1, LockToInitializeStep, FillStep, EndInitializeStep, PopFrontStep,
     UseStep, SpuriousWakeUpStep
  DEF Initialize, GetManagedMemory
<1>2. ASSUME NEW r \in Returner, ReturnToMemoryManager(r) \/ RecycleMemory(r)
      PROVE  IInv'
  BY <1>2, ReturnToMemoryManagerStep, LockManagerStep, PostProcessStep,
     CanBeRecycledStep, PushBackStep, NotifyOneStep, UnlockManagerStep
  DEF RecycleMemory
<1>3. CASE UNCHANGED vars
  <2>1. /\ TypeOK /\ MutexInv /\ Distinct /\ FillInv /\ FilledInv /\ StartInv
        /\ UseInv /\ RecycleInv /\ NoOverflow
    BY DEF IInv
  <2>2. UNCHANGED <<pc, pool, initialized_, memoryManagerMutex_, poolMutex_, filled,
                    memory, rounds, count, due>>
    BY <1>3 DEF vars
  <2>3. /\ Filled' = Filled
        /\ \A d : In(d)' = In(d) /\ HeldBy(d)' = HeldBy(d)
    BY <2>2 DEF Filled, In, HeldBy
  <2>4. TypeOK' /\ MutexInv' /\ Distinct' /\ StartInv' /\ NoOverflow'
    BY <2>1, <2>2 DEF TypeOK, MutexInv, Distinct, StartInv, NoOverflow
  <2>5. FillInv' /\ FilledInv'
    BY <2>1, <2>2, <2>3 DEF FillInv, FilledInv
  <2>6. UseInv' /\ RecycleInv'
    BY <2>1, <2>2, <2>3, UseKept DEF RecycleInv
  <2> QED BY <2>4, <2>5, <2>6 DEF IInv
<1> QED BY <1>1, <1>2, <1>3 DEF Next, Finished

\* Whatever the threads do, the mutex excludes, no piece is twice in the pool,
\* and a piece is in the pool only when its last return is over.
THEOREM Invariance == Spec => []IInv
BY InitHolds, NextHolds, PTL DEF Spec

\* The pool never overflows: recycleMemory puts a piece back once for each time
\* it was obtained, so push_back does not throw with both mutexes locked.
THEOREM PoolNeverOverflows == Spec => []NoOverflow
<1>1. IInv => NoOverflow
  BY DEF IInv
<1> QED BY <1>1, Invariance, PTL

(***************************************************************************)
(* The refinement.                                                          *)
(***************************************************************************)
ManagerFree  == [d \in Data |-> IF Filled THEN InPool(d) ELSE 1]
ManagerInUse == {d \in Data : Filled /\ InPool(d) = 0}

\* Once the pool is filled, what is free is what is in it.
LEMMA FreeIs ==
  ASSUME IInv, Filled
  PROVE  /\ ManagerFree = [d \in Data |-> IF In(d) THEN 1 ELSE 0]
         /\ ManagerInUse = {d \in Data : ~In(d)}
BY InPoolIs DEF IInv, TypeOK, ManagerFree, ManagerInUse

LEMMA FreeIsNext ==
  ASSUME IInv', Filled'
  PROVE  /\ ManagerFree' = [d \in Data |-> IF In(d)' THEN 1 ELSE 0]
         /\ ManagerInUse' = {d \in Data : ~In(d)'}
BY InPoolNext DEF IInv, TypeOK, ManagerFree, ManagerInUse

\* A step that moves no piece maps to a stutter.
LEMMA PoolKept ==
  ASSUME IInv, IInv', Filled, Filled', UNCHANGED <<pool, count>>
  PROVE  UNCHANGED Manager!vars
<1>1. \A d : In(d)' = In(d)
  BY DEF In
<1>2. UNCHANGED <<ManagerFree, ManagerInUse>>
  BY <1>1, FreeIs, FreeIsNext
<1> QED BY <1>2 DEF Manager!vars, ManagerFree, ManagerInUse

\* While it is not filled, nothing is visible.
LEMMA Unfilled ==
  ASSUME ~Filled, ~Filled', UNCHANGED count
  PROVE  UNCHANGED Manager!vars
BY DEF Manager!vars

LEMMA ManagerInit == Init => Manager!Init
<1> SUFFICES ASSUME Init PROVE Manager!Init
  OBVIOUS
<1>1. ~Filled /\ count = [d \in Data |-> 0]
  BY DEF Init, Filled
<1>2. ManagerFree = [d \in Data |-> 1] /\ ManagerInUse = {}
  BY <1>1 DEF ManagerFree, ManagerInUse
<1> QED BY <1>1, <1>2 DEF Manager!Init, ManagerFree, ManagerInUse

LEMMA InitializeMaps ==
  ASSUME IInv, IInv', NEW t \in Getter, Initialize(t)
  PROVE  UNCHANGED Manager!vars
<1>1. TypeOK /\ MutexInv /\ Distinct /\ FillInv
  BY DEF IInv
<1>2. CASE LockToInitialize(t)
  <2>1. /\ pc[t] = "initialize" /\ memoryManagerMutex_ = NoThread
        /\ UNCHANGED <<pool, count>>
        /\ Goto(t, IF initialized_ THEN "initialized" ELSE "fill")
        /\ initialized_'
    BY <1>2 DEF LockToInitialize
  <2>2. \A u \in Getter : pc[u] # "fill"
    BY <1>1, <2>1, SidesDiffer DEF MutexInv
  <2>3. CASE initialized_
    <3>1. Filled
      BY <2>2, <2>3 DEF Filled
    <3>2. Goto(t, "initialized")
      BY <2>1, <2>3, Zenon
    <3>3. Filled'
      BY <1>1, <2>1, <2>2, <3>2, Move, SidesDiffer DEF Filled
    <3> QED BY <2>1, <3>1, <3>3, PoolKept
  <2>4. CASE ~initialized_
    <3>1. Goto(t, "fill")
      BY <2>1, <2>4, Zenon
    <3>2. ~Filled /\ ~Filled'
      BY <1>1, <2>4, <3>1, Move, SidesDiffer DEF Filled
    <3> QED BY <2>1, <3>2, Unfilled
  <2> QED BY <2>3, <2>4
<1>3. CASE Fill(t)
  BY <1>3, Unfilled DEF Fill, Filled
<1>4. CASE EndInitialize(t)
  <2>1. Filled' /\ UNCHANGED <<pool, count>>
    BY <1>4, EndInitializeStep DEF EndInitialize
  <2>2. CASE Filled
    BY <2>1, <2>2, PoolKept
  <2>3. CASE ~Filled
    <3>1. Len(pool) = Capacity /\ pool \in [1..Capacity -> Data \cup {NULL}]
      BY <1>1, <2>3, LenProperties DEF FillInv, TypeOK
    <3>2. \A i \in 1..Capacity : pool[i] # NULL
      BY <2>1, <3>1 DEF IInv, FilledInv
    <3>3. pool \in [1..Capacity -> Data]
      BY <3>1, <3>2
    <3>4. \A i, j \in 1..Capacity : pool[i] = pool[j] => i = j
      BY <1>1, <3>1, <3>2 DEF Distinct
    <3>5. \A d \in Data : In(d)'
      BY <2>1, <3>1, <3>3, <3>4, DistinctPieces, CapacityType DEF In
    <3>6. ManagerFree = [d \in Data |-> 1] /\ ManagerInUse = {}
      BY <2>3 DEF ManagerFree, ManagerInUse
    <3>7. ManagerFree' = [d \in Data |-> 1] /\ ManagerInUse' = {}
      BY <2>1, <3>5, FreeIsNext
    <3> QED BY <2>1, <3>6, <3>7 DEF Manager!vars, ManagerFree, ManagerInUse
  <2> QED BY <2>2, <2>3
<1> QED BY <1>2, <1>3, <1>4 DEF Initialize

\* Taking the first piece obtains it.
LEMMA PopFrontMaps ==
  ASSUME IInv, IInv', NEW t \in Getter, PopFront(t)
  PROVE  UNCHANGED Manager!vars \/ \E d \in Data : Manager!Get(d)
<1>1. TypeOK /\ Distinct /\ FilledInv
  BY DEF IInv
<1>2. Filled /\ Filled' /\ UNCHANGED count
  <2>1. pc[t] \in {"get", "woken"} /\ UNCHANGED count
    BY DEF PopFront
  <2> QED BY <2>1, ActiveIsFilled, PopFrontStep
<1>3. CASE pool = <<>>
  <2>1. UNCHANGED pool
    BY <1>3 DEF PopFront
  <2> QED BY <1>2, <2>1, PoolKept
<1>4. CASE pool # <<>>
  <2>1. pool' = Tail(pool)
    BY <1>4 DEF PopFront
  <2>2. PICK d : d = Head(pool)
    OBVIOUS
  <2>3. d \in Data /\ In(d) /\ \A e : In(e)' <=> In(e) /\ e # d
    BY <1>1, <1>2, <1>4, <2>1, <2>2, TailOfThePool DEF FilledInv, TypeOK
  <2>4. /\ ManagerFree = [e \in Data |-> IF In(e) THEN 1 ELSE 0]
        /\ ManagerInUse = {e \in Data : ~In(e)}
    BY <1>2, FreeIs
  <2>5. /\ ManagerFree' = [e \in Data |-> IF In(e)' THEN 1 ELSE 0]
        /\ ManagerInUse' = {e \in Data : ~In(e)'}
    BY <1>2, FreeIsNext
  <2>6. /\ ManagerFree[d] > 0 /\ d \notin ManagerInUse
        /\ ManagerFree' = [ManagerFree EXCEPT ![d] = @ - 1]
        /\ ManagerInUse' = ManagerInUse \cup {d}
    BY <2>3, <2>4, <2>5
  <2>7. Manager!Get(d)
    BY <1>2, <2>6 DEF Manager!Get, ManagerFree, ManagerInUse
  <2> QED BY <2>3, <2>7
<1> QED BY <1>3, <1>4

LEMMA UseMaps ==
  ASSUME IInv, IInv', NEW t \in Getter, Use(t)
  PROVE  \E d \in Data : Manager!Use(d)
<1>1. PICK d : d = memory[t]
  OBVIOUS
<1>2. pc[t] = "use" /\ count' = [count EXCEPT ![d] = Uses] /\ UNCHANGED pool
  BY <1>1 DEF Use
<1>3. d \in Data /\ ~In(d) /\ count[d] = 0
  BY <1>1, <1>2 DEF IInv, UseInv
<1>4. Filled /\ Filled'
  BY <1>2, ActiveIsFilled, UseStep
<1>5. \A e : In(e)' = In(e)
  BY <1>2 DEF In
<1>6. d \in ManagerInUse /\ UNCHANGED <<ManagerFree, ManagerInUse>>
  BY <1>3, <1>4, <1>5, FreeIs, FreeIsNext
<1>7. Manager!Use(d)
  BY <1>2, <1>3, <1>6 DEF Manager!Use, ManagerFree, ManagerInUse
<1> QED BY <1>3, <1>7

\* A return is counted when the thread that makes it has the manager's mutex.
LEMMA PostProcessMaps ==
  ASSUME IInv, IInv', NEW r \in Returner, PostProcess(r)
  PROVE  \E d \in Data : Manager!Return(d)
<1>1. PICK d : d = memory[r]
  OBVIOUS
<1>2. pc[r] = "postProcess" /\ count' = [count EXCEPT ![d] = @ - 1] /\ UNCHANGED pool
  BY <1>1 DEF PostProcess
<1>3. d \in Data /\ r \in Pending(d)
  BY <1>1, <1>2 DEF IInv, RecycleInv, Recycling, Pending
<1>4. count[d] > 0
  BY <1>3, PendingType DEF IInv, UseInv, TypeOK
<1>5. Filled /\ Filled'
  BY <1>2, ActiveIsFilled, PostProcessStep
<1>6. \A e : In(e)' = In(e)
  BY <1>2 DEF In
<1>7. UNCHANGED <<ManagerFree, ManagerInUse>>
  BY <1>5, <1>6, FreeIs, FreeIsNext
<1>8. Manager!Return(d)
  BY <1>2, <1>4, <1>7 DEF Manager!Return, ManagerFree, ManagerInUse
<1> QED BY <1>3, <1>8

\* Putting a piece back makes it available.
LEMMA PushBackMaps ==
  ASSUME IInv, IInv', NEW r \in Returner, PushBack(r)
  PROVE  \E d \in Data : Manager!Recycle(d)
<1>1. TypeOK /\ Distinct /\ FilledInv /\ RecycleInv
  BY DEF IInv
<1>2. PICK d : d = memory[r]
  OBVIOUS
<1>3. pc[r] = "pushBack" /\ pool' = Append(pool, d) /\ UNCHANGED count
  BY <1>2 DEF PushBack
<1>4. d \in Data /\ count[d] = 0 /\ ~In(d)
  BY <1>1, <1>2, <1>3 DEF RecycleInv, Recycling
<1>5. Filled /\ Filled'
  BY <1>3, ActiveIsFilled, PushBackStep
<1>6. \A e : In(e)' <=> In(e) \/ e = d
  BY <1>1, <1>3, <1>4, <1>5, RoomInThePool DEF FilledInv, TypeOK
<1>7. /\ ManagerFree = [e \in Data |-> IF In(e) THEN 1 ELSE 0]
      /\ ManagerInUse = {e \in Data : ~In(e)}
  BY <1>5, FreeIs
<1>8. /\ ManagerFree' = [e \in Data |-> IF In(e)' THEN 1 ELSE 0]
      /\ ManagerInUse' = {e \in Data : ~In(e)'}
  BY <1>5, FreeIsNext
<1>9. /\ d \in ManagerInUse
      /\ ManagerFree' = [ManagerFree EXCEPT ![d] = @ + 1]
      /\ ManagerInUse' = ManagerInUse \ {d}
  BY <1>4, <1>6, <1>7, <1>8
<1>10. Manager!Recycle(d)
  BY <1>3, <1>4, <1>9 DEF Manager!Recycle, ManagerFree, ManagerInUse
<1> QED BY <1>4, <1>10

LEMMA ManagerNext ==
  ASSUME IInv, IInv', [Next]_vars PROVE [Manager!Next]_(Manager!vars)
<1>1. ASSUME NEW t \in Getter,
             Initialize(t) \/ GetManagedMemory(t) \/ SpuriousWakeUp(t)
      PROVE  [Manager!Next]_(Manager!vars)
  <2>1. CASE SpuriousWakeUp(t)
    <3>1. pc[t] = "wait" /\ UNCHANGED <<pool, count>>
      BY <2>1 DEF SpuriousWakeUp
    <3> QED BY <2>1, <3>1, ActiveIsFilled, SpuriousWakeUpStep, PoolKept
  <2> QED BY <1>1, <2>1, InitializeMaps, PopFrontMaps, UseMaps
          DEF GetManagedMemory, Manager!Next
<1>2. ASSUME NEW r \in Returner, ReturnToMemoryManager(r) \/ RecycleMemory(r)
      PROVE  [Manager!Next]_(Manager!vars)
  <2>1. CASE \/ ReturnToMemoryManager(r) \/ LockManager(r) \/ CanBeRecycled(r)
             \/ NotifyOne(r) \/ UnlockManager(r)
    <3>1. UNCHANGED <<pool, count>>
      BY <2>1
      DEF ReturnToMemoryManager, LockManager, CanBeRecycled, NotifyOne, UnlockManager
    <3>2. Filled'
      BY <2>1, ReturnToMemoryManagerStep, LockManagerStep, CanBeRecycledStep,
         NotifyOneStep, UnlockManagerStep
    <3>3. Filled
      <4>1. CASE ReturnToMemoryManager(r)
        BY <4>1, ActiveIsFilled DEF ReturnToMemoryManager
      <4>2. CASE ~ReturnToMemoryManager(r)
        <5>1. pc[r] # "idle"
          BY <2>1, <4>2
          DEF LockManager, CanBeRecycled, NotifyOne, UnlockManager
        <5> QED BY <5>1, ActiveIsFilled
      <4> QED BY <4>1, <4>2
    <3> QED BY <3>1, <3>2, <3>3, PoolKept
  <2> QED BY <1>2, <2>1, PostProcessMaps, PushBackMaps DEF RecycleMemory, Manager!Next
<1>3. CASE UNCHANGED vars
  BY <1>3 DEF vars, Manager!vars, Filled, InPool
<1> QED BY <1>1, <1>2, <1>3 DEF Next, Finished

\* However the returns of a piece overlap, the manager hands it to one user at a
\* time and has it back once, after the last of them.
THEOREM ManagerIsAPool == Spec => ImplementsManagedPool
BY ManagerInit, ManagerNext, Invariance, PTL
DEF Spec, ImplementsManagedPool, Manager!Spec
===============================================================================
