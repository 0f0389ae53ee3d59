----------------------------- MODULE MemoryManager -----------------------------
(***************************************************************************)
(* A memory manager shared by the threads of a task group, which obtain      *)
(* memory from it, and by the threads that give the memory back.  The pool   *)
(* has a mutex of its own, of which each section is one step;                *)
(* memoryManagerMutex_ is held while the pool is filled and while a piece of *)
(* memory is recycled.                                                       *)
(*                                                                          *)
(* The managed memory counts its uses, as the class of a user does whose     *)
(* postProcess counts down and whose canBeRecycled tests for zero.           *)
(***************************************************************************)
EXTENDS Naturals, Sequences, FiniteSets

CONSTANTS
  Getter,    \* the threads of the group that calls getManagedMemory
  Returner,  \* the threads that call returnToMemoryManager
  Data,      \* the pieces of memory the manager creates
  Uses,      \* how often a piece is given back before it can be recycled
  Rounds,    \* how often each getter calls getManagedMemory
  NULL,      \* an empty pointer
  NoThread   \* the owner of a free mutex

Capacity == Cardinality(Data)

ASSUME MemoryAssumption ==
  /\ Data # {} /\ IsFiniteSet(Data) /\ NULL \notin Data
  /\ NoThread \notin Getter \cup Returner
  /\ Getter \cap Returner = {} /\ IsFiniteSet(Returner)
  /\ Uses \in Nat \ {0} /\ Rounds \in Nat \ {0}

VARIABLES
  pc,
  pool,         \* Pool::queue_
  initialized_,
  memoryManagerMutex_,
  poolMutex_,   \* held on only by push_back when it throws
  filled,       \* how much of the pool a thread that initializes it has filled
  memory,       \* the piece a thread obtained, or is giving back
  rounds,       \* how often each getter will still ask
  count,        \* the use count inside each piece
  due           \* how often each piece has yet to be given back

vars == <<pc, pool, initialized_, memoryManagerMutex_, poolMutex_, filled,
          memory, rounds, count, due>>

\* A pool is created with as many empty pointers as it has capacity.
Init ==
  /\ pc = [t \in Getter \cup Returner |->
             IF t \in Getter THEN "initialize" ELSE "idle"]
  /\ pool = [i \in 1..Capacity |-> NULL]
  /\ initialized_ = FALSE
  /\ memoryManagerMutex_ = NoThread
  /\ poolMutex_ = NoThread
  /\ filled = [t \in Getter |-> 0]
  /\ memory = [t \in Getter \cup Returner |-> NULL]
  /\ rounds = [t \in Getter |-> Rounds]
  /\ count = [d \in Data |-> 0]
  /\ due = [d \in Data |-> 0]

Goto(t, l) == pc' = [pc EXCEPT ![t] = l]

InPool(d) == Cardinality({i \in 1..Len(pool) : pool[i] = d})
Waiting   == {t \in Getter : pc[t] = "wait"}
-----------------------------------------------------------------------------
(* initialize, which every thread of the group calls before it executes.     *)

LockToInitialize(t) ==
  /\ pc[t] = "initialize"
  /\ memoryManagerMutex_ = NoThread
  /\ memoryManagerMutex_' = t
  /\ initialized_' = TRUE
  /\ Goto(t, IF initialized_ THEN "initialized" ELSE "fill")
  /\ UNCHANGED <<pool, poolMutex_, filled, memory, rounds, count, due>>

\* The pool is filled in place and without its mutex.
Fill(t) ==
  /\ pc[t] = "fill"
  /\ filled[t] < Capacity
  /\ \E d \in Data :
       /\ InPool(d) = 0
       /\ pool' = [pool EXCEPT ![filled[t] + 1] = d]
  /\ filled' = [filled EXCEPT ![t] = @ + 1]
  /\ UNCHANGED <<pc, initialized_, memoryManagerMutex_, poolMutex_, memory,
                 rounds, count, due>>

EndInitialize(t) ==
  /\ \/ pc[t] = "initialized"
     \/ pc[t] = "fill" /\ filled[t] = Capacity
  /\ memoryManagerMutex_' = NoThread
  /\ Goto(t, "get")
  /\ UNCHANGED <<pool, initialized_, poolMutex_, filled, memory, rounds, count,
                 due>>
-----------------------------------------------------------------------------
(* getManagedMemory.                                                         *)

\* pop_front waits until the pool is not empty.
PopFront(t) ==
  /\ pc[t] \in {"get", "woken"}
  /\ poolMutex_ = NoThread
  /\ IF pool = <<>>
       THEN Goto(t, "wait") /\ UNCHANGED <<pool, memory>>
       ELSE /\ memory' = [memory EXCEPT ![t] = Head(pool)]
            /\ pool' = Tail(pool)
            /\ Goto(t, "use")
  /\ UNCHANGED <<initialized_, memoryManagerMutex_, filled, poolMutex_, rounds,
                 count, due>>

SpuriousWakeUp(t) ==
  /\ pc[t] = "wait"
  /\ Goto(t, "woken")
  /\ UNCHANGED <<pool, initialized_, memoryManagerMutex_, filled, poolMutex_,
                 memory, rounds, count, due>>

\* The task says how often the memory will be given back, and sends it on.
Use(t) ==
  /\ pc[t] = "use"
  /\ count' = [count EXCEPT ![memory[t]] = Uses]
  /\ due' = [due EXCEPT ![memory[t]] = Uses]
  /\ memory' = [memory EXCEPT ![t] = NULL]
  /\ rounds' = [rounds EXCEPT ![t] = @ - 1]
  /\ Goto(t, IF rounds[t] = 1 THEN "done" ELSE "get")
  /\ UNCHANGED <<pool, initialized_, memoryManagerMutex_, filled, poolMutex_>>
-----------------------------------------------------------------------------
(* returnToMemoryManager, which is recycleMemory.                            *)

ReturnToMemoryManager(r) ==
  /\ pc[r] = "idle"
  /\ \E d \in Data :
       /\ due[d] > 0
       /\ due' = [due EXCEPT ![d] = @ - 1]
       /\ memory' = [memory EXCEPT ![r] = d]
  /\ Goto(r, "lock")
  /\ UNCHANGED <<pool, initialized_, memoryManagerMutex_, filled, poolMutex_,
                 rounds, count>>

\* Mutant of LockManager: recycleMemory does not exclude other returns.
LockManagerNever(r) ==
  /\ pc[r] = "lock"
  /\ Goto(r, "postProcess")
  /\ UNCHANGED <<pool, initialized_, memoryManagerMutex_, filled, poolMutex_,
                 memory, rounds, count, due>>

LockManager(r) ==
  /\ pc[r] = "lock"
  /\ memoryManagerMutex_ = NoThread
  /\ memoryManagerMutex_' = r
  /\ Goto(r, "postProcess")
  /\ UNCHANGED <<pool, initialized_, filled, poolMutex_, memory, rounds, count,
                 due>>

PostProcess(r) ==
  /\ pc[r] = "postProcess"
  /\ count' = [count EXCEPT ![memory[r]] = @ - 1]
  /\ Goto(r, "canBeRecycled")
  /\ UNCHANGED <<pool, initialized_, memoryManagerMutex_, filled, poolMutex_,
                 memory, rounds, due>>

CanBeRecycled(r) ==
  /\ pc[r] = "canBeRecycled"
  /\ Goto(r, IF count[memory[r]] = 0 THEN "pushBack" ELSE "unlock")
  /\ UNCHANGED <<pool, initialized_, memoryManagerMutex_, filled, poolMutex_,
                 memory, rounds, count, due>>

\* A pool that overflows throws, and both mutexes stay locked.
PushBack(r) ==
  /\ pc[r] = "pushBack"
  /\ poolMutex_ = NoThread
  /\ pool' = Append(pool, memory[r])
  /\ IF Len(pool') > Capacity
       THEN poolMutex_' = r /\ Goto(r, "thrown")
       ELSE UNCHANGED poolMutex_ /\ Goto(r, "notifyOne")
  /\ UNCHANGED <<initialized_, memoryManagerMutex_, filled, memory, rounds,
                 count, due>>

\* Mutant of NotifyOne: only a pool that was empty is notified.
NotifyOneIfEmpty(r) ==
  /\ pc[r] = "notifyOne"
  /\ IF Waiting = {} \/ Len(pool) # 1 THEN Goto(r, "unlock")
     ELSE \E t \in Waiting : pc' = [pc EXCEPT ![t] = "woken", ![r] = "unlock"]
  /\ UNCHANGED <<pool, initialized_, memoryManagerMutex_, filled, poolMutex_,
                 memory, rounds, count, due>>

NotifyOne(r) ==
  /\ pc[r] = "notifyOne"
  /\ IF Waiting = {} THEN Goto(r, "unlock")
     ELSE \E t \in Waiting : pc' = [pc EXCEPT ![t] = "woken", ![r] = "unlock"]
  /\ UNCHANGED <<pool, initialized_, memoryManagerMutex_, filled, poolMutex_,
                 memory, rounds, count, due>>

UnlockManager(r) ==
  /\ pc[r] = "unlock"
  /\ memoryManagerMutex_' = NoThread
  /\ memory' = [memory EXCEPT ![r] = NULL]
  /\ Goto(r, "idle")
  /\ UNCHANGED <<pool, initialized_, filled, poolMutex_, rounds, count, due>>
-----------------------------------------------------------------------------
Initialize(t) == LockToInitialize(t) \/ Fill(t) \/ EndInitialize(t)

GetManagedMemory(t) == PopFront(t) \/ Use(t)

RecycleMemory(r) ==
  \/ LockManager(r) \/ PostProcess(r) \/ CanBeRecycled(r) \/ PushBack(r)
  \/ NotifyOne(r) \/ UnlockManager(r)

Served == \A t \in Getter : pc[t] = "done"

\* All the memory has been given back and nobody asks for any more.
Finished ==
  /\ Served
  /\ \A r \in Returner : pc[r] = "idle"
  /\ \A d \in Data : due[d] = 0
  /\ UNCHANGED vars

Next ==
  \/ \E t \in Getter : Initialize(t) \/ GetManagedMemory(t) \/ SpuriousWakeUp(t)
  \/ \E r \in Returner : ReturnToMemoryManager(r) \/ RecycleMemory(r)
  \/ Finished

Spec == Init /\ [][Next]_vars

\* Threads that can run are scheduled, memory is given back, and a mutex that is
\* released again and again is obtained.
FairSpec ==
  /\ Spec
  /\ \A t \in Getter :
       /\ WF_vars(Initialize(t)) /\ SF_vars(LockToInitialize(t))
       /\ WF_vars(GetManagedMemory(t))
  /\ \A r \in Returner :
       /\ WF_vars(ReturnToMemoryManager(r))
       /\ WF_vars(RecycleMemory(r)) /\ SF_vars(LockManager(r))
-----------------------------------------------------------------------------
(* Properties.                                                               *)

\* Until the pool is filled nobody can ask for memory.
Filled == initialized_ /\ \A t \in Getter : pc[t] # "fill"

\* Each piece has one user at a time: however its returns overlap, it goes back
\* to the pool once, after the last of them.  (Until the pool is filled it
\* counts as free.)
Manager == INSTANCE ManagedPool WITH
  free <- [d \in Data |-> IF Filled THEN InPool(d) ELSE 1],
  inUse <- {d \in Data : Filled /\ InPool(d) = 0},
  uses <- count

ImplementsManagedPool == Manager!Spec

\* Every call of getManagedMemory returns as long as memory is given back.
EveryCallServed == <>Served
=============================================================================
