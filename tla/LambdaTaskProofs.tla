--------------------------- MODULE LambdaTaskProofs ---------------------------
(***************************************************************************)
(* Every thread runs the functions that its task was given before it was     *)
(* copied, and every value is executed once: for any number of inputs,        *)
(* functions, clones, threads and values, and whatever the user sets when.    *)
(***************************************************************************)
EXTENDS LambdaTask, FiniteSetTheorems, SequenceTheorems, TLAPS
-----------------------------------------------------------------------------
(* The invariant.                                                            *)

Value == 1 .. MaxValues
At == {"none", "created", "loop", "operate", "left"}
Function == [lambda : Lambda \cup {Unset}, task : Instance]
TaskObject == [lambdas : [Position -> Lambda \cup {Unset}],
               execute : [Position -> Function],
               memory : CloneId]
SetCall == [op : {"set"}, input : Position, to : Lambda]
CloneCall == [op : {"clone"}, clone : CloneId]

TypeOK ==
  /\ Made \subseteq Instance /\ User \in Made
  /\ tasks \in [Made -> TaskObject]
  /\ threads \in [Instance -> [at : At, input : Nat]]
  /\ \A i \in Instance : threads[i].at = "operate" => threads[i].input \in Position
  /\ queues \in [CloneId -> [Position -> Seq(Value)]]
  /\ fed \in [CloneId -> [Position -> 0 .. MaxValues]]
  /\ linked \subseteq Instance
  /\ results \subseteq [by : Instance, input : Position, value : Value \cup {Null},
                        lambda : Lambda, through : Instance, memory : CloneId]
  /\ calls \in Seq(SetCall \cup CloneCall)
  /\ broken \in BOOLEAN

\* Of the calls cs: those that cloned the task for graph k, those that set the function
\* of input p before, and the function that the last of them set.
ClonedIn(cs, k) == {n \in DOMAIN cs : cs[n].op = "clone" /\ cs[n].clone = k}
SetsIn(cs, k, p) == {n \in DOMAIN cs : /\ cs[n].op = "set" /\ cs[n].input = p
                                       /\ \A c \in ClonedIn(cs, k) : n < c}
IsLast(n, S) == n \in S /\ \A m \in S : m <= n
BeforeIn(cs, k, p) ==
  IF SetsIn(cs, k, p) = {} THEN Given[p]
  ELSE cs[CHOOSE n \in SetsIn(cs, k, p) : \A m \in SetsIn(cs, k, p) : m <= n].to
Ordered(cs) == \A k \in CloneId, p \in Position :
  SetsIn(cs, k, p) # {} => \E n \in SetsIn(cs, k, p) : IsLast(n, SetsIn(cs, k, p))

\* A clone exists when it was asked for; one of the calls was the last.
CallsInv ==
  /\ ClonedIn(calls, 0) = {}
  /\ \A k \in CloneId \ {0} : ClonedIn(calls, k) = {} <=> <<k, 0>> \notin Made
  /\ Ordered(calls)

\* A task has the functions of its graph, runs them in its own name and uses the
\* memory of its graph.
TaskInv == \A i \in Made :
  /\ \A p \in Position : /\ tasks[i].lambdas[p] = BeforeIn(calls, i[1], p)
                         /\ tasks[i].execute[p] = [lambda |-> tasks[i].lambdas[p], task |-> i]
  /\ tasks[i].memory = i[1]

\* The copies of a task exist, and have a predecessor, when its group was created.
GroupInv == \A i \in Instance :
  i \in linked \/ (i \in Made /\ i[2] # 0) \/ threads[i].at # "none" =>
    Members(i[1]) \subseteq Made /\ \A j \in Members(i[1]) : threads[j].at # "none"

ResultInv == \A r \in results :
  /\ r.by \in Made /\ threads[r.by].at \notin {"none", "created"}
  /\ r.lambda = BeforeIn(calls, r.by[1], r.input) /\ r.through = r.by /\ r.memory = r.by[1]

BrokenInv == broken => \E k \in CloneId, p \in Position : BeforeIn(calls, k, p) = Unset

\* The predecessor leaves after its last value; a thread leaves after that.
EndInv == \A i \in Instance :
  /\ threads[i].at # "none" /\ i \notin linked =>
       \A p \in Position : fed[i[1]][p] = MaxValues
  /\ threads[i].at = "left" => i \notin linked /\ ReceiversEmpty(i)

\* Of what was pushed, the first e values were executed, each once, and the others wait.
Executed(k, p, v) == \E r \in results : r.by[1] = k /\ r.input = p /\ r.value = v
FlowUpTo(k, p, e) ==
  /\ e + Len(queues[k][p]) = fed[k][p]
  /\ \A n \in 1 .. Len(queues[k][p]) : queues[k][p][n] = e + n
  /\ \A v \in Value : Executed(k, p, v) <=> v <= e
FlowInv == \A k \in CloneId, p \in Position :
  \/ \E e \in 0 .. MaxValues : FlowUpTo(k, p, e)
  \/ broken /\ \E i \in Members(k) : threads[i].at # "left"

OnceInv == \A r, s \in results :
  r.by[1] = s.by[1] /\ r.input = s.input /\ r.value = s.value /\ r.value # Null => r = s

\* A thread that started has executed its nulls.
StartedWith(i) == \A p \in Position :
  StartsItself <=> \E r \in results : r.by = i /\ r.input = p /\ r.value = Null
NullInv == \A i \in Instance : threads[i].at \in {"loop", "operate", "left"} =>
  StartedWith(i) \/ (broken /\ threads[i].at # "left")

LambdaInv == /\ TypeOK /\ CallsInv /\ TaskInv /\ GroupInv /\ ResultInv /\ BrokenInv
             /\ EndInv /\ FlowInv /\ OnceInv /\ NullInv
-----------------------------------------------------------------------------
(* The calls.                                                                *)

Call == SetCall \cup CloneCall

\* The greatest member of a set of numbers is the one that is chosen.
LEMMA LastIsChosen ==
  ASSUME NEW S \in SUBSET Nat, NEW n, IsLast(n, S)
  PROVE  (CHOOSE x \in S : \A m \in S : m <= x) = n
<1>1. n \in S /\ \A m \in S : m <= n  BY DEF IsLast
<1> DEFINE x == CHOOSE y \in S : \A m \in S : m <= y
<1>2. x \in S /\ \A m \in S : m <= x  BY <1>1
<1>3. x <= n /\ n <= x  BY <1>1, <1>2
<1>4. x \in Nat /\ n \in Nat  BY <1>1, <1>2
<1>5. QED  BY <1>3, <1>4

\* What is set last, when something is.
LEMMA BeforeIsTheLast ==
  ASSUME NEW cs \in Seq(Call), NEW k, NEW p, NEW n, IsLast(n, SetsIn(cs, k, p))
  PROVE  BeforeIn(cs, k, p) = cs[n].to /\ n \in DOMAIN cs /\ cs[n].op = "set"
<1>1. SetsIn(cs, k, p) \in SUBSET Nat  BY DEF SetsIn
<1>2. (CHOOSE x \in SetsIn(cs, k, p) : \A m \in SetsIn(cs, k, p) : m <= x) = n
  BY <1>1, LastIsChosen
<1>3. n \in SetsIn(cs, k, p)  BY DEF IsLast
<1>4. BeforeIn(cs, k, p) = cs[n].to  BY <1>2, <1>3 DEF BeforeIn
<1>5. QED  BY <1>3, <1>4 DEF SetsIn

\* What a task runs is a function or none.
LEMMA BeforeType ==
  ASSUME NEW cs \in Seq(Call), Ordered(cs), NEW k \in CloneId, NEW p \in Position
  PROVE  BeforeIn(cs, k, p) \in Lambda \cup {Unset}
<1>1. CASE SetsIn(cs, k, p) = {}
  BY <1>1, LambdaAssumption DEF BeforeIn, Position
<1>2. CASE SetsIn(cs, k, p) # {}
  <2>1. PICK n \in SetsIn(cs, k, p) : IsLast(n, SetsIn(cs, k, p))  BY <1>2 DEF Ordered
  <2>2. BeforeIn(cs, k, p) = cs[n].to /\ n \in DOMAIN cs /\ cs[n].op = "set"
    BY <2>1, BeforeIsTheLast
  <2>3. cs[n] \in Call  BY <2>2
  <2>4. cs[n] \in SetCall  BY <2>2, <2>3 DEF Call, SetCall, CloneCall
  <2>5. QED  BY <2>2, <2>4 DEF SetCall
<1>3. QED  BY <1>1, <1>2

\* What was set before does not depend on later calls that are no part of it.
LEMMA BeforeIsKept ==
  ASSUME NEW cs \in Seq(Call), Ordered(cs), NEW c \in Call, NEW j \in CloneId,
         NEW k \in CloneId, NEW p \in Position,
         SetsIn(Append(cs, c), k, p) = SetsIn(cs, j, p)
  PROVE  /\ BeforeIn(Append(cs, c), k, p) = BeforeIn(cs, j, p)
         /\ SetsIn(Append(cs, c), k, p) # {} =>
              \E n \in SetsIn(Append(cs, c), k, p) : IsLast(n, SetsIn(Append(cs, c), k, p))
<1>1. CASE SetsIn(cs, j, p) = {}  BY <1>1 DEF BeforeIn
<1>2. CASE SetsIn(cs, j, p) # {}
  <2>1. PICK n \in SetsIn(cs, j, p) : IsLast(n, SetsIn(cs, j, p))  BY <1>2 DEF Ordered
  <2>2. BeforeIn(cs, j, p) = cs[n].to /\ n \in DOMAIN cs  BY <2>1, BeforeIsTheLast
  <2>3. PICK ds : ds = Append(cs, c)  OBVIOUS
  <2>4. ds \in Seq(Call)  BY <2>3
  <2>5. IsLast(n, SetsIn(ds, k, p))  BY <2>1, <2>3
  <2>6. BeforeIn(ds, k, p) = ds[n].to  BY <2>4, <2>5, BeforeIsTheLast
  <2>7. ds[n] = cs[n]  BY <2>2, <2>3
  <2>8. QED  BY <2>1, <2>2, <2>3, <2>6, <2>7
<1>3. QED  BY <1>1, <1>2

\* A call adds one member, or none, to the calls of a graph.
LEMMA ClonedAppend ==
  ASSUME NEW cs \in Seq(Call), NEW c \in Call, NEW k
  PROVE  ClonedIn(Append(cs, c), k) =
           ClonedIn(cs, k) \cup (IF c.op = "clone" /\ c.clone = k THEN {Len(cs) + 1} ELSE {})
<1>1. DOMAIN Append(cs, c) = DOMAIN cs \cup {Len(cs) + 1}  OBVIOUS
<1>2. /\ \A n \in DOMAIN cs : Append(cs, c)[n] = cs[n]
      /\ Append(cs, c)[Len(cs) + 1] = c
  OBVIOUS
<1>3. QED  BY <1>1, <1>2 DEF ClonedIn

LEMMA SetsAppend ==
  ASSUME NEW cs \in Seq(Call), NEW c \in Call, NEW k, NEW p
  PROVE  SetsIn(Append(cs, c), k, p) =
           {n \in SetsIn(cs, k, p) : c.op = "clone" /\ c.clone = k => n < Len(cs) + 1}
             \cup (IF c.op = "set" /\ c.input = p /\ ClonedIn(cs, k) = {}
                   THEN {Len(cs) + 1} ELSE {})
<1>1. DOMAIN Append(cs, c) = DOMAIN cs \cup {Len(cs) + 1}  OBVIOUS
<1>2. /\ \A n \in DOMAIN cs : Append(cs, c)[n] = cs[n]
      /\ Append(cs, c)[Len(cs) + 1] = c
  OBVIOUS
<1>3. ClonedIn(cs, k) \subseteq DOMAIN cs  BY DEF ClonedIn
<1>4. ~ (Len(cs) + 1 \in DOMAIN cs) /\ \A n \in DOMAIN cs : ~ (Len(cs) + 1 < n)  OBVIOUS
<1>5. PICK ds : ds = Append(cs, c)  OBVIOUS
<1>6. ClonedIn(ds, k) =
        ClonedIn(cs, k) \cup (IF c.op = "clone" /\ c.clone = k THEN {Len(cs) + 1} ELSE {})
  BY <1>5, ClonedAppend
<1>7. SUFFICES ASSUME NEW n
               PROVE  n \in SetsIn(ds, k, p) <=>
                 \/ n \in SetsIn(cs, k, p) /\ (c.op = "clone" /\ c.clone = k => n < Len(cs) + 1)
                 \/ n = Len(cs) + 1 /\ c.op = "set" /\ c.input = p /\ ClonedIn(cs, k) = {}
  BY <1>5
<1>8. CASE n \in DOMAIN cs
  <2>1. ds[n] = cs[n] /\ n \in DOMAIN ds /\ n # Len(cs) + 1  BY <1>8, <1>1, <1>2, <1>4, <1>5
  <2>2. QED  BY <2>1, <1>6, <1>8 DEF SetsIn
<1>9. CASE n = Len(cs) + 1
  <2>1. ds[n] = c /\ n \in DOMAIN ds /\ n \notin DOMAIN cs  BY <1>9, <1>1, <1>2, <1>4, <1>5
  <2>2. n \notin SetsIn(cs, k, p)  BY <2>1 DEF SetsIn
  <2>3. n \in SetsIn(ds, k, p) <=>
          c.op = "set" /\ c.input = p /\ \A m \in ClonedIn(ds, k) : n < m
    BY <2>1 DEF SetsIn
  <2>4. ASSUME c.op = "set" PROVE (\A m \in ClonedIn(ds, k) : n < m) <=> ClonedIn(cs, k) = {}
    <3>1. ClonedIn(ds, k) = ClonedIn(cs, k)  BY <1>6, <2>4
    <3>2. \A m \in ClonedIn(cs, k) : ~ (n < m)  BY <1>3, <1>4, <1>9
    <3>3. QED  BY <3>1, <3>2
  <2>5. QED  BY <2>2, <2>3, <2>4, <1>9
<1>10. CASE n \notin DOMAIN cs /\ n # Len(cs) + 1
  BY <1>10, <1>1, <1>5 DEF SetsIn
<1>11. QED  BY <1>8, <1>9, <1>10

\* A call of setLambda changes what the task and the clones not yet taken have.
LEMMA SetCallChanges ==
  ASSUME NEW cs \in Seq(Call), Ordered(cs), NEW p \in Position, NEW f \in Lambda,
         NEW c, c = [op |-> "set", input |-> p, to |-> f]
  PROVE  /\ Append(cs, c) \in Seq(Call) /\ Ordered(Append(cs, c))
         /\ \A k \in CloneId : ClonedIn(Append(cs, c), k) = ClonedIn(cs, k)
         /\ \A k \in CloneId, q \in Position :
              BeforeIn(Append(cs, c), k, q) =
                IF q = p /\ ClonedIn(cs, k) = {} THEN f ELSE BeforeIn(cs, k, q)
<1>1. c \in SetCall /\ c.op = "set" /\ c.input = p /\ c.to = f  BY DEF SetCall
<1>2. c \in Call  BY <1>1 DEF Call
<1>3. PICK ds : ds = Append(cs, c)  OBVIOUS
<1>4. ds \in Seq(Call) /\ ds[Len(cs) + 1] = c  BY <1>2, <1>3
<1>5. \A k \in CloneId : ClonedIn(ds, k) = ClonedIn(cs, k)
  <2>1. TAKE k \in CloneId
  <2>2. ClonedIn(Append(cs, c), k) =
          ClonedIn(cs, k) \cup (IF c.op = "clone" /\ c.clone = k THEN {Len(cs) + 1} ELSE {})
    BY <1>2, ClonedAppend
  <2>3. QED  BY <2>2, <1>1, <1>3
<1>6. ASSUME NEW k \in CloneId, NEW q \in Position
      PROVE  /\ BeforeIn(ds, k, q) =
                  IF q = p /\ ClonedIn(cs, k) = {} THEN f ELSE BeforeIn(cs, k, q)
             /\ SetsIn(ds, k, q) # {} =>
                  \E n \in SetsIn(ds, k, q) : IsLast(n, SetsIn(ds, k, q))
  <2>1. SetsIn(Append(cs, c), k, q) =
          {n \in SetsIn(cs, k, q) : c.op = "clone" /\ c.clone = k => n < Len(cs) + 1}
            \cup (IF c.op = "set" /\ c.input = q /\ ClonedIn(cs, k) = {}
                  THEN {Len(cs) + 1} ELSE {})
    BY <1>2, SetsAppend
  <2>2. SetsIn(ds, k, q) =
          SetsIn(cs, k, q) \cup (IF q = p /\ ClonedIn(cs, k) = {} THEN {Len(cs) + 1} ELSE {})
    BY <2>1, <1>1, <1>3
  <2>3. CASE q = p /\ ClonedIn(cs, k) = {}
    <3>1. SetsIn(ds, k, q) = SetsIn(cs, k, q) \cup {Len(cs) + 1}  BY <2>2, <2>3
    <3>2. \A n \in SetsIn(cs, k, q) : n <= Len(cs) + 1  BY DEF SetsIn
    <3>3. PICK n : n = Len(cs) + 1  OBVIOUS
    <3>4. IsLast(n, SetsIn(ds, k, q))  BY <3>1, <3>2, <3>3 DEF IsLast
    <3>5. BeforeIn(ds, k, q) = ds[n].to  BY <3>4, <1>4, BeforeIsTheLast
    <3>6. BeforeIn(ds, k, q) = f  BY <3>5, <3>3, <1>4, <1>1
    <3>7. QED  BY <3>6, <3>4, <2>3, <3>1, <3>3
  <2>4. CASE ~ (q = p /\ ClonedIn(cs, k) = {})
    <3>1. SetsIn(Append(cs, c), k, q) = SetsIn(cs, k, q)  BY <2>2, <2>4, <1>3
    <3>2. /\ BeforeIn(Append(cs, c), k, q) = BeforeIn(cs, k, q)
          /\ SetsIn(Append(cs, c), k, q) # {} =>
               \E n \in SetsIn(Append(cs, c), k, q) : IsLast(n, SetsIn(Append(cs, c), k, q))
      BY <3>1, <1>2, BeforeIsKept
    <3>3. QED  BY <3>2, <2>4, <1>3
  <2>5. QED  BY <2>3, <2>4
<1>7. Ordered(ds)  BY <1>6 DEF Ordered
<1>8. QED  BY <1>3, <1>4, <1>5, <1>6, <1>7

\* A clone has, for good, what the task has when it is taken.
LEMMA CloneCallChanges ==
  ASSUME NEW cs \in Seq(Call), Ordered(cs), NEW k \in CloneId, k # 0,
         ClonedIn(cs, 0) = {}, ClonedIn(cs, k) = {},
         NEW c, c = [op |-> "clone", clone |-> k]
  PROVE  /\ Append(cs, c) \in Seq(Call) /\ Ordered(Append(cs, c))
         /\ \A j \in CloneId : ClonedIn(Append(cs, c), j) = {} <=> ClonedIn(cs, j) = {} /\ j # k
         /\ \A j \in CloneId, q \in Position :
              BeforeIn(Append(cs, c), j, q) = BeforeIn(cs, (IF j = k THEN 0 ELSE j), q)
<1>1. c \in CloneCall /\ c.op = "clone" /\ c.clone = k  BY DEF CloneCall
<1>2. c \in Call  BY <1>1 DEF Call
<1>3. PICK ds : ds = Append(cs, c)  OBVIOUS
<1>4. ds \in Seq(Call)  BY <1>2, <1>3
<1>5. \A j \in CloneId : ClonedIn(ds, j) = {} <=> ClonedIn(cs, j) = {} /\ j # k
  <2>1. TAKE j \in CloneId
  <2>2. ClonedIn(Append(cs, c), j) =
          ClonedIn(cs, j) \cup (IF c.op = "clone" /\ c.clone = j THEN {Len(cs) + 1} ELSE {})
    BY <1>2, ClonedAppend
  <2>3. QED  BY <2>2, <1>1, <1>3
<1>0. 0 \in CloneId  BY LambdaAssumption DEF CloneId
<1>6. ASSUME NEW j \in CloneId, NEW q \in Position
      PROVE  /\ BeforeIn(ds, j, q) = BeforeIn(cs, (IF j = k THEN 0 ELSE j), q)
             /\ SetsIn(ds, j, q) # {} =>
                  \E n \in SetsIn(ds, j, q) : IsLast(n, SetsIn(ds, j, q))
  <2>1. SetsIn(Append(cs, c), j, q) =
          {n \in SetsIn(cs, j, q) : c.op = "clone" /\ c.clone = j => n < Len(cs) + 1}
            \cup (IF c.op = "set" /\ c.input = q /\ ClonedIn(cs, j) = {}
                  THEN {Len(cs) + 1} ELSE {})
    BY <1>2, SetsAppend
  <2>2. \A n \in SetsIn(cs, j, q) : n < Len(cs) + 1  BY DEF SetsIn
  <2>3. SetsIn(Append(cs, c), j, q) = SetsIn(cs, j, q)  BY <2>1, <2>2, <1>1
  <2>4. PICK o \in CloneId : o = IF j = k THEN 0 ELSE j  BY <1>0
  <2>5. SetsIn(cs, j, q) = SetsIn(cs, o, q)
    <3>1. CASE j = k  BY <3>1, <2>4 DEF SetsIn
    <3>2. CASE j # k  BY <3>2, <2>4
    <3>3. QED  BY <3>1, <3>2
  <2>6. SetsIn(Append(cs, c), j, q) = SetsIn(cs, o, q)  BY <2>3, <2>5
  <2>7. /\ BeforeIn(Append(cs, c), j, q) = BeforeIn(cs, o, q)
        /\ SetsIn(Append(cs, c), j, q) # {} =>
             \E n \in SetsIn(Append(cs, c), j, q) : IsLast(n, SetsIn(Append(cs, c), j, q))
    BY <2>6, <1>2, BeforeIsKept
  <2>8. QED  BY <2>7, <2>4, <1>3
<1>7. Ordered(ds)  BY <1>6 DEF Ordered
<1>8. QED  BY <1>3, <1>4, <1>5, <1>6, <1>7
-----------------------------------------------------------------------------
(* The initial states.                                                       *)

LEMMA InstanceParts ==
  /\ \A i \in Instance : /\ i[1] \in CloneId /\ i[2] \in 0 .. GroupSize - 1
                         /\ i = <<i[1], i[2]>> /\ i \in Members(i[1])
  /\ \A k \in CloneId : /\ Members(k) \subseteq Instance /\ <<k, 0>> \in Members(k)
                        /\ \A i \in Members(k) : i[1] = k
  /\ 0 \in CloneId /\ User \in Instance
BY LambdaAssumption DEF Instance, Members, CloneId, User

LEMMA InvariantInitially == LambdaInit => LambdaInv
<1>1. SUFFICES ASSUME LambdaInit PROVE LambdaInv  OBVIOUS
<1>2. Made = {User} /\ tasks[User] = NewTask(User, Given, 0)
  BY <1>1 DEF LambdaInit, Made
<1>3. \A i \in Instance : threads[i] = Idle /\ threads[i].at = "none" /\ i \notin linked
  BY <1>1 DEF LambdaInit, Idle
<1>4. results = {} /\ calls = <<>> /\ ~broken /\ linked = {}  BY <1>1 DEF LambdaInit
<1>5. /\ \A k : ClonedIn(calls, k) = {}
      /\ \A k, p : SetsIn(calls, k, p) = {}
  BY <1>4 DEF ClonedIn, SetsIn
<1>6. \A k, p : BeforeIn(calls, k, p) = Given[p]  BY <1>5 DEF BeforeIn
<1>7. /\ tasks[User].lambdas = Given
      /\ \A p \in Position : tasks[User].execute[p] = [lambda |-> Given[p], task |-> User]
      /\ tasks[User].memory = 0
  BY <1>2 DEF NewTask, Execute
<1>8. TypeOK
  <2>1. Made \subseteq Instance /\ User \in Made  BY <1>2, InstanceParts
  <2>2. tasks \in [Made -> TaskObject]
    <3>1. NewTask(User, Given, 0) \in TaskObject
      BY LambdaAssumption, InstanceParts DEF NewTask, Execute, TaskObject, Function, Position
    <3>2. QED  BY <1>1, <1>2, <3>1 DEF LambdaInit, Made
  <2>3. threads \in [Instance -> [at : At, input : Nat]]
    BY <1>1 DEF LambdaInit, Idle, At
  <2>4. queues \in [CloneId -> [Position -> Seq(Value)]]  BY <1>1 DEF LambdaInit
  <2>5. fed \in [CloneId -> [Position -> 0 .. MaxValues]]
    BY <1>1, LambdaAssumption DEF LambdaInit
  <2>6. /\ \A i \in Instance : threads[i].at = "operate" => threads[i].input \in Position
        /\ linked \subseteq Instance
    BY <1>3, <1>4
  <2>10. broken \in BOOLEAN  BY <1>1 DEF LambdaInit
  <2>9. calls \in Seq(SetCall \cup CloneCall)  BY <1>4
  <2>7. results \subseteq [by : Instance, input : Position, value : Value \cup {Null},
                           lambda : Lambda, through : Instance, memory : CloneId]
    BY <1>4
  <2>8. QED  BY <2>1, <2>2, <2>3, <2>4, <2>5, <2>6, <2>7, <2>9, <2>10
    DEF TypeOK
<1>9. CallsInv
  BY <1>5, <1>2 DEF CallsInv, Ordered, User
<1>10. TaskInv  BY <1>2, <1>6, <1>7 DEF TaskInv, User
<1>11. GroupInv
  BY <1>2, <1>3 DEF GroupInv, User
<1>12. ResultInv /\ BrokenInv /\ OnceInv  BY <1>4 DEF ResultInv, BrokenInv, OnceInv
<1>13. EndInv /\ NullInv  BY <1>3 DEF EndInv, NullInv
<1>14. FlowInv
  <2>1. SUFFICES ASSUME NEW k \in CloneId, NEW p \in Position PROVE FlowUpTo(k, p, 0)
    BY LambdaAssumption DEF FlowInv
  <2>2. queues[k][p] = <<>> /\ fed[k][p] = 0  BY <1>1 DEF LambdaInit
  <2>3. \A v \in Value : ~ Executed(k, p, v) /\ ~ (v <= 0)
    BY <1>4, LambdaAssumption DEF Executed, Value
  <2>4. QED  BY <2>2, <2>3 DEF FlowUpTo
<1>15. QED
  BY <1>8, <1>9, <1>10, <1>11, <1>12, <1>13, <1>14 DEF LambdaInv

\* While no group is launched, there is nothing but the task and its clones.
LEMMA NothingRunsYet ==
  ASSUME TypeOK, GroupInv, ResultInv, \A k \in CloneId : ~ Launched(k)
  PROVE  /\ \A i \in Instance : /\ i \notin linked /\ threads[i].at = "none"
                                /\ i \in Made => i = <<i[1], 0>>
         /\ results = {} /\ linked = {}
<1>1. ASSUME NEW i \in Instance, i \in linked \/ (i \in Made /\ i[2] # 0) \/ threads[i].at # "none"
      PROVE FALSE
  <2>1. \A j \in Members(i[1]) : threads[j].at # "none"  BY <1>1 DEF GroupInv
  <2>2. i[1] \in CloneId /\ Members(i[1]) \subseteq Instance  BY InstanceParts
  <2>3. Launched(i[1])  BY <2>1, <2>2 DEF Launched
  <2>4. QED  BY <2>2, <2>3
<1>2. \A i \in Instance : i \notin linked /\ threads[i].at = "none" /\ (i \in Made => i[2] = 0)
  BY <1>1
<1>3. results = {}
  <2>1. ASSUME NEW r \in results PROVE FALSE
    <3>1. r.by \in Instance  BY <2>1 DEF TypeOK
    <3>2. threads[r.by].at # "none"  BY <2>1 DEF ResultInv
    <3>3. QED  BY <3>1, <3>2, <1>2
  <2>2. QED  BY <2>1
<1>4. linked = {}  BY <1>2 DEF TypeOK
<1>5. QED  BY <1>2, <1>3, <1>4, InstanceParts
-----------------------------------------------------------------------------
(* Before the execution.                                                     *)

\* setLambda reaches the task, which is the only one that reads it later.
LEMMA SetLambdaKeeps ==
  ASSUME LambdaInv, ~ broken, NEW p \in Position, NEW f \in Lambda, SetLambda(p, f)
  PROVE  LambdaInv'
<1> USE DEF LambdaInv
<1>1. PICK c : c = [op |-> "set", input |-> p, to |-> f]  OBVIOUS
<1>2. calls \in Seq(Call) /\ Ordered(calls)  BY DEF TypeOK, Call, CallsInv
<1>3. /\ Append(calls, c) \in Seq(Call) /\ Ordered(Append(calls, c))
      /\ \A k \in CloneId : ClonedIn(Append(calls, c), k) = ClonedIn(calls, k)
      /\ \A k \in CloneId, q \in Position :
           BeforeIn(Append(calls, c), k, q) =
             IF q = p /\ ClonedIn(calls, k) = {} THEN f ELSE BeforeIn(calls, k, q)
  BY <1>1, <1>2, SetCallChanges
<1>4. /\ calls' = Append(calls, c) /\ threads' = threads /\ queues' = queues /\ fed' = fed
      /\ linked' = linked /\ results' = results /\ broken' = broken
      /\ \A k \in CloneId : ~ Launched(k)
  BY <1>1 DEF SetLambda
<1>5. /\ \A i \in Instance : /\ i \notin linked /\ threads[i].at = "none"
                             /\ i \in Made => i = <<i[1], 0>>
      /\ results = {} /\ linked = {}
  BY <1>4, NothingRunsYet
<1>6. User \in Made /\ tasks[User] \in TaskObject /\ Made \subseteq Instance
      /\ tasks \in [Made -> TaskObject]
  BY DEF TypeOK
<1>7. PICK g \in [Position -> Lambda \cup {Unset}] : g = [tasks[User].lambdas EXCEPT ![p] = f]
  BY <1>6 DEF TaskObject
<1>8. PICK o : o = [lambdas |-> g, execute |-> Execute(g, User), memory |-> tasks[User].memory]
  OBVIOUS
<1>9. o \in TaskObject
  BY <1>6, <1>7, <1>8, InstanceParts DEF TaskObject, Execute, Function
<1>10. tasks' = [tasks EXCEPT ![User] = o]
  <2>1. Reinitialize([tasks[User] EXCEPT !.lambdas[p] = f], User) = o
    <3>1. PICK t : t = [tasks[User] EXCEPT !.lambdas[p] = f]  OBVIOUS
    <3>2. t = [tasks[User] EXCEPT !.lambdas = g]  BY <3>1, <1>7, <1>6 DEF TaskObject
    <3>3. t = [lambdas |-> g, execute |-> tasks[User].execute, memory |-> tasks[User].memory]
      BY <3>2, <1>6 DEF TaskObject
    <3>4. [t EXCEPT !.execute = Execute(t.lambdas, User)] = o
      BY <3>3, <1>8
    <3>5. QED  BY <3>1, <3>4 DEF Reinitialize
  <2>2. tasks' = [tasks EXCEPT ![User] = Reinitialize([tasks[User] EXCEPT !.lambdas[p] = f], User)]
    BY DEF SetLambda
  <2>3. QED  BY <2>1, <2>2
<1>11. Made' = Made  BY <1>6, <1>10 DEF Made
<1>12. tasks' \in [Made -> TaskObject] /\ tasks'[User] = o
       /\ \A i \in Made : i # User => tasks'[i] = tasks[i]
  BY <1>6, <1>9, <1>10
<1>13. TypeOK'
  BY <1>3, <1>4, <1>11, <1>12 DEF TypeOK, Call
<1>14. CallsInv'
  BY <1>3, <1>4, <1>11, InstanceParts DEF CallsInv
<1>15. TaskInv'
  <2>1. SUFFICES ASSUME NEW i \in Made
                 PROVE  /\ \A q \in Position :
                             /\ tasks'[i].lambdas[q] = BeforeIn(Append(calls, c), i[1], q)
                             /\ tasks'[i].execute[q] = [lambda |-> tasks'[i].lambdas[q], task |-> i]
                        /\ tasks'[i].memory = i[1]
    BY <1>4, <1>11 DEF TaskInv
  <2>2. /\ \A q \in Position :
             /\ tasks[i].lambdas[q] = BeforeIn(calls, i[1], q)
             /\ tasks[i].execute[q] = [lambda |-> tasks[i].lambdas[q], task |-> i]
        /\ tasks[i].memory = i[1]
    BY DEF TaskInv
  <2>3. i \in Instance /\ i[1] \in CloneId /\ i = <<i[1], 0>>  BY <1>5, <1>6, InstanceParts
  <2>4. CASE i = User
    <3>1. i[1] = 0 /\ ClonedIn(calls, i[1]) = {}  BY <2>4 DEF User, CallsInv
    <3>2. tasks'[i] = o /\ o.lambdas = g /\ o.memory = tasks[User].memory
          /\ \A q \in Position : o.execute[q] = [lambda |-> g[q], task |-> i]
      BY <1>12, <1>8, <2>4 DEF Execute
    <3>3. \A q \in Position : g[q] = IF q = p THEN f ELSE tasks[User].lambdas[q]
      BY <1>6, <1>7 DEF TaskObject
    <3>4. \A q \in Position : g[q] = BeforeIn(Append(calls, c), i[1], q)
      BY <3>1, <3>3, <2>2, <2>3, <2>4, <1>3
    <3>5. QED  BY <3>2, <3>4, <2>2, <2>4
  <2>5. CASE i # User
    <3>1. i[1] # 0  BY <2>5, <2>3 DEF User
    <3>2. ClonedIn(calls, i[1]) # {}  BY <3>1, <2>3 DEF CallsInv
    <3>3. \A q \in Position : BeforeIn(Append(calls, c), i[1], q) = BeforeIn(calls, i[1], q)
      BY <3>2, <2>3, <1>3
    <3>4. tasks'[i] = tasks[i]  BY <1>12, <2>5
    <3>5. QED  BY <3>3, <3>4, <2>2
  <2>6. QED  BY <2>4, <2>5
<1>16. GroupInv'  BY <1>4, <1>11 DEF GroupInv
<1>17. ResultInv' /\ OnceInv' /\ BrokenInv'
  BY <1>4, <1>5 DEF ResultInv, OnceInv, BrokenInv
<1>18. EndInv' /\ NullInv' /\ FlowInv'
  <2>1. EndInv'  BY <1>4 DEF EndInv, ReceiversEmpty
  <2>2. NullInv'  BY <1>4, <1>5 DEF NullInv
  <2>3. \A j \in CloneId, q \in Position, e \in 0 .. MaxValues :
          FlowUpTo(j, q, e) => FlowUpTo(j, q, e)'
    BY <1>4 DEF FlowUpTo, Executed
  <2>4. \A j \in CloneId, q \in Position : \E e \in 0 .. MaxValues : FlowUpTo(j, q, e)
    BY DEF FlowInv
  <2>5. \A j \in CloneId, q \in Position : \E e \in 0 .. MaxValues : FlowUpTo(j, q, e)'
    BY <2>3, <2>4
  <2>6. FlowInv'  BY <2>5 DEF FlowInv
  <2>7. QED  BY <2>1, <2>2, <2>6
<1>19. QED
  BY <1>13, <1>14, <1>15, <1>16, <1>17, <1>18

\* The clone has the functions of the task at that moment.
LEMMA CloneTaskKeeps ==
  ASSUME LambdaInv, ~ broken, NEW k \in CloneId, CloneTask(k)
  PROVE  LambdaInv'
<1> USE DEF LambdaInv
<1>1. PICK c : c = [op |-> "clone", clone |-> k]  OBVIOUS
<1>2. calls \in Seq(Call) /\ Ordered(calls) /\ ClonedIn(calls, 0) = {}
  BY DEF TypeOK, Call, CallsInv
<1>3. /\ calls' = Append(calls, c) /\ threads' = threads /\ queues' = queues /\ fed' = fed
      /\ linked' = linked /\ results' = results /\ broken' = broken
      /\ \A j \in CloneId : ~ Launched(j)
      /\ <<k, 0>> \notin Made
  BY <1>1 DEF CloneTask
<1>4. User \in Made /\ tasks[User] \in TaskObject /\ Made \subseteq Instance
      /\ tasks \in [Made -> TaskObject]
  BY DEF TypeOK
<1>5. k # 0  BY <1>3, <1>4 DEF User
<1>6. ClonedIn(calls, k) = {}  BY <1>3, <1>5 DEF CallsInv
<1>7. /\ Append(calls, c) \in Seq(Call) /\ Ordered(Append(calls, c))
      /\ \A j \in CloneId : ClonedIn(Append(calls, c), j) = {} <=> ClonedIn(calls, j) = {} /\ j # k
      /\ \A j \in CloneId, q \in Position :
           BeforeIn(Append(calls, c), j, q) = BeforeIn(calls, (IF j = k THEN 0 ELSE j), q)
  BY <1>1, <1>2, <1>5, <1>6, CloneCallChanges
<1>8. /\ \A i \in Instance : /\ i \notin linked /\ threads[i].at = "none"
                             /\ i \in Made => i = <<i[1], 0>>
      /\ results = {} /\ linked = {}
  BY <1>3, NothingRunsYet
<1>9. PICK n \in Instance : n = <<k, 0>>  BY InstanceParts
<1>10. PICK o : o = NewTask(n, tasks[User].lambdas, k)  OBVIOUS
<1>11. o \in TaskObject
  BY <1>4, <1>9, <1>10 DEF NewTask, TaskObject, Execute, Function
<1>12. tasks' = [i \in Made \cup {n} |-> IF i \in Made THEN tasks[i] ELSE o]
  <2>1. tasks' = [i \in Made \cup {<<k, 0>>} |->
                    IF i \in Made THEN tasks[i] ELSE CopyOf(User, i, k)]
    BY DEF CloneTask
  <2>2. \A i \in Made \cup {n} : i \notin Made => CopyOf(User, i, k) = o
    BY <1>10 DEF CopyOf
  <2>3. QED  BY <2>1, <2>2, <1>9
<1>13. Made' = Made \cup {n}  BY <1>12 DEF Made
<1>14. tasks' \in [Made' -> TaskObject] /\ tasks'[n] = o
       /\ \A i \in Made : tasks'[i] = tasks[i]
  BY <1>3, <1>4, <1>9, <1>11, <1>12, <1>13
<1>15. TypeOK'
  BY <1>3, <1>7, <1>4, <1>9, <1>13, <1>14 DEF TypeOK, Call
<1>16. CallsInv'
  <2>1. \A j \in CloneId : <<j, 0>> \in Made' <=> <<j, 0>> \in Made \/ j = k
    BY <1>9, <1>13
  <2>2. ClonedIn(calls', 0) = {}  BY <1>3, <1>7, <1>2, <1>5, InstanceParts
  <2>3. \A j \in CloneId \ {0} : ClonedIn(calls', j) = {} <=> <<j, 0>> \notin Made'
    BY <1>3, <1>7, <2>1 DEF CallsInv
  <2>4. QED  BY <2>2, <2>3, <1>3, <1>7 DEF CallsInv
<1>17. TaskInv'
  <2>1. SUFFICES ASSUME NEW i \in Made'
                 PROVE  /\ \A q \in Position :
                             /\ tasks'[i].lambdas[q] = BeforeIn(Append(calls, c), i[1], q)
                             /\ tasks'[i].execute[q] = [lambda |-> tasks'[i].lambdas[q], task |-> i]
                        /\ tasks'[i].memory = i[1]
    BY <1>3 DEF TaskInv
  <2>2. CASE i \in Made
    <3>1. i \in Instance /\ i[1] \in CloneId /\ i = <<i[1], 0>>
      BY <1>4, <1>8, <2>2, InstanceParts
    <3>2. i[1] # k  BY <3>1, <2>2, <1>3
    <3>3. \A q \in Position : BeforeIn(Append(calls, c), i[1], q) = BeforeIn(calls, i[1], q)
      BY <3>1, <3>2, <1>7
    <3>4. tasks'[i] = tasks[i]  BY <1>14, <2>2
    <3>5. QED  BY <3>3, <3>4, <2>2 DEF TaskInv
  <2>3. CASE i = n
    <3>1. i[1] = k  BY <2>3, <1>9
    <3>2. \A q \in Position : BeforeIn(Append(calls, c), i[1], q) = BeforeIn(calls, 0, q)
      BY <3>1, <1>7
    <3>3. \A q \in Position : tasks[User].lambdas[q] = BeforeIn(calls, 0, q)
      BY <1>4 DEF TaskInv, User
    <3>4. tasks'[i] = o /\ o.lambdas = tasks[User].lambdas /\ o.memory = k
          /\ \A q \in Position : o.execute[q] = [lambda |-> o.lambdas[q], task |-> n]
      BY <1>14, <2>3, <1>10 DEF NewTask, Execute
    <3>5. QED  BY <3>1, <3>2, <3>3, <3>4, <2>3
  <2>4. QED  BY <2>1, <2>2, <2>3, <1>13
<1>18. GroupInv'
  BY <1>3, <1>8, <1>13, <1>9 DEF GroupInv
<1>19. ResultInv' /\ OnceInv' /\ BrokenInv'
  BY <1>3, <1>8 DEF ResultInv, OnceInv, BrokenInv
<1>20. EndInv' /\ NullInv' /\ FlowInv'
  <2>1. EndInv'  BY <1>3 DEF EndInv, ReceiversEmpty
  <2>2. NullInv'  BY <1>3, <1>8 DEF NullInv
  <2>3. \A j \in CloneId, q \in Position, e \in 0 .. MaxValues :
          FlowUpTo(j, q, e) => FlowUpTo(j, q, e)'
    BY <1>3 DEF FlowUpTo, Executed
  <2>4. \A j \in CloneId, q \in Position : \E e \in 0 .. MaxValues : FlowUpTo(j, q, e)
    BY DEF FlowInv
  <2>5. \A j \in CloneId, q \in Position : \E e \in 0 .. MaxValues : FlowUpTo(j, q, e)'
    BY <2>3, <2>4
  <2>6. FlowInv'  BY <2>5 DEF FlowInv
  <2>7. QED  BY <2>1, <2>2, <2>6
<1>21. QED
  BY <1>15, <1>16, <1>17, <1>18, <1>19, <1>20

\* The copies of a task have its functions, their own names and its memory.
LEMMA CreateGroupKeeps ==
  ASSUME LambdaInv, ~ broken, NEW k \in CloneId, CreateGroup(k)
  PROVE  LambdaInv'
<1> USE DEF LambdaInv
<1>1. /\ calls' = calls /\ queues' = queues /\ fed' = fed
      /\ results' = results /\ broken' = broken /\ linked' = linked \cup Members(k)
      /\ threads' = [i \in Instance |->
                       IF i[1] = k THEN [Idle EXCEPT !.at = "created"] ELSE threads[i]]
      /\ \A j \in CloneId : ~ Launched(j)
      /\ \A j \in CloneId : <<j, 0>> \in Made
  BY DEF CreateGroup
<1>2. User \in Made /\ Made \subseteq Instance /\ tasks \in [Made -> TaskObject]
  BY DEF TypeOK
<1>3. /\ \A i \in Instance : /\ i \notin linked /\ threads[i].at = "none"
                             /\ i \in Made => i = <<i[1], 0>>
      /\ results = {} /\ linked = {}
  BY <1>1, NothingRunsYet
<1>4. PICK n \in Made : n = <<k, 0>>  BY <1>1
<1>5. /\ tasks[n] \in TaskObject /\ n[1] = k /\ tasks[n].memory = k
      /\ \A q \in Position : tasks[n].lambdas[q] = BeforeIn(calls, k, q)
  BY <1>2, <1>4 DEF TaskInv
<1>6. PICK copy \in [Instance -> TaskObject] :
        copy = [i \in Instance |-> NewTask(i, tasks[n].lambdas, k)]
  <2>1. \A i \in Instance : NewTask(i, tasks[n].lambdas, k) \in TaskObject
    BY <1>5 DEF NewTask, TaskObject, Execute, Function
  <2>2. QED  BY <2>1
<1>7. tasks' = [i \in Made \cup Members(k) |-> IF i \in Made THEN tasks[i] ELSE copy[i]]
  <2>1. tasks' = [i \in Made \cup Members(k) |->
                    IF i \in Made THEN tasks[i]
                    ELSE CopyOf(<<k, 0>>, i, tasks[<<k, 0>>].memory)]
    BY DEF CreateGroup
  <2>2. \A i \in Made \cup Members(k) :
          i \notin Made => CopyOf(<<k, 0>>, i, tasks[<<k, 0>>].memory) = copy[i]
    BY <1>4, <1>5, <1>6, InstanceParts DEF CopyOf
  <2>3. QED  BY <2>1, <2>2
<1>8. Made' = Made \cup Members(k)  BY <1>7 DEF Made
<1>9. /\ tasks' \in [Made' -> TaskObject]
      /\ \A i \in Made : tasks'[i] = tasks[i]
      /\ \A i \in Members(k) \ Made : tasks'[i] = copy[i]
  <2>1. \A i \in Made \cup Members(k) :
          (IF i \in Made THEN tasks[i] ELSE copy[i]) \in TaskObject
    BY <1>2, <1>6, InstanceParts
  <2>2. QED  BY <2>1, <1>7, <1>8
<1>10. \A i \in Instance : /\ i[1] = k => threads'[i].at = "created" /\ threads'[i].input = 1
                           /\ i[1] # k => threads'[i] = threads[i] /\ threads'[i].at = "none"
  BY <1>1, <1>3 DEF Idle
<1>11. TypeOK'
  <2>1. Made' \subseteq Instance /\ User \in Made'  BY <1>2, <1>8, InstanceParts
  <2>2. threads' \in [Instance -> [at : At, input : Nat]]
    <3>1. [Idle EXCEPT !.at = "created"] \in [at : At, input : Nat]  BY DEF Idle, At
    <3>2. threads \in [Instance -> [at : At, input : Nat]]  BY DEF TypeOK
    <3>3. QED  BY <3>1, <3>2, <1>1
  <2>3. \A i \in Instance : threads'[i].at # "operate"  BY <1>10
  <2>4. linked' \subseteq Instance  BY <1>1, <1>3, InstanceParts
  <2>5. QED  BY <2>1, <2>2, <2>3, <2>4, <1>1, <1>9 DEF TypeOK
<1>12. CallsInv'
  <2>1. \A j \in CloneId : <<j, 0>> \in Made'  BY <1>1, <1>8
  <2>2. QED  BY <2>1, <1>1 DEF CallsInv
<1>13. TaskInv'
  <2>1. SUFFICES ASSUME NEW i \in Made'
                 PROVE  /\ \A q \in Position :
                             /\ tasks'[i].lambdas[q] = BeforeIn(calls, i[1], q)
                             /\ tasks'[i].execute[q] = [lambda |-> tasks'[i].lambdas[q], task |-> i]
                        /\ tasks'[i].memory = i[1]
    BY <1>1 DEF TaskInv
  <2>2. CASE i \in Made  BY <1>9, <2>2 DEF TaskInv
  <2>3. CASE i \in Members(k) \ Made
    <3>1. i \in Instance /\ i[1] = k  BY <2>3, InstanceParts
    <3>2. tasks'[i] = NewTask(i, tasks[n].lambdas, k)  BY <1>9, <2>3, <3>1, <1>6
    <3>3. /\ tasks'[i].lambdas = tasks[n].lambdas /\ tasks'[i].memory = k
          /\ \A q \in Position :
               tasks'[i].execute[q] = [lambda |-> tasks[n].lambdas[q], task |-> i]
      BY <3>2 DEF NewTask, Execute
    <3>4. QED  BY <3>1, <3>3, <1>5
  <2>4. QED  BY <2>2, <2>3, <1>8
<1>14. GroupInv'
  <2>1. SUFFICES ASSUME NEW i \in Instance,
                        i \in linked' \/ (i \in Made' /\ i[2] # 0) \/ threads'[i].at # "none"
                 PROVE  Members(i[1]) \subseteq Made' /\ \A j \in Members(i[1]) : threads'[j].at # "none"
    BY DEF GroupInv
  <2>2. i[1] = k
    <3>1. CASE i \in linked'  BY <3>1, <1>1, <1>3, InstanceParts
    <3>2. CASE i \in Made' /\ i[2] # 0
      <4>1. i \notin Made
        <5>1. i = <<i[1], 0>> => i[2] = 0  OBVIOUS
        <5>2. QED  BY <1>3, <3>2, <5>1
      <4>2. QED  BY <4>1, <3>2, <1>8, InstanceParts
    <3>3. CASE threads'[i].at # "none"  BY <3>3, <1>10
    <3>4. QED  BY <2>1, <3>1, <3>2, <3>3
  <2>3. QED  BY <2>2, <1>8, <1>10, InstanceParts
<1>15. ResultInv' /\ OnceInv' /\ BrokenInv'
  BY <1>1, <1>3 DEF ResultInv, OnceInv, BrokenInv
<1>16. EndInv'
  <2>1. \A i \in Instance : threads'[i].at # "left" /\ (threads'[i].at # "none" => i \in linked')
    BY <1>1, <1>10, InstanceParts
  <2>2. QED  BY <2>1 DEF EndInv
<1>17. NullInv'  BY <1>10 DEF NullInv
<1>18. FlowInv'
  <2>1. \A j \in CloneId, q \in Position, e \in 0 .. MaxValues :
          FlowUpTo(j, q, e) => FlowUpTo(j, q, e)'
    BY <1>1 DEF FlowUpTo, Executed
  <2>2. \A j \in CloneId, q \in Position : \E e \in 0 .. MaxValues : FlowUpTo(j, q, e)
    BY DEF FlowInv
  <2>3. \A j \in CloneId, q \in Position : \E e \in 0 .. MaxValues : FlowUpTo(j, q, e)'
    BY <2>1, <2>2
  <2>4. QED  BY <2>3 DEF FlowInv
<1>19. QED
  BY <1>11, <1>12, <1>13, <1>14, <1>15, <1>16, <1>17, <1>18
-----------------------------------------------------------------------------
(* The predecessor.                                                          *)

\* What a step that changes no task and no call leaves as it is.
LEMMA TasksKeep ==
  ASSUME CallsInv, TaskInv, UNCHANGED <<tasks, calls>>
  PROVE  Made' = Made /\ CallsInv' /\ TaskInv'
<1>1. Made' = Made  BY DEF Made
<1>2. QED  BY <1>1 DEF CallsInv, TaskInv

LEMMA FeedKeeps ==
  ASSUME LambdaInv, ~ broken, NEW k \in CloneId, NEW p \in Position, Feed(k, p)
  PROVE  LambdaInv'
<1> USE DEF LambdaInv
<1>1. /\ UNCHANGED <<tasks, threads, linked, results, calls, broken>>
      /\ fed' = [fed EXCEPT ![k][p] = @ + 1] /\ fed[k][p] < MaxValues
      /\ queues' = [queues EXCEPT ![k][p] = Append(@, fed[k][p] + 1)]
      /\ Launched(k)
  BY DEF Feed
<1>2. Made' = Made /\ CallsInv' /\ TaskInv'  BY <1>1, TasksKeep
<1>3. PICK v \in Value : v = fed[k][p] + 1
  BY <1>1, LambdaAssumption DEF TypeOK, Value
<1>4. /\ queues \in [CloneId -> [Position -> Seq(Value)]]
      /\ fed \in [CloneId -> [Position -> 0 .. MaxValues]]
  BY DEF TypeOK
<1>5. /\ \A j \in CloneId, q \in Position :
           j # k \/ q # p => queues'[j][q] = queues[j][q] /\ fed'[j][q] = fed[j][q]
      /\ queues'[k][p] = Append(queues[k][p], v) /\ fed'[k][p] = v
  BY <1>1, <1>3, <1>4
<1>6. TypeOK'
  <2>1. queues' \in [CloneId -> [Position -> Seq(Value)]]
    <3>1. queues[k][p] \in Seq(Value) /\ queues[k] \in [Position -> Seq(Value)]  BY <1>4
    <3>2. Append(queues[k][p], v) \in Seq(Value)  BY <3>1, AppendProperties
    <3>3. PICK h \in [Position -> Seq(Value)] :
            h = [queues[k] EXCEPT ![p] = Append(queues[k][p], v)]
      BY <3>1, <3>2
    <3>4. queues' = [queues EXCEPT ![k] = h]  BY <1>1, <1>3, <1>4, <3>3
    <3>5. QED  BY <3>4, <1>4
  <2>2. fed' \in [CloneId -> [Position -> 0 .. MaxValues]]
    <3>1. v \in 0 .. MaxValues  BY LambdaAssumption DEF Value
    <3>2. PICK h \in [Position -> 0 .. MaxValues] : h = [fed[k] EXCEPT ![p] = v]
      BY <1>4, <3>1
    <3>3. fed' = [fed EXCEPT ![k] = h]  BY <1>1, <1>3, <1>4, <3>2
    <3>4. QED  BY <3>3, <1>4
  <2>3. QED  BY <2>1, <2>2, <1>1, <1>2 DEF TypeOK
<1>7. GroupInv'  BY <1>1, <1>2 DEF GroupInv
<1>8. ResultInv' /\ OnceInv'  BY <1>1, <1>2 DEF ResultInv, OnceInv
<1>9. BrokenInv'  BY <1>1 DEF BrokenInv
<1>10. NullInv'
  <2>1. \A i \in Instance : threads[i].at \in {"loop", "operate", "left"} => StartedWith(i)'
    BY <1>1 DEF NullInv, StartedWith
  <2>2. QED  BY <2>1, <1>1 DEF NullInv
<1>11. EndInv'
  <2>1. \A i \in Instance : i[1] = k /\ threads[i].at # "none" => i \in linked
    BY <1>1, <1>4 DEF EndInv
  <2>2. ASSUME NEW i \in Members(k) PROVE threads[i].at # "none"
    <3>1. i \in Instance /\ i[1] = k /\ i \in Members(i[1])  BY <2>2, InstanceParts
    <3>2. i \in linked \/ threads[i].at # "none"  BY <2>2, <1>1 DEF Launched
    <3>3. \A j \in Members(i[1]) : threads[j].at # "none"  BY <3>1, <3>2 DEF GroupInv
    <3>4. QED  BY <3>1, <3>3
  <2>3. \A i \in Instance : i[1] = k => i \in linked /\ threads[i].at # "left"
    BY <2>1, <2>2, InstanceParts DEF EndInv
  <2>4. \A i \in Instance : i[1] # k => \A q \in Position :
           queues'[i[1]][q] = queues[i[1]][q] /\ fed'[i[1]][q] = fed[i[1]][q]
    BY <1>5, InstanceParts
  <2>5. QED  BY <2>3, <2>4, <1>1 DEF EndInv, ReceiversEmpty
<1>12. FlowInv'
  <2>1. \A j \in CloneId, q \in Position : \E e \in 0 .. MaxValues : FlowUpTo(j, q, e)
    BY DEF FlowInv
  <2>2. ASSUME NEW j \in CloneId, NEW q \in Position
        PROVE  \E e \in 0 .. MaxValues : FlowUpTo(j, q, e)'
    <3>1. PICK e \in 0 .. MaxValues : FlowUpTo(j, q, e)  BY <2>1
    <3>2. CASE j # k \/ q # p
      BY <3>1, <3>2, <1>1, <1>5 DEF FlowUpTo, Executed
    <3>3. CASE j = k /\ q = p
      <4>1. PICK old \in Seq(Value) : old = queues[k][p]  BY <1>4
      <4>2. PICK new \in Seq(Value) : new = Append(old, v)  BY AppendProperties
      <4>3. /\ Len(new) = Len(old) + 1 /\ new[Len(old) + 1] = v
            /\ \A n \in 1 .. Len(old) : new[n] = old[n]
        BY <4>1, <4>2
      <4>4. e + Len(old) = fed[k][p] /\ \A n \in 1 .. Len(old) : old[n] = e + n
        BY <3>1, <3>3, <4>1 DEF FlowUpTo
      <4>5. e + Len(new) = v
        BY <4>3, <4>4, <1>3, <4>1, <1>4
      <4>6. \A n \in 1 .. Len(new) : new[n] = e + n
        <5>1. Len(old) \in Nat  OBVIOUS
        <5>2. \A n \in 1 .. Len(new) : n \in 1 .. Len(old) \/ n = Len(old) + 1
          BY <4>3, <5>1
        <5>3. v = e + (Len(old) + 1)  BY <4>3, <4>5
        <5>4. QED  BY <4>3, <4>4, <5>2, <5>3
      <4>7. \A w \in Value : Executed(k, p, w)' <=> w <= e
        BY <3>1, <3>3, <1>1 DEF FlowUpTo, Executed
      <4>8. queues'[k][p] = new /\ fed'[k][p] = v  BY <1>5, <4>1, <4>2
      <4>9. FlowUpTo(k, p, e)'  BY <4>5, <4>6, <4>7, <4>8 DEF FlowUpTo
      <4>10. QED  BY <4>9, <3>3
    <3>4. QED  BY <3>2, <3>3
  <2>3. QED  BY <2>2 DEF FlowInv
<1>13. QED
  BY <1>2, <1>6, <1>7, <1>8, <1>9, <1>10, <1>11, <1>12

LEMMA LeaveKeeps ==
  ASSUME LambdaInv, ~ broken, NEW k \in CloneId, Leave(k)
  PROVE  LambdaInv'
<1> USE DEF LambdaInv
<1>1. /\ UNCHANGED <<tasks, threads, queues, fed, results, calls, broken>>
      /\ linked' = linked \ Members(k)
      /\ \A p \in Position : fed[k][p] = MaxValues
  BY DEF Leave
<1>2. Made' = Made /\ CallsInv' /\ TaskInv'  BY <1>1, TasksKeep
<1>3. TypeOK'  BY <1>1, <1>2 DEF TypeOK
<1>4. GroupInv'  BY <1>1, <1>2 DEF GroupInv
<1>5. ResultInv' /\ OnceInv'  BY <1>1, <1>2 DEF ResultInv, OnceInv
<1>6. BrokenInv'  BY <1>1 DEF BrokenInv
<1>7. NullInv'
  <2>1. \A i \in Instance : threads[i].at \in {"loop", "operate", "left"} => StartedWith(i)'
    BY <1>1 DEF NullInv, StartedWith
  <2>2. QED  BY <2>1, <1>1 DEF NullInv
<1>8. EndInv'
  <2>1. ASSUME NEW i \in Instance, i \in linked, i \notin linked'
        PROVE \A p \in Position : fed[i[1]][p] = MaxValues
    BY <2>1, <1>1, InstanceParts
  <2>2. QED  BY <2>1, <1>1 DEF EndInv, ReceiversEmpty
<1>9. FlowInv'
  <2>1. \A j \in CloneId, q \in Position : \E e \in 0 .. MaxValues : FlowUpTo(j, q, e)
    BY DEF FlowInv
  <2>2. \A j \in CloneId, q \in Position : \E e \in 0 .. MaxValues : FlowUpTo(j, q, e)'
    BY <2>1, <1>1 DEF FlowUpTo, Executed
  <2>3. QED  BY <2>2 DEF FlowInv
<1>10. QED
  BY <1>2, <1>3, <1>4, <1>5, <1>6, <1>7, <1>8, <1>9
-----------------------------------------------------------------------------
(* The run of a thread.                                                      *)

ResultRecord == [by : Instance, input : Position, value : Value \cup {Null},
                 lambda : Lambda, through : Instance, memory : CloneId]

\* What thread i adds for input p when its function executes v.
Added(i, p, v) == [by |-> i, input |-> p, value |-> v,
                   lambda |-> BeforeIn(calls, i[1], p), through |-> i, memory |-> i[1]]
Sound(i, inputs) == {p \in inputs : BeforeIn(calls, i[1], p) # Unset}

\* A thread exists only as one of a created group.
LEMMA GroupOfThread ==
  ASSUME TypeOK, GroupInv, NEW i \in Instance, threads[i].at # "none"
  PROVE  /\ i \in Made /\ i[1] \in CloneId /\ Members(i[1]) \subseteq Made
         /\ \A j \in Members(i[1]) : threads[j].at # "none"
<1>1. Members(i[1]) \subseteq Made /\ \A j \in Members(i[1]) : threads[j].at # "none"
  BY DEF GroupInv
<1>2. QED  BY <1>1, InstanceParts

LEMMA Executing ==
  ASSUME TypeOK, CallsInv, TaskInv, GroupInv, NEW i \in Instance, threads[i].at # "none",
         NEW inputs \in SUBSET Position, NEW v \in Value \cup {Null}, CallExecute(i, inputs, v)
  PROVE  /\ i \in Made
         /\ results' = results \cup {Added(i, p, v) : p \in Sound(i, inputs)}
         /\ broken' = (Sound(i, inputs) # inputs)
         /\ \A p \in Sound(i, inputs) : Added(i, p, v) \in ResultRecord
<1>1. i \in Made  BY GroupOfThread
<1>2. /\ \A p \in Position : /\ tasks[i].execute[p].lambda = BeforeIn(calls, i[1], p)
                             /\ tasks[i].execute[p].task = i
      /\ tasks[i].memory = i[1]
  <2>1. /\ \A p \in Position :
             /\ tasks[i].lambdas[p] = BeforeIn(calls, i[1], p)
             /\ tasks[i].execute[p] = [lambda |-> tasks[i].lambdas[p], task |-> i]
        /\ tasks[i].memory = i[1]
    BY <1>1 DEF TaskInv
  <2>2. ASSUME NEW p \in Position
        PROVE  /\ tasks[i].execute[p].lambda = BeforeIn(calls, i[1], p)
               /\ tasks[i].execute[p].task = i
    <3>1. /\ tasks[i].lambdas[p] = BeforeIn(calls, i[1], p)
          /\ tasks[i].execute[p] = [lambda |-> tasks[i].lambdas[p], task |-> i]
      BY <2>1
    <3>2. QED  BY <3>1
  <2>3. QED  BY <2>1, <2>2
<1>3. Sound(i, inputs) = {p \in inputs : tasks[i].execute[p].lambda # Unset}
  BY <1>2 DEF Sound
<1>4. \A p \in inputs : AddResult(i, p, v, tasks[i].execute[p]) = Added(i, p, v)
  BY <1>2 DEF AddResult, Added
<1>5. broken' = (Sound(i, inputs) # inputs)  BY <1>3 DEF CallExecute
<1>6. results' = results \cup
        {AddResult(i, p, v, tasks[i].execute[p]) : p \in Sound(i, inputs)}
  BY <1>3 DEF CallExecute
<1>7. \A p \in Sound(i, inputs) : p \in inputs  BY DEF Sound
<1>8. results' = results \cup {Added(i, p, v) : p \in Sound(i, inputs)}
  BY <1>4, <1>6, <1>7
<1>9. ASSUME NEW p \in Sound(i, inputs) PROVE Added(i, p, v) \in ResultRecord
  <2>1. p \in Position /\ BeforeIn(calls, i[1], p) # Unset  BY DEF Sound
  <2>2. i[1] \in CloneId  BY InstanceParts
  <2>3. calls \in Seq(Call) /\ Ordered(calls)  BY DEF TypeOK, CallsInv, Call
  <2>4. BeforeIn(calls, i[1], p) \in Lambda \cup {Unset}  BY <2>1, <2>2, <2>3, BeforeType
  <2>5. BeforeIn(calls, i[1], p) \in Lambda  BY <2>1, <2>4
  <2>6. QED  BY <2>1, <2>2, <2>5 DEF Added, ResultRecord
<1>10. QED  BY <1>1, <1>5, <1>8, <1>9

LEMMA LoopKeeps ==
  ASSUME LambdaInv, ~ broken, NEW i \in Instance, Loop(i)
  PROVE  LambdaInv'
<1> USE DEF LambdaInv
<1>1. /\ UNCHANGED <<tasks, queues, fed, linked, results, calls, broken>>
      /\ threads[i].at = "loop"
      /\ \/ CanTerminate(i) /\ Goto(i, "left", 1)
         \/ ~ ReceiversEmpty(i) /\ Goto(i, "operate", 1)
  BY DEF Loop
<1>2. Made' = Made /\ CallsInv' /\ TaskInv'  BY <1>1, TasksKeep
<1>3. threads \in [Instance -> [at : At, input : Nat]]  BY DEF TypeOK
<1>4. PICK t \in [at : At, input : Nat] :
        /\ threads' = [threads EXCEPT ![i] = t]
        /\ \/ t.at = "left" /\ CanTerminate(i)
           \/ t.at = "operate" /\ t.input \in Position
  <2>1. CASE CanTerminate(i) /\ Goto(i, "left", 1)
    <3>1. PICK t \in [at : At, input : Nat] : t = [at |-> "left", input |-> 1]  BY DEF At
    <3>2. t.at = "left" /\ threads' = [threads EXCEPT ![i] = t]  BY <2>1, <3>1 DEF Goto
    <3>3. QED  BY <2>1, <3>2
  <2>2. CASE ~ ReceiversEmpty(i) /\ Goto(i, "operate", 1)
    <3>1. PICK t \in [at : At, input : Nat] : t = [at |-> "operate", input |-> 1]  BY DEF At
    <3>2. Position # {}  BY <2>2 DEF ReceiversEmpty
    <3>3. Position = 1 .. Len(InputTypes) /\ Len(InputTypes) \in Nat
      BY LambdaAssumption DEF Position
    <3>4. 1 \in Position  BY <3>2, <3>3
    <3>5. QED  BY <2>2, <3>1, <3>4 DEF Goto
  <2>3. QED  BY <1>1, <2>1, <2>2
<1>5. /\ threads' \in [Instance -> [at : At, input : Nat]] /\ threads'[i] = t
      /\ \A j \in Instance : j # i => threads'[j] = threads[j]
      /\ \A j \in Instance : /\ threads'[j].at = "none" <=> threads[j].at = "none"
                             /\ threads'[j].at = "created" <=> threads[j].at = "created"
  BY <1>1, <1>3, <1>4
<1>6. TypeOK'
  <2>1. \A j \in Instance : threads'[j].at = "operate" => threads'[j].input \in Position
    BY <1>4, <1>5 DEF TypeOK
  <2>2. QED  BY <2>1, <1>1, <1>2, <1>5 DEF TypeOK
<1>7. GroupInv'
  <2>1. SUFFICES ASSUME NEW j \in Instance,
                        j \in linked \/ (j \in Made /\ j[2] # 0) \/ threads[j].at # "none"
                 PROVE  Members(j[1]) \subseteq Made /\ \A m \in Members(j[1]) : threads'[m].at # "none"
    BY <1>1, <1>2, <1>5 DEF GroupInv
  <2>2. Members(j[1]) \subseteq Made /\ \A m \in Members(j[1]) : threads[m].at # "none"
    BY <2>1 DEF GroupInv
  <2>3. Members(j[1]) \subseteq Instance  BY InstanceParts
  <2>4. QED  BY <2>2, <2>3, <1>5
<1>8. ResultInv' /\ OnceInv'
  <2>1. \A r \in results : r.by \in Instance  BY DEF TypeOK
  <2>2. QED  BY <2>1, <1>1, <1>2, <1>5 DEF ResultInv, OnceInv
<1>9. BrokenInv'  BY <1>1 DEF BrokenInv
<1>10. NullInv'
  <2>1. \A j \in Instance : threads[j].at \in {"loop", "operate", "left"} => StartedWith(j)'
    BY <1>1 DEF NullInv, StartedWith
  <2>2. \A j \in Instance : threads'[j].at \in {"loop", "operate", "left"} =>
          threads[j].at \in {"loop", "operate", "left"}
    BY <1>1, <1>5
  <2>3. QED  BY <2>1, <2>2 DEF NullInv
<1>11. EndInv'
  <2>1. CanTerminate(i) => i \notin linked /\ ReceiversEmpty(i)  BY DEF CanTerminate
  <2>2. \A j \in Instance : ReceiversEmpty(j) => ReceiversEmpty(j)'
    BY <1>1 DEF ReceiversEmpty
  <2>3. QED  BY <2>1, <2>2, <1>1, <1>4, <1>5 DEF EndInv
<1>12. FlowInv'
  <2>1. \A j \in CloneId, q \in Position : \E e \in 0 .. MaxValues : FlowUpTo(j, q, e)
    BY DEF FlowInv
  <2>2. \A j \in CloneId, q \in Position : \E e \in 0 .. MaxValues : FlowUpTo(j, q, e)'
    BY <2>1, <1>1 DEF FlowUpTo, Executed
  <2>3. QED  BY <2>2 DEF FlowInv
<1>13. QED
  BY <1>2, <1>6, <1>7, <1>8, <1>9, <1>10, <1>11, <1>12

LEMMA RunKeeps ==
  ASSUME LambdaInv, ~ broken, NEW i \in Instance, Run(i)
  PROVE  LambdaInv'
<1> USE DEF LambdaInv
<1>1. /\ UNCHANGED <<tasks, queues, fed, linked, calls>>
      /\ threads[i].at = "created" /\ threads' = [threads EXCEPT ![i] = [at |-> "loop", input |-> 1]]
      /\ IF StartsItself THEN CallExecute(i, Position, Null) ELSE UNCHANGED <<results, broken>>
  BY DEF Run, Goto
<1>2. Made' = Made /\ CallsInv' /\ TaskInv'  BY <1>1, TasksKeep
<1>3. threads \in [Instance -> [at : At, input : Nat]]  BY DEF TypeOK
<1>4. /\ threads' \in [Instance -> [at : At, input : Nat]] /\ threads'[i].at = "loop"
      /\ \A j \in Instance : j # i => threads'[j] = threads[j]
      /\ \A j \in Instance : threads'[j].at = "none" <=> threads[j].at = "none"
  <2>1. [at |-> "loop", input |-> 1] \in [at : At, input : Nat]  BY DEF At
  <2>2. QED  BY <2>1, <1>1, <1>3
<1>5. i \in Made /\ i[1] \in CloneId  BY <1>1, GroupOfThread
<1>6. PICK sound \in SUBSET Position :
        /\ results' = results \cup {Added(i, p, Null) : p \in sound}
        /\ \A p \in sound : Added(i, p, Null) \in ResultRecord
        /\ ~ StartsItself => sound = {} /\ ~ broken'
        /\ StartsItself => sound = Sound(i, Position)
        /\ StartsItself => (broken' <=> sound # Position)
        /\ broken' \in BOOLEAN
  <2>1. CASE StartsItself
    <3>1. CallExecute(i, Position, Null)  BY <1>1, <2>1
    <3>2. PICK inputs \in SUBSET Position : inputs = Position  OBVIOUS
    <3>3. PICK v \in Value \cup {Null} : v = Null  OBVIOUS
    <3>4. CallExecute(i, inputs, v)  BY <3>1, <3>2, <3>3
    <3>5. /\ i \in Made
          /\ results' = results \cup {Added(i, p, v) : p \in Sound(i, inputs)}
          /\ broken' = (Sound(i, inputs) # inputs)
          /\ \A p \in Sound(i, inputs) : Added(i, p, v) \in ResultRecord
      BY <3>4, <1>1, Executing
    <3>6. PICK sound \in SUBSET Position : sound = Sound(i, Position)  BY DEF Sound
    <3>7. /\ results' = results \cup {Added(i, p, Null) : p \in sound}
          /\ \A p \in sound : Added(i, p, Null) \in ResultRecord
      BY <3>2, <3>3, <3>5, <3>6
    <3>8. (broken' <=> sound # Position) /\ broken' \in BOOLEAN  BY <3>2, <3>5, <3>6
    <3>9. QED  BY <3>6, <3>7, <3>8, <2>1
  <2>2. CASE ~ StartsItself
    <3>1. results' = results /\ broken' = broken  BY <1>1, <2>2
    <3>2. PICK sound \in SUBSET Position : sound = {}  OBVIOUS
    <3>3. results' = results \cup {Added(i, p, Null) : p \in sound}  BY <3>1, <3>2
    <3>4. ~ broken' /\ broken' \in BOOLEAN  BY <3>1 DEF TypeOK
    <3>5. QED  BY <3>2, <3>3, <3>4, <2>2
  <2>3. QED  BY <2>1, <2>2
<1>7. /\ results \subseteq results'
      /\ \A r \in results' : r \in results \/ \E p \in sound : r = Added(i, p, Null)
  BY <1>6
<1>8. \A p \in sound : LET r == Added(i, p, Null) IN
        /\ r.by = i /\ r.input = p /\ r.value = Null /\ r.through = i /\ r.memory = i[1]
        /\ r.lambda = BeforeIn(calls, i[1], p)
  BY DEF Added
<1>9. \A r \in results' : r \in results \/
        /\ r.by = i /\ r.input \in sound /\ r.value = Null /\ r.through = i /\ r.memory = i[1]
        /\ r.lambda = BeforeIn(calls, i[1], r.input)
  BY <1>7, <1>8
<1>10. Null \notin Value  BY LambdaAssumption DEF Value
<1>11. TypeOK'
  <2>1. \A j \in Instance : threads'[j].at = "operate" => threads'[j].input \in Position
    <3>1. TAKE j \in Instance
    <3>2. CASE j = i  BY <3>2, <1>4
    <3>3. CASE j # i  BY <3>3, <1>4 DEF TypeOK
    <3>4. QED  BY <3>2, <3>3
  <2>2. results' \subseteq ResultRecord
    <3>1. results \subseteq ResultRecord  BY DEF TypeOK, ResultRecord
    <3>2. QED  BY <3>1, <1>6
  <2>3. broken' \in BOOLEAN  BY <1>6
  <2>4. QED  BY <2>1, <2>2, <2>3, <1>1, <1>2, <1>4 DEF TypeOK, ResultRecord
<1>12. GroupInv'
  <2>1. SUFFICES ASSUME NEW j \in Instance,
                        j \in linked \/ (j \in Made /\ j[2] # 0) \/ threads[j].at # "none"
                 PROVE  Members(j[1]) \subseteq Made /\ \A m \in Members(j[1]) : threads'[m].at # "none"
    BY <1>1, <1>2, <1>4 DEF GroupInv
  <2>2. Members(j[1]) \subseteq Made /\ \A m \in Members(j[1]) : threads[m].at # "none"
    BY <2>1 DEF GroupInv
  <2>3. Members(j[1]) \subseteq Instance  BY InstanceParts
  <2>4. QED  BY <2>2, <2>3, <1>4
<1>13. ResultInv'
  <2>1. SUFFICES ASSUME NEW r \in results'
                 PROVE  /\ r.by \in Made /\ threads'[r.by].at \notin {"none", "created"}
                        /\ r.lambda = BeforeIn(calls, r.by[1], r.input)
                        /\ r.through = r.by /\ r.memory = r.by[1]
    BY <1>1, <1>2 DEF ResultInv
  <2>2. CASE r \in results
    <3>1. r.by \in Instance  BY <2>2 DEF TypeOK
    <3>2. QED  BY <2>2, <3>1, <1>1, <1>4 DEF ResultInv
  <2>3. CASE r \notin results  BY <2>3, <1>4, <1>5, <1>9
  <2>4. QED  BY <2>2, <2>3
<1>14. OnceInv'
  <2>1. \A r \in results' : r.value # Null => r \in results  BY <1>9
  <2>2. QED  BY <2>1 DEF OnceInv
<1>15. BrokenInv'
  <2>1. ASSUME broken' PROVE \E p \in Position : BeforeIn(calls, i[1], p) = Unset
    <3>1. StartsItself /\ sound # Position  BY <2>1, <1>6, LambdaAssumption
    <3>2. PICK p \in Position : p \notin Sound(i, Position)  BY <3>1, <1>6 DEF Sound
    <3>3. QED  BY <3>2 DEF Sound
  <2>2. broken' => \E k \in CloneId, p \in Position : BeforeIn(calls, k, p) = Unset
    BY <2>1, <1>5
  <2>3. QED  BY <2>2, <1>1 DEF BrokenInv
<1>16. NullInv'
  <2>1. SUFFICES ASSUME NEW j \in Instance, threads'[j].at \in {"loop", "operate", "left"}
                 PROVE  StartedWith(j)' \/ (broken' /\ threads'[j].at # "left")
    BY DEF NullInv
  <2>2. CASE j # i
    <3>1. StartedWith(j)  BY <2>1, <2>2, <1>4 DEF NullInv
    <3>2. \A r \in results' : r.by = j => r \in results  BY <2>2, <1>9
    <3>3. StartedWith(j)'  BY <3>1, <3>2, <1>7 DEF StartedWith
    <3>4. QED  BY <3>3
  <2>3. CASE j = i /\ ~ broken'
    <3>1. \A r \in results : r.by # i  BY <1>1 DEF ResultInv
    <3>2. CASE StartsItself
      <4>1. sound = Position  BY <3>2, <2>3, <1>6
      <4>2. ASSUME NEW p \in Position
            PROVE  \E r \in results' : r.by = i /\ r.input = p /\ r.value = Null
        <5>1. Added(i, p, Null) \in results'  BY <4>1, <1>6
        <5>2. QED  BY <5>1, <4>1, <1>8
      <4>3. QED  BY <4>2, <3>2, <2>3 DEF StartedWith
    <3>3. CASE ~ StartsItself
      <4>1. results' = results  BY <3>3, <1>6
      <4>2. QED  BY <4>1, <3>1, <3>3, <2>3 DEF StartedWith
    <3>4. QED  BY <3>2, <3>3
  <2>4. CASE j = i /\ broken'  BY <2>4, <1>4
  <2>5. QED  BY <2>2, <2>3, <2>4
<1>17. EndInv'
  <2>1. \A j \in Instance : ReceiversEmpty(j) => ReceiversEmpty(j)'
    BY <1>1 DEF ReceiversEmpty
  <2>2. \A j \in Instance : threads'[j].at = "left" => threads[j].at = "left"
    BY <1>4
  <2>3. QED  BY <2>1, <2>2, <1>1, <1>4 DEF EndInv
<1>18. FlowInv'
  <2>1. \A j \in CloneId, q \in Position : \E e \in 0 .. MaxValues : FlowUpTo(j, q, e)
    BY DEF FlowInv
  <2>2. \A j \in CloneId, q \in Position, v \in Value :
          Executed(j, q, v)' <=> Executed(j, q, v)
    BY <1>7, <1>9, <1>10 DEF Executed
  <2>3. \A j \in CloneId, q \in Position : \E e \in 0 .. MaxValues : FlowUpTo(j, q, e)'
    BY <2>1, <2>2, <1>1 DEF FlowUpTo
  <2>4. QED  BY <2>3 DEF FlowInv
<1>19. QED
  BY <1>2, <1>11, <1>12, <1>13, <1>14, <1>15, <1>16, <1>17, <1>18

\* One value leaves the queue and is executed, or the function was never set.
LEMMA OperateReceiverKeeps ==
  ASSUME LambdaInv, ~ broken, NEW i \in Instance, OperateReceiver(i)
  PROVE  LambdaInv'
<1> USE DEF LambdaInv
<1>1. PICK p \in Position : p = threads[i].input
  BY DEF OperateReceiver, TypeOK
<1>2. PICK k \in CloneId : k = i[1]  BY InstanceParts
<1>3. /\ UNCHANGED <<tasks, fed, linked, calls>> /\ threads[i].at = "operate"
      /\ IF queues[k][p] = <<>> THEN UNCHANGED <<queues, results, broken>>
         ELSE /\ queues' = [queues EXCEPT ![k][p] = Tail(@)]
              /\ CallExecute(i, {p}, Head(queues[k][p]))
      /\ IF p = Len(InputTypes) THEN Goto(i, "loop", 1) ELSE Goto(i, "operate", p + 1)
  BY <1>1, <1>2 DEF OperateReceiver
<1>4. Made' = Made /\ CallsInv' /\ TaskInv'  BY <1>3, TasksKeep
<1>5. /\ threads \in [Instance -> [at : At, input : Nat]]
      /\ queues \in [CloneId -> [Position -> Seq(Value)]]
  BY DEF TypeOK
<1>6. PICK t \in [at : At, input : Nat] :
        /\ threads' = [threads EXCEPT ![i] = t]
        /\ \/ t.at = "loop"
           \/ t.at = "operate" /\ t.input \in Position
  <2>1. Position = 1 .. Len(InputTypes) /\ Len(InputTypes) \in Nat
    BY LambdaAssumption DEF Position
  <2>2. CASE p = Len(InputTypes)
    <3>1. PICK t \in [at : At, input : Nat] : t = [at |-> "loop", input |-> 1]  BY DEF At
    <3>2. t.at = "loop" /\ threads' = [threads EXCEPT ![i] = t]
      BY <2>2, <3>1, <1>3 DEF Goto
    <3>3. QED  BY <3>2
  <2>3. CASE p # Len(InputTypes)
    <3>1. p + 1 \in Position /\ p + 1 \in Nat  BY <2>1, <2>3
    <3>2. PICK t \in [at : At, input : Nat] : t = [at |-> "operate", input |-> p + 1]
      BY <3>1 DEF At
    <3>3. t.at = "operate" /\ t.input \in Position /\ threads' = [threads EXCEPT ![i] = t]
      BY <2>3, <3>1, <3>2, <1>3 DEF Goto
    <3>4. QED  BY <3>3
  <2>4. QED  BY <2>2, <2>3
<1>7. /\ threads' \in [Instance -> [at : At, input : Nat]] /\ threads'[i] = t
      /\ \A j \in Instance : j # i => threads'[j] = threads[j]
      /\ \A j \in Instance : /\ threads'[j].at = "none" <=> threads[j].at = "none"
                             /\ threads'[j].at = "created" <=> threads[j].at = "created"
                             /\ threads'[j].at = "left" <=> threads[j].at = "left"
  BY <1>3, <1>5, <1>6
<1>8. i \in Made /\ i \in Members(k) /\ i[1] = k  BY <1>2, <1>3, GroupOfThread, InstanceParts
\* What the step adds: nothing, or the result of one value.
<1>9. PICK new \in SUBSET ResultRecord :
        /\ results' = results \cup new /\ broken' \in BOOLEAN
        /\ \A r \in new : /\ r.by = i /\ r.input = p /\ r.through = i /\ r.memory = k
                          /\ r.lambda = BeforeIn(calls, k, p)
        /\ \A r, s \in new : r = s
        /\ broken' => BeforeIn(calls, k, p) = Unset /\ new = {}
        /\ queues[k][p] = <<>> => queues' = queues /\ new = {} /\ ~ broken'
        /\ queues[k][p] # <<>> =>
             /\ queues' = [queues EXCEPT ![k][p] = Tail(@)]
             /\ \A r \in new : r.value = Head(queues[k][p])
             /\ broken' \/ new # {}
  <2>1. CASE queues[k][p] = <<>>
    <3>1. queues' = queues /\ results' = results /\ broken' = broken  BY <1>3, <2>1
    <3>2. ~ broken' /\ broken' \in BOOLEAN  BY <3>1 DEF TypeOK
    <3>3. PICK new \in SUBSET ResultRecord : new = {}  OBVIOUS
    <3>4. results' = results \cup new  BY <3>1, <3>3
    <3>5. QED  BY <2>1, <3>1, <3>2, <3>3, <3>4
  <2>2. CASE queues[k][p] # <<>>
    <3>1. queues[k][p] \in Seq(Value)  BY <1>5
    <3>2. PICK v \in Value \cup {Null} : v = Head(queues[k][p])
      BY <3>1, <2>2, HeadTailProperties
    <3>3. PICK inputs \in SUBSET Position : inputs = {p}  OBVIOUS
    <3>4. CallExecute(i, inputs, v) /\ threads[i].at # "none"  BY <1>3, <2>2, <3>2, <3>3
    <3>5. /\ results' = results \cup {Added(i, q, v) : q \in Sound(i, inputs)}
          /\ broken' = (Sound(i, inputs) # inputs)
          /\ \A q \in Sound(i, inputs) : Added(i, q, v) \in ResultRecord
      BY <3>4, Executing
    <3>6. Sound(i, inputs) = IF BeforeIn(calls, k, p) = Unset THEN {} ELSE {p}
      BY <3>3, <1>8 DEF Sound
    <3>7. CASE BeforeIn(calls, k, p) = Unset
      <4>1. PICK new \in SUBSET ResultRecord : new = {}  OBVIOUS
      <4>2. results' = results \cup new /\ broken' /\ broken' \in BOOLEAN
        BY <3>3, <3>5, <3>6, <3>7, <4>1
      <4>3. queues' = [queues EXCEPT ![k][p] = Tail(@)]  BY <1>3, <2>2
      <4>4. QED  BY <2>2, <3>7, <4>1, <4>2, <4>3
    <3>8. CASE BeforeIn(calls, k, p) # Unset
      <4>1. p \in Sound(i, inputs)  BY <3>6, <3>8
      <4>2. PICK a \in ResultRecord : a = Added(i, p, v)  BY <3>5, <4>1
      <4>3. PICK new \in SUBSET ResultRecord : new = {a}  OBVIOUS
      <4>4. results' = results \cup new
        BY <3>5, <3>6, <3>8, <4>2, <4>3
      <4>5. ~ broken' /\ broken' \in BOOLEAN  BY <3>3, <3>5, <3>6, <3>8
      <4>6. /\ a.by = i /\ a.input = p /\ a.through = i /\ a.memory = k /\ a.value = v
            /\ a.lambda = BeforeIn(calls, k, p)
        BY <4>2, <1>8 DEF Added
      <4>7. queues' = [queues EXCEPT ![k][p] = Tail(@)]  BY <1>3, <2>2
      <4>8. \A r \in new : r = a  BY <4>3
      <4>9. new # {}  BY <4>3
      <4>10. QED  BY <2>2, <3>2, <4>4, <4>5, <4>6, <4>7, <4>8, <4>9
    <3>9. QED  BY <3>7, <3>8
  <2>3. QED  BY <2>1, <2>2
<1>10. \A r \in new : r.value \in Value
  <2>1. CASE queues[k][p] = <<>>  BY <2>1, <1>9
  <2>2. CASE queues[k][p] # <<>>
    <3>1. queues[k][p] \in Seq(Value)  BY <1>5
    <3>2. Head(queues[k][p]) \in Value  BY <3>1, <2>2, HeadTailProperties
    <3>3. QED  BY <3>2, <2>2, <1>9
  <2>3. QED  BY <2>1, <2>2
<1>11. \A j \in CloneId, q \in Position : j # k \/ q # p => queues'[j][q] = queues[j][q]
  BY <1>5, <1>9
<1>12. Null \notin Value  BY LambdaAssumption DEF Value
<1>13. TypeOK'
  <2>1. \A j \in Instance : threads'[j].at = "operate" => threads'[j].input \in Position
    <3>1. TAKE j \in Instance
    <3>2. CASE j = i  BY <3>2, <1>6, <1>7
    <3>3. CASE j # i  BY <3>3, <1>7 DEF TypeOK
    <3>4. QED  BY <3>2, <3>3
  <2>2. results' \subseteq ResultRecord
    <3>1. results \subseteq ResultRecord  BY DEF TypeOK, ResultRecord
    <3>2. QED  BY <3>1, <1>9
  <2>3. queues' \in [CloneId -> [Position -> Seq(Value)]]
    <3>1. CASE queues[k][p] = <<>>  BY <3>1, <1>5, <1>9
    <3>2. CASE queues[k][p] # <<>>
      <4>1. queues[k][p] \in Seq(Value) /\ queues[k] \in [Position -> Seq(Value)]  BY <1>5
      <4>2. Tail(queues[k][p]) \in Seq(Value)  BY <4>1, <3>2, HeadTailProperties
      <4>3. PICK h \in [Position -> Seq(Value)] :
              h = [queues[k] EXCEPT ![p] = Tail(queues[k][p])]
        BY <4>1, <4>2
      <4>4. queues' = [queues EXCEPT ![k] = h]  BY <1>9, <1>5, <3>2, <4>3
      <4>5. QED  BY <4>4, <1>5
    <3>3. QED  BY <3>1, <3>2
  <2>4. broken' \in BOOLEAN  BY <1>9
  <2>5. QED  BY <2>1, <2>2, <2>3, <2>4, <1>3, <1>4, <1>7 DEF TypeOK, ResultRecord
<1>14. GroupInv'
  <2>1. SUFFICES ASSUME NEW j \in Instance,
                        j \in linked \/ (j \in Made /\ j[2] # 0) \/ threads[j].at # "none"
                 PROVE  Members(j[1]) \subseteq Made /\ \A m \in Members(j[1]) : threads'[m].at # "none"
    BY <1>3, <1>4, <1>7 DEF GroupInv
  <2>2. Members(j[1]) \subseteq Made /\ \A m \in Members(j[1]) : threads[m].at # "none"
    BY <2>1 DEF GroupInv
  <2>3. Members(j[1]) \subseteq Instance  BY InstanceParts
  <2>4. QED  BY <2>2, <2>3, <1>7
<1>15. ResultInv'
  <2>1. SUFFICES ASSUME NEW r \in results'
                 PROVE  /\ r.by \in Made /\ threads'[r.by].at \notin {"none", "created"}
                        /\ r.lambda = BeforeIn(calls, r.by[1], r.input)
                        /\ r.through = r.by /\ r.memory = r.by[1]
    BY <1>3, <1>4 DEF ResultInv
  <2>2. CASE r \in results
    <3>1. r.by \in Instance  BY <2>2 DEF TypeOK
    <3>2. QED  BY <2>2, <3>1, <1>7 DEF ResultInv
  <2>3. CASE r \in new
    <3>1. /\ r.by = i /\ r.input = p /\ r.through = i /\ r.memory = k
          /\ r.lambda = BeforeIn(calls, k, p)
      BY <2>3, <1>9
    <3>2. threads'[i].at \notin {"none", "created"}  BY <1>3, <1>7
    <3>3. QED  BY <3>1, <3>2, <1>8
  <2>4. QED  BY <2>2, <2>3, <1>9
<1>16. BrokenInv'
  <2>1. broken' => \E j \in CloneId, q \in Position : BeforeIn(calls, j, q) = Unset
    BY <1>9
  <2>2. QED  BY <2>1, <1>3 DEF BrokenInv
<1>17. NullInv'
  <2>1. \A r \in new : r.value # Null  BY <1>10, <1>12
  <2>2. \A j \in Instance : StartedWith(j) => StartedWith(j)'
    BY <2>1, <1>9 DEF StartedWith
  <2>3. \A j \in Instance : threads'[j].at \in {"loop", "operate", "left"} =>
          threads[j].at \in {"loop", "operate", "left"}
    BY <1>3, <1>7
  <2>4. \A j \in Instance : threads'[j].at \in {"loop", "operate", "left"} => StartedWith(j)'
    BY <2>2, <2>3 DEF NullInv
  <2>5. QED  BY <2>4 DEF NullInv
<1>18. EndInv'
  <2>1. SUFFICES ASSUME NEW j \in Instance
                 PROVE  /\ threads'[j].at # "none" /\ j \notin linked' =>
                             \A q \in Position : fed'[j[1]][q] = MaxValues
                        /\ threads'[j].at = "left" => j \notin linked' /\ ReceiversEmpty(j)'
    BY DEF EndInv
  <2>2. threads'[j].at # "none" /\ j \notin linked' =>
          \A q \in Position : fed'[j[1]][q] = MaxValues
    BY <1>3, <1>7 DEF EndInv
  <2>3. ASSUME threads'[j].at = "left" PROVE j \notin linked' /\ ReceiversEmpty(j)'
    <3>1. j \notin linked /\ ReceiversEmpty(j)  BY <2>3, <1>7 DEF EndInv
    <3>2. j[1] \in CloneId  BY InstanceParts
    <3>3. \A q \in Position : queues'[j[1]][q] = <<>>
      <4>1. TAKE q \in Position
      <4>2. queues[j[1]][q] = <<>>  BY <3>1 DEF ReceiversEmpty
      <4>3. CASE j[1] # k \/ q # p  BY <4>2, <4>3, <3>2, <1>11
      <4>4. CASE j[1] = k /\ q = p  BY <4>2, <4>4, <1>9
      <4>5. QED  BY <4>3, <4>4
    <3>4. QED  BY <3>1, <3>3, <1>3 DEF ReceiversEmpty
  <2>4. QED  BY <2>2, <2>3
<1>19. \A j \in CloneId, q \in Position : \E e \in 0 .. MaxValues : FlowUpTo(j, q, e)
  BY DEF FlowInv
<1>20. \A j \in CloneId, q \in Position, v \in Value :
         Executed(j, q, v)' <=> Executed(j, q, v) \/ \E r \in new : j = k /\ q = p /\ r.value = v
  BY <1>9, <1>8 DEF Executed
<1>21. ASSUME queues[k][p] # <<>>
       PROVE  \E e \in 0 .. MaxValues :
                /\ e + 1 = Head(queues[k][p]) /\ e + 1 \in Value /\ FlowUpTo(k, p, e)
                /\ Len(Tail(queues[k][p])) + 1 = Len(queues[k][p])
                /\ \A n \in 1 .. Len(Tail(queues[k][p])) : Tail(queues[k][p])[n] = (e + 1) + n
  <2>1. PICK e \in 0 .. MaxValues : FlowUpTo(k, p, e)  BY <1>19
  <2>2. PICK s \in Seq(Value) : s = queues[k][p]  BY <1>5
  <2>3. /\ Len(s) \in Nat \ {0} /\ Head(s) = s[1] /\ Head(s) \in Value
        /\ Len(Tail(s)) = Len(s) - 1
        /\ \A n \in 1 .. Len(Tail(s)) : Tail(s)[n] = s[n + 1]
    BY <2>2, <1>21, HeadTailProperties
  <2>4. \A n \in 1 .. Len(s) : s[n] = e + n  BY <2>1, <2>2 DEF FlowUpTo
  <2>5. Head(s) = e + 1  BY <2>3, <2>4
  <2>6. \A n \in 1 .. Len(Tail(s)) : Tail(s)[n] = (e + 1) + n
    <3>1. TAKE n \in 1 .. Len(Tail(s))
    <3>2. n + 1 \in 1 .. Len(s) /\ n \in Nat  BY <2>3
    <3>3. Tail(s)[n] = e + (n + 1)  BY <2>3, <2>4, <3>2
    <3>4. QED  BY <3>2, <3>3
  <2>7. QED  BY <2>1, <2>2, <2>3, <2>5, <2>6
<1>22. FlowInv'
  <2>1. SUFFICES ASSUME NEW j \in CloneId, NEW q \in Position
                 PROVE  \/ \E e \in 0 .. MaxValues : FlowUpTo(j, q, e)'
                        \/ broken' /\ \E m \in Members(j) : threads'[m].at # "left"
    BY DEF FlowInv
  <2>2. PICK e \in 0 .. MaxValues : FlowUpTo(j, q, e)  BY <1>19
  <2>3. CASE j # k \/ q # p
    <3>1. \A v \in Value : Executed(j, q, v)' <=> Executed(j, q, v)  BY <2>3, <1>20
    <3>2. queues'[j][q] = queues[j][q] /\ fed' = fed  BY <2>3, <1>3, <1>11
    <3>3. FlowUpTo(j, q, e)'  BY <2>2, <3>1, <3>2 DEF FlowUpTo
    <3>4. QED  BY <3>3
  <2>4. CASE j = k /\ q = p /\ queues[k][p] = <<>>
    <3>1. queues' = queues /\ new = {} /\ fed' = fed  BY <2>4, <1>3, <1>9
    <3>2. \A v \in Value : Executed(j, q, v)' <=> Executed(j, q, v)  BY <3>1, <1>20
    <3>3. FlowUpTo(j, q, e)'  BY <2>2, <3>1, <3>2 DEF FlowUpTo
    <3>4. QED  BY <3>3
  <2>5. CASE j = k /\ q = p /\ queues[k][p] # <<>> /\ broken'
    BY <2>5, <1>3, <1>7, <1>8
  <2>6. CASE j = k /\ q = p /\ queues[k][p] # <<>> /\ ~ broken'
    <3>1. PICK f \in 0 .. MaxValues :
            /\ f + 1 = Head(queues[k][p]) /\ f + 1 \in Value /\ FlowUpTo(k, p, f)
            /\ Len(Tail(queues[k][p])) + 1 = Len(queues[k][p])
            /\ \A n \in 1 .. Len(Tail(queues[k][p])) : Tail(queues[k][p])[n] = (f + 1) + n
      BY <2>6, <1>21
    <3>2. queues'[k][p] = Tail(queues[k][p]) /\ fed' = fed
      <4>1. queues' = [queues EXCEPT ![k][p] = Tail(queues[k][p])]  BY <2>6, <1>9
      <4>2. queues[k] \in [Position -> Seq(Value)]  BY <1>5
      <4>3. queues'[k][p] = Tail(queues[k][p])  BY <4>1, <4>2, <1>5
      <4>4. QED  BY <4>3, <1>3
    <3>3. \A v \in Value : Executed(k, p, v)' <=> v <= f \/ v = f + 1
      <4>1. /\ \A v \in Value : Executed(k, p, v) <=> v <= f
        BY <3>1 DEF FlowUpTo
      <4>2. \A v \in Value : (\E r \in new : r.value = v) <=> v = f + 1
        BY <2>6, <3>1, <1>9
      <4>3. QED  BY <4>1, <4>2, <1>20
    <3>4. PICK g \in 0 .. MaxValues : g = f + 1  BY <3>1, LambdaAssumption DEF Value
    <3>5. \A v \in Value : Executed(k, p, v)' <=> v <= g
      BY <3>3, <3>4, LambdaAssumption DEF Value
    <3>6. g + Len(queues'[k][p]) = fed'[k][p]
      <4>1. PICK s \in Seq(Value) : s = queues[k][p]  BY <1>5
      <4>2. Tail(s) \in Seq(Value)  BY <4>1, <2>6, HeadTailProperties
      <4>3. Len(s) \in Nat /\ Len(Tail(s)) \in Nat  BY <4>1, <4>2
      <4>4. f + Len(s) = fed[k][p] /\ Len(Tail(s)) + 1 = Len(s)  BY <3>1, <4>1 DEF FlowUpTo
      <4>5. f \in Int /\ g = f + 1  BY <3>4
      <4>6. PICK m \in Nat, n \in Nat : m = Len(Tail(s)) /\ n = Len(s)  BY <4>3
      <4>7. m + 1 = n /\ f + n = fed[k][p]  BY <4>4, <4>6
      <4>8. g + m = f + n
        <5>1. n = m + 1 /\ g = f + 1 /\ f \in Int /\ m \in Int  BY <4>5, <4>7
        <5>2. (f + 1) + m = f + (m + 1)  BY <5>1
        <5>3. QED  BY <5>1, <5>2
      <4>9. g + m = fed[k][p]  BY <4>7, <4>8
      <4>10. Len(queues'[k][p]) = m /\ fed'[k][p] = fed[k][p]  BY <4>1, <4>6, <3>2
      <4>11. QED  BY <4>9, <4>10
    <3>7. \A n \in 1 .. Len(queues'[k][p]) : queues'[k][p][n] = g + n
      BY <3>1, <3>2, <3>4
    <3>8. FlowUpTo(k, p, g)'  BY <3>5, <3>6, <3>7 DEF FlowUpTo
    <3>9. QED  BY <3>8, <2>6
  <2>7. QED  BY <2>3, <2>4, <2>5, <2>6
<1>23. OnceInv'
  <2>1. SUFFICES ASSUME NEW r \in results', NEW s \in results', r.by[1] = s.by[1],
                        r.input = s.input, r.value = s.value, r.value # Null
                 PROVE  r = s
    BY DEF OnceInv
  <2>2. ASSUME NEW a \in new, NEW b \in results, b.by[1] = k, b.input = p, a.value = b.value
        PROVE  FALSE
    <3>1. queues[k][p] # <<>>  BY <2>2, <1>9
    <3>2. PICK f \in 0 .. MaxValues :
            f + 1 = Head(queues[k][p]) /\ f + 1 \in Value /\ FlowUpTo(k, p, f)
      BY <3>1, <1>21
    <3>3. a.value = f + 1  BY <2>2, <3>1, <3>2, <1>9
    <3>4. Executed(k, p, f + 1)  BY <2>2, <3>3 DEF Executed
    <3>5. \A v \in Value : Executed(k, p, v) <=> v <= f  BY <3>2 DEF FlowUpTo
    <3>6. f + 1 <= f  BY <3>2, <3>4, <3>5
    <3>7. QED  BY <3>6
  <2>3. \A a \in new : a.by[1] = k /\ a.input = p  BY <1>8, <1>9
  <2>4. CASE r \in new /\ s \in new  BY <2>4, <1>9
  <2>5. CASE r \in new /\ s \in results
    BY <2>1, <2>2, <2>3, <2>5
  <2>6. CASE r \in results /\ s \in new
    BY <2>1, <2>2, <2>3, <2>6
  <2>7. CASE r \in results /\ s \in results  BY <2>1, <2>7 DEF OnceInv
  <2>8. QED  BY <2>4, <2>5, <2>6, <2>7, <1>9
<1>24. QED
  BY <1>4, <1>13, <1>14, <1>15, <1>16, <1>17, <1>18, <1>22, <1>23
-----------------------------------------------------------------------------
(* The theorem.                                                              *)

\* The type and the invariants of LambdaTask hold in every reachable state.
THEOREM LambdaInvariant == LambdaSpec => []LambdaInv
<1>1. LambdaInit => LambdaInv  BY InvariantInitially
<1>2. LambdaInv /\ [LambdaNext]_lambdaVars => LambdaInv'
  <2>1. SUFFICES ASSUME LambdaInv, [LambdaNext]_lambdaVars PROVE LambdaInv'  OBVIOUS
  <2>2. CASE LambdaNext
    <3>1. ~ broken  BY <2>2 DEF LambdaNext
    <3>2. ASSUME NEW p \in Position, NEW f \in Lambda, SetLambda(p, f) PROVE LambdaInv'
      BY <2>1, <3>1, <3>2, SetLambdaKeeps
    <3>3. ASSUME NEW k \in CloneId, CloneTask(k) PROVE LambdaInv'
      BY <2>1, <3>1, <3>3, CloneTaskKeeps
    <3>4. ASSUME NEW k \in CloneId, CreateGroup(k) PROVE LambdaInv'
      BY <2>1, <3>1, <3>4, CreateGroupKeeps
    <3>5. ASSUME NEW k \in CloneId, Leave(k) PROVE LambdaInv'
      BY <2>1, <3>1, <3>5, LeaveKeeps
    <3>6. ASSUME NEW k \in CloneId, NEW p \in Position, Feed(k, p) PROVE LambdaInv'
      BY <2>1, <3>1, <3>6, FeedKeeps
    <3>7. ASSUME NEW i \in Instance, Run(i) PROVE LambdaInv'
      BY <2>1, <3>1, <3>7, RunKeeps
    <3>8. ASSUME NEW i \in Instance, Loop(i) PROVE LambdaInv'
      BY <2>1, <3>1, <3>8, LoopKeeps
    <3>9. ASSUME NEW i \in Instance, OperateReceiver(i) PROVE LambdaInv'
      BY <2>1, <3>1, <3>9, OperateReceiverKeeps
    <3>10. QED
      BY <2>2, <3>2, <3>3, <3>4, <3>5, <3>6, <3>7, <3>8, <3>9 DEF LambdaNext
  <2>3. CASE UNCHANGED lambdaVars
    <3>1. UNCHANGED <<tasks, threads, queues, fed, linked, results, calls, broken>>
      BY <2>3 DEF lambdaVars
    <3>2. Made' = Made  BY <3>1 DEF Made
    <3>3. TypeOK'  BY <2>1, <3>1, <3>2 DEF LambdaInv, TypeOK
    <3>4. CallsInv' /\ TaskInv'  BY <2>1, <3>1, TasksKeep DEF LambdaInv
    <3>5. GroupInv' /\ ResultInv' /\ OnceInv'
      BY <2>1, <3>1, <3>2 DEF LambdaInv, GroupInv, ResultInv, OnceInv
    <3>6. BrokenInv'  BY <2>1, <3>1 DEF LambdaInv, BrokenInv
    <3>7. EndInv'  BY <2>1, <3>1 DEF LambdaInv, EndInv, ReceiversEmpty
    <3>8. FlowInv'  BY <2>1, <3>1 DEF LambdaInv, FlowInv, FlowUpTo, Executed
    <3>9. NullInv'  BY <2>1, <3>1 DEF LambdaInv, NullInv, StartedWith
    <3>10. QED  BY <3>3, <3>4, <3>5, <3>6, <3>7, <3>8, <3>9 DEF LambdaInv
  <2>4. QED  BY <2>1, <2>2, <2>3
<1>3. QED  BY <1>1, <1>2, PTL DEF LambdaSpec

\* The function that was set last before a clone was taken.
LEMMA BeforeIsSetBefore ==
  \A k \in CloneId, p \in Position : SetBefore(k, p) = BeforeIn(calls, k, p)
BY DEF SetBefore, BeforeIn, SetsIn, ClonedIn

LEMMA InvariantGivesTheResults == LambdaInv => ResultsOfTheLambdas
<1>1. SUFFICES ASSUME LambdaInv PROVE ResultsOfTheLambdas  OBVIOUS
<1> USE <1>1 DEF LambdaInv
<1>2. ASSUME NEW r \in results
      PROVE  /\ r.lambda = SetBefore(r.by[1], r.input)
             /\ r.through = r.by /\ r.memory = r.by[1]
  <2>1. r.by \in Instance /\ r.input \in Position  BY DEF TypeOK
  <2>2. r.by[1] \in CloneId  BY <2>1, InstanceParts
  <2>3. QED  BY <2>1, <2>2, BeforeIsSetBefore DEF ResultInv
<1>3. broken => \E k \in CloneId, p \in Position : SetBefore(k, p) = Unset
  BY BeforeIsSetBefore DEF BrokenInv
<1>4. ASSUME NEW k \in CloneId, \A i \in Members(k) : threads[i].at = "left"
      PROVE  /\ \A p \in Position, v \in 1 .. MaxValues :
                  Cardinality({r \in results : r.by[1] = k /\ r.input = p /\ r.value = v}) = 1
             /\ \A i \in Members(k), p \in Position :
                  StartsItself = (\E r \in results : r.by = i /\ r.input = p /\ r.value = Null)
  <2>1. PICK i \in Instance : i = <<k, 0>> /\ i[1] = k /\ i \in Members(k)
    BY InstanceParts
  <2>2. /\ threads[i].at = "left" /\ i \notin linked
        /\ \A p \in Position : queues[k][p] = <<>> /\ fed[k][p] = MaxValues
    BY <1>4, <2>1 DEF EndInv, ReceiversEmpty
  <2>3. ASSUME NEW p \in Position, NEW v \in 1 .. MaxValues
        PROVE  Cardinality({r \in results : r.by[1] = k /\ r.input = p /\ r.value = v}) = 1
    <3>1. PICK e \in 0 .. MaxValues : FlowUpTo(k, p, e)  BY <1>4 DEF FlowInv
    <3>2. Len(queues[k][p]) = 0 /\ fed[k][p] = MaxValues  BY <2>2
    <3>3. e + Len(queues[k][p]) = fed[k][p]
          /\ \A w \in Value : Executed(k, p, w) <=> w <= e
      BY <3>1 DEF FlowUpTo
    <3>4. e = MaxValues  BY <3>2, <3>3, LambdaAssumption
    <3>5. Executed(k, p, v)  BY <3>3, <3>4, LambdaAssumption DEF Value
    <3>6. PICK s \in results : s.by[1] = k /\ s.input = p /\ s.value = v
      BY <3>5 DEF Executed
    <3>7. v # Null  BY LambdaAssumption
    <3>8. {r \in results : r.by[1] = k /\ r.input = p /\ r.value = v} = {s}
      BY <3>6, <3>7 DEF OnceInv
    <3>9. QED  BY <3>8, FS_Singleton
  <2>4. ASSUME NEW j \in Members(k), NEW p \in Position
        PROVE  StartsItself = (\E r \in results : r.by = j /\ r.input = p /\ r.value = Null)
    <3>1. j \in Instance /\ threads[j].at = "left"  BY <1>4, InstanceParts
    <3>2. StartedWith(j)  BY <3>1 DEF NullInv
    <3>3. StartsItself <=> \E r \in results : r.by = j /\ r.input = p /\ r.value = Null
      BY <3>2 DEF StartedWith
    <3>4. StartsItself \in BOOLEAN  BY LambdaAssumption
    <3>5. QED  BY <3>3, <3>4
  <2>5. QED  BY <2>3, <2>4
<1>5. QED  BY <1>2, <1>3, <1>4 DEF ResultsOfTheLambdas

\* What every thread runs and adds, whatever the user sets and clones in whatever order:
\* the functions of its own clone, through its own task and memory, each value once.
THEOREM ResultsAreOfTheLambdas == LambdaSpec => []ResultsOfTheLambdas
<1>1. LambdaInv => ResultsOfTheLambdas  BY InvariantGivesTheResults
<1>2. LambdaSpec => []LambdaInv  BY LambdaInvariant
<1>3. QED  BY <1>1, <1>2, PTL
=============================================================================
