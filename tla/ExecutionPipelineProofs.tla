----------------------- MODULE ExecutionPipelineProofs -----------------------
(***************************************************************************)
(* A graph is joined only when all it holds has ended; a node that ends is    *)
(* connected to nobody, unless some node has no predecessor; and a pipeline   *)
(* with its copies implements the Router: for every nesting of graphs and     *)
(* pipelines, every wiring, groups of any size, every switch rule and every   *)
(* input.                                                                    *)
(***************************************************************************)
EXTENDS PipelineRouting, FiniteSetTheorems, WellFoundedInduction,
        SequenceTheorems, TLAPS
-----------------------------------------------------------------------------
(* Induction over the naturals, for a set instead of a predicate, and what    *)
(* it says about FlattenSeq.                                                 *)

LEMMA LeastNat ==
  ASSUME NEW T, T \subseteq Nat, T # {}
  PROVE  \E m \in T : \A k \in T : m <= k
<1> DEFINE I == {0 .. k : k \in T}
           R == StrictSubsetOrdering(Nat)
<1>1. IsWellFoundedOn(R, FiniteSubsetsOf(Nat))
  BY FS_StrictSubsetOrderingWellFounded
<1>2. I \subseteq FiniteSubsetsOf(Nat) /\ I # {}
  <2>1. \A k \in T : 0 .. k \subseteq Nat /\ IsFiniteSet(0 .. k)
    BY FS_Interval
  <2>2. QED
    BY <2>1 DEF FiniteSubsetsOf
<1>3. \E x \in I : \A y \in I : ~ (<<y, x>> \in R)
  <2> HIDE DEF I, R
  <2>1. QED
    BY <1>1, <1>2, WFMin
<1>4. PICK m \in T : \A k \in T : ~ (<<0 .. k, 0 .. m>> \in R)
  BY <1>3
<1>5. \A k \in T : m <= k
  <2> SUFFICES ASSUME NEW k \in T, k < m
               PROVE  FALSE
    OBVIOUS
  <2>1. 0 .. k \subseteq 0 .. m /\ m \notin 0 .. k /\ m \in 0 .. m
    OBVIOUS
  <2>2. 0 .. k \subseteq Nat /\ 0 .. m \subseteq Nat
    OBVIOUS
  <2>3. QED
    BY <1>4, <2>1, <2>2 DEF StrictSubsetOrdering
<1>6. QED
  BY <1>5

LEMMA SetInduction ==
  ASSUME NEW T, 0 \in T, \A n \in Nat : n \in T => n + 1 \in T
  PROVE  Nat \subseteq T
<1> SUFFICES ASSUME Nat \ T # {}
             PROVE  FALSE
  OBVIOUS
<1>1. PICK m \in Nat \ T : \A k \in Nat \ T : m <= k
  BY LeastNat
<1>2. m # 0
  BY <1>1
<1>3. m - 1 \in Nat
  BY <1>2
<1>4. m - 1 \in T
  BY <1>1, <1>3
<1>5. QED
  BY <1>1, <1>3, <1>4

\* f is what FlattenSeq computes on its way through the first n parts of ss.
Flattens(f, ss, n) ==
  f = [i \in 1 .. n |-> IF i = 1 THEN ss[i] ELSE f[i - 1] \o ss[i]]

LEMMA FlattensLonger ==
  ASSUME NEW ss, NEW n \in Nat, NEW f, Flattens(f, ss, n)
  PROVE  \E g : Flattens(g, ss, n + 1)
<1> DEFINE g == [i \in 1 .. n + 1 |->
                   IF i = 1 THEN ss[i] ELSE f[i - 1] \o ss[i]]
<1>1. f = [i \in 1 .. n |-> IF i = 1 THEN ss[i] ELSE f[i - 1] \o ss[i]]
  BY DEF Flattens
<1>2. \A i \in 1 .. n : f[i] = IF i = 1 THEN ss[i] ELSE f[i - 1] \o ss[i]
  BY <1>1
<1>3. \A i \in 1 .. n : i \in 1 .. n + 1
  OBVIOUS
<1>4. \A i \in 1 .. n : g[i] = f[i]
  BY <1>2, <1>3
<1>5. \A i \in 1 .. n + 1 : i # 1 => f[i - 1] = g[i - 1]
  <2> HIDE DEF g
  <2>1. \A i \in 1 .. n + 1 : i # 1 => i - 1 \in 1 .. n
    OBVIOUS
  <2>2. QED
    BY <1>4, <2>1
<1>6. g = [i \in 1 .. n + 1 |-> IF i = 1 THEN ss[i] ELSE g[i - 1] \o ss[i]]
  <2>1. g = [i \in 1 .. n + 1 |-> IF i = 1 THEN ss[i] ELSE f[i - 1] \o ss[i]]
    OBVIOUS
  <2> HIDE DEF g
  <2>2. QED
    BY <1>5, <2>1
<1>7. QED
  BY <1>6 DEF Flattens

LEMMA FlattensExists ==
  ASSUME NEW ss, NEW N \in Nat
  PROVE  \E f : Flattens(f, ss, N)
<1> DEFINE T == {n \in Nat : \E f : Flattens(f, ss, n)}
<1>1. 0 \in T
  <2> DEFINE e == [i \in {} |-> 0]
  <2>1. Flattens(e, ss, 0)
    <3>1. 1 .. 0 = {}
      OBVIOUS
    <3>2. QED
      BY <3>1 DEF Flattens
  <2> HIDE DEF e
  <2>2. QED
    BY <2>1
<1>2. ASSUME NEW n \in Nat, n \in T
      PROVE  n + 1 \in T
  BY <1>2, FlattensLonger
<1>3. N \in T
  <2> HIDE DEF T
  <2>1. QED
    BY <1>1, <1>2, SetInduction
<1>4. QED
  BY <1>3

\* Every element of s is in R with those that come after it.
Sorted(s, R) == \A i, j \in DOMAIN s : i < j => <<s[i], s[j]>> \in R

Cross(a, b, R) == \A x \in Range(a), y \in Range(b) : <<x, y>> \in R

LEMMA RangeOf ==
  ASSUME NEW E, NEW s \in Seq(E)
  PROVE  /\ Range(s) \subseteq E
         /\ \A x : x \in Range(s) <=> \E i \in 1 .. Len(s) : s[i] = x
  BY DEF Range

LEMMA ConcatFacts ==
  ASSUME NEW E, NEW R, NEW a \in Seq(E), NEW b \in Seq(E)
  PROVE  /\ a \o b \in Seq(E)
         /\ Range(a \o b) = Range(a) \cup Range(b)
         /\ Sorted(a, R) /\ Sorted(b, R) /\ Cross(a, b, R) => Sorted(a \o b, R)
<1> DEFINE c == a \o b
<1>1. /\ c \in Seq(E) /\ Len(c) = Len(a) + Len(b)
      /\ Len(a) \in Nat /\ Len(b) \in Nat
      /\ \A i \in 1 .. Len(c) : c[i] = IF i <= Len(a) THEN a[i] ELSE b[i - Len(a)]
  BY ConcatProperties
<1> HIDE DEF c
<1>2. Range(c) \subseteq Range(a) \cup Range(b)
  <2> SUFFICES ASSUME NEW i \in 1 .. Len(c)
               PROVE  c[i] \in Range(a) \cup Range(b)
    BY <1>1, RangeOf
  <2>1. CASE i <= Len(a)
    BY <1>1, <2>1, RangeOf
  <2>2. CASE ~ i <= Len(a)
    <3>1. i - Len(a) \in 1 .. Len(b)
      BY <1>1, <2>2
    <3>2. QED
      BY <1>1, <2>2, <3>1, RangeOf
  <2>3. QED
    BY <2>1, <2>2
<1>3. Range(a) \subseteq Range(c)
  <2> SUFFICES ASSUME NEW i \in 1 .. Len(a)
               PROVE  a[i] \in Range(c)
    BY RangeOf
  <2>1. i \in 1 .. Len(c) /\ c[i] = a[i]
    BY <1>1
  <2>2. QED
    BY <1>1, <2>1, RangeOf
<1>4. Range(b) \subseteq Range(c)
  <2> SUFFICES ASSUME NEW i \in 1 .. Len(b)
               PROVE  b[i] \in Range(c)
    BY RangeOf
  <2>1. PICK k \in Int : k = i + Len(a)
    BY <1>1
  <2>2. k \in 1 .. Len(c) /\ ~ k <= Len(a) /\ k - Len(a) = i
    BY <1>1, <2>1
  <2>3. c[k] = b[i]
    BY <1>1, <2>2
  <2>4. QED
    BY <1>1, <2>2, <2>3, RangeOf
<1>5. ASSUME Sorted(a, R), Sorted(b, R), Cross(a, b, R)
      PROVE  Sorted(c, R)
  <2>0. DOMAIN a = 1 .. Len(a) /\ DOMAIN b = 1 .. Len(b) /\ DOMAIN c = 1 .. Len(c)
    BY <1>1
  <2> SUFFICES ASSUME NEW i \in 1 .. Len(c), NEW j \in 1 .. Len(c), i < j
               PROVE  <<c[i], c[j]>> \in R
    BY <2>0 DEF Sorted
  <2>1. CASE j <= Len(a)
    <3>1. i \in 1 .. Len(a) /\ j \in 1 .. Len(a) /\ c[i] = a[i] /\ c[j] = a[j]
      BY <1>1, <2>1
    <3>2. QED
      BY <1>5, <2>0, <3>1 DEF Sorted
  <2>2. CASE ~ i <= Len(a)
    <3>1. /\ i - Len(a) \in 1 .. Len(b) /\ j - Len(a) \in 1 .. Len(b)
          /\ i - Len(a) < j - Len(a)
      BY <1>1, <2>2
    <3>2. c[i] = b[i - Len(a)] /\ c[j] = b[j - Len(a)]
      BY <1>1, <2>2
    <3>3. QED
      BY <1>5, <2>0, <3>1, <3>2 DEF Sorted
  <2>3. CASE i <= Len(a) /\ ~ j <= Len(a)
    <3>1. i \in 1 .. Len(a) /\ j - Len(a) \in 1 .. Len(b)
      BY <1>1, <2>3
    <3>2. c[i] \in Range(a) /\ c[j] \in Range(b)
      BY <1>1, <2>3, <3>1, RangeOf
    <3>3. QED
      BY <1>5, <3>2 DEF Cross
  <2>4. QED
    BY <1>1, <2>1, <2>2, <2>3
<1>6. QED
  BY <1>1, <1>2, <1>3, <1>4, <1>5 DEF c

LEMMA FlattenFacts ==
  ASSUME NEW E, NEW R, NEW ss \in Seq(Seq(E)),
         \A i \in DOMAIN ss : Sorted(ss[i], R),
         \A i, j \in DOMAIN ss : i < j => Cross(ss[i], ss[j], R)
  PROVE  /\ FlattenSeq(ss) \in Seq(E)
         /\ Range(FlattenSeq(ss)) = UNION {Range(ss[i]) : i \in DOMAIN ss}
         /\ Sorted(FlattenSeq(ss), R)
<1>0. DOMAIN ss = 1 .. Len(ss) /\ Len(ss) \in Nat
  OBVIOUS
<1>1. CASE Len(ss) = 0
  <2>1. FlattenSeq(ss) = ss
    BY <1>1 DEF FlattenSeq
  <2>2. ss = <<>> /\ DOMAIN ss = {}
    BY <1>1
  <2>3. QED
    BY <2>1, <2>2 DEF Range, Sorted
<1>2. CASE Len(ss) > 0
  <2> DEFINE f == CHOOSE f : Flattens(f, ss, Len(ss))
             Upto(n) == UNION {Range(ss[i]) : i \in 1 .. n}
             T == {n \in Nat : n + 1 <= Len(ss) =>
                     /\ f[n + 1] \in Seq(E)
                     /\ Range(f[n + 1]) = Upto(n + 1)
                     /\ Sorted(f[n + 1], R)}
  <2>1. Flattens(f, ss, Len(ss))
    BY <1>0, FlattensExists
  <2>2. FlattenSeq(ss) = f[Len(ss)]
    BY <1>2 DEF FlattenSeq, Flattens
  <2> HIDE DEF f
  <2>3. \A i \in 1 .. Len(ss) : f[i] = IF i = 1 THEN ss[i] ELSE f[i - 1] \o ss[i]
    BY <2>1 DEF Flattens
  <2>4. 0 \in T
    <3>1. f[1] = ss[1] /\ 1 \in DOMAIN ss /\ ss[1] \in Seq(E)
      BY <1>0, <1>2, <2>3
    <3>2. Upto(1) = Range(ss[1])
      OBVIOUS
    <3>3. QED
      BY <3>1, <3>2
  <2>5. ASSUME NEW n \in Nat, n \in T
        PROVE  n + 1 \in T
    <3> SUFFICES ASSUME n + 1 + 1 <= Len(ss)
                 PROVE  /\ f[n + 1 + 1] \in Seq(E)
                        /\ Range(f[n + 1 + 1]) = Upto(n + 1 + 1)
                        /\ Sorted(f[n + 1 + 1], R)
      OBVIOUS
    <3>1. PICK m \in Nat : m = n + 1
      OBVIOUS
    <3>2. m + 1 \in DOMAIN ss /\ ss[m + 1] \in Seq(E) /\ m + 1 <= Len(ss) /\ m \in DOMAIN ss
      BY <1>0, <3>1
    <3>3. f[m + 1] = f[m] \o ss[m + 1]
      <4>1. m + 1 \in 1 .. Len(ss) /\ m + 1 # 1 /\ (m + 1) - 1 = m
        BY <1>0, <3>1, <3>2
      <4>2. QED
        BY <2>3, <4>1
    <3>4. f[m] \in Seq(E) /\ Range(f[m]) = Upto(m) /\ Sorted(f[m], R)
      BY <2>5, <3>1, <3>2
    <3>5. Cross(f[m], ss[m + 1], R)
      <4> SUFFICES ASSUME NEW x \in Upto(m), NEW y \in Range(ss[m + 1])
                   PROVE  <<x, y>> \in R
        BY <3>4 DEF Cross
      <4>1. PICK i \in 1 .. m : x \in Range(ss[i])
        OBVIOUS
      <4>2. i \in DOMAIN ss /\ i < m + 1
        BY <1>0, <3>2
      <4>3. QED
        BY <3>2, <4>1, <4>2 DEF Cross
    <3>6. Upto(m + 1) = Upto(m) \cup Range(ss[m + 1])
      <4>1. 1 .. m + 1 = (1 .. m) \cup {m + 1}
        OBVIOUS
      <4>2. QED
        BY <4>1
    <3> HIDE DEF Upto
    <3>7. Sorted(ss[m + 1], R)
      BY <3>2
    <3>8. /\ f[m + 1] \in Seq(E)
          /\ Range(f[m + 1]) = Range(f[m]) \cup Range(ss[m + 1])
          /\ Sorted(f[m + 1], R)
      BY <3>2, <3>3, <3>4, <3>5, <3>7, ConcatFacts
    <3>9. QED
      BY <3>1, <3>4, <3>6, <3>8
  <2>6. Len(ss) - 1 \in T
    <3>1. Nat \subseteq T
      <4> HIDE DEF T
      <4>1. QED
        BY <2>4, <2>5, SetInduction
    <3>2. Len(ss) - 1 \in Nat
      BY <1>0, <1>2
    <3>3. QED
      BY <3>1, <3>2
  <2>7. Len(ss) - 1 + 1 = Len(ss)
    BY <1>0
  <2>8. QED
    BY <1>0, <2>2, <2>6, <2>7
<1>3. QED
  BY <1>0, <1>1, <1>2
-----------------------------------------------------------------------------
(* The invariant.                                                            *)

UserThread == <<User, 0>>
Downstream(x) == {n \in Node : x \in Feeders(n)}

LaunchOp == {"create", "copy", "reconnect", "spawn"}
Op == LaunchOp \cup {"receive", "wakeUp", "remove", "leave", "join", "return"}
Thing == Item \cup Node \cup Process \cup {User}
Entry == [op : Op, on : SUBSET Thing, data : Data \cup SUBSET Process]

\* What an entry is still to launch, graphs and pipelines included.
Covers(e) == CASE e.op = "create" -> UNION {Under[x] : x \in e.on}
               [] e.op = "spawn"  -> e.on
               [] e.op \in {"copy", "reconnect"} -> {c[1] : c \in e.on}
               [] OTHER -> {}

\* The nodes whose threads an entry comes before.
Starts(e) == IF e.op = "spawn" THEN (UNION {Inside[g] : g \in e.on}) \ Graph
                               ELSE Covers(e) \ Graph

\* What is settled once an entry is under way.
Claims(e) == Covers(e) \cup (IF e.op = "spawn" THEN UNION {Under[g] : g \in e.on}
                                               ELSE {})

\* The entries that thread t may have.
EntryOf(t) == {e \in Entry :
  /\ e.on # {}
  /\ e.op \in LaunchOp => t = UserThread /\ Covers(e) \subseteq Under[Outer]
  /\ e.op = "create" =>
       /\ e.on \subseteq Item
       /\ \A x, y \in e.on : x # y => Under[x] \cap Under[y] = {}
  /\ e.op = "spawn" => \E g \in Graph : e.on = {g}
  /\ e.op \in {"copy", "reconnect"} =>
       /\ \E c \in Thread \ Representative : e.on = {c}
       /\ e.data \subseteq Process
  /\ e.op = "receive" => e.data \in Data
  /\ e.op \in {"receive", "remove", "leave"} => e.on \subseteq Downstream(t[1])
  /\ e.op = "wakeUp" => e.on \subseteq Node
  /\ e.op = "join" => e.on \subseteq Graph
  /\ e.op = "return" => e.on = {t[1]}}

\* Launch, send, leave the successors, join, return; a wake-up comes anywhere
\* but at the end.
Rank == [o \in Op |-> CASE o \in LaunchOp -> 1
                        [] o = "receive" -> 2
                        [] o \in {"remove", "leave"} -> 3
                        [] o = "join" -> 4
                        [] OTHER -> 5]

MayPrecede(a, b) ==
  /\ a.op # "return"
  /\ Rank[a.op] <= Rank[b.op] \/ "wakeUp" \in {a.op, b.op}
  /\ {a.op, b.op} \subseteq {"copy", "reconnect"} \/ Claims(a) \cap Covers(b) = {}
Order == {ab \in Entry \X Entry : MayPrecede(ab[1], ab[2])}

Entries(t) == Range(agenda[t])
Ending(t) == pc[t] = "done" \/ \E e \in Entries(t) : e.op = "return"
Launching == \E e \in Entries(UserThread) : e.op \in LaunchOp

TypeOK ==
  /\ notifiers \in [Node -> SUBSET Process]
  /\ slots \in [Process -> SUBSET Node]
  /\ queue \in [Node -> Seq(Data)]
  /\ pc \in [Process -> {"idle", "run", "wait", "done"}]
  /\ agenda \in [Process -> Seq(Entry)]
  /\ executed \in [Node -> Seq(Data)]

AgendaInv == \A t \in Process : /\ agenda[t] \in Seq(EntryOf(t))
                                /\ Sorted(agenda[t], Order)
                                /\ pc[t] # "run" => agenda[t] = <<>>

UserInv == pc[UserThread] \in {"run", "done"}

WiredInv ==
  /\ \A n \in Node : \A t \in notifiers[n] : n \in slots[t]
  /\ \A t \in Process : /\ slots[t] \subseteq Downstream(t[1])
                        /\ t[2] = 0 => slots[t] = Downstream(t[1])

\* What is still to be launched has not started; who is to be connected again
\* was connected.
LaunchInv ==
  \A e \in Entries(UserThread) :
    /\ e.op \in LaunchOp => \A n \in Starts(e) : \A s \in ThreadsOf(n) : pc[s] = "idle"
    /\ e.op = "reconnect" => \A c \in e.on, q \in e.data : c[1] \in slots[q]

\* The launch is still to come to the copy c.
Awaits(e, c) == (e.op = "create" /\ c[1] \in Covers(e)) \/ (e.op = "copy" /\ c \in e.on)

\* A copy is connected, or is to be so before it starts.
CopyInv ==
  \A c \in Thread :
    \/ slots[c] = Downstream(c[1])
    \/ /\ pc[c] = "idle"
       /\ c[1] \in Under[Outer] => \E e \in Entries(UserThread) : Awaits(e, c)

\* A thread leaves its successors and joins when it ends.
EndInv ==
  \A t \in Thread : \A e \in Entries(t) :
    e.op \in {"remove", "leave"} => \E f \in Entries(t) : f.op = "return"

RegisteredInv ==
  \A t \in Thread : ~ Ending(t) => \A n \in slots[t] : t \in notifiers[n]

SendInv ==
  \A t \in Process : \A e \in Entries(t) :
    e.op = "receive" => \A n \in e.on : t \in notifiers[n]

\* A node of which one thread ends has neither a predecessor nor data left.
DrainInv ==
  \A t \in Thread : Ending(t) => notifiers[t[1]] = {} /\ queue[t[1]] = <<>>

ToJoin(t) == UNION {e.on : e \in {f \in Entries(t) : f.op = "join"}}
Roots(t) == IF t = UserThread THEN {Outer} ELSE Range(Copies[t[1]])
Ended(g) == \A n \in Inside[g] \ Graph : \A s \in ThreadsOf(n) : pc[s] = "done"

\* The graphs in D were joined, and what is in them is, or is still to be.
JoinedSoFar(t, D) ==
  /\ Roots(t) \subseteq D \cup ToJoin(t)
  /\ \A g \in D : Ended(g) /\ Inside[g] \cap Graph \subseteq D \cup ToJoin(t)

JoinInv ==
  \A t \in Process : (t[1] \in Pipeline /\ Ending(t)) \/ t = UserThread =>
    \E D \in SUBSET Graph : JoinedSoFar(t, D)

PipelineInv == /\ TypeOK /\ AgendaInv /\ UserInv /\ WiredInv /\ LaunchInv
               /\ CopyInv /\ EndInv /\ RegisteredInv /\ SendInv /\ DrainInv /\ JoinInv

\* Every node has a predecessor: nothing ends while the graph is launched.
EveryNodeIsFed == \A n \in Task \cup Pipeline : Feeders(n) # {}

QuietInv ==
  Launching =>
    /\ \A t \in Thread : ~ Ending(t)
    /\ \A n \in slots[UserThread] :
         /\ UserThread \in notifiers[n]
         /\ \E e \in Entries(UserThread) : e.op = "remove" /\ n \in e.on

GoneInv ==
  \A n \in Node : \A t \in notifiers[n] : Ending(t) =>
    \E e \in Entries(t) : e.op \in {"remove", "leave"} /\ n \in e.on

\* What a step that makes no thread end leaves as it is.
StillLeaves == \A s \in Process : \A e \in Entries(s) :
                 e.op \in {"remove", "leave"} => e \in Entries(s)'
NobodyEnds == \A s \in Process : Ending(s)' => Ending(s)
Calm == StillLeaves /\ NobodyEnds /\ (Launching' => Launching)
-----------------------------------------------------------------------------
(* Nesting.                                                                  *)

LEMMA PartsType ==
  ASSUME NEW x \in Item
  PROVE  Parts(x) \subseteq Item
<1>1. \A p \in Pipeline : Range(Copies[p]) \subseteq Graph
  BY GraphAssumption, RangeOf
<1>2. QED
  BY <1>1, GraphAssumption DEF Parts, Item

LEMMA UnderFacts ==
  ASSUME NEW x \in Item
  PROVE  /\ x \in Under[x]
         /\ Under[x] \subseteq Item
         /\ \A y \in Under[x] : Parts(y) \subseteq Under[x]
<1>1. Under[x] = {y \in Item : \A S \in SUBSET Item :
                    x \in S /\ (\A z \in S : Parts(z) \subseteq S) => y \in S}
  BY DEF Under
<1>2. ASSUME NEW y \in Under[x], NEW v \in Parts(y)
      PROVE  v \in Under[x]
  <2>1. y \in Item /\ v \in Item
    BY <1>1, PartsType
  <2>2. QED
    BY <1>1, <2>1
<1>3. QED
  BY <1>1, <1>2

LEMMA UnderLeast ==
  ASSUME NEW x \in Item, NEW S \in SUBSET Item, x \in S,
         \A z \in S : Parts(z) \subseteq S
  PROVE  Under[x] \subseteq S
BY DEF Under

LEMMA UnderPart ==
  ASSUME NEW x \in Item, NEW y \in Parts(x)
  PROVE  y \in Item /\ Under[y] \subseteq Under[x]
BY PartsType, UnderFacts, UnderLeast

LEMMA UnderHolder ==
  ASSUME NEW x \in Item, NEW y \in Under[x], y # x
  PROVE  \E z \in Under[x] : y \in Parts(z)
<1> SUFFICES ASSUME \A z \in Under[x] : y \notin Parts(z)
             PROVE  FALSE
  OBVIOUS
<1> DEFINE S == Under[x] \ {y}
<1>1. S \in SUBSET Item /\ x \in S
  BY UnderFacts
<1>2. \A z \in S : Parts(z) \subseteq S
  BY UnderFacts
<1>3. QED
  BY <1>1, <1>2, UnderLeast

LEMMA PartsApart ==
  ASSUME NEW x \in Item, NEW y \in Parts(x), NEW z \in Parts(x), y # z
  PROVE  Under[y] \cap Under[z] = {}
<1> DEFINE S == Under[y] \ Under[z]
<1>0. y \in Item /\ z \in Item
  BY PartsType
<1>1. x \notin Under[y] /\ x \notin Under[z]
  BY NestingAssumption
<1>2. \A w \in Item : y \in Parts(w) \/ z \in Parts(w) => w = x
  BY NestingAssumption
<1>3. y \in S
  <2>1. y \notin Under[z]
    BY <1>0, <1>1, <1>2, UnderHolder, UnderFacts
  <2>2. QED
    BY <1>0, <2>1, UnderFacts
<1>4. ASSUME NEW w \in S, NEW v \in Parts(w)
      PROVE  v \in S
  <2>1. v \in Under[y] /\ w \in Item
    BY <1>0, UnderFacts
  <2>2. v # z
    BY <1>1, <1>2, <2>1
  <2>3. v \notin Under[z]
    <3> SUFFICES ASSUME v \in Under[z]
                 PROVE  FALSE
      OBVIOUS
    <3>1. PICK u \in Under[z] : v \in Parts(u)
      BY <1>0, <2>2, UnderHolder
    <3>2. u \in Item
      BY <1>0, UnderFacts
    <3>3. u = w
      BY <2>1, <3>1, <3>2, NestingAssumption
    <3>4. QED
      BY <3>3
  <2>4. QED
    BY <2>1, <2>3
<1>5. S \in SUBSET Item
  BY <1>0, UnderFacts
<1>6. Under[y] \subseteq S
  BY <1>0, <1>3, <1>4, <1>5, UnderLeast
<1>7. QED
  BY <1>6

-----------------------------------------------------------------------------
(* Threads and nodes.                                                        *)

LEMMA ThreadFacts ==
  /\ \A t \in Thread : /\ t[1] \in Task \cup Pipeline /\ t \in ThreadsOf(t[1])
                       /\ t = <<t[1], t[2]>> /\ t \in Process /\ t # UserThread
                       /\ t[1] # User
  /\ \A t \in Process : t \in Thread \/ t = UserThread
  /\ UserThread \in Process /\ UserThread \notin Thread
  /\ \A n \in Task \cup Pipeline : /\ <<n, 0>> \in ThreadsOf(n)
                                   /\ ThreadsOf(n) \subseteq Thread
  /\ \A n \in Task \cup Pipeline : \A t \in ThreadsOf(n) : t[1] = n
<1>1. \A n \in Task : 0 \in 0 .. NumberThreads[n] - 1
  BY GraphAssumption
<1>2. \A n \in Task \cup Pipeline : <<n, 0>> \in ThreadsOf(n)
  BY <1>1 DEF ThreadsOf
<1>3. \A n \in Task \cup Pipeline : \A t \in ThreadsOf(n) : t[1] = n /\ t = <<t[1], t[2]>>
  BY DEF ThreadsOf
<1>4. \A n \in Task \cup Pipeline : ThreadsOf(n) \subseteq Thread
  BY DEF Thread
<1>5. \A t \in Thread : \E n \in Task \cup Pipeline : t \in ThreadsOf(n)
  BY DEF Thread
<1>6. \A t \in Thread : t[1] \in Task \cup Pipeline /\ t \in ThreadsOf(t[1]) /\ t = <<t[1], t[2]>>
  BY <1>3, <1>5
<1>7. UserThread[1] = User
  BY DEF UserThread
<1>8. \A t \in Thread : t[1] # User /\ t # UserThread
  BY <1>6, <1>7, NestingAssumption
<1>9. QED
  BY <1>2, <1>3, <1>4, <1>6, <1>8 DEF Process, UserThread

LEMMA DownstreamFacts ==
  /\ \A x : Downstream(x) \subseteq Node
  /\ \A x \in Task \cup {User} : Succ[x] \subseteq Downstream(x)
  /\ \A p \in Pipeline : \A i \in DOMAIN Copies[p] : Inputs[Copies[p][i]] \subseteq Downstream(p)
<1>1. \A x \in Task \cup {User} : Succ[x] \subseteq Node
  BY GraphAssumption
<1>2. ASSUME NEW p \in Pipeline, NEW i \in DOMAIN Copies[p]
      PROVE  Inputs[Copies[p][i]] \subseteq Downstream(p)
  <2>1. Copies[p][i] \in Graph
    BY GraphAssumption
  <2>2. Inputs[Copies[p][i]] \subseteq Task
    BY <2>1, GraphAssumption
  <2>3. QED
    BY <2>2 DEF Downstream, Feeders, Fed, Node
<1>3. QED
  BY <1>1, <1>2 DEF Downstream, Feeders
-----------------------------------------------------------------------------
(* Agendas.                                                                  *)

\* What is left of an entry, and of an agenda, once n was handled.
Cut(e, n) == IF e.on \ {n} = {} THEN {} ELSE {[e EXCEPT !.on = e.on \ {n}]}
RestOf(s, n) ==
  LET rest == Head(s).on \ {n}
  IN IF rest = {} THEN Tail(s)
     ELSE <<[Head(s) EXCEPT !.on = rest]>> \o Tail(s)

LEMMA RankFacts ==
  /\ \A o \in LaunchOp : o \in Op /\ o # "return" /\ Rank[o] = 1
  /\ \A o \in Op : Rank[o] \in 1 .. 5
BY DEF Rank, Op, LaunchOp

LEMMA EntryOfType ==
  ASSUME NEW t
  PROVE  EntryOf(t) \subseteq Entry /\ Seq(EntryOf(t)) \subseteq Seq(Entry)
BY DEF EntryOf

LEMMA CoversOfEntry ==
  ASSUME NEW e, NEW b, e.op = b.op, b.on \subseteq e.on
  PROVE  /\ Covers(b) \subseteq Covers(e)
         /\ Claims(b) \subseteq Claims(e)
         /\ Starts(b) \subseteq Starts(e)
<1>1. Covers(b) \subseteq Covers(e)
  <2>1. CASE e.op = "create"
    BY <2>1 DEF Covers
  <2>2. CASE e.op = "spawn"
    BY <2>2 DEF Covers
  <2>3. CASE e.op \in {"copy", "reconnect"}
    BY <2>3 DEF Covers
  <2>4. CASE e.op \notin {"create", "spawn", "copy", "reconnect"}
    BY <2>4 DEF Covers
  <2>5. QED
    BY <2>1, <2>2, <2>3, <2>4
<1>2. /\ UNION {Inside[g] : g \in b.on} \subseteq UNION {Inside[g] : g \in e.on}
      /\ UNION {Under[g] : g \in b.on} \subseteq UNION {Under[g] : g \in e.on}
  OBVIOUS
<1>3. QED
  BY <1>1, <1>2 DEF Claims, Starts

LEMMA CutFacts ==
  ASSUME NEW t \in Process, NEW e \in EntryOf(t), NEW n \in e.on, NEW b \in Cut(e, n)
  PROVE  /\ b \in EntryOf(t)
         /\ b.op = e.op /\ b.data = e.data /\ b.on = e.on \ {n} /\ b.on # {}
         /\ e.op \notin {"copy", "reconnect", "return"}
         /\ Covers(b) \subseteq Covers(e)
         /\ Claims(b) \subseteq Claims(e)
         /\ Starts(b) \subseteq Starts(e)
<1>1. e \in Entry /\ b = [e EXCEPT !.on = e.on \ {n}] /\ e.on \ {n} # {}
  BY DEF Cut, EntryOf
<1>2. /\ b \in Entry /\ b.op = e.op /\ b.data = e.data
      /\ b.on = e.on \ {n} /\ b.on # {}
  BY <1>1 DEF Entry
<1>3. e.op \notin {"copy", "reconnect", "return", "spawn"}
  BY <1>1 DEF EntryOf
<1>4. /\ Covers(b) \subseteq Covers(e) /\ Claims(b) \subseteq Claims(e)
      /\ Starts(b) \subseteq Starts(e)
  BY <1>2, CoversOfEntry
<1>5. b \in EntryOf(t)
  BY <1>2, <1>3, <1>4 DEF EntryOf
<1>6. QED
  BY <1>2, <1>3, <1>4, <1>5

LEMMA PrecedesLess ==
  ASSUME NEW a, NEW b, NEW c, NEW d, MayPrecede(a, b),
         c.op = a.op, c.on \subseteq a.on, d.op = b.op, d.on \subseteq b.on
  PROVE  MayPrecede(c, d)
BY CoversOfEntry DEF MayPrecede

LEMMA ConsFacts ==
  ASSUME NEW E, NEW R, NEW h \in E, NEW b \in Seq(E), \A y \in Range(b) : <<h, y>> \in R,
         Sorted(b, R)
  PROVE  /\ <<h>> \o b \in Seq(E)
         /\ Range(<<h>> \o b) = {h} \cup Range(b)
         /\ Sorted(<<h>> \o b, R)
<1>0. PICK a : a = <<h>>
  OBVIOUS
<1>1. a \in Seq(E)
  BY <1>0
<1>2. Range(a) = {h} /\ Sorted(a, R)
  BY <1>0 DEF Range, Sorted
<1>3. Cross(a, b, R)
  BY <1>2 DEF Cross
<1>4. a \o b \in Seq(E) /\ Range(a \o b) = Range(a) \cup Range(b)
  BY <1>1, ConcatFacts
<1>5. Sorted(a \o b, R)
  BY <1>1, <1>2, <1>3, ConcatFacts
<1>6. QED
  BY <1>0, <1>2, <1>4, <1>5

LEMMA RestFacts ==
  ASSUME NEW t \in Process, NEW s \in Seq(EntryOf(t)), Sorted(s, Order), s # <<>>,
         NEW n \in Head(s).on
  PROVE  /\ Head(s) \in EntryOf(t)
         /\ Range(s) = {Head(s)} \cup Range(Tail(s))
         /\ Tail(s) \in Seq(EntryOf(t)) /\ Sorted(Tail(s), Order)
         /\ \A b \in Range(Tail(s)) : b \in EntryOf(t) /\ MayPrecede(Head(s), b)
         /\ RestOf(s, n) \in Seq(EntryOf(t)) /\ Sorted(RestOf(s, n), Order)
         /\ Range(RestOf(s, n)) = Range(Tail(s)) \cup Cut(Head(s), n)
<1>1. /\ Head(s) \in EntryOf(t) /\ Tail(s) \in Seq(EntryOf(t))
      /\ Len(s) \in Nat /\ Len(s) > 0 /\ Len(Tail(s)) = Len(s) - 1
      /\ Head(s) = s[1]
      /\ \A i \in 1 .. Len(Tail(s)) : Tail(s)[i] = s[i + 1]
  BY HeadTailProperties
<1>2. /\ \A x : x \in Range(s) <=> \E i \in 1 .. Len(s) : s[i] = x
      /\ \A x : x \in Range(Tail(s)) <=> \E i \in 1 .. Len(s) - 1 : s[i + 1] = x
  <2>1. \A x : x \in Range(s) <=> \E i \in 1 .. Len(s) : s[i] = x
    BY RangeOf
  <2>2. \A x : x \in Range(Tail(s)) <=> \E i \in 1 .. Len(Tail(s)) : Tail(s)[i] = x
    BY <1>1, RangeOf
  <2>3. QED
    BY <1>1, <2>1, <2>2
<1>3. Range(s) = {Head(s)} \cup Range(Tail(s))
  <2>1. 1 \in 1 .. Len(s) /\ \A i \in 1 .. Len(s) - 1 : i + 1 \in 1 .. Len(s)
    BY <1>1
  <2>2. \A i \in 1 .. Len(s) : i # 1 => i - 1 \in 1 .. Len(s) - 1 /\ (i - 1) + 1 = i
    BY <1>1
  <2>3. QED
    BY <1>1, <1>2, <2>1, <2>2
<1>4. \A b \in Range(Tail(s)) : b \in EntryOf(t) /\ MayPrecede(Head(s), b)
  <2> SUFFICES ASSUME NEW i \in 1 .. Len(s) - 1
               PROVE  s[i + 1] \in EntryOf(t) /\ MayPrecede(s[1], s[i + 1])
    BY <1>1, <1>2
  <2>1. 1 \in DOMAIN s /\ i + 1 \in DOMAIN s /\ 1 < i + 1
    BY <1>1
  <2>2. <<s[1], s[i + 1]>> \in Order
    BY <2>1 DEF Sorted
  <2>3. QED
    BY <2>1, <2>2 DEF Order
<1>5. Sorted(Tail(s), Order)
  <2> SUFFICES ASSUME NEW i \in 1 .. Len(s) - 1, NEW j \in 1 .. Len(s) - 1, i < j
               PROVE  <<s[i + 1], s[j + 1]>> \in Order
    BY <1>1 DEF Sorted
  <2>1. i + 1 \in DOMAIN s /\ j + 1 \in DOMAIN s /\ i + 1 < j + 1
    BY <1>1
  <2>2. QED
    BY <2>1 DEF Sorted
<1>6. CASE Head(s).on \ {n} = {}
  BY <1>1, <1>3, <1>4, <1>5, <1>6 DEF RestOf, Cut
<1>7. CASE Head(s).on \ {n} # {}
  <2> DEFINE h == [Head(s) EXCEPT !.on = Head(s).on \ {n}]
  <2>1. Cut(Head(s), n) = {h} /\ RestOf(s, n) = <<h>> \o Tail(s)
    BY <1>7 DEF Cut, RestOf
  <2>2. h \in EntryOf(t) /\ h.op = Head(s).op /\ h.on \subseteq Head(s).on
    BY <1>1, <2>1, CutFacts
  <2> HIDE DEF h
  <2>3. \A b \in Range(Tail(s)) : <<h, b>> \in Order
    <3> SUFFICES ASSUME NEW b \in Range(Tail(s))
                 PROVE  <<h, b>> \in Order
      OBVIOUS
    <3>1. MayPrecede(h, b)
      BY <1>4, <2>2, PrecedesLess
    <3>2. QED
      BY <1>4, <2>2, <3>1, EntryOfType DEF Order
  <2>4. Tail(s) \in Seq(EntryOf(t))
    BY <1>1
  <2>5. /\ <<h>> \o Tail(s) \in Seq(EntryOf(t))
        /\ Range(<<h>> \o Tail(s)) = {h} \cup Range(Tail(s))
        /\ Sorted(<<h>> \o Tail(s), Order)
    BY <1>5, <2>2, <2>3, <2>4, ConsFacts
  <2>6. QED
    BY <1>1, <1>3, <1>4, <1>5, <2>1, <2>5
<1>8. QED
  BY <1>6, <1>7

\* What a thread has to do after it handled n and found more to do.
LEMMA AfterFacts ==
  ASSUME NEW t \in Process, NEW s \in Seq(EntryOf(t)), Sorted(s, Order), s # <<>>,
         NEW n \in Head(s).on,
         NEW more \in Seq(EntryOf(t)), Sorted(more, Order),
         \A a \in Range(more), b \in Range(Tail(s)) \cup Cut(Head(s), n) : MayPrecede(a, b)
  PROVE  LET w == more \o RestOf(s, n) IN
         /\ w \in Seq(EntryOf(t)) /\ Sorted(w, Order)
         /\ Range(w) = Range(more) \cup Range(Tail(s)) \cup Cut(Head(s), n)
<1>1. /\ RestOf(s, n) \in Seq(EntryOf(t)) /\ Sorted(RestOf(s, n), Order)
      /\ Range(RestOf(s, n)) = Range(Tail(s)) \cup Cut(Head(s), n)
  BY RestFacts
<1>2. Cross(more, RestOf(s, n), Order)
  <2> SUFFICES ASSUME NEW a \in Range(more), NEW b \in Range(RestOf(s, n))
               PROVE  <<a, b>> \in Order
    BY DEF Cross
  <2>1. a \in EntryOf(t) /\ b \in EntryOf(t) /\ MayPrecede(a, b)
    BY <1>1, RangeOf
  <2>2. QED
    BY <2>1, EntryOfType DEF Order
<1>3. QED
  BY <1>1, <1>2, ConcatFacts

\* A loop is one entry, or none over the empty set.
LEMMA LoopFacts ==
  ASSUME NEW t, NEW op \in Op, NEW on, NEW d,
         on # {} => [op |-> op, on |-> on, data |-> d] \in EntryOf(t)
  PROVE  /\ LoopOn(op, on, d) \in Seq(EntryOf(t))
         /\ Sorted(LoopOn(op, on, d), Order)
         /\ Range(LoopOn(op, on, d)) =
              IF on = {} THEN {} ELSE {[op |-> op, on |-> on, data |-> d]}
<1>1. CASE on = {}
  BY <1>1 DEF LoopOn, Sorted, Range
<1>2. CASE on # {}
  <2> DEFINE e == [op |-> op, on |-> on, data |-> d]
  <2>1. LoopOn(op, on, d) = <<e>> /\ e \in EntryOf(t)
    BY <1>2 DEF LoopOn
  <2> HIDE DEF e
  <2>2. <<e>> \in Seq(EntryOf(t)) /\ Sorted(<<e>>, Order) /\ Range(<<e>>) = {e}
    BY <2>1 DEF Sorted, Range
  <2>3. QED
    BY <1>2, <2>1, <2>2 DEF e
<1>3. QED
  BY <1>1, <1>2

\* A value and the notification for a part of the successors.
LEMMA SendFacts ==
  ASSUME NEW t \in Process, NEW to, to \subseteq Downstream(t[1]), NEW d \in Data
  PROVE  /\ SendAndNotify(to, d) \in Seq(EntryOf(t))
         /\ Sorted(SendAndNotify(to, d), Order)
         /\ \A e \in Range(SendAndNotify(to, d)) : e.op \in {"receive", "wakeUp"}
<1> DEFINE r == [op |-> "receive", on |-> to, data |-> d]
           w == [op |-> "wakeUp", on |-> to, data |-> {}]
<1>1. to \subseteq Node /\ to \subseteq Thing
  BY DownstreamFacts DEF Thing
<1>2. r \in Entry /\ w \in Entry
  BY <1>1 DEF Entry, Op
<1>3. to # {} => r \in EntryOf(t) /\ w \in EntryOf(t)
  BY <1>1, <1>2 DEF EntryOf, LaunchOp
<1>4. "receive" \in Op /\ "wakeUp" \in Op
  BY DEF Op
<1>5. /\ LoopOn("receive", to, d) \in Seq(EntryOf(t)) /\ Sorted(LoopOn("receive", to, d), Order)
      /\ Range(LoopOn("receive", to, d)) = IF to = {} THEN {} ELSE {r}
  BY <1>3, <1>4, LoopFacts
<1>6. /\ LoopOn("wakeUp", to, {}) \in Seq(EntryOf(t)) /\ Sorted(LoopOn("wakeUp", to, {}), Order)
      /\ Range(LoopOn("wakeUp", to, {})) = IF to = {} THEN {} ELSE {w}
  <2>1. PICK none : none = {}
    OBVIOUS
  <2>2. to # {} => [op |-> "wakeUp", on |-> to, data |-> none] \in EntryOf(t)
    BY <1>3, <2>1
  <2>3. /\ LoopOn("wakeUp", to, none) \in Seq(EntryOf(t))
        /\ Sorted(LoopOn("wakeUp", to, none), Order)
        /\ Range(LoopOn("wakeUp", to, none)) =
             IF to = {} THEN {} ELSE {[op |-> "wakeUp", on |-> to, data |-> none]}
    BY <1>4, <2>2, LoopFacts
  <2>4. QED
    BY <2>1, <2>3
<1>7. Cross(LoopOn("receive", to, d), LoopOn("wakeUp", to, {}), Order)
  <2>1. MayPrecede(r, w)
    BY DEF MayPrecede, Covers, Claims
  <2>2. QED
    BY <1>2, <1>5, <1>6, <2>1 DEF Cross, Order
<1>8. QED
  <2>1. SendAndNotify(to, d) = LoopOn("receive", to, d) \o LoopOn("wakeUp", to, {})
    BY DEF SendAndNotify, Loop
  <2>2. QED
    BY <1>5, <1>6, <1>7, <2>1, ConcatFacts
-----------------------------------------------------------------------------
(* One entry is handled.                                                     *)

\* Nothing but the loop that t is in changes, and what t found more to do.
LEMMA HandleFacts ==
  ASSUME PipelineInv, NEW t \in Process, agenda[t] # <<>>,
         NEW h, h = Head(agenda[t]), NEW n \in h.on,
         NEW more \in Seq(EntryOf(t)), Sorted(more, Order),
         \A a \in Range(more), b \in Range(Tail(agenda[t])) \cup Cut(h, n) : MayPrecede(a, b),
         After(t, n, more)
  PROVE  /\ agenda' \in [Process -> Seq(Entry)]
         /\ \A s \in Process : s # t => agenda'[s] = agenda[s]
         /\ \A s \in Process : agenda'[s] \in Seq(EntryOf(s)) /\ Sorted(agenda'[s], Order)
         /\ Range(agenda'[t]) = Range(more) \cup Range(Tail(agenda[t])) \cup Cut(h, n)
<1>1. /\ agenda \in [Process -> Seq(Entry)]
      /\ \A s \in Process : agenda[s] \in Seq(EntryOf(s)) /\ Sorted(agenda[s], Order)
  BY DEF PipelineInv, TypeOK, AgendaInv
<1>2. agenda' = [agenda EXCEPT ![t] = more \o RestOf(agenda[t], n)]
  BY DEF After, Rest, RestOf
<1>3. PICK s : s = agenda[t]
  OBVIOUS
<1>4. s \in Seq(EntryOf(t)) /\ Sorted(s, Order) /\ s # <<>> /\ n \in Head(s).on
  BY <1>1, <1>3
<1>5. \A a \in Range(more), b \in Range(Tail(s)) \cup Cut(Head(s), n) : MayPrecede(a, b)
  BY <1>3
<1>6. /\ more \o RestOf(s, n) \in Seq(EntryOf(t)) /\ Sorted(more \o RestOf(s, n), Order)
      /\ Range(more \o RestOf(s, n)) = Range(more) \cup Range(Tail(s)) \cup Cut(Head(s), n)
  BY <1>4, <1>5, AfterFacts
<1>7. agenda'[t] = more \o RestOf(s, n) /\ \A r \in Process : r # t => agenda'[r] = agenda[r]
  BY <1>1, <1>2, <1>3
<1>8. more \o RestOf(s, n) \in Seq(Entry)
  BY <1>6, EntryOfType
<1>9. agenda' \in [Process -> Seq(Entry)]
  BY <1>1, <1>2, <1>3, <1>8
<1>10. QED
  BY <1>1, <1>3, <1>6, <1>7, <1>9

\* The head of an agenda and what follows it.
LEMMA HeadFacts ==
  ASSUME PipelineInv, NEW t \in Process, agenda[t] # <<>>,
         NEW h, h = Head(agenda[t])
  PROVE  /\ h \in EntryOf(t) /\ h.on # {} /\ h \in Range(agenda[t])
         /\ Range(agenda[t]) = {h} \cup Range(Tail(agenda[t]))
         /\ \A b \in Range(Tail(agenda[t])) : b \in EntryOf(t) /\ MayPrecede(h, b)
         /\ pc[t] = "run"
         /\ \A n \in h.on : \A b \in Cut(h, n) :
              /\ b \in EntryOf(t) /\ b.op = h.op /\ b.data = h.data /\ b.on = h.on \ {n}
              /\ h.op \notin {"copy", "reconnect", "return"}
<1>1. agenda[t] \in Seq(EntryOf(t)) /\ Sorted(agenda[t], Order) /\ pc[t] = "run"
  BY DEF PipelineInv, AgendaInv
<1>2. h \in EntryOf(t) /\ h.on # {}
  <2>1. h \in EntryOf(t)
    BY <1>1
  <2>2. QED
    BY <2>1 DEF EntryOf
<1>3. PICK n : n \in h.on
  BY <1>2
<1>4. /\ Range(agenda[t]) = {h} \cup Range(Tail(agenda[t]))
      /\ \A b \in Range(Tail(agenda[t])) : b \in EntryOf(t) /\ MayPrecede(h, b)
  BY <1>1, <1>3, RestFacts
<1>5. \A m \in h.on : \A b \in Cut(h, m) :
        /\ b \in EntryOf(t) /\ b.op = h.op /\ b.data = h.data /\ b.on = h.on \ {m}
        /\ h.op \notin {"copy", "reconnect", "return"}
  BY <1>2, CutFacts
<1>6. QED
  BY <1>1, <1>2, <1>4, <1>5

\* Entries of other operations are as before.
LEMMA OtherEntries ==
  ASSUME PipelineInv, NEW t \in Process, agenda[t] # <<>>,
         NEW h, h = Head(agenda[t]), NEW n \in h.on, NEW more,
         \A s \in Process : s # t => agenda'[s] = agenda[s],
         Range(agenda'[t]) = Range(more) \cup Range(Tail(agenda[t])) \cup Cut(h, n),
         NEW O, h.op \notin O, \A a \in Range(more) : a.op \notin O
  PROVE  \A s \in Process : \A e : e.op \in O =>
           (e \in Range(agenda'[s]) <=> e \in Range(agenda[s]))
<1>1. Range(agenda[t]) = {h} \cup Range(Tail(agenda[t])) /\ \A b \in Cut(h, n) : b.op = h.op
  BY HeadFacts
<1>2. QED
  BY <1>1

-----------------------------------------------------------------------------
(* What a step that leaves the entries of some operations alone preserves.   *)

\* The launch is as it was, and the connections are.
LEMMA LaunchFrame ==
  ASSUME PipelineInv, slots' = slots,
         \A s \in Thread : pc[s] = "idle" => pc'[s] = "idle",
         \A e : e.op \in LaunchOp =>
           (e \in Range(agenda'[UserThread]) <=> e \in Range(agenda[UserThread]))
  PROVE  LaunchInv' /\ CopyInv'
<1>0. LaunchInv /\ CopyInv /\ AgendaInv
  BY DEF PipelineInv
<1>1. LaunchInv'
  <2> SUFFICES ASSUME NEW e \in Range(agenda'[UserThread])
               PROVE  /\ e.op \in LaunchOp => \A n \in Starts(e) : \A s \in ThreadsOf(n) : pc'[s] = "idle"
                      /\ e.op = "reconnect" => \A c \in e.on, q \in e.data : c[1] \in slots'[q]
    BY DEF LaunchInv, Entries
  <2>1. ASSUME e.op \in LaunchOp
        PROVE  e \in Range(agenda[UserThread])
    BY <2>1
  <2>2. ASSUME e.op \in LaunchOp, NEW n \in Starts(e), NEW s \in ThreadsOf(n)
        PROVE  pc'[s] = "idle"
    <3>1. pc[s] = "idle"
      BY <1>0, <2>1, <2>2 DEF LaunchInv, Entries
    <3>2. e \in EntryOf(UserThread)
      BY <1>0, <2>1, <2>2, ThreadFacts, RangeOf DEF AgendaInv
    <3>3. n \in Item \ Graph
      <4>1. n \notin Graph
        BY DEF Starts
      <4>2. e.op = "spawn" => n \in Item
        <5>1. \A g \in Graph : Inside[g] \subseteq Item
          BY GraphAssumption
        <5>2. QED
          BY <3>2, <5>1 DEF Starts, EntryOf
      <4>3. e.op # "spawn" => n \in Under[Outer]
        BY <2>2, <3>2 DEF Starts, EntryOf
      <4>4. QED
        BY <4>1, <4>2, <4>3, UnderFacts, GraphAssumption DEF Item
    <3>4. s \in Thread
      BY <3>3, ThreadFacts DEF Item
    <3>5. QED
      BY <3>1, <3>4
  <2>3. ASSUME e.op = "reconnect", NEW c \in e.on, NEW q \in e.data
        PROVE  c[1] \in slots'[q]
    <3>1. e \in Range(agenda[UserThread])
      BY <2>1, <2>3 DEF LaunchOp
    <3>2. QED
      BY <1>0, <2>3, <3>1 DEF LaunchInv, Entries
  <2>4. QED
    BY <2>2, <2>3
<1>2. CopyInv'
  <2>1. \A e : e.op = "create" \/ e.op = "copy" =>
          (e \in Range(agenda'[UserThread]) <=> e \in Range(agenda[UserThread]))
    BY DEF LaunchOp
  <2>2. \A c : (\E e \in Range(agenda[UserThread]) : Awaits(e, c))
                => \E e \in Range(agenda'[UserThread]) : Awaits(e, c)
    BY <2>1 DEF Awaits
  <2>3. QED
    BY <1>0, <2>2 DEF CopyInv, Entries
<1>3. QED
  BY <1>1, <1>2

\* Who ends, ends as before; what was joined, and is to be, is as before.
LEMMA EndFrame ==
  ASSUME PipelineInv,
         \A s \in Process : pc'[s] = "done" <=> pc[s] = "done",
         \A s \in Process : \A e : e.op = "return" =>
           (e \in Range(agenda'[s]) <=> e \in Range(agenda[s]))
  PROVE  \A s \in Process : Ending(s)' <=> Ending(s)
BY DEF Ending, Entries

LEMMA JoinFrame ==
  ASSUME PipelineInv, NEW s \in Process,
         \A r \in Process : pc[r] = "done" => pc'[r] = "done",
         Ending(s)' => Ending(s),
         \A e : e.op = "join" =>
           (e \in Range(agenda[s]) => e \in Range(agenda'[s]))
  PROVE  ((s[1] \in Pipeline /\ Ending(s)) \/ s = UserThread =>
           \E D \in SUBSET Graph : JoinedSoFar(s, D))'
<1> SUFFICES ASSUME (s[1] \in Pipeline /\ Ending(s)') \/ s = UserThread
             PROVE  \E D \in SUBSET Graph : JoinedSoFar(s, D)'
  OBVIOUS
<1>1. PICK D \in SUBSET Graph : JoinedSoFar(s, D)
  BY DEF PipelineInv, JoinInv
<1>2. ToJoin(s) \subseteq ToJoin(s)'
  BY DEF ToJoin, Entries
<1>3. \A g \in Graph : Ended(g) => Ended(g)'
  <2>1. \A g \in Graph : Inside[g] \ Graph \subseteq Task \cup Pipeline
    BY GraphAssumption DEF Item
  <2>2. \A g \in Graph : \A n \in Inside[g] \ Graph : ThreadsOf(n) \subseteq Process
    BY <2>1, ThreadFacts
  <2>3. QED
    BY <2>2 DEF Ended
<1>4. JoinedSoFar(s, D)'
  BY <1>1, <1>2, <1>3 DEF JoinedSoFar, Roots
<1>5. QED
  BY <1>4

\* A loop that launches nothing goes on, with wake-ups or joins to do first.
LEMMA LoopStep ==
  ASSUME PipelineInv, NEW t \in Process, agenda[t] # <<>>,
         NEW h, h = Head(agenda[t]), NEW n \in h.on, h.op \notin LaunchOp,
         NEW more \in Seq(EntryOf(t)), Sorted(more, Order),
         \A a \in Range(more) : a.op = "wakeUp" \/ (a.op = "join" /\ h.op = "join"),
         After(t, n, more)
  PROVE  /\ agenda' \in [Process -> Seq(Entry)]
         /\ \A s \in Process : s # t => agenda'[s] = agenda[s]
         /\ \A s \in Process : agenda'[s] \in Seq(EntryOf(s)) /\ Sorted(agenda'[s], Order)
         /\ Range(agenda'[t]) = Range(more) \cup Range(Tail(agenda[t])) \cup Cut(h, n)
         /\ \A e : e.op \in LaunchOp =>
              (e \in Range(agenda'[UserThread]) <=> e \in Range(agenda[UserThread]))
         /\ h.op # "return" => \A s \in Process : \A e : e.op = "return" =>
              (e \in Range(agenda'[s]) <=> e \in Range(agenda[s]))
         /\ h.op # "join" => \A s \in Process : \A e : e.op = "join" =>
              (e \in Range(agenda'[s]) <=> e \in Range(agenda[s]))
         /\ \A s \in Process : \A e \in Range(agenda'[s]) : e.op \notin {"wakeUp", "join"} =>
              \E f \in Range(agenda[s]) : f.op = e.op /\ e.on \subseteq f.on
         /\ h.op \notin {"remove", "leave"} => StillLeaves
<1>1. /\ h \in EntryOf(t) /\ Range(agenda[t]) = {h} \cup Range(Tail(agenda[t]))
      /\ \A b \in Range(Tail(agenda[t])) : b \in EntryOf(t) /\ MayPrecede(h, b)
      /\ \A b \in Cut(h, n) : /\ b.op = h.op /\ b.on = h.on \ {n} /\ b \in EntryOf(t)
                              /\ h.op \notin {"copy", "reconnect", "return"}
  <2>1. /\ h \in EntryOf(t) /\ Range(agenda[t]) = {h} \cup Range(Tail(agenda[t]))
        /\ \A b \in Range(Tail(agenda[t])) : b \in EntryOf(t) /\ MayPrecede(h, b)
    BY HeadFacts
  <2>2. \A b \in Cut(h, n) : /\ b.op = h.op /\ b.on = h.on \ {n} /\ b \in EntryOf(t)
                              /\ h.op \notin {"copy", "reconnect", "return"}
    BY HeadFacts
  <2>3. QED
    BY <2>1, <2>2
<1>2. \A a \in Range(more) : a \in EntryOf(t)
  BY RangeOf
<1>3. ASSUME NEW a \in Range(more), NEW b \in Range(Tail(agenda[t])) \cup Cut(h, n)
      PROVE  MayPrecede(a, b)
  <2>1. a.op \in {"wakeUp", "join"} /\ Claims(a) = {}
    BY DEF Claims, Covers
  <2>2. CASE a.op = "wakeUp"
    BY <2>1, <2>2 DEF MayPrecede
  <2>3. CASE a.op = "join" /\ b \in Range(Tail(agenda[t]))
    BY <1>1, <2>1, <2>3 DEF MayPrecede
  <2>4. CASE a.op = "join" /\ b \in Cut(h, n)
    BY <1>1, <2>1, <2>4 DEF MayPrecede, Rank, Op
  <2>5. QED
    BY <2>1, <2>2, <2>3, <2>4
<1>4. /\ agenda' \in [Process -> Seq(Entry)]
      /\ \A s \in Process : s # t => agenda'[s] = agenda[s]
      /\ \A s \in Process : agenda'[s] \in Seq(EntryOf(s)) /\ Sorted(agenda'[s], Order)
      /\ Range(agenda'[t]) = Range(more) \cup Range(Tail(agenda[t])) \cup Cut(h, n)
  BY <1>3, HandleFacts
<1>5. ASSUME NEW O, h.op \notin O, \A a \in Range(more) : a.op \notin O
      PROVE  \A s \in Process : \A e : e.op \in O =>
               (e \in Range(agenda'[s]) <=> e \in Range(agenda[s]))
  BY <1>4, <1>5, OtherEntries
<1>6. \A e : e.op \in LaunchOp =>
        (e \in Range(agenda'[UserThread]) <=> e \in Range(agenda[UserThread]))
  <2>1. \A a \in Range(more) : a.op \notin LaunchOp
    BY DEF LaunchOp
  <2>2. QED
    BY <1>5, <2>1, ThreadFacts
<1>7. h.op # "return" => \A s \in Process : \A e : e.op = "return" =>
        (e \in Range(agenda'[s]) <=> e \in Range(agenda[s]))
  <2>1. PICK O : O = {"return"}
    OBVIOUS
  <2>2. h.op # "return" => h.op \notin O /\ \A a \in Range(more) : a.op \notin O
    BY <2>1
  <2>3. h.op # "return" => \A s \in Process : \A e : e.op \in O =>
          (e \in Range(agenda'[s]) <=> e \in Range(agenda[s]))
    BY <1>5, <2>2
  <2>4. QED
    BY <2>1, <2>3
<1>8. h.op # "join" => \A s \in Process : \A e : e.op = "join" =>
        (e \in Range(agenda'[s]) <=> e \in Range(agenda[s]))
  <2>1. PICK O : O = {"join"}
    OBVIOUS
  <2>2. h.op # "join" => h.op \notin O /\ \A a \in Range(more) : a.op \notin O
    BY <2>1
  <2>3. h.op # "join" => \A s \in Process : \A e : e.op \in O =>
          (e \in Range(agenda'[s]) <=> e \in Range(agenda[s]))
    BY <1>5, <2>2
  <2>4. QED
    BY <2>1, <2>3
<1>9. \A s \in Process : \A e \in Range(agenda'[s]) : e.op \notin {"wakeUp", "join"} =>
        \E f \in Range(agenda[s]) : f.op = e.op /\ e.on \subseteq f.on
  <2> SUFFICES ASSUME NEW s \in Process, NEW e \in Range(agenda'[s]),
                      e.op \notin {"wakeUp", "join"}
               PROVE  \E f \in Range(agenda[s]) : f.op = e.op /\ e.on \subseteq f.on
    OBVIOUS
  <2>1. CASE e \in Range(agenda[s])
    BY <2>1
  <2>2. CASE e \in Cut(h, n) /\ s = t
    BY <1>1, <2>2
  <2>3. QED
    BY <1>1, <1>4, <2>1, <2>2
<1>10. h.op \notin {"remove", "leave"} => StillLeaves
  BY <1>1, <1>4 DEF StillLeaves, Entries
<1>11. QED
  BY <1>4, <1>6, <1>7, <1>8, <1>9, <1>10

\* The parts of the invariant that such a step leaves alone.
LEMMA QuietFrame ==
  ASSUME PipelineInv, slots' = slots, notifiers' \in [Node -> SUBSET Process],
         \A m \in Node : notifiers'[m] \subseteq notifiers[m],
         \A s \in Process : pc'[s] = pc[s] \/ (s \in Thread /\ pc[s] = "wait" /\ pc'[s] = "run"),
         \A e : e.op \in LaunchOp =>
           (e \in Range(agenda'[UserThread]) <=> e \in Range(agenda[UserThread])),
         \A s \in Process : \A e : e.op = "return" =>
           (e \in Range(agenda'[s]) <=> e \in Range(agenda[s])),
         \A s \in Process : \A e \in Range(agenda'[s]) : e.op \in {"remove", "leave"} =>
           \E f \in Range(agenda[s]) : f.op = e.op
  PROVE  /\ UserInv' /\ WiredInv' /\ LaunchInv' /\ CopyInv' /\ EndInv'
         /\ \A s \in Process : Ending(s)' <=> Ending(s)
<1>1. UserInv'
  BY ThreadFacts DEF PipelineInv, UserInv
<1>2. WiredInv'
  <2>1. slots \in [Process -> SUBSET Node]
    BY DEF PipelineInv, TypeOK
  <2>2. QED
    BY <2>1 DEF PipelineInv, WiredInv
<1>3. LaunchInv' /\ CopyInv'
  <2>1. \A s \in Thread : pc[s] = "idle" => pc'[s] = "idle"
    BY ThreadFacts
  <2>2. QED
    BY <2>1, LaunchFrame
<1>4. \A s \in Process : Ending(s)' <=> Ending(s)
  <2>1. \A s \in Process : pc'[s] = "done" <=> pc[s] = "done"
    OBVIOUS
  <2>2. QED
    BY <2>1, EndFrame
<1>5. EndInv'
  BY ThreadFacts DEF PipelineInv, EndInv, Entries
<1>6. QED
  BY <1>1, <1>2, <1>3, <1>4, <1>5

-----------------------------------------------------------------------------
(* The invariant is preserved.                                               *)

LEMMA NothingMore ==
  ASSUME NEW t
  PROVE  <<>> \in Seq(EntryOf(t)) /\ Sorted(<<>>, Order) /\ Range(<<>>) = {}
BY DEF Sorted, Range

LEMMA ReceiveStep ==
  ASSUME PipelineInv, NEW t \in Process, NEW n, Receive(t, n)
  PROVE  PipelineInv' /\ Calm
<1>0. PICK h : h = Head(agenda[t])
  OBVIOUS
<1>1. /\ agenda[t] # <<>> /\ n \in h.on /\ h.op = "receive" /\ After(t, n, <<>>)
      /\ queue' = [queue EXCEPT ![n] = Append(@, h.data)]
      /\ UNCHANGED <<notifiers, slots, pc, executed>>
  BY <1>0 DEF Receive, At
<1>2. h \in EntryOf(t) /\ h \in Range(agenda[t])
  BY <1>0, <1>1, HeadFacts
<1>3. n \in Node /\ h.data \in Data /\ t \in notifiers[n]
  <2>1. n \in Node /\ h.data \in Data
    BY <1>1, <1>2 DEF EntryOf, Downstream
  <2>2. t \in notifiers[n]
    BY <1>1, <1>2 DEF PipelineInv, SendInv, Entries
  <2>3. QED
    BY <2>1, <2>2
<1>4. PICK more : more = <<>>
  OBVIOUS
<1>5. /\ more \in Seq(EntryOf(t)) /\ Sorted(more, Order) /\ After(t, n, more)
      /\ \A a \in Range(more) : a.op = "wakeUp" \/ (a.op = "join" /\ h.op = "join")
  BY <1>1, <1>4, NothingMore
<1>6. h.op \notin LaunchOp /\ h.op \notin {"return", "join"}
  BY <1>1 DEF LaunchOp
<1>7. /\ agenda' \in [Process -> Seq(Entry)]
      /\ \A s \in Process : s # t => agenda'[s] = agenda[s]
      /\ \A s \in Process : agenda'[s] \in Seq(EntryOf(s)) /\ Sorted(agenda'[s], Order)
      /\ \A e : e.op \in LaunchOp =>
           (e \in Range(agenda'[UserThread]) <=> e \in Range(agenda[UserThread]))
      /\ \A s \in Process : \A e : e.op = "return" =>
           (e \in Range(agenda'[s]) <=> e \in Range(agenda[s]))
      /\ \A s \in Process : \A e : e.op = "join" =>
           (e \in Range(agenda'[s]) <=> e \in Range(agenda[s]))
      /\ \A s \in Process : \A e \in Range(agenda'[s]) : e.op \notin {"wakeUp", "join"} =>
           \E f \in Range(agenda[s]) : f.op = e.op /\ e.on \subseteq f.on
      /\ StillLeaves
  BY <1>0, <1>1, <1>5, <1>6, LoopStep
<1>8. TypeOK'
  <2>1. TypeOK
    BY DEF PipelineInv
  <2>2. queue' \in [Node -> Seq(Data)]
    BY <1>1, <1>3, <2>1 DEF TypeOK
  <2>3. QED
    BY <1>1, <1>7, <2>1, <2>2 DEF TypeOK
<1>9. AgendaInv'
  <2>1. pc[t] = "run"
    BY <1>1 DEF PipelineInv, AgendaInv
  <2>2. QED
    BY <1>1, <1>7, <2>1 DEF PipelineInv, AgendaInv
<1>10. /\ UserInv' /\ WiredInv' /\ LaunchInv' /\ CopyInv' /\ EndInv'
       /\ \A s \in Process : Ending(s)' <=> Ending(s)
  <2>1. notifiers' \in [Node -> SUBSET Process]
    BY <1>8 DEF TypeOK
  <2>2. \A s \in Process : \A e \in Range(agenda'[s]) : e.op \in {"remove", "leave"} =>
          \E f \in Range(agenda[s]) : f.op = e.op
    BY <1>7
  <2>3. QED
    BY <1>1, <1>7, <2>1, <2>2, QuietFrame
<1>11. RegisteredInv'
  BY <1>1, <1>10, ThreadFacts DEF PipelineInv, RegisteredInv
<1>12. SendInv'
  BY <1>1, <1>7 DEF PipelineInv, SendInv, Entries
<1>13. DrainInv'
  <2> SUFFICES ASSUME NEW s \in Thread, Ending(s)'
               PROVE  notifiers'[s[1]] = {} /\ queue'[s[1]] = <<>>
    BY DEF DrainInv
  <2>1. notifiers[s[1]] = {} /\ queue[s[1]] = <<>>
    BY <1>10, ThreadFacts DEF PipelineInv, DrainInv
  <2>2. s[1] # n
    BY <1>3, <2>1
  <2>3. queue'[s[1]] = queue[s[1]]
    BY <1>1, <2>2, ThreadFacts DEF PipelineInv, TypeOK, Node
  <2>4. QED
    BY <1>1, <2>1, <2>3
<1>14. JoinInv'
  <2> SUFFICES ASSUME NEW s \in Process
               PROVE  ((s[1] \in Pipeline /\ Ending(s)) \/ s = UserThread =>
                        \E D \in SUBSET Graph : JoinedSoFar(s, D))'
    BY DEF JoinInv
  <2>1. QED
    BY <1>1, <1>7, <1>10, JoinFrame
<1>15. Calm
  BY <1>7, <1>10 DEF Calm, NobodyEnds, Launching, Entries
<1>16. QED
  BY <1>8, <1>9, <1>10, <1>11, <1>12, <1>13, <1>14, <1>15 DEF PipelineInv

LEMMA WakeUpStep ==
  ASSUME PipelineInv, NEW t \in Process, NEW n, WakeUp(t, n)
  PROVE  PipelineInv' /\ Calm
<1>0. PICK h : h = Head(agenda[t])
  OBVIOUS
<1>1. /\ agenda[t] # <<>> /\ n \in h.on /\ h.op = "wakeUp" /\ After(t, n, <<>>)
      /\ NotifyOne(n)
      /\ UNCHANGED <<notifiers, slots, queue, executed>>
  BY <1>0 DEF WakeUp, At
<1>2. /\ pc' \in [Process -> {"idle", "run", "wait", "done"}]
      /\ \A s \in Process : pc'[s] = pc[s] \/ (s \in Thread /\ pc[s] = "wait" /\ pc'[s] = "run")
  <2>1. pc \in [Process -> {"idle", "run", "wait", "done"}]
    BY DEF PipelineInv, TypeOK
  <2>2. pc' = pc \/ \E s \in Thread : pc[s] = "wait" /\ pc' = [pc EXCEPT ![s] = "run"]
    BY <1>1 DEF NotifyOne
  <2>3. CASE pc' = pc
    BY <2>1, <2>3
  <2>4. CASE \E s \in Thread : pc[s] = "wait" /\ pc' = [pc EXCEPT ![s] = "run"]
    BY <2>1, <2>4, ThreadFacts
  <2>5. QED
    BY <2>2, <2>3, <2>4
<1>3. PICK more : more = <<>>
  OBVIOUS
<1>4. /\ more \in Seq(EntryOf(t)) /\ Sorted(more, Order) /\ After(t, n, more)
      /\ \A a \in Range(more) : a.op = "wakeUp" \/ (a.op = "join" /\ h.op = "join")
  BY <1>1, <1>3, NothingMore
<1>5. h.op \notin LaunchOp /\ h.op \notin {"return", "join"}
  BY <1>1 DEF LaunchOp
<1>6. /\ agenda' \in [Process -> Seq(Entry)]
      /\ \A s \in Process : s # t => agenda'[s] = agenda[s]
      /\ \A s \in Process : agenda'[s] \in Seq(EntryOf(s)) /\ Sorted(agenda'[s], Order)
      /\ \A e : e.op \in LaunchOp =>
           (e \in Range(agenda'[UserThread]) <=> e \in Range(agenda[UserThread]))
      /\ \A s \in Process : \A e : e.op = "return" =>
           (e \in Range(agenda'[s]) <=> e \in Range(agenda[s]))
      /\ \A s \in Process : \A e : e.op = "join" =>
           (e \in Range(agenda'[s]) <=> e \in Range(agenda[s]))
      /\ \A s \in Process : \A e \in Range(agenda'[s]) : e.op \notin {"wakeUp", "join"} =>
           \E f \in Range(agenda[s]) : f.op = e.op /\ e.on \subseteq f.on
      /\ StillLeaves
  BY <1>0, <1>1, <1>4, <1>5, LoopStep
<1>7. TypeOK'
  BY <1>1, <1>2, <1>6 DEF PipelineInv, TypeOK
<1>8. AgendaInv'
  <2>1. pc[t] = "run"
    BY <1>1 DEF PipelineInv, AgendaInv
  <2>2. \A s \in Process : pc'[s] # "run" => agenda'[s] = <<>>
    BY <1>2, <1>6, <2>1 DEF PipelineInv, AgendaInv
  <2>3. QED
    BY <1>6, <2>2 DEF AgendaInv
<1>9. /\ UserInv' /\ WiredInv' /\ LaunchInv' /\ CopyInv' /\ EndInv'
      /\ \A s \in Process : Ending(s)' <=> Ending(s)
  <2>1. notifiers' \in [Node -> SUBSET Process]
    BY <1>7 DEF TypeOK
  <2>2. \A s \in Process : \A e \in Range(agenda'[s]) : e.op \in {"remove", "leave"} =>
          \E f \in Range(agenda[s]) : f.op = e.op
    BY <1>6
  <2>3. QED
    BY <1>1, <1>2, <1>6, <2>1, <2>2, QuietFrame
<1>10. RegisteredInv'
  BY <1>1, <1>9, ThreadFacts DEF PipelineInv, RegisteredInv
<1>11. SendInv'
  BY <1>1, <1>6 DEF PipelineInv, SendInv, Entries
<1>12. DrainInv'
  BY <1>1, <1>9, ThreadFacts DEF PipelineInv, DrainInv
<1>13. JoinInv'
  <2> SUFFICES ASSUME NEW s \in Process
               PROVE  ((s[1] \in Pipeline /\ Ending(s)) \/ s = UserThread =>
                        \E D \in SUBSET Graph : JoinedSoFar(s, D))'
    BY DEF JoinInv
  <2>1. \A r \in Process : pc[r] = "done" => pc'[r] = "done"
    BY <1>2
  <2>2. QED
    BY <1>6, <1>9, <2>1, JoinFrame
<1>14. Calm
  BY <1>6, <1>9 DEF Calm, NobodyEnds, Launching, Entries
<1>15. QED
  BY <1>7, <1>8, <1>9, <1>10, <1>11, <1>12, <1>13, <1>14 DEF PipelineInv

\* A loop that neither launches nor sends, as an agenda of its own.
LEMMA PlainLoop ==
  ASSUME NEW t, NEW op \in {"remove", "leave", "wakeUp", "join", "return"},
         NEW on \in SUBSET Thing,
         op \in {"remove", "leave"} => on \subseteq Downstream(t[1]),
         op = "wakeUp" => on \subseteq Node,
         op = "join" => on \subseteq Graph,
         op = "return" => t[1] \in on /\ \A x \in on : x = t[1]
  PROVE  /\ Loop(op, on) \in Seq(EntryOf(t)) /\ Sorted(Loop(op, on), Order)
         /\ \A a \in Range(Loop(op, on)) : a.op = op /\ a.on = on
         /\ on # {} => \E a \in Range(Loop(op, on)) : a.op = op /\ a.on = on
<1>1. PICK d : d = {}
  OBVIOUS
<1>2. PICK e : e = [op |-> op, on |-> on, data |-> d]
  OBVIOUS
<1>3. op \in Op /\ (on # {} => e \in EntryOf(t))
  <2>1. op = "return" => on = {t[1]}
    OBVIOUS
  <2>2. QED
    BY <1>1, <1>2, <2>1 DEF EntryOf, Entry, Op, LaunchOp
<1>4. /\ LoopOn(op, on, d) \in Seq(EntryOf(t)) /\ Sorted(LoopOn(op, on, d), Order)
      /\ Range(LoopOn(op, on, d)) = IF on = {} THEN {} ELSE {e}
  BY <1>2, <1>3, LoopFacts
<1>5. /\ \A a \in Range(LoopOn(op, on, d)) : a.op = op /\ a.on = on
      /\ on # {} => \E a \in Range(LoopOn(op, on, d)) : a.op = op /\ a.on = on
  BY <1>2, <1>4
<1>6. Loop(op, on) = LoopOn(op, on, d)
  BY <1>1 DEF Loop
<1>7. QED
  BY <1>4, <1>5, <1>6

\* notifyAllTerminated and disconnectSwitch: t leaves the slot of n.
LEMMA LeaveSlotStep ==
  ASSUME PipelineInv, NEW t \in Process, agenda[t] # <<>>,
         NEW h, h = Head(agenda[t]), NEW n \in h.on, h.op \in {"remove", "leave"},
         NEW more \in Seq(EntryOf(t)), Sorted(more, Order),
         \A a \in Range(more) : a.op = "wakeUp",
         After(t, n, more),
         notifiers' = [notifiers EXCEPT ![n] = @ \ {t}],
         UNCHANGED <<slots, queue, pc, executed>>
  PROVE  PipelineInv'
<1>1. /\ h \in EntryOf(t) /\ h \in Range(agenda[t])
      /\ Range(agenda[t]) = {h} \cup Range(Tail(agenda[t]))
      /\ \A b \in Range(Tail(agenda[t])) : b \in EntryOf(t) /\ MayPrecede(h, b)
  BY HeadFacts
<1>2. \A b \in Cut(h, n) : b.op = h.op
  BY HeadFacts
<1>3. n \in Node
  BY <1>1 DEF EntryOf, Downstream
<1>4. h.op \notin LaunchOp /\ h.op \notin {"return", "join"}
  BY DEF LaunchOp
<1>5. /\ agenda' \in [Process -> Seq(Entry)]
      /\ \A s \in Process : s # t => agenda'[s] = agenda[s]
      /\ \A s \in Process : agenda'[s] \in Seq(EntryOf(s)) /\ Sorted(agenda'[s], Order)
      /\ Range(agenda'[t]) = Range(more) \cup Range(Tail(agenda[t])) \cup Cut(h, n)
      /\ \A e : e.op \in LaunchOp =>
           (e \in Range(agenda'[UserThread]) <=> e \in Range(agenda[UserThread]))
      /\ \A s \in Process : \A e : e.op = "return" =>
           (e \in Range(agenda'[s]) <=> e \in Range(agenda[s]))
      /\ \A s \in Process : \A e : e.op = "join" =>
           (e \in Range(agenda'[s]) <=> e \in Range(agenda[s]))
      /\ \A s \in Process : \A e \in Range(agenda'[s]) : e.op \notin {"wakeUp", "join"} =>
           \E f \in Range(agenda[s]) : f.op = e.op /\ e.on \subseteq f.on
  BY <1>4, LoopStep
<1>6. /\ notifiers' \in [Node -> SUBSET Process]
      /\ notifiers'[n] = notifiers[n] \ {t}
      /\ \A m \in Node : m # n => notifiers'[m] = notifiers[m]
  BY <1>3 DEF PipelineInv, TypeOK
<1>7. TypeOK'
  BY <1>5, <1>6 DEF PipelineInv, TypeOK
<1>8. AgendaInv'
  <2>1. pc[t] = "run"
    BY DEF PipelineInv, AgendaInv
  <2>2. QED
    BY <1>5, <2>1 DEF PipelineInv, AgendaInv
<1>9. /\ UserInv' /\ WiredInv' /\ LaunchInv' /\ CopyInv' /\ EndInv'
      /\ \A s \in Process : Ending(s)' <=> Ending(s)
  <2>1. \A s \in Process : \A e \in Range(agenda'[s]) : e.op \in {"remove", "leave"} =>
          \E f \in Range(agenda[s]) : f.op = e.op
    BY <1>5
  <2>2. \A m \in Node : notifiers'[m] \subseteq notifiers[m]
    BY <1>6
  <2>3. QED
    BY <1>5, <1>6, <2>1, <2>2, QuietFrame
<1>10. RegisteredInv'
  <2> SUFFICES ASSUME NEW s \in Thread, ~ Ending(s), NEW m \in slots[s]
               PROVE  s \in notifiers'[m]
    BY <1>9, ThreadFacts DEF RegisteredInv
  <2>1. s \in notifiers[m] /\ m \in Node
    BY ThreadFacts DEF PipelineInv, RegisteredInv, TypeOK
  <2>2. t \in Thread => Ending(t)
    BY <1>1 DEF PipelineInv, EndInv, Ending, Entries
  <2>3. QED
    BY <1>6, <2>1, <2>2
<1>11. SendInv'
  <2> SUFFICES ASSUME NEW s \in Process, NEW e \in Range(agenda'[s]), e.op = "receive",
                      NEW m \in e.on
               PROVE  s \in notifiers'[m]
    BY DEF SendInv, Entries
  <2>1. s # t
    <3> SUFFICES ASSUME s = t
                 PROVE  FALSE
      OBVIOUS
    <3>1. e \in Range(Tail(agenda[t]))
      BY <1>2, <1>5
    <3>2. MayPrecede(h, e)
      BY <1>1, <3>1
    <3>3. QED
      BY <3>2 DEF MayPrecede, Rank, Op, LaunchOp
  <2>2. s \in notifiers[m]
    BY <1>5, <2>1 DEF PipelineInv, SendInv, Entries
  <2>3. m \in Node
    <3>1. e \in EntryOf(s)
      BY <1>5, RangeOf
    <3>2. QED
      BY <3>1 DEF EntryOf, Downstream
  <2>4. QED
    BY <1>6, <2>1, <2>2, <2>3
<1>12. DrainInv'
  <2> SUFFICES ASSUME NEW s \in Thread, Ending(s)
               PROVE  notifiers'[s[1]] = {} /\ queue[s[1]] = <<>>
    BY <1>9, ThreadFacts DEF DrainInv
  <2>1. notifiers[s[1]] = {} /\ queue[s[1]] = <<>> /\ s[1] \in Node
    BY ThreadFacts DEF PipelineInv, DrainInv, Node
  <2>2. QED
    BY <1>6, <2>1
<1>13. JoinInv'
  <2> SUFFICES ASSUME NEW s \in Process
               PROVE  ((s[1] \in Pipeline /\ Ending(s)) \/ s = UserThread =>
                        \E D \in SUBSET Graph : JoinedSoFar(s, D))'
    BY DEF JoinInv
  <2>1. \A r \in Process : pc[r] = "done" => pc'[r] = "done"
    OBVIOUS
  <2>2. QED
    BY <1>5, <1>9, <2>1, JoinFrame
<1>14. QED
  BY <1>7, <1>8, <1>9, <1>10, <1>11, <1>12, <1>13 DEF PipelineInv

LEMMA RemoveNotifierStep ==
  ASSUME PipelineInv, NEW t \in Process, NEW n, RemoveNotifier(t, n)
  PROVE  PipelineInv'
<1>1. PICK h : h = Head(agenda[t])
  OBVIOUS
<1>2. PICK more : more = <<>>
  OBVIOUS
<1>3. /\ agenda[t] # <<>> /\ n \in h.on /\ h.op \in {"remove", "leave"}
      /\ After(t, n, more)
      /\ notifiers' = [notifiers EXCEPT ![n] = @ \ {t}]
      /\ UNCHANGED <<slots, queue, pc, executed>>
  BY <1>1, <1>2 DEF RemoveNotifier, At
<1>4. /\ more \in Seq(EntryOf(t)) /\ Sorted(more, Order)
      /\ \A a \in Range(more) : a.op = "wakeUp"
  BY <1>2, NothingMore
<1>5. QED
  BY <1>1, <1>3, <1>4, LeaveSlotStep

LEMMA DisconnectSwitchStep ==
  ASSUME PipelineInv, NEW t \in Process, NEW n, DisconnectSwitch(t, n)
  PROVE  PipelineInv'
<1>1. PICK h : h = Head(agenda[t])
  OBVIOUS
<1>2. PICK more : more = Loop("wakeUp", {n})
  OBVIOUS
<1>3. /\ agenda[t] # <<>> /\ n \in h.on /\ h.op \in {"remove", "leave"}
      /\ After(t, n, more)
      /\ notifiers' = [notifiers EXCEPT ![n] = @ \ {t}]
      /\ UNCHANGED <<slots, queue, pc, executed>>
  BY <1>1, <1>2 DEF DisconnectSwitch, At
<1>4. n \in Node
  <2>1. h \in EntryOf(t)
    BY <1>1, <1>3, HeadFacts
  <2>2. QED
    BY <1>3, <2>1 DEF EntryOf, Downstream
<1>5. /\ more \in Seq(EntryOf(t)) /\ Sorted(more, Order)
      /\ \A a \in Range(more) : a.op = "wakeUp"
  <2>1. PICK on : on = {n}
    OBVIOUS
  <2>2. on \in SUBSET Thing /\ on \subseteq Node
    BY <1>4, <2>1 DEF Thing
  <2>3. /\ Loop("wakeUp", on) \in Seq(EntryOf(t)) /\ Sorted(Loop("wakeUp", on), Order)
        /\ \A a \in Range(Loop("wakeUp", on)) : a.op = "wakeUp"
    BY <2>2, PlainLoop
  <2>4. QED
    BY <1>2, <2>1, <2>3
<1>6. QED
  BY <1>1, <1>3, <1>5, LeaveSlotStep

LEMMA JoinStep ==
  ASSUME PipelineInv, NEW t \in Process, NEW g, Join(t, g)
  PROVE  PipelineInv' /\ Calm
<1>0. PICK h : h = Head(agenda[t])
  OBVIOUS
<1>1. PICK inner : inner = Inside[g] \cap Graph
  OBVIOUS
<1>2. PICK more : more = Loop("join", inner)
  OBVIOUS
<1>3. /\ agenda[t] # <<>> /\ g \in h.on /\ h.op = "join" /\ After(t, g, more)
      /\ \A n \in Inside[g] \ Graph : \A s \in ThreadsOf(n) : pc[s] = "done"
      /\ UNCHANGED <<notifiers, slots, queue, pc, executed>>
  BY <1>0, <1>1, <1>2 DEF Join, At
<1>4. /\ h \in EntryOf(t) /\ h \in Range(agenda[t])
      /\ Range(agenda[t]) = {h} \cup Range(Tail(agenda[t]))
  BY <1>0, <1>3, HeadFacts
<1>5. h.on # {g} => \E b \in Cut(h, g) : b.op = "join" /\ b.on = h.on \ {g}
  <2>1. h \in Entry
    BY <1>4 DEF EntryOf
  <2>2. QED
    BY <1>3, <2>1 DEF Cut, Entry
<1>6. g \in Graph /\ h.on \subseteq Graph /\ inner \subseteq Graph
  BY <1>1, <1>3, <1>4 DEF EntryOf
<1>7. /\ more \in Seq(EntryOf(t)) /\ Sorted(more, Order)
      /\ \A a \in Range(more) : a.op = "join" /\ a.on = inner
      /\ inner # {} => \E a \in Range(more) : a.op = "join" /\ a.on = inner
  <2>1. inner \in SUBSET Thing
    BY <1>6 DEF Thing, Item
  <2>2. /\ Loop("join", inner) \in Seq(EntryOf(t)) /\ Sorted(Loop("join", inner), Order)
        /\ \A a \in Range(Loop("join", inner)) : a.op = "join" /\ a.on = inner
        /\ inner # {} => \E a \in Range(Loop("join", inner)) : a.op = "join" /\ a.on = inner
    BY <1>6, <2>1, PlainLoop
  <2>3. QED
    BY <1>2, <2>2
<1>8. /\ h.op \notin LaunchOp /\ h.op # "return"
      /\ \A a \in Range(more) : a.op = "wakeUp" \/ (a.op = "join" /\ h.op = "join")
  BY <1>3, <1>7 DEF LaunchOp
<1>9. /\ agenda' \in [Process -> Seq(Entry)]
      /\ \A s \in Process : s # t => agenda'[s] = agenda[s]
      /\ \A s \in Process : agenda'[s] \in Seq(EntryOf(s)) /\ Sorted(agenda'[s], Order)
      /\ Range(agenda'[t]) = Range(more) \cup Range(Tail(agenda[t])) \cup Cut(h, g)
      /\ \A e : e.op \in LaunchOp =>
           (e \in Range(agenda'[UserThread]) <=> e \in Range(agenda[UserThread]))
      /\ \A s \in Process : \A e : e.op = "return" =>
           (e \in Range(agenda'[s]) <=> e \in Range(agenda[s]))
      /\ \A s \in Process : \A e \in Range(agenda'[s]) : e.op \notin {"wakeUp", "join"} =>
           \E f \in Range(agenda[s]) : f.op = e.op /\ e.on \subseteq f.on
      /\ StillLeaves
  BY <1>0, <1>3, <1>7, <1>8, LoopStep
<1>10. TypeOK'
  BY <1>3, <1>9 DEF PipelineInv, TypeOK
<1>11. AgendaInv'
  <2>1. pc[t] = "run"
    BY <1>3 DEF PipelineInv, AgendaInv
  <2>2. QED
    BY <1>3, <1>9, <2>1 DEF PipelineInv, AgendaInv
<1>12. /\ UserInv' /\ WiredInv' /\ LaunchInv' /\ CopyInv' /\ EndInv'
       /\ \A s \in Process : Ending(s)' <=> Ending(s)
  <2>1. notifiers' \in [Node -> SUBSET Process]
    BY <1>10 DEF TypeOK
  <2>2. \A s \in Process : \A e \in Range(agenda'[s]) : e.op \in {"remove", "leave"} =>
          \E f \in Range(agenda[s]) : f.op = e.op
    BY <1>9
  <2>3. QED
    BY <1>3, <1>9, <2>1, <2>2, QuietFrame
<1>13. RegisteredInv'
  BY <1>3, <1>12, ThreadFacts DEF PipelineInv, RegisteredInv
<1>14. SendInv'
  BY <1>3, <1>9 DEF PipelineInv, SendInv, Entries
<1>15. DrainInv'
  BY <1>3, <1>12, ThreadFacts DEF PipelineInv, DrainInv
<1>16. JoinInv'
  <2> SUFFICES ASSUME NEW s \in Process
               PROVE  ((s[1] \in Pipeline /\ Ending(s)) \/ s = UserThread =>
                        \E D \in SUBSET Graph : JoinedSoFar(s, D))'
    BY DEF JoinInv
  <2>1. CASE s # t
    BY <1>3, <1>9, <1>12, <2>1, JoinFrame
  <2>2. CASE s = t
    <3> SUFFICES ASSUME (s[1] \in Pipeline /\ Ending(s)') \/ s = UserThread
                 PROVE  \E D \in SUBSET Graph : JoinedSoFar(s, D)'
      OBVIOUS
    <3>1. PICK D \in SUBSET Graph : JoinedSoFar(s, D)
      BY <1>12 DEF PipelineInv, JoinInv
    <3>2. ToJoin(s) \subseteq {g} \cup ToJoin(s)' /\ inner \subseteq ToJoin(s)'
      <4>1. \A f \in Range(agenda[t]) : f.op = "join" =>
              f.on \subseteq {g} \cup UNION {e.on : e \in {x \in Range(agenda'[t]) : x.op = "join"}}
        <5>1. \A f \in Range(Tail(agenda[t])) : f \in Range(agenda'[t])
          BY <1>9
        <5>2. h.on \subseteq {g} \cup UNION {e.on : e \in {x \in Range(agenda'[t]) : x.op = "join"}}
          BY <1>5, <1>9
        <5>3. QED
          BY <1>4, <5>1, <5>2
      <4>2. inner \subseteq UNION {e.on : e \in {x \in Range(agenda'[t]) : x.op = "join"}}
        BY <1>7, <1>9
      <4>3. QED
        BY <2>2, <4>1, <4>2 DEF ToJoin, Entries
    <3>3. Ended(g)' /\ \A f \in D : Ended(f)'
      BY <1>3, <3>1 DEF Ended, JoinedSoFar
    <3>4. JoinedSoFar(s, D \cup {g})'
      BY <1>1, <3>1, <3>2, <3>3 DEF JoinedSoFar, Roots
    <3>5. D \cup {g} \in SUBSET Graph
      BY <1>6
    <3>6. QED
      BY <3>4, <3>5
  <2>3. QED
    BY <2>1, <2>2
<1>17. Calm
  BY <1>9, <1>12 DEF Calm, NobodyEnds, Launching, Entries
<1>18. QED
  BY <1>10, <1>11, <1>12, <1>13, <1>14, <1>15, <1>16, <1>17 DEF PipelineInv

LEMMA ReturnStep ==
  ASSUME PipelineInv, NEW t \in Process, NEW n, Return(t, n)
  PROVE  PipelineInv' /\ Calm
<1>0. PICK h : h = Head(agenda[t])
  OBVIOUS
<1>1. PICK more : more = <<>>
  OBVIOUS
<1>2. /\ agenda[t] # <<>> /\ n \in h.on /\ h.op = "return" /\ After(t, n, more)
      /\ pc' = [pc EXCEPT ![t] = "done"]
      /\ UNCHANGED <<notifiers, slots, queue, executed>>
  BY <1>0, <1>1 DEF Return, At
<1>3. /\ h \in EntryOf(t) /\ h \in Range(agenda[t]) /\ pc[t] = "run"
      /\ Range(agenda[t]) = {h} \cup Range(Tail(agenda[t]))
      /\ \A b \in Range(Tail(agenda[t])) : MayPrecede(h, b)
  BY <1>0, <1>2, HeadFacts
<1>4. /\ more \in Seq(EntryOf(t)) /\ Sorted(more, Order) /\ Range(more) = {}
      /\ \A a \in Range(more) : a.op = "wakeUp" \/ (a.op = "join" /\ h.op = "join")
  BY <1>1, NothingMore
<1>5. h.op \notin LaunchOp /\ h.op # "join"
  BY <1>2 DEF LaunchOp
<1>6. /\ agenda' \in [Process -> Seq(Entry)]
      /\ \A s \in Process : s # t => agenda'[s] = agenda[s]
      /\ \A s \in Process : agenda'[s] \in Seq(EntryOf(s)) /\ Sorted(agenda'[s], Order)
      /\ Range(agenda'[t]) = Range(more) \cup Range(Tail(agenda[t])) \cup Cut(h, n)
      /\ \A e : e.op \in LaunchOp =>
           (e \in Range(agenda'[UserThread]) <=> e \in Range(agenda[UserThread]))
      /\ \A s \in Process : \A e : e.op = "join" =>
           (e \in Range(agenda'[s]) <=> e \in Range(agenda[s]))
      /\ \A s \in Process : \A e \in Range(agenda'[s]) : e.op \notin {"wakeUp", "join"} =>
           \E f \in Range(agenda[s]) : f.op = e.op /\ e.on \subseteq f.on
      /\ StillLeaves
  BY <1>0, <1>2, <1>4, <1>5, LoopStep
<1>7. Range(agenda'[t]) = {} /\ agenda'[t] = <<>>
  <2>1. Range(Tail(agenda[t])) = {}
    BY <1>2, <1>3 DEF MayPrecede
  <2>2. Cut(h, n) = {}
    BY <1>2, <1>3 DEF Cut, EntryOf
  <2>3. Range(agenda'[t]) = {}
    BY <1>4, <1>6, <2>1, <2>2
  <2>4. PICK s : s = agenda'[t]
    OBVIOUS
  <2>5. s \in Seq(EntryOf(t)) /\ Range(s) = {}
    BY <1>6, <2>3, <2>4
  <2>6. s = <<>>
    <3>1. ~ (1 \in 1 .. Len(s))
      BY <2>5, RangeOf
    <3>2. Len(s) = 0
      BY <2>5, <3>1
    <3>3. QED
      BY <2>5, <3>2
  <2>7. QED
    BY <2>3, <2>4, <2>6
<1>8. /\ pc' \in [Process -> {"idle", "run", "wait", "done"}]
      /\ pc'[t] = "done" /\ \A s \in Process : s # t => pc'[s] = pc[s]
  BY <1>2 DEF PipelineInv, TypeOK
<1>9. \A s \in Process : Ending(s)' <=> Ending(s)
  BY <1>2, <1>3, <1>6, <1>8 DEF Ending, Entries
<1>10. TypeOK'
  BY <1>2, <1>6, <1>8 DEF PipelineInv, TypeOK
<1>11. AgendaInv'
  <2>1. \A s \in Process : pc'[s] # "run" => agenda'[s] = <<>>
    BY <1>6, <1>7, <1>8 DEF PipelineInv, AgendaInv
  <2>2. QED
    BY <1>6, <2>1 DEF AgendaInv
<1>12. UserInv'
  BY <1>8, ThreadFacts DEF PipelineInv, UserInv
<1>13. WiredInv'
  BY <1>2 DEF PipelineInv, WiredInv
<1>14. LaunchInv' /\ CopyInv'
  <2>1. \A s \in Thread : pc[s] = "idle" => pc'[s] = "idle"
    BY <1>3, <1>8, ThreadFacts
  <2>2. QED
    BY <1>2, <1>6, <2>1, LaunchFrame
<1>15. EndInv'
  <2> SUFFICES ASSUME NEW s \in Thread, NEW e \in Range(agenda'[s]), e.op \in {"remove", "leave"}
               PROVE  \E f \in Range(agenda'[s]) : f.op = "return"
    BY DEF EndInv, Entries
  <2>1. s # t
    BY <1>7
  <2>2. QED
    BY <1>6, <2>1, ThreadFacts DEF PipelineInv, EndInv, Entries
<1>16. RegisteredInv'
  BY <1>2, <1>9, ThreadFacts DEF PipelineInv, RegisteredInv
<1>17. SendInv'
  BY <1>2, <1>6 DEF PipelineInv, SendInv, Entries
<1>18. DrainInv'
  BY <1>2, <1>9, ThreadFacts DEF PipelineInv, DrainInv
<1>19. JoinInv'
  <2> SUFFICES ASSUME NEW s \in Process
               PROVE  ((s[1] \in Pipeline /\ Ending(s)) \/ s = UserThread =>
                        \E D \in SUBSET Graph : JoinedSoFar(s, D))'
    BY DEF JoinInv
  <2>1. \A r \in Process : pc[r] = "done" => pc'[r] = "done"
    BY <1>8
  <2>2. QED
    BY <1>6, <1>9, <2>1, JoinFrame
<1>20. Calm
  BY <1>6, <1>9 DEF Calm, NobodyEnds, Launching, Entries
<1>21. QED
  BY <1>10, <1>11, <1>12, <1>13, <1>14, <1>15, <1>16, <1>17, <1>18, <1>19, <1>20 DEF PipelineInv
-----------------------------------------------------------------------------
(* The launch preserves the invariant.                                       *)

\* What a graph is to do at its launch, in terms of what it holds.
LEMMA LaunchFacts ==
  ASSUME NEW g \in Graph, Under[g] \subseteq Under[Outer]
  PROVE  /\ Launch(g) \in Seq(EntryOf(UserThread)) /\ Sorted(Launch(g), Order)
         /\ \A e \in Range(Launch(g)) : /\ e.op \in {"create", "spawn"}
                                        /\ Claims(e) \subseteq Under[g]
         /\ \A y \in Under[g] : y # g =>
              \E e \in Range(Launch(g)) : e.op = "create" /\ y \in Covers(e)
<1>1. g \in Item /\ Inside[g] \subseteq Item /\ Parts(g) = Inside[g]
  BY GraphAssumption, NestingAssumption DEF Item, Parts
<1>2. /\ g \in Under[g]
      /\ \A x \in Inside[g] : /\ Under[x] \subseteq Under[g] /\ x \in Under[x]
                              /\ g \notin Under[x]
      /\ \A x, y \in Inside[g] : x # y => Under[x] \cap Under[y] = {}
  <2>1. g \in Under[g] /\ \A x \in Inside[g] : Under[x] \subseteq Under[g] /\ x \in Under[x]
    BY <1>1, UnderPart, UnderFacts
  <2>2. \A x \in Inside[g] : g \notin Under[x]
    BY <1>1, NestingAssumption
  <2>3. \A x, y \in Inside[g] : x # y => Under[x] \cap Under[y] = {}
    BY <1>1, PartsApart
  <2>4. QED
    BY <2>1, <2>2, <2>3
<1>3. PICK d, one : d = {} /\ one = {g}
  OBVIOUS
<1>4. PICK c : c = [op |-> "create", on |-> Inside[g], data |-> d]
  OBVIOUS
<1>5. PICK s : s = [op |-> "spawn", on |-> one, data |-> d]
  OBVIOUS
<1>6. /\ Covers(c) = UNION {Under[x] : x \in Inside[g]} /\ Claims(c) = Covers(c)
      /\ Covers(s) = {g} /\ Claims(s) = Under[g]
  BY <1>2, <1>3, <1>4, <1>5 DEF Covers, Claims
<1>7. Claims(c) \subseteq Under[g] /\ Claims(s) \subseteq Under[g]
  BY <1>2, <1>6
<1>8. c \in Entry /\ s \in Entry
  <2>1. Inside[g] \in SUBSET Thing /\ one \in SUBSET Thing /\ d \in SUBSET Process
    BY <1>1, <1>3 DEF Thing
  <2>2. "create" \in Op /\ "spawn" \in Op
    BY DEF Op, LaunchOp
  <2>3. QED
    BY <1>4, <1>5, <2>1, <2>2 DEF Entry
<1>9. Inside[g] # {} => c \in EntryOf(UserThread)
  BY <1>1, <1>2, <1>4, <1>6, <1>7, <1>8 DEF EntryOf
<1>10. s \in EntryOf(UserThread)
  <2>1. Covers(s) \subseteq Under[Outer]
    BY <1>2, <1>6
  <2>2. s.op = "spawn" /\ s.on = {g}
    BY <1>3, <1>5
  <2>3. QED
    BY <1>8, <2>1, <2>2 DEF EntryOf
<1>11. /\ LoopOn("create", Inside[g], d) \in Seq(EntryOf(UserThread))
       /\ Sorted(LoopOn("create", Inside[g], d), Order)
       /\ Range(LoopOn("create", Inside[g], d)) = IF Inside[g] = {} THEN {} ELSE {c}
  <2>1. "create" \in Op
    BY DEF Op, LaunchOp
  <2>2. PICK on : on = Inside[g]
    OBVIOUS
  <2>3. on # {} => [op |-> "create", on |-> on, data |-> d] \in EntryOf(UserThread)
    BY <1>4, <1>9, <2>2
  <2>4. /\ LoopOn("create", on, d) \in Seq(EntryOf(UserThread))
        /\ Sorted(LoopOn("create", on, d), Order)
        /\ Range(LoopOn("create", on, d)) =
             IF on = {} THEN {} ELSE {[op |-> "create", on |-> on, data |-> d]}
    BY <2>1, <2>3, LoopFacts
  <2>5. QED
    BY <1>4, <2>2, <2>4
<1>12. /\ LoopOn("spawn", one, d) \in Seq(EntryOf(UserThread))
       /\ Sorted(LoopOn("spawn", one, d), Order)
       /\ Range(LoopOn("spawn", one, d)) = {s}
  <2>1. "spawn" \in Op
    BY DEF Op, LaunchOp
  <2>2. /\ LoopOn("spawn", one, d) \in Seq(EntryOf(UserThread))
        /\ Sorted(LoopOn("spawn", one, d), Order)
        /\ Range(LoopOn("spawn", one, d)) = IF one = {} THEN {} ELSE {s}
    BY <1>5, <1>10, <2>1, LoopFacts
  <2>3. QED
    BY <1>3, <2>2
<1>13. PICK a, b : a = LoopOn("create", Inside[g], d) /\ b = LoopOn("spawn", one, d)
  OBVIOUS
<1>14. Cross(a, b, Order)
  <2>1. MayPrecede(c, s)
    BY <1>2, <1>4, <1>5, <1>6 DEF MayPrecede, Rank, Op, LaunchOp
  <2>2. QED
    BY <1>8, <1>11, <1>12, <1>13, <2>1 DEF Cross, Order
<1>15. /\ a \o b \in Seq(EntryOf(UserThread)) /\ Sorted(a \o b, Order)
       /\ Range(a \o b) = Range(a) \cup Range(b)
  <2>1. a \in Seq(EntryOf(UserThread)) /\ b \in Seq(EntryOf(UserThread))
    BY <1>11, <1>12, <1>13
  <2>2. Sorted(a, Order) /\ Sorted(b, Order)
    BY <1>11, <1>12, <1>13
  <2>3. QED
    BY <1>14, <2>1, <2>2, ConcatFacts
<1>16. Launch(g) = a \o b
  BY <1>3, <1>13 DEF Launch, Loop
<1>17. ASSUME NEW y \in Under[g], y # g
       PROVE  c \in Range(a) /\ y \in Covers(c)
  <2> DEFINE S == {g} \cup UNION {Under[x] : x \in Inside[g]}
  <2>1. S \in SUBSET Item /\ g \in S
    BY <1>1, UnderFacts
  <2>2. \A z \in S : Parts(z) \subseteq S
    BY <1>1, <1>2, UnderFacts
  <2>3. y \in S
    BY <1>1, <2>1, <2>2, UnderLeast
  <2>4. Inside[g] # {} /\ y \in Covers(c)
    BY <1>6, <1>17, <2>3
  <2>5. QED
    BY <1>11, <1>13, <2>4
<1>18. \A e \in Range(a \o b) : e \in {c, s} /\ e.op \in {"create", "spawn"} /\ Claims(e) \subseteq Under[g]
  BY <1>4, <1>5, <1>7, <1>11, <1>12, <1>13, <1>15
<1>19. \A y \in Under[g] : y # g => \E e \in Range(a \o b) : e.op = "create" /\ y \in Covers(e)
  BY <1>4, <1>15, <1>17
<1>20. QED
  BY <1>15, <1>16, <1>18, <1>19

\* The user thread goes on with the launch.
LEMMA LaunchStep ==
  ASSUME PipelineInv, NEW t \in Process, agenda[t] # <<>>,
         NEW h, h = Head(agenda[t]), NEW n \in h.on, h.op \in LaunchOp,
         NEW more \in Seq(EntryOf(t)), Sorted(more, Order),
         \A a \in Range(more) : a.op \in LaunchOp,
         \A a \in Range(more), b \in Range(Tail(agenda[t])) \cup Cut(h, n) : MayPrecede(a, b),
         After(t, n, more), pc' = pc
  PROVE  /\ t = UserThread
         /\ agenda' \in [Process -> Seq(Entry)]
         /\ Range(agenda'[t]) = Range(more) \cup Range(Tail(agenda[t])) \cup Cut(h, n)
         /\ \A s \in Process : \A e : e.op \notin LaunchOp =>
              (e \in Range(agenda'[s]) <=> e \in Range(agenda[s]))
         /\ \A s \in Process : Ending(s)' <=> Ending(s)
         /\ AgendaInv' /\ UserInv' /\ EndInv' /\ JoinInv'
<1>1. h \in EntryOf(t) /\ pc[t] = "run"
  BY HeadFacts
<1>2. t = UserThread
  BY <1>1 DEF EntryOf
<1>3. /\ agenda' \in [Process -> Seq(Entry)]
      /\ \A s \in Process : s # t => agenda'[s] = agenda[s]
      /\ \A s \in Process : agenda'[s] \in Seq(EntryOf(s)) /\ Sorted(agenda'[s], Order)
      /\ Range(agenda'[t]) = Range(more) \cup Range(Tail(agenda[t])) \cup Cut(h, n)
  BY HandleFacts
<1>4. \A s \in Process : \A e : e.op \notin LaunchOp =>
        (e \in Range(agenda'[s]) <=> e \in Range(agenda[s]))
  <2>1. Range(agenda[t]) = {h} \cup Range(Tail(agenda[t]))
    BY HeadFacts
  <2>2. \A b \in Cut(h, n) : b.op = h.op
    BY HeadFacts
  <2>3. QED
    BY <1>3, <2>1, <2>2
<1>5. AgendaInv'
  BY <1>1, <1>3 DEF PipelineInv, AgendaInv
<1>6. \A s \in Process : Ending(s)' <=> Ending(s)
  <2>1. \A s \in Process : \A e : e.op = "return" =>
          (e \in Range(agenda'[s]) <=> e \in Range(agenda[s]))
    BY <1>4 DEF LaunchOp
  <2>2. QED
    BY <2>1, EndFrame
<1>7. EndInv'
  BY <1>2, <1>3, ThreadFacts DEF PipelineInv, EndInv, Entries
<1>8. JoinInv'
  <2> SUFFICES ASSUME NEW s \in Process
               PROVE  ((s[1] \in Pipeline /\ Ending(s)) \/ s = UserThread =>
                        \E D \in SUBSET Graph : JoinedSoFar(s, D))'
    BY DEF JoinInv
  <2>1. \A e : e.op = "join" => (e \in Range(agenda[s]) => e \in Range(agenda'[s]))
    BY <1>4 DEF LaunchOp
  <2>2. QED
    BY <1>6, <2>1, JoinFrame
<1>9. UserInv'
  BY DEF PipelineInv, UserInv
<1>10. QED
  BY <1>2, <1>3, <1>4, <1>5, <1>6, <1>7, <1>8, <1>9

\* FlattenFacts for a sequence that is given as a function.
LEMMA FlattenOf ==
  ASSUME NEW E, NEW R, NEW N \in Nat, NEW ss \in [1 .. N -> Seq(E)],
         \A i \in 1 .. N : Sorted(ss[i], R),
         \A i, j \in 1 .. N : i < j => Cross(ss[i], ss[j], R)
  PROVE  /\ FlattenSeq(ss) \in Seq(E)
         /\ \A e : e \in Range(FlattenSeq(ss)) <=> \E i \in 1 .. N : e \in Range(ss[i])
         /\ Sorted(FlattenSeq(ss), R)
<1>1. ss \in Seq(Seq(E)) /\ DOMAIN ss = 1 .. N
  BY SeqDef
<1>2. /\ FlattenSeq(ss) \in Seq(E)
      /\ Range(FlattenSeq(ss)) = UNION {Range(ss[i]) : i \in DOMAIN ss}
      /\ Sorted(FlattenSeq(ss), R)
  BY <1>1, FlattenFacts
<1>3. QED
  BY <1>1, <1>2

LEMMA CopiesOf ==
  ASSUME NEW p \in Pipeline
  PROVE  /\ p \in Item /\ Len(Copies[p]) \in Nat /\ DOMAIN Copies[p] = 1 .. Len(Copies[p])
         /\ \A i \in DOMAIN Copies[p] : /\ Copies[p][i] \in Graph
                                        /\ Copies[p][i] \in Parts(p)
                                        /\ Under[Copies[p][i]] \subseteq Under[p]
         /\ \A i, j \in DOMAIN Copies[p] : i # j =>
              Under[Copies[p][i]] \cap Under[Copies[p][j]] = {}
         /\ Parts(p) = {Copies[p][i] : i \in DOMAIN Copies[p]}
<1>1. Copies[p] \in Seq(Graph) /\ p \in Item
  BY GraphAssumption DEF Item
<1>2. Parts(p) = Range(Copies[p])
  BY NestingAssumption DEF Parts
<1>3. Parts(p) = {Copies[p][i] : i \in DOMAIN Copies[p]}
  BY <1>1, <1>2, RangeOf
<1>4. \A i \in DOMAIN Copies[p] : Copies[p][i] \in Graph /\ Copies[p][i] \in Parts(p)
  BY <1>1, <1>3
<1>5. \A i \in DOMAIN Copies[p] : Under[Copies[p][i]] \subseteq Under[p]
  BY <1>1, <1>4, UnderPart
<1>6. \A i, j \in DOMAIN Copies[p] : i # j =>
        Under[Copies[p][i]] \cap Under[Copies[p][j]] = {}
  <2>1. \A i, j \in DOMAIN Copies[p] : i # j => Copies[p][i] # Copies[p][j]
    BY NestingAssumption
  <2>2. QED
    BY <1>1, <1>4, <2>1, PartsApart
<1>7. QED
  BY <1>1, <1>3, <1>4, <1>5, <1>6

\* What the creation of n leaves to do: it claims nothing outside n, and it
\* comes before all threads in n but the representatives.
CreateMore(n) ==
  CASE n \in Graph -> Launch(n)
    [] n \in Pipeline ->
         FlattenSeq([i \in DOMAIN Copies[n] |-> Launch(Copies[n][i])])
    [] n \in Task ->
         FlattenSeq([i \in 1 .. NumberThreads[n] - 1 |->
                       Loop("copy", {<<n, i>>})])

LEMMA CreateGraph ==
  ASSUME NEW n \in Graph, Under[n] \subseteq Under[Outer]
  PROVE  /\ CreateMore(n) \in Seq(EntryOf(UserThread)) /\ Sorted(CreateMore(n), Order)
         /\ \A e \in Range(CreateMore(n)) : /\ e.op \in {"create", "spawn", "copy"}
                                            /\ Claims(e) \subseteq Under[n]
         /\ \A c \in Thread : c[1] \in Under[n] /\ c[2] # 0 =>
              \E e \in Range(CreateMore(n)) : Awaits(e, c)
<1>1. CreateMore(n) = Launch(n)
  BY NestingAssumption DEF CreateMore
<1>2. \A c \in Thread : c[1] # n
  BY ThreadFacts, NestingAssumption
<1>3. QED
  BY <1>1, <1>2, LaunchFacts DEF Awaits

LEMMA CreatePipeline ==
  ASSUME NEW n \in Pipeline, Under[n] \subseteq Under[Outer]
  PROVE  /\ CreateMore(n) \in Seq(EntryOf(UserThread)) /\ Sorted(CreateMore(n), Order)
         /\ \A e \in Range(CreateMore(n)) : /\ e.op \in {"create", "spawn", "copy"}
                                            /\ Claims(e) \subseteq Under[n]
         /\ \A c \in Thread : c[1] \in Under[n] /\ c[2] # 0 =>
              \E e \in Range(CreateMore(n)) : Awaits(e, c)
<1>1. PICK ss : ss = [i \in DOMAIN Copies[n] |-> Launch(Copies[n][i])]
  OBVIOUS
<1>2. CreateMore(n) = FlattenSeq(ss)
  BY <1>1, NestingAssumption DEF CreateMore
<1>3. PICK N \in Nat : DOMAIN Copies[n] = 1 .. N
  BY CopiesOf
<1>4. ASSUME NEW i \in 1 .. N
      PROVE  /\ ss[i] = Launch(Copies[n][i]) /\ Copies[n][i] \in Graph
             /\ Under[Copies[n][i]] \subseteq Under[n]
             /\ ss[i] \in Seq(EntryOf(UserThread)) /\ Sorted(ss[i], Order)
             /\ \A e \in Range(ss[i]) : /\ e.op \in {"create", "spawn"}
                                        /\ Claims(e) \subseteq Under[Copies[n][i]]
             /\ \A y \in Under[Copies[n][i]] : y # Copies[n][i] =>
                  \E e \in Range(ss[i]) : e.op = "create" /\ y \in Covers(e)
  <2>1. PICK g : g = Copies[n][i]
    OBVIOUS
  <2>2. g \in Graph /\ Under[g] \subseteq Under[n] /\ Under[g] \subseteq Under[Outer]
    BY <1>3, <2>1, CopiesOf
  <2>3. /\ Launch(g) \in Seq(EntryOf(UserThread)) /\ Sorted(Launch(g), Order)
        /\ \A e \in Range(Launch(g)) : /\ e.op \in {"create", "spawn"}
                                       /\ Claims(e) \subseteq Under[g]
        /\ \A y \in Under[g] : y # g =>
             \E e \in Range(Launch(g)) : e.op = "create" /\ y \in Covers(e)
    BY <2>2, LaunchFacts
  <2>4. ss[i] = Launch(g)
    BY <1>1, <1>3, <2>1
  <2>5. QED
    BY <2>1, <2>2, <2>3, <2>4
<1>5. ss \in [1 .. N -> Seq(EntryOf(UserThread))]
  <2>1. ss = [i \in 1 .. N |-> ss[i]]
    BY <1>1, <1>3
  <2>2. QED
    BY <1>4, <2>1
<1>6. ASSUME NEW i \in 1 .. N, NEW j \in 1 .. N, i < j
      PROVE  Cross(ss[i], ss[j], Order)
  <2> SUFFICES ASSUME NEW a \in Range(ss[i]), NEW b \in Range(ss[j])
               PROVE  <<a, b>> \in Order
    BY DEF Cross
  <2>1. a \in Entry /\ b \in Entry
    <3>1. a \in EntryOf(UserThread) /\ b \in EntryOf(UserThread)
      BY <1>4, RangeOf
    <3>2. QED
      BY <3>1 DEF EntryOf
  <2>2. Under[Copies[n][i]] \cap Under[Copies[n][j]] = {}
    <3>1. i \in DOMAIN Copies[n] /\ j \in DOMAIN Copies[n] /\ i # j
      BY <1>3, <1>6
    <3>2. QED
      BY <3>1, CopiesOf
  <2>3. Claims(a) \subseteq Under[Copies[n][i]] /\ Covers(b) \subseteq Under[Copies[n][j]]
    BY <1>4 DEF Claims
  <2>4. Claims(a) \cap Covers(b) = {}
    BY <2>2, <2>3
  <2>5. a.op \in {"create", "spawn"} /\ b.op \in {"create", "spawn"}
    BY <1>4
  <2>6. MayPrecede(a, b)
    BY <2>4, <2>5 DEF MayPrecede, Rank, Op, LaunchOp
  <2>7. QED
    BY <2>1, <2>6 DEF Order
<1>7. /\ FlattenSeq(ss) \in Seq(EntryOf(UserThread)) /\ Sorted(FlattenSeq(ss), Order)
      /\ \A e : e \in Range(FlattenSeq(ss)) <=> \E i \in 1 .. N : e \in Range(ss[i])
  <2>1. \A i \in 1 .. N : Sorted(ss[i], Order)
    BY <1>4
  <2>2. QED
    BY <1>5, <1>6, <2>1, FlattenOf
<1>8. ASSUME NEW c \in Thread, c[1] \in Under[n], c[2] # 0
      PROVE  \E e \in Range(FlattenSeq(ss)) : Awaits(e, c)
  <2>1. c[1] \in Task \cup Pipeline /\ c \in ThreadsOf(c[1])
    BY ThreadFacts
  <2>2. c[1] # n
    BY <1>8, <2>1, NestingAssumption DEF ThreadsOf
  <2>3. PICK i \in 1 .. N : c[1] \in Under[Copies[n][i]]
    <3> DEFINE S == {n} \cup UNION {Under[Copies[n][i]] : i \in 1 .. N}
    <3>1. n \in Item /\ Parts(n) = {Copies[n][i] : i \in 1 .. N}
          /\ \A i \in 1 .. N : Copies[n][i] \in Item
      BY <1>3, <1>4, CopiesOf DEF Item
    <3>2. S \in SUBSET Item /\ n \in S
      BY <3>1, UnderFacts
    <3>3. \A z \in S : Parts(z) \subseteq S
      BY <3>1, UnderFacts
    <3>4. PICK closed : closed = S
      OBVIOUS
    <3>5. closed \in SUBSET Item /\ n \in closed /\ \A z \in closed : Parts(z) \subseteq closed
      BY <3>2, <3>3, <3>4
    <3>6. Under[n] \subseteq closed
      BY <3>1, <3>5, UnderLeast
    <3>7. QED
      BY <1>8, <2>2, <3>4, <3>6
  <2>4. c[1] # Copies[n][i]
    BY <1>4, <2>1, NestingAssumption
  <2>5. PICK e \in Range(ss[i]) : e.op = "create" /\ c[1] \in Covers(e)
    BY <1>4, <2>3, <2>4
  <2>6. QED
    BY <1>7, <2>5 DEF Awaits
<1>9. \A e \in Range(FlattenSeq(ss)) : /\ e.op \in {"create", "spawn", "copy"}
                                       /\ Claims(e) \subseteq Under[n]
  BY <1>4, <1>7
<1>10. QED
  BY <1>2, <1>7, <1>8, <1>9

LEMMA CreateTask ==
  ASSUME NEW n \in Task, Under[n] \subseteq Under[Outer]
  PROVE  /\ CreateMore(n) \in Seq(EntryOf(UserThread)) /\ Sorted(CreateMore(n), Order)
         /\ \A e \in Range(CreateMore(n)) : /\ e.op \in {"create", "spawn", "copy"}
                                            /\ Claims(e) \subseteq Under[n]
         /\ \A c \in Thread : c[1] \in Under[n] /\ c[2] # 0 =>
              \E e \in Range(CreateMore(n)) : Awaits(e, c)
<1>0. n \in Item /\ n \in Under[n] /\ n \notin Graph /\ n \notin Pipeline
  BY UnderFacts, NestingAssumption DEF Item
<1>1. PICK ss : ss = [i \in 1 .. NumberThreads[n] - 1 |-> Loop("copy", {<<n, i>>})]
  OBVIOUS
<1>2. CreateMore(n) = FlattenSeq(ss)
  BY <1>0, <1>1 DEF CreateMore
<1>3. PICK N \in Nat : N = NumberThreads[n] - 1
  <2>1. NumberThreads[n] \in Nat \ {0}
    BY GraphAssumption
  <2>2. NumberThreads[n] - 1 \in Nat
    BY <2>1
  <2>3. QED
    BY <2>2
<1>4. ASSUME NEW i \in 1 .. N
      PROVE  /\ ss[i] \in Seq(EntryOf(UserThread)) /\ Sorted(ss[i], Order)
             /\ \A e \in Range(ss[i]) : /\ e \in EntryOf(UserThread) /\ e.op = "copy"
                                        /\ Claims(e) = {n} /\ Covers(e) = {n}
             /\ \E e \in Range(ss[i]) : e.op = "copy" /\ <<n, i>> \in e.on
  <2>1. PICK c, on, d : c = <<n, i>> /\ on = {c} /\ d = {}
    OBVIOUS
  <2>2. PICK e : e = [op |-> "copy", on |-> on, data |-> d]
    OBVIOUS
  <2>3. c \in Thread \ Representative
    <3>1. i \in 0 .. NumberThreads[n] - 1 /\ i # 0
      BY <1>3
    <3>2. c \in ThreadsOf(n)
      BY <2>1, <3>1 DEF ThreadsOf
    <3>3. QED
      BY <2>1, <3>1, <3>2 DEF Thread, Representative
  <2>4. Covers(e) = {n} /\ Claims(e) = {n}
    BY <2>1, <2>2 DEF Covers, Claims
  <2>5. "copy" \in Op /\ e \in Entry
    BY <2>1, <2>2, <2>3, ThreadFacts DEF Entry, Op, LaunchOp, Thing
  <2>6. e \in EntryOf(UserThread)
    BY <1>0, <2>1, <2>2, <2>3, <2>4, <2>5 DEF EntryOf
  <2>7. /\ LoopOn("copy", on, d) \in Seq(EntryOf(UserThread))
        /\ Sorted(LoopOn("copy", on, d), Order)
        /\ Range(LoopOn("copy", on, d)) = IF on = {} THEN {} ELSE {e}
    <3>1. [op |-> "copy", on |-> on, data |-> d] \in EntryOf(UserThread)
      BY <2>2, <2>6
    <3>2. /\ LoopOn("copy", on, d) \in Seq(EntryOf(UserThread))
          /\ Sorted(LoopOn("copy", on, d), Order)
          /\ Range(LoopOn("copy", on, d)) =
               IF on = {} THEN {} ELSE {[op |-> "copy", on |-> on, data |-> d]}
      BY <2>5, <3>1, LoopFacts
    <3>3. QED
      BY <2>2, <3>2
  <2>8. ss[i] = LoopOn("copy", on, d)
    BY <1>1, <1>3, <2>1 DEF Loop
  <2>9. on # {} /\ e.op = "copy" /\ <<n, i>> \in e.on
    BY <2>1, <2>2
  <2>10. Range(ss[i]) = {e}
    BY <2>7, <2>8, <2>9
  <2>11. QED
    BY <2>4, <2>6, <2>7, <2>8, <2>9, <2>10
<1>5. ss \in [1 .. N -> Seq(EntryOf(UserThread))]
  <2>1. ss = [i \in 1 .. N |-> ss[i]]
    BY <1>1, <1>3
  <2>2. QED
    BY <1>4, <2>1
<1>6. ASSUME NEW i \in 1 .. N, NEW j \in 1 .. N, i < j
      PROVE  Cross(ss[i], ss[j], Order)
  <2> SUFFICES ASSUME NEW a \in Range(ss[i]), NEW b \in Range(ss[j])
               PROVE  <<a, b>> \in Order
    BY DEF Cross
  <2>1. a \in EntryOf(UserThread) /\ b \in EntryOf(UserThread) /\ a.op = "copy" /\ b.op = "copy"
    BY <1>4
  <2>2. a \in Entry /\ b \in Entry
    BY <2>1 DEF EntryOf
  <2>3. MayPrecede(a, b)
    BY <2>1 DEF MayPrecede, Rank, Op, LaunchOp
  <2>4. QED
    BY <2>2, <2>3 DEF Order
<1>7. /\ FlattenSeq(ss) \in Seq(EntryOf(UserThread)) /\ Sorted(FlattenSeq(ss), Order)
      /\ \A e : e \in Range(FlattenSeq(ss)) <=> \E i \in 1 .. N : e \in Range(ss[i])
  <2>1. \A i \in 1 .. N : Sorted(ss[i], Order)
    BY <1>4
  <2>2. QED
    BY <1>5, <1>6, <2>1, FlattenOf
<1>8. ASSUME NEW c \in Thread, c[1] \in Under[n], c[2] # 0
      PROVE  \E e \in Range(FlattenSeq(ss)) : Awaits(e, c)
  <2>1. Parts(n) = {}
    BY <1>0 DEF Parts
  <2>2. c[1] = n
    <3>1. PICK S : S = {n}
      OBVIOUS
    <3>2. S \in SUBSET Item /\ n \in S /\ \A z \in S : Parts(z) \subseteq S
      BY <1>0, <2>1, <3>1
    <3>3. c[1] \in S
      BY <1>0, <1>8, <3>2, UnderLeast
    <3>4. QED
      BY <3>1, <3>3
  <2>3. c \in ThreadsOf(n) /\ c = <<n, c[2]>>
    BY <2>2, ThreadFacts
  <2>4. c[2] \in 1 .. N
    <3>1. c[2] \in 0 .. NumberThreads[n] - 1
      BY <2>3 DEF ThreadsOf
    <3>2. QED
      BY <1>3, <1>8, <3>1
  <2>5. PICK e \in Range(ss[c[2]]) : e.op = "copy" /\ <<n, c[2]>> \in e.on
    BY <1>4, <2>4
  <2>6. QED
    BY <1>7, <2>3, <2>4, <2>5 DEF Awaits
<1>9. ASSUME NEW e \in Range(FlattenSeq(ss))
      PROVE  e.op \in {"create", "spawn", "copy"} /\ Claims(e) \subseteq Under[n]
  <2>1. PICK i \in 1 .. N : e \in Range(ss[i])
    BY <1>7
  <2>2. e.op = "copy" /\ Claims(e) = {n}
    BY <1>4, <2>1
  <2>3. QED
    BY <1>0, <2>2
<1>10. QED
  BY <1>2, <1>7, <1>8, <1>9

LEMMA CreateInnerStep ==
  ASSUME PipelineInv, NEW t \in Process, NEW n, CreateInner(t, n)
  PROVE  PipelineInv' /\ Calm
<1>0. PICK h : h = Head(agenda[t])
  OBVIOUS
<1>1. PICK more : more = CreateMore(n)
  OBVIOUS
<1>2. /\ agenda[t] # <<>> /\ n \in h.on /\ h.op = "create" /\ After(t, n, more)
      /\ UNCHANGED <<notifiers, slots, queue, pc, executed>>
  BY <1>0, <1>1 DEF CreateInner, At, CreateMore
<1>3. h.op \in LaunchOp
  BY <1>2 DEF LaunchOp
<1>4. /\ h \in EntryOf(t) /\ h \in Range(agenda[t])
      /\ Range(agenda[t]) = {h} \cup Range(Tail(agenda[t]))
      /\ \A b \in Range(Tail(agenda[t])) : MayPrecede(h, b)
  <2>1. /\ h \in EntryOf(t) /\ h \in Range(agenda[t])
        /\ Range(agenda[t]) = {h} \cup Range(Tail(agenda[t]))
        /\ \A b \in Range(Tail(agenda[t])) : b \in EntryOf(t) /\ MayPrecede(h, b)
    BY <1>0, <1>2, HeadFacts
  <2>2. QED
    BY <2>1
<1>5. \A b \in Cut(h, n) : b.op = h.op /\ b.on = h.on \ {n}
  <2>1. \A m \in h.on : \A b \in Cut(h, m) :
          /\ b \in EntryOf(t) /\ b.op = h.op /\ b.data = h.data /\ b.on = h.on \ {m}
          /\ h.op \notin {"copy", "reconnect", "return"}
    BY <1>0, <1>2, HeadFacts
  <2>2. QED
    BY <1>2, <2>1
<1>6. /\ t = UserThread /\ n \in Item
      /\ Covers(h) = UNION {Under[x] : x \in h.on} /\ Covers(h) \subseteq Under[Outer]
      /\ \A x \in h.on : x # n => Under[x] \cap Under[n] = {}
  <2>1. Covers(h) = UNION {Under[x] : x \in h.on}
    BY <1>2 DEF Covers
  <2>2. QED
    BY <1>2, <1>3, <1>4, <2>1 DEF EntryOf
<1>7. Under[n] \subseteq Covers(h) /\ Under[n] \subseteq Under[Outer]
  BY <1>2, <1>6
<1>8. /\ more \in Seq(EntryOf(UserThread)) /\ Sorted(more, Order)
      /\ \A e \in Range(more) : e.op \in {"create", "spawn", "copy"} /\ Claims(e) \subseteq Under[n]
      /\ \A c \in Thread : c[1] \in Under[n] /\ c[2] # 0 => \E e \in Range(more) : Awaits(e, c)
  <2>1. CASE n \in Graph
    BY <1>1, <1>7, <2>1, CreateGraph
  <2>2. CASE n \in Pipeline
    BY <1>1, <1>7, <2>2, CreatePipeline
  <2>3. CASE n \in Task
    BY <1>1, <1>7, <2>3, CreateTask
  <2>4. QED
    BY <1>6, <2>1, <2>2, <2>3 DEF Item
<1>9. \A a \in Range(more) : a.op \in LaunchOp
  BY <1>8 DEF LaunchOp
<1>10. ASSUME NEW a \in Range(more), NEW b \in Range(Tail(agenda[t])) \cup Cut(h, n)
       PROVE  MayPrecede(a, b)
  <2>1. b \in Entry
    <3>1. b \in Range(Tail(agenda[t])) => b \in EntryOf(t)
      BY <1>0, <1>2, HeadFacts
    <3>2. b \in Cut(h, n) => b \in EntryOf(t)
      BY <1>0, <1>2, HeadFacts
    <3>3. QED
      BY <3>1, <3>2 DEF EntryOf
  <2>2. Under[n] \cap Covers(b) = {}
    <3>1. CASE b \in Range(Tail(agenda[t]))
      <4>1. Claims(h) \cap Covers(b) = {}
        BY <1>2, <1>4, <3>1 DEF MayPrecede
      <4>2. QED
        BY <1>7, <4>1 DEF Claims
    <3>2. CASE b \in Cut(h, n)
      <4>1. Covers(b) = UNION {Under[x] : x \in h.on \ {n}}
        BY <1>2, <1>5, <3>2 DEF Covers
      <4>2. QED
        BY <1>6, <4>1
    <3>3. QED
      BY <3>1, <3>2
  <2>3. a.op \in LaunchOp /\ a.op # "return" /\ Claims(a) \cap Covers(b) = {}
    BY <1>8, <1>9, <2>2
  <2>4. Rank[a.op] <= Rank[b.op]
    <3>1. Rank[a.op] = 1 /\ Rank[b.op] \in 1 .. 5
      BY <2>1, <2>3, RankFacts DEF Entry
    <3>2. QED
      BY <3>1
  <2>5. QED
    BY <2>3, <2>4 DEF MayPrecede
<1>11. /\ agenda' \in [Process -> Seq(Entry)]
       /\ Range(agenda'[t]) = Range(more) \cup Range(Tail(agenda[t])) \cup Cut(h, n)
       /\ \A s \in Process : \A e : e.op \notin LaunchOp =>
            (e \in Range(agenda'[s]) <=> e \in Range(agenda[s]))
       /\ \A s \in Process : Ending(s)' <=> Ending(s)
       /\ AgendaInv' /\ UserInv' /\ EndInv' /\ JoinInv'
  <2>1. more \in Seq(EntryOf(t)) /\ Sorted(more, Order) /\ pc' = pc
    BY <1>2, <1>6, <1>8
  <2>2. QED
    BY <1>0, <1>2, <1>3, <1>9, <1>10, <2>1, LaunchStep
<1>12. TypeOK'
  BY <1>2, <1>11 DEF PipelineInv, TypeOK
<1>13. WiredInv'
  BY <1>2 DEF PipelineInv, WiredInv
<1>14. LaunchInv'
  <2> SUFFICES ASSUME NEW e \in Range(agenda'[UserThread])
               PROVE  /\ e.op \in LaunchOp => \A m \in Starts(e) : \A s \in ThreadsOf(m) : pc[s] = "idle"
                      /\ e.op = "reconnect" => \A c \in e.on, q \in e.data : c[1] \in slots[q]
    BY <1>2 DEF LaunchInv, Entries
  <2>1. \A m \in Starts(h) : \A s \in ThreadsOf(m) : pc[s] = "idle"
    BY <1>3, <1>4, <1>6 DEF PipelineInv, LaunchInv, Entries
  <2>2. CASE e \in Range(Tail(agenda[t]))
    BY <1>4, <1>6, <2>2 DEF PipelineInv, LaunchInv, Entries
  <2>3. CASE e \in Cut(h, n)
    <3>1. Starts(e) \subseteq Starts(h)
      BY <1>5, <2>3, CoversOfEntry
    <3>2. QED
      BY <1>2, <1>5, <2>1, <2>3, <3>1
  <2>4. CASE e \in Range(more)
    <3>1. e.op \in {"create", "spawn", "copy"} /\ Claims(e) \subseteq Under[n]
      BY <1>8, <2>4
    <3>2. Starts(e) \subseteq Claims(e) \ Graph
      <4>1. CASE e.op = "spawn"
        <5>1. e.on \subseteq Graph
          BY <1>8, <2>4, <4>1, RangeOf DEF EntryOf
        <5>2. \A g \in e.on : g \in Item /\ Parts(g) = Inside[g]
          BY <5>1, NestingAssumption DEF Parts, Item
        <5>3. \A g \in e.on : Inside[g] \subseteq Under[g]
          BY <5>2, UnderFacts
        <5>4. QED
          BY <4>1, <5>3 DEF Starts, Claims
      <4>2. CASE e.op # "spawn"
        BY <4>2 DEF Starts, Claims
      <4>3. QED
        BY <4>1, <4>2
    <3>3. Starts(h) = Covers(h) \ Graph
      BY <1>2 DEF Starts
    <3>4. Starts(e) \subseteq Starts(h)
      BY <1>7, <3>1, <3>2, <3>3
    <3>5. QED
      BY <2>1, <3>1, <3>4
  <2>5. QED
    BY <1>6, <1>11, <2>2, <2>3, <2>4
<1>15. CopyInv'
  <2> SUFFICES ASSUME NEW c \in Thread, slots[c] # Downstream(c[1]), c[1] \in Under[Outer]
               PROVE  \E e \in Range(agenda'[UserThread]) : Awaits(e, c)
    BY <1>2 DEF PipelineInv, CopyInv, Entries
  <2>1. \E e \in Range(agenda[UserThread]) : Awaits(e, c)
    BY DEF PipelineInv, CopyInv, Entries
  <2>2. PICK e \in Range(agenda[t]) : Awaits(e, c)
    BY <1>6, <2>1
  <2>3. c[2] # 0
    BY ThreadFacts DEF PipelineInv, WiredInv
  <2>4. CASE e # h
    BY <1>4, <1>6, <1>11, <2>1, <2>2, <2>4
  <2>5. CASE e = h /\ c[1] \in Under[n]
    BY <1>6, <1>8, <1>11, <2>1, <2>3, <2>5
  <2>6. CASE e = h /\ c[1] \notin Under[n]
    <3>1. PICK x \in h.on : c[1] \in Under[x] /\ x # n
      BY <1>2, <1>6, <2>2, <2>6 DEF Awaits
    <3>2. PICK b : b \in Cut(h, n)
      BY <3>1 DEF Cut
    <3>3. Covers(b) = UNION {Under[y] : y \in h.on \ {n}} /\ b.op = "create"
      BY <1>2, <1>5, <3>2 DEF Covers
    <3>4. Awaits(b, c)
      BY <3>1, <3>3 DEF Awaits
    <3>5. QED
      BY <1>6, <1>11, <2>1, <3>2, <3>4
  <2>7. QED
    BY <2>4, <2>5, <2>6
<1>16. RegisteredInv'
  BY <1>2, <1>11, ThreadFacts DEF PipelineInv, RegisteredInv
<1>17. SendInv'
  BY <1>2, <1>11 DEF PipelineInv, SendInv, Entries, LaunchOp
<1>18. DrainInv'
  BY <1>2, <1>11, ThreadFacts DEF PipelineInv, DrainInv
<1>19. Calm
  <2>1. StillLeaves /\ NobodyEnds
    BY <1>11 DEF StillLeaves, NobodyEnds, Entries, LaunchOp
  <2>2. Launching
    BY <1>3, <1>4, <1>6 DEF Launching, Entries
  <2>3. QED
    BY <2>1, <2>2 DEF Calm
<1>20. QED
  BY <1>11, <1>12, <1>13, <1>14, <1>15, <1>16, <1>17, <1>18, <1>19 DEF PipelineInv

\* The entries by which a copy is connected.
LEMMA CopyEntry ==
  ASSUME NEW e, e.op \in {"copy", "reconnect"}, NEW c, e.on = {c}
  PROVE  Covers(e) = {c[1]} /\ Claims(e) = {c[1]} /\ Starts(e) = {c[1]} \ Graph
<1>1. Covers(e) = {c[1]}
  BY DEF Covers
<1>2. QED
  BY <1>1 DEF Claims, Starts

LEMMA ConnectFacts ==
  ASSUME PipelineInv, NEW t \in Process, agenda[t] # <<>>,
         NEW h, h = Head(agenda[t]), NEW c \in h.on, h.op \in {"copy", "reconnect"}
  PROVE  /\ t = UserThread /\ h.op \in LaunchOp /\ h.on = {c} /\ h.data \subseteq Process
         /\ c \in Thread /\ c[2] # 0 /\ c[1] \in Task /\ c[1] \in Node
         /\ Cut(h, c) = {}
         /\ \A s \in ThreadsOf(c[1]) : pc[s] = "idle"
         /\ \A s \in Thread : s[1] = c[1] => pc[s] = "idle" /\ ~ Ending(s)
<1>1. h \in EntryOf(t) /\ h \in Range(agenda[t])
  BY HeadFacts
<1>2. h.op \in LaunchOp
  BY DEF LaunchOp
<1>3. t = UserThread /\ h.data \subseteq Process
  BY <1>1, <1>2 DEF EntryOf
<1>4. h.on = {c} /\ c \in Thread \ Representative
  BY <1>1 DEF EntryOf
<1>5. Cut(h, c) = {}
  BY <1>4 DEF Cut
<1>6. c[1] \in Task \cup Pipeline /\ c = <<c[1], c[2]>> /\ c \in ThreadsOf(c[1])
  BY <1>4, ThreadFacts
<1>7. c[2] # 0
  BY <1>4, <1>6 DEF Representative
<1>8. c[1] \in Task
  BY <1>6, <1>7 DEF ThreadsOf
<1>9. Starts(h) = {c[1]}
  <2>1. c[1] \notin Graph
    BY <1>8, NestingAssumption
  <2>2. QED
    BY <1>4, <2>1, CopyEntry
<1>10. \A s \in ThreadsOf(c[1]) : pc[s] = "idle"
  BY <1>1, <1>2, <1>3, <1>9 DEF PipelineInv, LaunchInv, Entries
<1>11. ASSUME NEW s \in Thread, s[1] = c[1]
       PROVE  pc[s] = "idle" /\ ~ Ending(s)
  <2>1. pc[s] = "idle"
    BY <1>10, <1>11, ThreadFacts
  <2>2. agenda[s] = <<>>
    BY <2>1, ThreadFacts DEF PipelineInv, AgendaInv
  <2>3. QED
    BY <2>1, <2>2 DEF Ending, Entries, Range
<1>12. QED
  BY <1>2, <1>3, <1>4, <1>5, <1>7, <1>8, <1>10, <1>11 DEF Node

LEMMA ReadNotifierStep ==
  ASSUME PipelineInv, NEW t \in Process, NEW c, ReadNotifier(t, c)
  PROVE  PipelineInv' /\ Calm
<1>0. PICK h : h = Head(agenda[t])
  OBVIOUS
<1>1. /\ agenda[t] # <<>> /\ c \in h.on /\ h.op = "copy"
      /\ UNCHANGED <<notifiers, slots, queue, pc, executed>>
  BY <1>0 DEF ReadNotifier, At
<1>2. /\ t = UserThread /\ h.op \in LaunchOp /\ h.on = {c} /\ h.data \subseteq Process
      /\ c \in Thread /\ c[2] # 0 /\ c[1] \in Task /\ c[1] \in Node /\ Cut(h, c) = {}
      /\ \A s \in ThreadsOf(c[1]) : pc[s] = "idle"
  BY <1>0, <1>1, ConnectFacts
<1>3. PICK q \in notifiers[c[1]] :
        agenda' = [agenda EXCEPT ![t] = LoopOn("reconnect", {c}, {q})
                     \o LoopOn("copy", {c}, Head(agenda[t]).data \cup {q})
                     \o Tail(agenda[t])]
  BY DEF ReadNotifier
<1>4. q \in Process /\ c[1] \in slots[q]
  BY <1>2 DEF PipelineInv, TypeOK, WiredInv
<1>5. PICK on, d1, d2 : on = {c} /\ d1 = {q} /\ d2 = h.data \cup {q}
  OBVIOUS
<1>6. PICK e1, e2 : /\ e1 = [op |-> "reconnect", on |-> on, data |-> d1]
                    /\ e2 = [op |-> "copy", on |-> on, data |-> d2]
  OBVIOUS
<1>7. /\ h \in EntryOf(t) /\ h \in Range(agenda[t])
      /\ Range(agenda[t]) = {h} \cup Range(Tail(agenda[t]))
      /\ \A b \in Range(Tail(agenda[t])) : b \in EntryOf(t) /\ MayPrecede(h, b)
  BY <1>0, <1>1, HeadFacts
<1>8. /\ e1.op = "reconnect" /\ e1.on = {c} /\ e1.data = {q}
      /\ e2.op = "copy" /\ e2.on = {c}
  BY <1>5, <1>6
<1>9. /\ Covers(h) = {c[1]} /\ Claims(h) = {c[1]} /\ Starts(h) = {c[1]} \ Graph
      /\ Covers(e1) = {c[1]} /\ Claims(e1) = {c[1]} /\ Starts(e1) = {c[1]} \ Graph
      /\ Covers(e2) = {c[1]} /\ Claims(e2) = {c[1]} /\ Starts(e2) = {c[1]} \ Graph
  BY <1>1, <1>2, <1>8, CopyEntry
<1>10. e1 \in EntryOf(t) /\ e2 \in EntryOf(t)
  <2>1. on \in SUBSET Thing /\ d1 \in SUBSET Process /\ d2 \in SUBSET Process
    BY <1>2, <1>4, <1>5, ThreadFacts DEF Thing
  <2>2. e1 \in Entry /\ e2 \in Entry
    BY <1>6, <2>1 DEF Entry, Op, LaunchOp
  <2>3. c[1] \in Under[Outer]
    BY <1>2, <1>7, <1>9 DEF EntryOf
  <2>4. c \in Thread \ Representative
    BY <1>1, <1>2, <1>7 DEF EntryOf
  <2>5. e1 \in EntryOf(t)
    BY <1>2, <1>5, <1>6, <1>9, <2>1, <2>2, <2>3, <2>4 DEF EntryOf
  <2>6. e2 \in EntryOf(t)
    BY <1>2, <1>5, <1>6, <1>9, <2>1, <2>2, <2>3, <2>4 DEF EntryOf
  <2>7. QED
    BY <2>5, <2>6
<1>11. PICK a, b : a = LoopOn("reconnect", on, d1) /\ b = LoopOn("copy", on, d2)
  OBVIOUS
<1>12. /\ a \in Seq(EntryOf(t)) /\ Sorted(a, Order) /\ Range(a) = {e1}
       /\ b \in Seq(EntryOf(t)) /\ Sorted(b, Order) /\ Range(b) = {e2}
  <2>1. "reconnect" \in Op /\ "copy" \in Op /\ on # {}
    BY <1>5 DEF Op, LaunchOp
  <2>2. /\ [op |-> "reconnect", on |-> on, data |-> d1] \in EntryOf(t)
        /\ [op |-> "copy", on |-> on, data |-> d2] \in EntryOf(t)
    BY <1>6, <1>10
  <2>3. /\ LoopOn("reconnect", on, d1) \in Seq(EntryOf(t))
        /\ Sorted(LoopOn("reconnect", on, d1), Order)
        /\ Range(LoopOn("reconnect", on, d1)) =
             IF on = {} THEN {} ELSE {[op |-> "reconnect", on |-> on, data |-> d1]}
    BY <2>1, <2>2, LoopFacts
  <2>4. /\ LoopOn("copy", on, d2) \in Seq(EntryOf(t))
        /\ Sorted(LoopOn("copy", on, d2), Order)
        /\ Range(LoopOn("copy", on, d2)) =
             IF on = {} THEN {} ELSE {[op |-> "copy", on |-> on, data |-> d2]}
    BY <2>1, <2>2, LoopFacts
  <2>5. QED
    BY <1>6, <1>11, <2>1, <2>3, <2>4
<1>13. Cross(a, b, Order)
  <2>1. MayPrecede(e1, e2)
    BY <1>8 DEF MayPrecede, Rank, Op, LaunchOp
  <2>2. QED
    BY <1>10, <1>12, <2>1 DEF Cross, Order, EntryOf
<1>14. PICK more : more = a \o b
  OBVIOUS
<1>15. more \in Seq(EntryOf(t)) /\ Sorted(more, Order) /\ Range(more) = {e1, e2}
  BY <1>12, <1>13, <1>14, ConcatFacts
<1>16. After(t, c, more)
  <2>1. Rest(t, c) = Tail(agenda[t])
    BY <1>0, <1>2 DEF Rest
  <2>2. QED
    BY <1>0, <1>3, <1>5, <1>11, <1>14, <2>1 DEF After
<1>17. \A x \in Range(more), y \in Range(Tail(agenda[t])) \cup Cut(h, c) : MayPrecede(x, y)
  <2> SUFFICES ASSUME NEW x \in {e1, e2}, NEW y \in Range(Tail(agenda[t]))
               PROVE  MayPrecede(x, y)
    BY <1>2, <1>15
  <2>1. MayPrecede(h, y) /\ y \in Entry
    BY <1>7 DEF EntryOf
  <2>2. x.op \in {"copy", "reconnect"} /\ Claims(x) = Claims(h)
    BY <1>8, <1>9
  <2>3. Rank[x.op] <= Rank[y.op]
    <3>1. x.op \in LaunchOp /\ y.op \in Op
      BY <2>1, <2>2 DEF LaunchOp, Entry
    <3>2. Rank[x.op] = 1 /\ Rank[y.op] \in 1 .. 5
      BY <3>1, RankFacts
    <3>3. QED
      BY <3>2
  <2>4. QED
    BY <1>1, <2>1, <2>2, <2>3 DEF MayPrecede
<1>18. \A x \in Range(more) : x.op \in LaunchOp
  BY <1>8, <1>15 DEF LaunchOp
<1>19. /\ agenda' \in [Process -> Seq(Entry)]
       /\ Range(agenda'[t]) = Range(more) \cup Range(Tail(agenda[t])) \cup Cut(h, c)
       /\ \A s \in Process : \A e : e.op \notin LaunchOp =>
            (e \in Range(agenda'[s]) <=> e \in Range(agenda[s]))
       /\ \A s \in Process : Ending(s)' <=> Ending(s)
       /\ AgendaInv' /\ UserInv' /\ EndInv' /\ JoinInv'
  BY <1>0, <1>1, <1>2, <1>15, <1>16, <1>17, <1>18, LaunchStep
<1>20. TypeOK'
  BY <1>1, <1>19 DEF PipelineInv, TypeOK
<1>21. WiredInv'
  BY <1>1 DEF PipelineInv, WiredInv
<1>22. LaunchInv'
  <2> SUFFICES ASSUME NEW e \in Range(agenda'[UserThread])
               PROVE  /\ e.op \in LaunchOp => \A m \in Starts(e) : \A s \in ThreadsOf(m) : pc[s] = "idle"
                      /\ e.op = "reconnect" => \A x \in e.on, y \in e.data : x[1] \in slots[y]
    BY <1>1 DEF LaunchInv, Entries
  <2>1. CASE e \in Range(Tail(agenda[t]))
    BY <1>2, <1>7, <2>1 DEF PipelineInv, LaunchInv, Entries
  <2>2. CASE e \in {e1, e2}
    BY <1>2, <1>4, <1>8, <1>9, <2>2
  <2>3. QED
    BY <1>2, <1>15, <1>19, <2>1, <2>2
<1>23. CopyInv'
  <2> SUFFICES ASSUME NEW x \in Thread, slots[x] # Downstream(x[1]), x[1] \in Under[Outer]
               PROVE  \E e \in Range(agenda'[UserThread]) : Awaits(e, x)
    BY <1>1 DEF PipelineInv, CopyInv, Entries
  <2>1. \E e \in Range(agenda[UserThread]) : Awaits(e, x)
    BY DEF PipelineInv, CopyInv, Entries
  <2>2. PICK e \in Range(agenda[t]) : Awaits(e, x)
    BY <1>2, <2>1
  <2>3. CASE e # h
    BY <1>2, <1>7, <1>19, <2>1, <2>2, <2>3
  <2>4. CASE e = h
    BY <1>1, <1>2, <1>8, <1>15, <1>19, <2>1, <2>2, <2>4 DEF Awaits
  <2>5. QED
    BY <2>3, <2>4
<1>24. RegisteredInv'
  BY <1>1, <1>19, ThreadFacts DEF PipelineInv, RegisteredInv
<1>25. SendInv'
  BY <1>1, <1>19 DEF PipelineInv, SendInv, Entries, LaunchOp
<1>26. DrainInv'
  BY <1>1, <1>19, ThreadFacts DEF PipelineInv, DrainInv
<1>27. Calm
  <2>1. StillLeaves /\ NobodyEnds
    BY <1>19 DEF StillLeaves, NobodyEnds, Entries, LaunchOp
  <2>2. Launching
    BY <1>2, <1>7 DEF Launching, Entries
  <2>3. QED
    BY <2>1, <2>2 DEF Calm
<1>28. QED
  BY <1>19, <1>20, <1>21, <1>22, <1>23, <1>24, <1>25, <1>26, <1>27 DEF PipelineInv

LEMMA ReconnectStep ==
  ASSUME PipelineInv, NEW t \in Process, NEW c, Reconnect(t, c)
  PROVE  PipelineInv' /\ Calm
<1>0. PICK h, more : h = Head(agenda[t]) /\ more = <<>>
  OBVIOUS
<1>1. /\ agenda[t] # <<>> /\ c \in h.on /\ h.op = "reconnect" /\ After(t, c, more)
      /\ UNCHANGED <<queue, pc, executed>>
  BY <1>0 DEF Reconnect, At
<1>2. PICK q \in h.data : /\ notifiers' = [notifiers EXCEPT ![c[1]] = @ \cup {q}]
                          /\ slots' = [slots EXCEPT ![q] = @ \cup {c[1]}]
  BY <1>0 DEF Reconnect
<1>3. /\ t = UserThread /\ h.op \in LaunchOp /\ h.on = {c} /\ h.data \subseteq Process
      /\ c[1] \in Node /\ Cut(h, c) = {}
      /\ \A s \in Thread : s[1] = c[1] => ~ Ending(s)
  BY <1>0, <1>1, ConnectFacts
<1>4. /\ h \in EntryOf(t) /\ h \in Range(agenda[t])
      /\ Range(agenda[t]) = {h} \cup Range(Tail(agenda[t]))
  BY <1>0, <1>1, HeadFacts
<1>5. c[1] \in slots[q] /\ slots' = slots
  <2>1. c[1] \in slots[q]
    BY <1>1, <1>2, <1>3, <1>4 DEF PipelineInv, LaunchInv, Entries
  <2>2. slots \in [Process -> SUBSET Node]
    BY DEF PipelineInv, TypeOK
  <2>3. slots[q] \cup {c[1]} = slots[q]
    BY <2>1
  <2>4. QED
    BY <1>2, <2>1, <2>2, <2>3
<1>6. /\ notifiers' \in [Node -> SUBSET Process]
      /\ notifiers'[c[1]] = notifiers[c[1]] \cup {q}
      /\ \A n \in Node : n # c[1] => notifiers'[n] = notifiers[n]
  BY <1>2, <1>3 DEF PipelineInv, TypeOK
<1>7. more \in Seq(EntryOf(t)) /\ Sorted(more, Order) /\ Range(more) = {}
  BY <1>0, NothingMore
<1>8. /\ agenda' \in [Process -> Seq(Entry)]
      /\ Range(agenda'[t]) = Range(more) \cup Range(Tail(agenda[t])) \cup Cut(h, c)
      /\ \A s \in Process : \A e : e.op \notin LaunchOp =>
           (e \in Range(agenda'[s]) <=> e \in Range(agenda[s]))
      /\ \A s \in Process : Ending(s)' <=> Ending(s)
      /\ AgendaInv' /\ UserInv' /\ EndInv' /\ JoinInv'
  BY <1>0, <1>1, <1>3, <1>7, LaunchStep
<1>9. Range(agenda'[t]) = Range(Tail(agenda[t]))
  BY <1>3, <1>7, <1>8
<1>10. TypeOK'
  BY <1>1, <1>5, <1>6, <1>8 DEF PipelineInv, TypeOK
<1>11. WiredInv'
  <2>1. \A n \in Node : \A s \in notifiers'[n] : n \in slots[s]
    BY <1>5, <1>6 DEF PipelineInv, WiredInv
  <2>2. QED
    BY <1>5, <2>1 DEF PipelineInv, WiredInv
<1>12. LaunchInv'
  BY <1>1, <1>3, <1>4, <1>5, <1>9 DEF PipelineInv, LaunchInv, Entries
<1>13. CopyInv'
  <2>1. \A x : Awaits(h, x) => FALSE
    BY <1>1 DEF Awaits
  <2>2. \A x : (\E e \in Range(agenda[UserThread]) : Awaits(e, x))
                 => \E e \in Range(agenda'[UserThread]) : Awaits(e, x)
    BY <1>3, <1>4, <1>9, <2>1
  <2>3. QED
    BY <1>1, <1>5, <2>2 DEF PipelineInv, CopyInv, Entries
<1>14. RegisteredInv'
  <2> SUFFICES ASSUME NEW s \in Thread, ~ Ending(s), NEW n \in slots[s]
               PROVE  s \in notifiers'[n]
    BY <1>5, <1>8, ThreadFacts DEF RegisteredInv
  <2>1. s \in notifiers[n] /\ n \in Node
    BY ThreadFacts DEF PipelineInv, RegisteredInv, TypeOK
  <2>2. QED
    BY <1>6, <2>1
<1>15. SendInv'
  <2> SUFFICES ASSUME NEW s \in Process, NEW e \in Range(agenda'[s]), e.op = "receive",
                      NEW n \in e.on
               PROVE  s \in notifiers'[n]
    BY DEF SendInv, Entries
  <2>1. e \in Range(agenda[s])
    BY <1>8 DEF LaunchOp
  <2>2. s \in notifiers[n]
    BY <2>1 DEF PipelineInv, SendInv, Entries
  <2>3. n \in Node
    <3>1. e \in EntryOf(s)
      BY <2>1, RangeOf DEF PipelineInv, AgendaInv
    <3>2. QED
      BY <3>1 DEF EntryOf, Downstream
  <2>4. QED
    BY <1>6, <2>2, <2>3
<1>16. DrainInv'
  <2> SUFFICES ASSUME NEW s \in Thread, Ending(s)
               PROVE  notifiers'[s[1]] = {} /\ queue[s[1]] = <<>>
    BY <1>1, <1>8, ThreadFacts DEF DrainInv
  <2>1. s[1] # c[1] /\ s[1] \in Node
    BY <1>3, ThreadFacts DEF Node
  <2>2. QED
    BY <1>6, <2>1 DEF PipelineInv, DrainInv
<1>17. Calm
  <2>1. StillLeaves /\ NobodyEnds
    BY <1>8 DEF StillLeaves, NobodyEnds, Entries, LaunchOp
  <2>2. Launching
    BY <1>3, <1>4 DEF Launching, Entries
  <2>3. QED
    BY <2>1, <2>2 DEF Calm
<1>18. QED
  BY <1>8, <1>10, <1>11, <1>12, <1>13, <1>14, <1>15, <1>16, <1>17 DEF PipelineInv

LEMMA ConnectSuccessorsStep ==
  ASSUME PipelineInv, NEW t \in Process, NEW c, ConnectSuccessors(t, c)
  PROVE  PipelineInv' /\ Calm
<1>0. PICK h, more : h = Head(agenda[t]) /\ more = <<>>
  OBVIOUS
<1>1. PICK rep : rep = <<c[1], 0>>
  OBVIOUS
<1>2. /\ agenda[t] # <<>> /\ c \in h.on /\ h.op = "copy" /\ After(t, c, more)
      /\ slots' = [slots EXCEPT ![c] = slots[rep]]
      /\ notifiers' = [n \in Node |-> IF n \in slots[rep] THEN notifiers[n] \cup {c}
                                                          ELSE notifiers[n]]
      /\ UNCHANGED <<queue, pc, executed>>
  BY <1>0, <1>1 DEF ConnectSuccessors, At
<1>3. /\ t = UserThread /\ h.op \in LaunchOp /\ h.on = {c}
      /\ c \in Thread /\ c[2] # 0 /\ c[1] \in Node /\ Cut(h, c) = {}
      /\ \A s \in Thread : s[1] = c[1] => ~ Ending(s)
  BY <1>0, <1>2, ConnectFacts
<1>4. Range(agenda[t]) = {h} \cup Range(Tail(agenda[t]))
  BY <1>0, <1>2, HeadFacts
<1>5. /\ rep \in Thread /\ rep[1] = c[1] /\ ~ Ending(rep) /\ slots[rep] = Downstream(c[1])
      /\ c \in Process /\ rep \in Process
  <2>1. rep \in ThreadsOf(c[1]) /\ rep[1] = c[1] /\ rep[2] = 0
    BY <1>1, <1>3, ThreadFacts
  <2>2. rep \in Thread /\ rep \in Process
    BY <1>3, <2>1, ThreadFacts
  <2>3. QED
    BY <1>3, <2>1, <2>2, ThreadFacts DEF PipelineInv, WiredInv
<1>6. /\ slots' \in [Process -> SUBSET Node] /\ slots'[c] = Downstream(c[1])
      /\ \A s \in Process : s # c => slots'[s] = slots[s]
      /\ \A s \in Process : slots[s] \subseteq slots'[s]
  <2>1. slots \in [Process -> SUBSET Node] /\ slots[c] \subseteq Downstream(c[1])
    BY <1>5 DEF PipelineInv, TypeOK, WiredInv
  <2>2. QED
    BY <1>2, <1>5, <2>1
<1>7. /\ notifiers' \in [Node -> SUBSET Process]
      /\ \A n \in Node : /\ notifiers[n] \subseteq notifiers'[n]
                         /\ notifiers'[n] \subseteq notifiers[n] \cup {c}
                         /\ n \in Downstream(c[1]) <=> n \in slots[rep]
                         /\ n \in Downstream(c[1]) => c \in notifiers'[n]
                         /\ n \notin Downstream(c[1]) => notifiers'[n] = notifiers[n]
  BY <1>2, <1>5 DEF PipelineInv, TypeOK
<1>8. more \in Seq(EntryOf(t)) /\ Sorted(more, Order) /\ Range(more) = {}
  BY <1>0, NothingMore
<1>9. /\ agenda' \in [Process -> Seq(Entry)]
      /\ Range(agenda'[t]) = Range(more) \cup Range(Tail(agenda[t])) \cup Cut(h, c)
      /\ \A s \in Process : \A e : e.op \notin LaunchOp =>
           (e \in Range(agenda'[s]) <=> e \in Range(agenda[s]))
      /\ \A s \in Process : Ending(s)' <=> Ending(s)
      /\ AgendaInv' /\ UserInv' /\ EndInv' /\ JoinInv'
  BY <1>0, <1>2, <1>3, <1>8, LaunchStep
<1>10. Range(agenda'[t]) = Range(Tail(agenda[t]))
  BY <1>3, <1>8, <1>9
<1>11. TypeOK'
  BY <1>2, <1>6, <1>7, <1>9 DEF PipelineInv, TypeOK
<1>12. WiredInv'
  <2>1. ASSUME NEW n \in Node, NEW s \in notifiers'[n]
        PROVE  n \in slots'[s]
    <3>1. CASE s \in notifiers[n]
      <4>1. s \in Process /\ n \in slots[s]
        BY <3>1 DEF PipelineInv, WiredInv, TypeOK
      <4>2. QED
        BY <1>6, <4>1
    <3>2. CASE s \notin notifiers[n]
      <4>1. s = c /\ n \in Downstream(c[1])
        BY <1>7, <2>1, <3>2
      <4>2. QED
        BY <1>6, <4>1
    <3>3. QED
      BY <3>1, <3>2
  <2>2. \A s \in Process : /\ slots'[s] \subseteq Downstream(s[1])
                           /\ s[2] = 0 => slots'[s] = Downstream(s[1])
    BY <1>6 DEF PipelineInv, WiredInv
  <2>3. QED
    BY <2>1, <2>2 DEF WiredInv
<1>13. LaunchInv'
  <2> SUFFICES ASSUME NEW e \in Range(agenda'[UserThread])
               PROVE  /\ e.op \in LaunchOp => \A m \in Starts(e) : \A s \in ThreadsOf(m) : pc[s] = "idle"
                      /\ e.op = "reconnect" => \A x \in e.on, q \in e.data : x[1] \in slots'[q]
    BY <1>2 DEF LaunchInv, Entries
  <2>1. e \in Range(agenda[UserThread])
    BY <1>3, <1>4, <1>10
  <2>2. /\ e.op \in LaunchOp => \A m \in Starts(e) : \A s \in ThreadsOf(m) : pc[s] = "idle"
        /\ e.op = "reconnect" => \A x \in e.on, q \in e.data : x[1] \in slots[q]
    BY <2>1 DEF PipelineInv, LaunchInv, Entries
  <2>3. e.op = "reconnect" => e.data \subseteq Process
    <3>1. e \in EntryOf(UserThread)
      BY <2>1, RangeOf, ThreadFacts DEF PipelineInv, AgendaInv
    <3>2. QED
      BY <3>1 DEF EntryOf
  <2>4. QED
    BY <1>6, <2>2, <2>3
<1>14. CopyInv'
  <2> SUFFICES ASSUME NEW x \in Thread, slots'[x] # Downstream(x[1])
               PROVE  /\ pc[x] = "idle"
                      /\ x[1] \in Under[Outer] => \E e \in Range(agenda'[UserThread]) : Awaits(e, x)
    BY <1>2 DEF CopyInv, Entries
  <2>1. x # c /\ slots[x] # Downstream(x[1])
    BY <1>6, ThreadFacts
  <2>2. /\ pc[x] = "idle"
        /\ x[1] \in Under[Outer] => \E e \in Range(agenda[UserThread]) : Awaits(e, x)
    BY <2>1 DEF PipelineInv, CopyInv, Entries
  <2>3. ~ Awaits(h, x)
    BY <1>2, <1>3, <2>1 DEF Awaits
  <2>4. QED
    BY <1>3, <1>4, <1>10, <2>2, <2>3
<1>15. RegisteredInv'
  <2> SUFFICES ASSUME NEW s \in Thread, ~ Ending(s), NEW n \in slots'[s]
               PROVE  s \in notifiers'[n]
    BY <1>9, ThreadFacts DEF RegisteredInv
  <2>1. s \in Process /\ n \in Node
    BY <1>6, ThreadFacts
  <2>2. CASE s = c
    BY <1>6, <1>7, <2>1, <2>2
  <2>3. CASE s # c
    <3>1. s \in notifiers[n]
      BY <1>6, <2>1, <2>3 DEF PipelineInv, RegisteredInv
    <3>2. QED
      BY <1>7, <2>1, <3>1
  <2>4. QED
    BY <2>2, <2>3
<1>16. SendInv'
  <2> SUFFICES ASSUME NEW s \in Process, NEW e \in Range(agenda'[s]), e.op = "receive",
                      NEW n \in e.on
               PROVE  s \in notifiers'[n]
    BY DEF SendInv, Entries
  <2>1. e \in Range(agenda[s])
    BY <1>9 DEF LaunchOp
  <2>2. s \in notifiers[n]
    BY <2>1 DEF PipelineInv, SendInv, Entries
  <2>3. n \in Node
    <3>1. e \in EntryOf(s)
      BY <2>1, RangeOf DEF PipelineInv, AgendaInv
    <3>2. QED
      BY <3>1 DEF EntryOf, Downstream
  <2>4. QED
    BY <1>7, <2>2, <2>3
<1>17. DrainInv'
  <2> SUFFICES ASSUME NEW s \in Thread, Ending(s)
               PROVE  notifiers'[s[1]] = {} /\ queue[s[1]] = <<>>
    BY <1>2, <1>9, ThreadFacts DEF DrainInv
  <2>1. s[1] \in Node /\ notifiers[s[1]] = {} /\ queue[s[1]] = <<>>
    BY ThreadFacts DEF PipelineInv, DrainInv, Node
  <2>2. s[1] \notin slots[rep]
    BY <1>5, <2>1 DEF PipelineInv, RegisteredInv
  <2>3. QED
    BY <1>7, <2>1, <2>2
<1>18. Calm
  <2>1. StillLeaves /\ NobodyEnds
    BY <1>9 DEF StillLeaves, NobodyEnds, Entries, LaunchOp
  <2>2. Launching
    BY <1>3, <1>4 DEF Launching, Entries
  <2>3. QED
    BY <2>1, <2>2 DEF Calm
<1>19. QED
  BY <1>9, <1>11, <1>12, <1>13, <1>14, <1>15, <1>16, <1>17, <1>18 DEF PipelineInv

\* Values sent one after the other.
LEMMA ManySends ==
  ASSUME NEW t \in Process, NEW N \in Nat, NEW ss, DOMAIN ss = 1 .. N,
         ss = [i \in DOMAIN ss |-> ss[i]],
         \A i \in 1 .. N : /\ ss[i] \in Seq(EntryOf(t)) /\ Sorted(ss[i], Order)
                           /\ \A e \in Range(ss[i]) : e.op \in {"receive", "wakeUp"}
  PROVE  /\ FlattenSeq(ss) \in Seq(EntryOf(t)) /\ Sorted(FlattenSeq(ss), Order)
         /\ \A e \in Range(FlattenSeq(ss)) : e.op \in {"receive", "wakeUp"}
<1>1. ss \in [1 .. N -> Seq(EntryOf(t))]
  OBVIOUS
<1>2. ASSUME NEW i \in 1 .. N, NEW j \in 1 .. N, i < j
      PROVE  Cross(ss[i], ss[j], Order)
  <2> SUFFICES ASSUME NEW a \in Range(ss[i]), NEW b \in Range(ss[j])
               PROVE  <<a, b>> \in Order
    BY DEF Cross
  <2>1. a \in EntryOf(t) /\ b \in EntryOf(t)
    BY RangeOf
  <2>2. a.op \in {"receive", "wakeUp"} /\ b.op \in {"receive", "wakeUp"}
    OBVIOUS
  <2>3. Claims(a) = {}
    BY <2>2 DEF Claims, Covers
  <2>4. MayPrecede(a, b)
    BY <2>2, <2>3 DEF MayPrecede, Rank, Op
  <2>5. QED
    BY <2>1, <2>4 DEF Order, EntryOf
<1>3. /\ FlattenSeq(ss) \in Seq(EntryOf(t))
      /\ \A e : e \in Range(FlattenSeq(ss)) <=> \E i \in 1 .. N : e \in Range(ss[i])
      /\ Sorted(FlattenSeq(ss), Order)
  <2>1. \A i \in 1 .. N : Sorted(ss[i], Order)
    OBVIOUS
  <2>2. QED
    BY <1>1, <1>2, <2>1, FlattenOf
<1>4. QED
  BY <1>3

\* What an automatic start makes a thread do first.
LEMMA StartFacts ==
  ASSUME NEW s \in Thread, s[1] \in Task
  PROVE  LET w == FlattenSeq([i \in DOMAIN Generated[s[1]] |->
                    SendAndNotify(Succ[s[1]], Generated[s[1]][i])]) IN
         /\ w \in Seq(EntryOf(s)) /\ Sorted(w, Order)
         /\ \A e \in Range(w) : e.op \in {"receive", "wakeUp"}
<1>1. PICK ss : ss = [i \in DOMAIN Generated[s[1]] |->
                        SendAndNotify(Succ[s[1]], Generated[s[1]][i])]
  OBVIOUS
<1>2. Generated[s[1]] \in Seq(Data)
  BY GraphAssumption
<1>3. PICK N \in Nat : DOMAIN Generated[s[1]] = 1 .. N
  BY <1>2
<1>4. DOMAIN ss = 1 .. N /\ ss = [i \in DOMAIN ss |-> ss[i]]
  BY <1>1, <1>3
<1>5. s \in Process /\ Succ[s[1]] \subseteq Downstream(s[1])
  BY ThreadFacts, DownstreamFacts
<1>6. ASSUME NEW i \in 1 .. N
      PROVE  /\ ss[i] \in Seq(EntryOf(s)) /\ Sorted(ss[i], Order)
             /\ \A e \in Range(ss[i]) : e.op \in {"receive", "wakeUp"}
  <2>1. PICK to, d : to = Succ[s[1]] /\ d = Generated[s[1]][i]
    OBVIOUS
  <2>2. to \subseteq Downstream(s[1]) /\ d \in Data
    BY <1>2, <1>3, <1>5, <2>1
  <2>3. /\ SendAndNotify(to, d) \in Seq(EntryOf(s)) /\ Sorted(SendAndNotify(to, d), Order)
        /\ \A e \in Range(SendAndNotify(to, d)) : e.op \in {"receive", "wakeUp"}
    BY <1>5, <2>2, SendFacts
  <2>4. ss[i] = SendAndNotify(to, d)
    BY <1>1, <1>3, <2>1
  <2>5. QED
    BY <2>3, <2>4
<1>7. /\ FlattenSeq(ss) \in Seq(EntryOf(s)) /\ Sorted(FlattenSeq(ss), Order)
      /\ \A e \in Range(FlattenSeq(ss)) : e.op \in {"receive", "wakeUp"}
  BY <1>4, <1>5, <1>6, ManySends
<1>8. QED
  BY <1>1, <1>7

LEMMA SpawnThreadsStep ==
  ASSUME PipelineInv, NEW t \in Process, NEW g, SpawnThreads(t, g)
  PROVE  PipelineInv' /\ Calm
<1>0. PICK h : h = Head(agenda[t])
  OBVIOUS
<1>1. PICK started : started = UNION {ThreadsOf(n) : n \in Inside[g] \ Graph}
  OBVIOUS
<1>2. /\ agenda[t] # <<>> /\ g \in h.on /\ h.op = "spawn"
      /\ pc' = [s \in Process |-> IF s \in started THEN "run" ELSE pc[s]]
      /\ agenda' = [s \in Process |->
            IF s = t THEN Rest(t, g)
            ELSE IF s \in started /\ s[1] \in Task
                   THEN FlattenSeq([i \in DOMAIN Generated[s[1]] |->
                          SendAndNotify(Succ[s[1]], Generated[s[1]][i])])
                   ELSE agenda[s]]
      /\ UNCHANGED <<notifiers, slots, queue, executed>>
  BY <1>0, <1>1 DEF SpawnThreads, At
<1>3. /\ h \in EntryOf(t) /\ h \in Range(agenda[t]) /\ pc[t] = "run"
      /\ Range(agenda[t]) = {h} \cup Range(Tail(agenda[t]))
      /\ \A b \in Range(Tail(agenda[t])) : b \in EntryOf(t) /\ MayPrecede(h, b)
  BY <1>0, <1>2, HeadFacts
<1>4. \A b \in Cut(h, g) : b \in EntryOf(t) /\ b.op = h.op /\ b.on = h.on \ {g}
  <2>1. agenda[t] # <<>>
    BY <1>2
  <2>2. \A m \in h.on : \A b \in Cut(h, m) :
          /\ b \in EntryOf(t) /\ b.op = h.op /\ b.data = h.data /\ b.on = h.on \ {m}
          /\ h.op \notin {"copy", "reconnect", "return"}
    BY <1>0, <2>1, HeadFacts
  <2>3. QED
    BY <1>2, <2>2
<1>5. t = UserThread /\ h.on \subseteq Graph /\ Covers(h) \subseteq Under[Outer]
  BY <1>2, <1>3 DEF EntryOf, LaunchOp
<1>6. /\ Covers(h) = h.on /\ Inside[g] \subseteq Claims(h) /\ g \in Claims(h)
      /\ Inside[g] \ Graph \subseteq Starts(h)
  <2>1. g \in Item /\ Parts(g) = Inside[g]
    BY <1>2, <1>5, NestingAssumption DEF Parts, Item
  <2>2. Inside[g] \subseteq Under[g] /\ g \in Under[g]
    BY <2>1, UnderFacts
  <2>3. QED
    BY <1>2, <2>2 DEF Covers, Claims, Starts
<1>7. g \in Graph /\ Parts(g) = Inside[g] /\ g \in Item /\ Inside[g] \subseteq Under[Outer]
  <2>1. g \in Graph /\ g \in Item /\ Parts(g) = Inside[g]
    BY <1>2, <1>5, NestingAssumption DEF Parts, Item
  <2>2. Outer \in Item /\ g \in Under[Outer]
    BY <1>2, <1>5, <1>6, GraphAssumption DEF Item
  <2>3. QED
    BY <2>1, <2>2, UnderFacts
<1>8. Inside[g] \ Graph \subseteq Task \cup Pipeline
  BY <1>7, GraphAssumption DEF Item
<1>9. ASSUME NEW s \in started
      PROVE  /\ s \in Thread /\ s[1] \in Inside[g] \ Graph /\ s \in ThreadsOf(s[1])
             /\ pc[s] = "idle" /\ s # t /\ s \in Process /\ agenda[s] = <<>>
  <2>1. PICK n \in Inside[g] \ Graph : s \in ThreadsOf(n)
    BY <1>1
  <2>2. s \in Thread /\ s[1] = n
    BY <1>8, <2>1, ThreadFacts
  <2>3. pc[s] = "idle"
    BY <1>2, <1>3, <1>5, <1>6, <2>1 DEF PipelineInv, LaunchInv, Entries, LaunchOp
  <2>4. s \in Process
    BY <2>2, ThreadFacts
  <2>5. QED
    BY <1>3, <2>1, <2>2, <2>3, <2>4 DEF PipelineInv, AgendaInv
<1>10. /\ pc' \in [Process -> {"idle", "run", "wait", "done"}]
       /\ \A s \in Process : s \in started => pc'[s] = "run"
       /\ \A s \in Process : s \notin started => pc'[s] = pc[s]
  BY <1>2 DEF PipelineInv, TypeOK
<1>11. /\ agenda'[t] \in Seq(EntryOf(t)) /\ Sorted(agenda'[t], Order)
       /\ Range(agenda'[t]) = Range(Tail(agenda[t])) \cup Cut(h, g)
  <2>1. PICK w : w = agenda[t]
    OBVIOUS
  <2>2. w \in Seq(EntryOf(t)) /\ Sorted(w, Order) /\ w # <<>> /\ g \in Head(w).on
    BY <1>0, <1>2, <2>1 DEF PipelineInv, AgendaInv
  <2>3. /\ RestOf(w, g) \in Seq(EntryOf(t)) /\ Sorted(RestOf(w, g), Order)
        /\ Range(RestOf(w, g)) = Range(Tail(w)) \cup Cut(Head(w), g)
    BY <2>2, RestFacts
  <2>4. agenda'[t] = RestOf(w, g)
    BY <1>2, <2>1 DEF Rest, RestOf
  <2>5. QED
    BY <1>0, <2>1, <2>3, <2>4
<1>12. ASSUME NEW s \in Process, s # t
       PROVE  /\ agenda'[s] \in Seq(EntryOf(s)) /\ Sorted(agenda'[s], Order)
              /\ s \notin started => agenda'[s] = agenda[s]
              /\ s \in started => \A e \in Range(agenda'[s]) : e.op \in {"receive", "wakeUp"}
  <2>1. CASE s \in started /\ s[1] \in Task
    <3>1. PICK w : w = FlattenSeq([i \in DOMAIN Generated[s[1]] |->
                         SendAndNotify(Succ[s[1]], Generated[s[1]][i])])
      OBVIOUS
    <3>2. agenda'[s] = w
      BY <1>2, <1>12, <2>1, <3>1
    <3>3. /\ w \in Seq(EntryOf(s)) /\ Sorted(w, Order)
          /\ \A e \in Range(w) : e.op \in {"receive", "wakeUp"}
      BY <1>9, <2>1, <3>1, StartFacts
    <3>4. QED
      BY <2>1, <3>2, <3>3
  <2>2. CASE ~ (s \in started /\ s[1] \in Task)
    <3>1. agenda'[s] = agenda[s]
      BY <1>2, <1>12, <2>2
    <3>2. s \in started => Range(agenda'[s]) = {}
      BY <1>9, <3>1 DEF Range
    <3>3. QED
      BY <3>1, <3>2 DEF PipelineInv, AgendaInv
  <2>3. QED
    BY <2>1, <2>2
<1>13. AgendaInv'
  <2>1. ASSUME NEW s \in Process
        PROVE  pc'[s] # "run" => agenda'[s] = <<>>
    <3>1. s = t => pc'[s] = "run"
      BY <1>3, <1>9, <1>10
    <3>2. s # t /\ s \notin started => (pc'[s] # "run" => agenda'[s] = <<>>)
      BY <1>10, <1>12 DEF PipelineInv, AgendaInv
    <3>3. QED
      BY <1>10, <3>1, <3>2
  <2>2. QED
    BY <1>11, <1>12, <2>1 DEF AgendaInv
<1>14. agenda' \in [Process -> Seq(Entry)]
  <2>1. \A s \in Process : agenda'[s] \in Seq(Entry)
    BY <1>11, <1>12, EntryOfType
  <2>2. agenda' = [s \in Process |-> agenda'[s]]
    BY <1>2
  <2>3. QED
    BY <2>1, <2>2
<1>15. TypeOK'
  BY <1>2, <1>10, <1>14 DEF PipelineInv, TypeOK
<1>16. \A s \in Process : Ending(s)' <=> Ending(s)
  <2>1. ASSUME NEW s \in Process
        PROVE  Ending(s)' <=> Ending(s)
    <3>1. CASE s = t
      <4>1. \A e : e.op = "return" => (e \in Range(agenda'[s]) <=> e \in Range(agenda[s]))
        BY <1>2, <1>3, <1>4, <1>11, <3>1
      <4>2. pc'[s] = pc[s]
        BY <1>9, <1>10, <3>1
      <4>3. QED
        BY <4>1, <4>2 DEF Ending, Entries
    <3>2. CASE s # t /\ s \in started
      <4>1. pc'[s] = "run" /\ pc[s] = "idle" /\ Range(agenda[s]) = {}
        BY <1>9, <1>10, <3>2 DEF Range
      <4>2. \A e \in Range(agenda'[s]) : e.op # "return"
        BY <1>12, <3>2
      <4>3. QED
        BY <4>1, <4>2 DEF Ending, Entries
    <3>3. CASE s # t /\ s \notin started
      BY <1>10, <1>12, <3>3 DEF Ending, Entries
    <3>4. QED
      BY <3>1, <3>2, <3>3
  <2>2. QED
    BY <2>1
<1>17. UserInv'
  BY <1>3, <1>5, <1>9, <1>10, ThreadFacts DEF UserInv
<1>18. WiredInv'
  BY <1>2 DEF PipelineInv, WiredInv
<1>19. ASSUME NEW e \in Range(Tail(agenda[t])) \cup Cut(h, g), e.op \in LaunchOp
       PROVE  Inside[g] \cap Starts(e) = {}
  <2>1. e \in EntryOf(t) /\ g \notin Covers(e)
    <3>1. e \in Cut(h, g) => Covers(e) = h.on \ {g}
      BY <1>2, <1>4 DEF Covers
    <3>2. e \in Range(Tail(agenda[t])) => Claims(h) \cap Covers(e) = {}
      BY <1>2, <1>3 DEF MayPrecede
    <3>3. QED
      BY <1>3, <1>4, <1>6, <3>1, <3>2
  <2>2. CASE e.op = "spawn"
    <3>1. g \notin e.on /\ e.on \subseteq Graph
      BY <2>1, <2>2 DEF Covers, EntryOf
    <3>2. \A f \in e.on : Parts(f) = Inside[f] /\ f \in Item /\ f # g
      BY <3>1, NestingAssumption DEF Parts, Item
    <3>3. \A f \in e.on : Inside[f] \cap Inside[g] = {}
      BY <1>7, <3>2, NestingAssumption
    <3>4. QED
      BY <2>2, <3>3 DEF Starts
  <2>3. CASE e.op # "spawn"
    <3>1. e \in Range(Tail(agenda[t]))
      BY <1>2, <1>4, <2>3
    <3>2. Claims(h) \cap Covers(e) = {}
      BY <1>2, <1>3, <3>1 DEF MayPrecede
    <3>3. Starts(e) \subseteq Covers(e)
      BY <2>3 DEF Starts
    <3>4. QED
      BY <1>6, <3>2, <3>3
  <2>4. QED
    BY <2>2, <2>3
<1>20. LaunchInv'
  <2> SUFFICES ASSUME NEW e \in Range(agenda'[UserThread])
               PROVE  /\ e.op \in LaunchOp => \A m \in Starts(e) : \A s \in ThreadsOf(m) : pc'[s] = "idle"
                      /\ e.op = "reconnect" => \A x \in e.on, q \in e.data : x[1] \in slots[q]
    BY <1>2 DEF LaunchInv, Entries
  <2>1. e \in Range(Tail(agenda[t])) \cup Cut(h, g) /\ e \in EntryOf(t)
    BY <1>3, <1>4, <1>5, <1>11
  <2>2. /\ e.op \in LaunchOp => \A m \in Starts(e) : \A s \in ThreadsOf(m) : pc[s] = "idle"
        /\ e.op = "reconnect" => \A x \in e.on, q \in e.data : x[1] \in slots[q]
    <3>1. CASE e \in Range(Tail(agenda[t]))
      BY <1>3, <1>5, <3>1 DEF PipelineInv, LaunchInv, Entries
    <3>2. CASE e \in Cut(h, g)
      <4>1. Starts(e) \subseteq Starts(h)
        BY <1>4, <3>2, CoversOfEntry
      <4>2. h.op \in LaunchOp => \A m \in Starts(h) : \A s \in ThreadsOf(m) : pc[s] = "idle"
        BY <1>3, <1>5 DEF PipelineInv, LaunchInv, Entries
      <4>3. QED
        BY <1>2, <1>4, <3>2, <4>1, <4>2
    <3>3. QED
      BY <2>1, <3>1, <3>2
  <2>3. ASSUME e.op \in LaunchOp, NEW m \in Starts(e), NEW s \in ThreadsOf(m)
        PROVE  pc'[s] = "idle"
    <3>1. m \in Task \cup Pipeline
      <4>1. Outer \in Item /\ Covers(e) \subseteq Under[Outer]
        BY <2>1, <2>3, GraphAssumption DEF EntryOf, Item
      <4>2. Covers(e) \subseteq Item
        BY <4>1, UnderFacts
      <4>3. e.op = "spawn" => e.on \subseteq Graph
        BY <2>1 DEF EntryOf
      <4>4. m \in Item \ Graph
        BY <4>2, <4>3, GraphAssumption DEF Starts
      <4>5. QED
        BY <4>4 DEF Item
    <3>2. s \in Process /\ s[1] = m
      BY <3>1, ThreadFacts
    <3>3. s \notin started
      BY <1>9, <1>19, <2>1, <2>3, <3>2
    <3>4. QED
      BY <1>10, <2>2, <2>3, <3>2, <3>3
  <2>4. QED
    BY <2>2, <2>3
<1>21. \A s \in started : slots[s] = Downstream(s[1])
  <2> SUFFICES ASSUME NEW s \in started, slots[s] # Downstream(s[1])
               PROVE  FALSE
    OBVIOUS
  <2>1. s \in Thread /\ s[1] \in Inside[g] /\ s[1] \in Under[Outer]
    BY <1>7, <1>9
  <2>2. PICK e \in Range(agenda[t]) : Awaits(e, s)
    BY <1>5, <2>1 DEF PipelineInv, CopyInv, Entries
  <2>3. e \in Range(Tail(agenda[t])) /\ MayPrecede(h, e)
    BY <1>2, <1>3, <2>2 DEF Awaits
  <2>4. Claims(h) \cap Covers(e) = {}
    BY <1>2, <2>3 DEF MayPrecede
  <2>5. s[1] \in Covers(e)
    BY <2>2 DEF Awaits, Covers
  <2>6. QED
    BY <1>6, <2>1, <2>4, <2>5
<1>22. CopyInv'
  <2> SUFFICES ASSUME NEW x \in Thread, slots[x] # Downstream(x[1])
               PROVE  /\ pc'[x] = "idle"
                      /\ x[1] \in Under[Outer] => \E e \in Range(agenda'[UserThread]) : Awaits(e, x)
    BY <1>2 DEF CopyInv, Entries
  <2>1. /\ pc[x] = "idle"
        /\ x[1] \in Under[Outer] => \E e \in Range(agenda[UserThread]) : Awaits(e, x)
    BY DEF PipelineInv, CopyInv, Entries
  <2>2. x \notin started /\ x \in Process
    BY <1>21, ThreadFacts
  <2>3. ~ Awaits(h, x)
    BY <1>2 DEF Awaits
  <2>4. QED
    BY <1>3, <1>5, <1>10, <1>11, <2>1, <2>2, <2>3
<1>23. EndInv'
  <2> SUFFICES ASSUME NEW s \in Thread, NEW e \in Range(agenda'[s]), e.op \in {"remove", "leave"}
               PROVE  \E f \in Range(agenda'[s]) : f.op = "return"
    BY DEF EndInv, Entries
  <2>1. s # t /\ s \in Process
    BY <1>5, ThreadFacts
  <2>2. s \notin started
    BY <1>12, <2>1
  <2>3. QED
    BY <1>12, <2>1, <2>2 DEF PipelineInv, EndInv, Entries
<1>24. RegisteredInv'
  BY <1>2, <1>16, ThreadFacts DEF PipelineInv, RegisteredInv
<1>25. SendInv'
  <2> SUFFICES ASSUME NEW s \in Process, NEW e \in Range(agenda'[s]), e.op = "receive",
                      NEW n \in e.on
               PROVE  s \in notifiers[n]
    BY <1>2 DEF SendInv, Entries
  <2>1. CASE s = t
    <3>1. e \in Range(agenda[t])
      BY <1>2, <1>3, <1>4, <1>11, <2>1
    <3>2. QED
      BY <2>1, <3>1 DEF PipelineInv, SendInv, Entries
  <2>2. CASE s # t /\ s \notin started
    BY <1>12, <2>2 DEF PipelineInv, SendInv, Entries
  <2>3. CASE s # t /\ s \in started
    <3>1. e \in EntryOf(s)
      BY <1>12, <2>3, RangeOf
    <3>2. n \in slots[s]
      BY <1>21, <2>3, <3>1 DEF EntryOf
    <3>3. s \in Thread /\ pc[s] = "idle" /\ Range(agenda[s]) = {}
      BY <1>9, <2>3 DEF Range
    <3>4. ~ Ending(s)
      BY <3>3 DEF Ending, Entries
    <3>5. QED
      BY <3>2, <3>3, <3>4 DEF PipelineInv, RegisteredInv
  <2>4. QED
    BY <2>1, <2>2, <2>3
<1>26. DrainInv'
  BY <1>2, <1>16, ThreadFacts DEF PipelineInv, DrainInv
<1>27. JoinInv'
  <2> SUFFICES ASSUME NEW s \in Process
               PROVE  ((s[1] \in Pipeline /\ Ending(s)) \/ s = UserThread =>
                        \E D \in SUBSET Graph : JoinedSoFar(s, D))'
    BY DEF JoinInv
  <2>1. \A r \in Process : pc[r] = "done" => pc'[r] = "done"
    BY <1>9, <1>10
  <2>2. \A e : e.op = "join" => (e \in Range(agenda[s]) => e \in Range(agenda'[s]))
    <3>1. CASE s = t
      BY <1>2, <1>3, <1>11, <3>1
    <3>2. CASE s # t
      <4>1. s \in started => Range(agenda[s]) = {}
        BY <1>9 DEF Range
      <4>2. QED
        BY <1>12, <3>2, <4>1
    <3>3. QED
      BY <3>1, <3>2
  <2>3. QED
    BY <1>16, <2>1, <2>2, JoinFrame
<1>28. Calm
  <2>1. StillLeaves
    <3>1. \A e \in Range(agenda[t]) : e.op # "spawn" => e \in Range(agenda'[t])
      BY <1>2, <1>3, <1>11
    <3>2. \A s \in started : Range(agenda[s]) = {}
      BY <1>9 DEF Range
    <3>3. QED
      BY <1>12, <3>1, <3>2 DEF StillLeaves, Entries
  <2>2. Launching
    BY <1>2, <1>3, <1>5 DEF Launching, Entries, LaunchOp
  <2>3. QED
    BY <1>16, <2>1, <2>2 DEF Calm, NobodyEnds
<1>29. QED
  BY <1>13, <1>15, <1>17, <1>18, <1>20, <1>22, <1>23, <1>24, <1>25, <1>26, <1>27, <1>28 DEF PipelineInv
-----------------------------------------------------------------------------
(* The loop of a node preserves the invariant.                               *)

LEMMA TestingFacts ==
  ASSUME PipelineInv, NEW t \in Process, Testing(t)
  PROVE  /\ t \in Thread /\ pc[t] = "run" /\ Range(agenda[t]) = {} /\ ~ Ending(t)
         /\ t # UserThread /\ t[1] \in Node /\ slots[t] = Downstream(t[1])
<1>1. t \in Thread /\ pc[t] = "run" /\ Range(agenda[t]) = {}
  BY DEF Testing, Range
<1>2. slots[t] = Downstream(t[1])
  BY <1>1 DEF PipelineInv, CopyInv
<1>3. QED
  BY <1>1, <1>2, ThreadFacts DEF Ending, Entries, Node

LEMMA SleepStep ==
  ASSUME PipelineInv, NEW t \in Process, Sleep(t)
  PROVE  PipelineInv' /\ Calm
<1>1. /\ Testing(t) /\ pc' = [pc EXCEPT ![t] = "wait"]
      /\ UNCHANGED <<notifiers, slots, queue, agenda, executed>>
  BY DEF Sleep
<1>2. t \in Thread /\ pc[t] = "run" /\ t # UserThread /\ ~ Ending(t) /\ agenda[t] = <<>>
  BY <1>1, TestingFacts DEF Testing
<1>3. /\ pc' \in [Process -> {"idle", "run", "wait", "done"}]
      /\ pc'[t] = "wait" /\ \A s \in Process : s # t => pc'[s] = pc[s]
  BY <1>1 DEF PipelineInv, TypeOK
<1>4. TypeOK'
  BY <1>1, <1>3 DEF PipelineInv, TypeOK
<1>5. AgendaInv'
  BY <1>1, <1>2, <1>3 DEF PipelineInv, AgendaInv
<1>6. UserInv'
  BY <1>2, <1>3, ThreadFacts DEF PipelineInv, UserInv
<1>7. WiredInv'
  BY <1>1 DEF PipelineInv, WiredInv
<1>8. LaunchInv' /\ CopyInv'
  <2>1. \A s \in Thread : pc[s] = "idle" => pc'[s] = "idle"
    BY <1>2, <1>3, ThreadFacts
  <2>2. QED
    BY <1>1, <2>1, LaunchFrame
<1>9. \A s \in Process : Ending(s)' <=> Ending(s)
  BY <1>1, <1>2, <1>3 DEF Ending, Entries
<1>10. EndInv' /\ SendInv'
  BY <1>1 DEF PipelineInv, EndInv, SendInv, Entries
<1>11. RegisteredInv' /\ DrainInv'
  BY <1>1, <1>9, ThreadFacts DEF PipelineInv, RegisteredInv, DrainInv
<1>12. JoinInv'
  <2> SUFFICES ASSUME NEW s \in Process
               PROVE  ((s[1] \in Pipeline /\ Ending(s)) \/ s = UserThread =>
                        \E D \in SUBSET Graph : JoinedSoFar(s, D))'
    BY DEF JoinInv
  <2>1. \A r \in Process : pc[r] = "done" => pc'[r] = "done"
    BY <1>2, <1>3
  <2>2. QED
    BY <1>1, <1>9, <2>1, JoinFrame
<1>13. Calm
  BY <1>1, <1>9 DEF Calm, StillLeaves, NobodyEnds, Launching, Entries
<1>14. QED
  BY <1>4, <1>5, <1>6, <1>7, <1>8, <1>10, <1>11, <1>12, <1>13 DEF PipelineInv

\* execute and operateReceiver: a value is taken, and sent on.
LEMMA WorkStep ==
  ASSUME PipelineInv, NEW t \in Process, Testing(t), Take(t),
         NEW w \in Seq(EntryOf(t)), Sorted(w, Order),
         \A e \in Range(w) : e.op \in {"receive", "wakeUp"},
         agenda' = [agenda EXCEPT ![t] = w],
         UNCHANGED <<notifiers, slots, pc>>
  PROVE  PipelineInv' /\ Calm
<1>1. /\ t \in Thread /\ pc[t] = "run" /\ Range(agenda[t]) = {} /\ ~ Ending(t)
      /\ t # UserThread /\ t[1] \in Node /\ slots[t] = Downstream(t[1])
  BY TestingFacts
<1>2. /\ queue[t[1]] # <<>>
      /\ queue' \in [Node -> Seq(Data)] /\ executed' \in [Node -> Seq(Data)]
      /\ \A n \in Node : n # t[1] => queue'[n] = queue[n]
  <2>1. /\ queue[t[1]] # <<>>
        /\ queue' = [queue EXCEPT ![t[1]] = Tail(@)]
        /\ executed' = [executed EXCEPT ![t[1]] = Append(@, Head(queue[t[1]]))]
    BY DEF Take
  <2>2. queue \in [Node -> Seq(Data)] /\ executed \in [Node -> Seq(Data)]
    BY DEF PipelineInv, TypeOK
  <2>3. queue[t[1]] \in Seq(Data) /\ executed[t[1]] \in Seq(Data)
    BY <1>1, <2>2
  <2>4. Tail(queue[t[1]]) \in Seq(Data) /\ Append(executed[t[1]], Head(queue[t[1]])) \in Seq(Data)
    BY <2>1, <2>3
  <2>5. QED
    BY <1>1, <2>1, <2>2, <2>4
<1>3. /\ agenda' \in [Process -> Seq(Entry)] /\ agenda'[t] = w
      /\ \A s \in Process : s # t => agenda'[s] = agenda[s]
  BY EntryOfType DEF PipelineInv, TypeOK
<1>4. TypeOK'
  BY <1>2, <1>3 DEF PipelineInv, TypeOK
<1>5. AgendaInv'
  BY <1>1, <1>3 DEF PipelineInv, AgendaInv
<1>6. UserInv' /\ WiredInv'
  BY DEF PipelineInv, UserInv, WiredInv
<1>7. LaunchInv' /\ CopyInv'
  <2>1. agenda'[UserThread] = agenda[UserThread]
    BY <1>1, <1>3, ThreadFacts
  <2>2. QED
    BY <2>1, LaunchFrame
<1>8. \A s \in Process : \A e : e.op \notin {"receive", "wakeUp"} =>
        (e \in Range(agenda'[s]) <=> e \in Range(agenda[s]))
  BY <1>1, <1>3
<1>9. \A s \in Process : Ending(s)' <=> Ending(s)
  BY <1>8, EndFrame
<1>10. EndInv'
  BY <1>8, ThreadFacts DEF PipelineInv, EndInv, Entries
<1>11. RegisteredInv'
  BY <1>9, ThreadFacts DEF PipelineInv, RegisteredInv
<1>12. SendInv'
  <2> SUFFICES ASSUME NEW s \in Process, NEW e \in Range(agenda'[s]), e.op = "receive",
                      NEW n \in e.on
               PROVE  s \in notifiers[n]
    BY DEF SendInv, Entries
  <2>1. CASE s # t
    BY <1>3, <2>1 DEF PipelineInv, SendInv, Entries
  <2>2. CASE s = t
    <3>1. e \in EntryOf(t)
      BY <1>3, <2>2, RangeOf
    <3>2. n \in slots[t]
      BY <1>1, <3>1 DEF EntryOf
    <3>3. QED
      BY <1>1, <2>2, <3>2 DEF PipelineInv, RegisteredInv
  <2>3. QED
    BY <2>1, <2>2
<1>13. DrainInv'
  <2> SUFFICES ASSUME NEW s \in Thread, Ending(s)
               PROVE  notifiers[s[1]] = {} /\ queue'[s[1]] = <<>>
    BY <1>9, ThreadFacts DEF DrainInv
  <2>1. notifiers[s[1]] = {} /\ queue[s[1]] = <<>> /\ s[1] \in Node
    BY ThreadFacts DEF PipelineInv, DrainInv, Node
  <2>2. QED
    BY <1>2, <2>1
<1>14. JoinInv'
  <2> SUFFICES ASSUME NEW s \in Process
               PROVE  ((s[1] \in Pipeline /\ Ending(s)) \/ s = UserThread =>
                        \E D \in SUBSET Graph : JoinedSoFar(s, D))'
    BY DEF JoinInv
  <2>1. \A e : e.op = "join" => (e \in Range(agenda[s]) => e \in Range(agenda'[s]))
    BY <1>8
  <2>2. QED
    BY <1>9, <2>1, JoinFrame
<1>15. Calm
  <2>1. \A e : e.op \in LaunchOp =>
          (e \in Range(agenda'[UserThread]) <=> e \in Range(agenda[UserThread]))
    BY <1>8, ThreadFacts DEF LaunchOp
  <2>2. Launching' => Launching
    BY <2>1 DEF Launching, Entries
  <2>3. QED
    BY <1>8, <1>9, <2>2 DEF Calm, StillLeaves, NobodyEnds, Entries
<1>16. QED
  BY <1>4, <1>5, <1>6, <1>7, <1>10, <1>11, <1>12, <1>13, <1>14, <1>15 DEF PipelineInv

LEMMA ExecuteStep ==
  ASSUME PipelineInv, NEW t \in Process, Execute(t)
  PROVE  PipelineInv' /\ Calm
<1>1. PICK to, d : to = Succ[t[1]] /\ d = Head(queue[t[1]])
  OBVIOUS
<1>2. PICK w : w = SendAndNotify(to, d)
  OBVIOUS
<1>3. /\ Testing(t) /\ t[1] \in Task /\ Take(t)
      /\ agenda' = [agenda EXCEPT ![t] = w]
      /\ UNCHANGED <<notifiers, slots, pc>>
  BY <1>1, <1>2 DEF Execute
<1>4. to \subseteq Downstream(t[1]) /\ d \in Data
  <2>1. queue[t[1]] \in Seq(Data) /\ queue[t[1]] # <<>>
    BY <1>3, TestingFacts DEF PipelineInv, TypeOK, Take
  <2>2. QED
    BY <1>1, <1>3, <2>1, DownstreamFacts
<1>5. /\ w \in Seq(EntryOf(t)) /\ Sorted(w, Order)
      /\ \A e \in Range(w) : e.op \in {"receive", "wakeUp"}
  BY <1>2, <1>4, SendFacts
<1>6. QED
  BY <1>3, <1>5, WorkStep

LEMMA OperateReceiverStep ==
  ASSUME PipelineInv, NEW t \in Process, OperateReceiver(t)
  PROVE  PipelineInv' /\ Calm
<1>1. PICK p, d : p = t[1] /\ d = Head(queue[t[1]])
  OBVIOUS
<1>2. PICK ss : ss = [i \in DOMAIN Copies[p] |-> OperateCopy(Copies[p][i], d)]
  OBVIOUS
<1>3. PICK w : w = FlattenSeq(ss)
  OBVIOUS
<1>4. /\ Testing(t) /\ p \in Pipeline /\ Take(t)
      /\ agenda' = [agenda EXCEPT ![t] = w]
      /\ UNCHANGED <<notifiers, slots, pc>>
  BY <1>1, <1>2, <1>3 DEF OperateReceiver
<1>5. d \in Data
  <2>1. queue[t[1]] \in Seq(Data) /\ queue[t[1]] # <<>>
    BY <1>4, TestingFacts DEF PipelineInv, TypeOK, Take
  <2>2. QED
    BY <1>1, <2>1
<1>6. PICK N \in Nat : DOMAIN Copies[p] = 1 .. N
  BY <1>4, CopiesOf
<1>7. DOMAIN ss = 1 .. N /\ ss = [i \in DOMAIN ss |-> ss[i]]
  BY <1>2, <1>6
<1>8. ASSUME NEW i \in 1 .. N
      PROVE  /\ ss[i] \in Seq(EntryOf(t)) /\ Sorted(ss[i], Order)
             /\ \A e \in Range(ss[i]) : e.op \in {"receive", "wakeUp"}
  <2>1. PICK to : to = Inputs[Copies[p][i]]
    OBVIOUS
  <2>2. to \subseteq Downstream(t[1])
    BY <1>1, <1>4, <1>6, <2>1, DownstreamFacts
  <2>3. ss[i] = IF <<d, Copies[p][i]>> \in SendToGraph THEN SendAndNotify(to, d) ELSE <<>>
    BY <1>2, <1>6, <2>1 DEF OperateCopy
  <2>4. CASE <<d, Copies[p][i]>> \in SendToGraph
    <3>1. /\ SendAndNotify(to, d) \in Seq(EntryOf(t)) /\ Sorted(SendAndNotify(to, d), Order)
          /\ \A e \in Range(SendAndNotify(to, d)) : e.op \in {"receive", "wakeUp"}
      BY <1>5, <2>2, SendFacts
    <3>2. QED
      BY <2>3, <2>4, <3>1
  <2>5. CASE <<d, Copies[p][i]>> \notin SendToGraph
    BY <2>3, <2>5, NothingMore
  <2>6. QED
    BY <2>4, <2>5
<1>9. /\ w \in Seq(EntryOf(t)) /\ Sorted(w, Order)
      /\ \A e \in Range(w) : e.op \in {"receive", "wakeUp"}
  BY <1>3, <1>7, <1>8, ManySends
<1>10. QED
  BY <1>4, <1>9, WorkStep

\* Entries that launch nothing follow by their rank.
LEMMA PlainCross ==
  ASSUME NEW t, NEW a \in Seq(EntryOf(t)), NEW b \in Seq(EntryOf(t)), NEW O, NEW P,
         \A x \in Range(a) : x.op \in O,
         \A y \in Range(b) : y.op \in P,
         \A o \in O, p \in P : /\ o # "return" /\ p \notin LaunchOp
                               /\ Rank[o] <= Rank[p] \/ "wakeUp" \in {o, p}
  PROVE  Cross(a, b, Order)
<1> SUFFICES ASSUME NEW x \in Range(a), NEW y \in Range(b)
             PROVE  <<x, y>> \in Order
  BY DEF Cross
<1>1. x \in Entry /\ y \in Entry
  <2>1. x \in EntryOf(t) /\ y \in EntryOf(t)
    BY RangeOf
  <2>2. QED
    BY <2>1 DEF EntryOf
<1>2. /\ x.op # "return" /\ y.op \notin LaunchOp
      /\ Rank[x.op] <= Rank[y.op] \/ "wakeUp" \in {x.op, y.op}
  OBVIOUS
<1>3. Covers(y) = {}
  BY <1>2 DEF Covers, LaunchOp
<1>4. MayPrecede(x, y)
  BY <1>2, <1>3 DEF MayPrecede
<1>5. QED
  BY <1>1, <1>4 DEF Order

\* The join of the copies of a pipeline, one after the other.
LEMMA JoinFacts ==
  ASSUME NEW t, NEW p \in Pipeline
  PROVE  LET w == FlattenSeq([i \in DOMAIN Copies[p] |-> Loop("join", {Copies[p][i]})]) IN
         /\ w \in Seq(EntryOf(t)) /\ Sorted(w, Order)
         /\ \A e \in Range(w) : e.op = "join"
         /\ \A i \in DOMAIN Copies[p] : \E e \in Range(w) : e.op = "join" /\ Copies[p][i] \in e.on
<1>1. PICK ss : ss = [i \in DOMAIN Copies[p] |-> Loop("join", {Copies[p][i]})]
  OBVIOUS
<1>2. PICK N \in Nat : DOMAIN Copies[p] = 1 .. N
  BY CopiesOf
<1>3. ASSUME NEW i \in 1 .. N
      PROVE  /\ ss[i] \in Seq(EntryOf(t)) /\ Sorted(ss[i], Order)
             /\ \A e \in Range(ss[i]) : e.op = "join"
             /\ \E e \in Range(ss[i]) : e.op = "join" /\ Copies[p][i] \in e.on
  <2>1. PICK on : on = {Copies[p][i]}
    OBVIOUS
  <2>2. on \subseteq Graph /\ on # {} /\ Copies[p][i] \in on
    BY <1>2, <2>1, CopiesOf
  <2>3. on \in SUBSET Thing
    BY <2>2 DEF Thing, Item
  <2>4. /\ Loop("join", on) \in Seq(EntryOf(t)) /\ Sorted(Loop("join", on), Order)
        /\ \A e \in Range(Loop("join", on)) : e.op = "join" /\ e.on = on
        /\ on # {} => \E e \in Range(Loop("join", on)) : e.op = "join" /\ e.on = on
    BY <2>2, <2>3, PlainLoop
  <2>5. ss[i] = Loop("join", on)
    BY <1>1, <1>2, <2>1
  <2>6. QED
    BY <2>2, <2>4, <2>5
<1>4. ss \in [1 .. N -> Seq(EntryOf(t))]
  <2>1. ss = [i \in 1 .. N |-> ss[i]]
    BY <1>1, <1>2
  <2>2. QED
    BY <1>3, <2>1
<1>5. ASSUME NEW i \in 1 .. N, NEW j \in 1 .. N, i < j
      PROVE  Cross(ss[i], ss[j], Order)
  <2>1. PICK O : O = {"join"}
    OBVIOUS
  <2>2. \A o \in O, q \in O : /\ o # "return" /\ q \notin LaunchOp
                              /\ Rank[o] <= Rank[q] \/ "wakeUp" \in {o, q}
    BY <2>1 DEF Rank, Op, LaunchOp
  <2>3. /\ \A e \in Range(ss[i]) : e.op \in O
        /\ \A e \in Range(ss[j]) : e.op \in O
    BY <1>3, <2>1
  <2>4. ss[i] \in Seq(EntryOf(t)) /\ ss[j] \in Seq(EntryOf(t))
    BY <1>3
  <2>5. QED
    BY <2>2, <2>3, <2>4, PlainCross
<1>6. /\ FlattenSeq(ss) \in Seq(EntryOf(t))
      /\ \A e : e \in Range(FlattenSeq(ss)) <=> \E i \in 1 .. N : e \in Range(ss[i])
      /\ Sorted(FlattenSeq(ss), Order)
  <2>1. \A i \in 1 .. N : Sorted(ss[i], Order)
    BY <1>3
  <2>2. QED
    BY <1>4, <1>5, <2>1, FlattenOf
<1>7. /\ \A e \in Range(FlattenSeq(ss)) : e.op = "join"
      /\ \A i \in 1 .. N : \E e \in Range(FlattenSeq(ss)) : e.op = "join" /\ Copies[p][i] \in e.on
  BY <1>3, <1>6
<1>8. QED
  BY <1>1, <1>2, <1>6, <1>7

\* Two agendas one after the other, by the ranks of what is in them.
LEMMA PlainConcat ==
  ASSUME NEW t, NEW a \in Seq(EntryOf(t)), NEW b \in Seq(EntryOf(t)), NEW O, NEW P,
         \A x \in Range(a) : x.op \in O,
         \A y \in Range(b) : y.op \in P,
         \A o \in O, p \in P : /\ o # "return" /\ p \notin LaunchOp
                               /\ Rank[o] <= Rank[p] \/ "wakeUp" \in {o, p},
         Sorted(a, Order), Sorted(b, Order)
  PROVE  /\ a \o b \in Seq(EntryOf(t)) /\ Sorted(a \o b, Order)
         /\ Range(a \o b) = Range(a) \cup Range(b)
         /\ \A x \in Range(a \o b) : x.op \in O \cup P
<1>1. Cross(a, b, Order)
  BY PlainCross
<1>2. /\ a \o b \in Seq(EntryOf(t)) /\ Sorted(a \o b, Order)
      /\ Range(a \o b) = Range(a) \cup Range(b)
  BY <1>1, ConcatFacts
<1>3. QED
  BY <1>2

\* Leaving the successors and waking them up.
LEMMA NotifyFacts ==
  ASSUME NEW t, NEW to, to \subseteq Downstream(t[1])
  PROVE  /\ NotifyAllTerminated(to) \in Seq(EntryOf(t))
         /\ Sorted(NotifyAllTerminated(to), Order)
         /\ \A e \in Range(NotifyAllTerminated(to)) : e.op \in {"remove", "wakeUp"}
         /\ to # {} => \E e \in Range(NotifyAllTerminated(to)) : e.op = "remove" /\ e.on = to
<1>1. to \in SUBSET Thing /\ to \subseteq Node
  BY DownstreamFacts DEF Thing
<1>2. PICK a, b : a = Loop("remove", to) /\ b = Loop("wakeUp", to)
  OBVIOUS
<1>3. /\ Loop("remove", to) \in Seq(EntryOf(t)) /\ Sorted(Loop("remove", to), Order)
      /\ \A e \in Range(Loop("remove", to)) : e.op = "remove" /\ e.on = to
      /\ to # {} => \E e \in Range(Loop("remove", to)) : e.op = "remove" /\ e.on = to
  BY <1>1, PlainLoop
<1>4. /\ Loop("wakeUp", to) \in Seq(EntryOf(t)) /\ Sorted(Loop("wakeUp", to), Order)
      /\ \A e \in Range(Loop("wakeUp", to)) : e.op = "wakeUp" /\ e.on = to
  BY <1>1, PlainLoop
<1>5. PICK O, P : O = {"remove"} /\ P = {"wakeUp"}
  OBVIOUS
<1>6. \A o \in O, p \in P : /\ o # "return" /\ p \notin LaunchOp
                            /\ Rank[o] <= Rank[p] \/ "wakeUp" \in {o, p}
  BY <1>5 DEF LaunchOp
<1>7. /\ a \in Seq(EntryOf(t)) /\ b \in Seq(EntryOf(t)) /\ Sorted(a, Order) /\ Sorted(b, Order)
      /\ (\A x \in Range(a) : x.op \in O) /\ (\A y \in Range(b) : y.op \in P)
  BY <1>2, <1>3, <1>4, <1>5
<1>8. /\ a \o b \in Seq(EntryOf(t)) /\ Sorted(a \o b, Order)
      /\ Range(a \o b) = Range(a) \cup Range(b)
      /\ \A x \in Range(a \o b) : x.op \in O \cup P
  BY <1>6, <1>7, PlainConcat
<1>9. NotifyAllTerminated(to) = a \o b
  BY <1>2 DEF NotifyAllTerminated
<1>10. QED
  BY <1>2, <1>3, <1>5, <1>8, <1>9

\* What a thread does at its end.
LEMMA EndAgendaFacts ==
  ASSUME NEW t \in Thread, slots[t] \subseteq Downstream(t[1])
  PROVE  /\ EndAgenda(t) \in Seq(EntryOf(t)) /\ Sorted(EndAgenda(t), Order)
         /\ \A e \in Range(EndAgenda(t)) :
              e.op \in {"remove", "leave", "wakeUp", "join", "return"}
         /\ \E e \in Range(EndAgenda(t)) : e.op = "return"
         /\ t[1] \in Pipeline => \A i \in DOMAIN Copies[t[1]] :
              \E e \in Range(EndAgenda(t)) : e.op = "join" /\ Copies[t[1]][i] \in e.on
         /\ slots[t] # {} => \E e \in Range(EndAgenda(t)) :
              e.op \in {"remove", "leave"} /\ e.on = slots[t]
<1>1. PICK n, to, one : n = t[1] /\ to = slots[t] /\ one = {n}
  OBVIOUS
<1>2. n \in Task \cup Pipeline /\ to \subseteq Downstream(t[1])
  BY <1>1, ThreadFacts
<1>3. PICK js : js = FlattenSeq([i \in DOMAIN Copies[n] |-> Loop("join", {Copies[n][i]})])
  OBVIOUS
<1>4. PICK a : a = IF n \in Pipeline THEN Loop("leave", to) \o js ELSE NotifyAllTerminated(to)
  OBVIOUS
<1>5. EndAgenda(t) = a \o Loop("wakeUp", one) \o Loop("return", one)
  BY <1>1, <1>3, <1>4 DEF EndAgenda
<1>6. PICK Q : Q = {"remove", "leave", "wakeUp", "join"}
  OBVIOUS
<1>7. /\ a \in Seq(EntryOf(t)) /\ Sorted(a, Order) /\ \A e \in Range(a) : e.op \in Q
      /\ n \in Pipeline => \A i \in DOMAIN Copies[n] :
           \E e \in Range(a) : e.op = "join" /\ Copies[n][i] \in e.on
      /\ to # {} => \E e \in Range(a) : e.op \in {"remove", "leave"} /\ e.on = to
  <2>1. CASE n \in Pipeline
    <3>1. /\ js \in Seq(EntryOf(t)) /\ Sorted(js, Order)
          /\ \A e \in Range(js) : e.op = "join"
          /\ \A i \in DOMAIN Copies[n] : \E e \in Range(js) : e.op = "join" /\ Copies[n][i] \in e.on
      BY <1>3, <2>1, JoinFacts
    <3>2. to \in SUBSET Thing
      BY <1>2, DownstreamFacts DEF Thing
    <3>3. /\ Loop("leave", to) \in Seq(EntryOf(t)) /\ Sorted(Loop("leave", to), Order)
          /\ \A e \in Range(Loop("leave", to)) : e.op = "leave" /\ e.on = to
          /\ to # {} => \E e \in Range(Loop("leave", to)) : e.op = "leave" /\ e.on = to
      BY <1>2, <3>2, PlainLoop
    <3>4. PICK b, O, P : b = Loop("leave", to) /\ O = {"leave"} /\ P = {"join"}
      OBVIOUS
    <3>5. \A o \in O, p \in P : /\ o # "return" /\ p \notin LaunchOp
                                /\ Rank[o] <= Rank[p] \/ "wakeUp" \in {o, p}
      BY <3>4 DEF Rank, Op, LaunchOp
    <3>6. /\ b \in Seq(EntryOf(t)) /\ Sorted(b, Order)
          /\ (\A x \in Range(b) : x.op \in O) /\ (\A y \in Range(js) : y.op \in P)
      BY <3>1, <3>3, <3>4
    <3>7. /\ b \o js \in Seq(EntryOf(t)) /\ Sorted(b \o js, Order)
          /\ Range(b \o js) = Range(b) \cup Range(js)
          /\ \A x \in Range(b \o js) : x.op \in O \cup P
      BY <3>1, <3>5, <3>6, PlainConcat
    <3>8. a = b \o js
      BY <1>4, <2>1, <3>4
    <3>9. QED
      BY <1>6, <3>1, <3>3, <3>4, <3>7, <3>8
  <2>2. CASE n \notin Pipeline
    <3>1. /\ NotifyAllTerminated(to) \in Seq(EntryOf(t))
          /\ Sorted(NotifyAllTerminated(to), Order)
          /\ \A e \in Range(NotifyAllTerminated(to)) : e.op \in {"remove", "wakeUp"}
          /\ to # {} => \E e \in Range(NotifyAllTerminated(to)) : e.op = "remove" /\ e.on = to
      BY <1>2, NotifyFacts
    <3>2. QED
      BY <1>4, <1>6, <2>2, <3>1
  <2>3. QED
    BY <2>1, <2>2
<1>8. /\ one \in SUBSET Thing /\ one \subseteq Node /\ one # {}
      /\ t[1] \in one /\ \A x \in one : x = t[1]
  BY <1>1, <1>2 DEF Thing, Node
<1>9. /\ Loop("wakeUp", one) \in Seq(EntryOf(t)) /\ Sorted(Loop("wakeUp", one), Order)
      /\ \A e \in Range(Loop("wakeUp", one)) : e.op = "wakeUp" /\ e.on = one
  BY <1>8, PlainLoop
<1>10. /\ Loop("return", one) \in Seq(EntryOf(t)) /\ Sorted(Loop("return", one), Order)
       /\ \A e \in Range(Loop("return", one)) : e.op = "return" /\ e.on = one
       /\ one # {} => \E e \in Range(Loop("return", one)) : e.op = "return" /\ e.on = one
  BY <1>8, PlainLoop
<1>11. PICK b, c, P, R : /\ b = Loop("wakeUp", one) /\ c = Loop("return", one)
                         /\ P = {"wakeUp"} /\ R = {"return"}
  OBVIOUS
<1>12. /\ a \o b \in Seq(EntryOf(t)) /\ Sorted(a \o b, Order)
       /\ Range(a \o b) = Range(a) \cup Range(b)
       /\ \A x \in Range(a \o b) : x.op \in Q
  <2>1. \A o \in Q, p \in P : /\ o # "return" /\ p \notin LaunchOp
                              /\ Rank[o] <= Rank[p] \/ "wakeUp" \in {o, p}
    BY <1>6, <1>11 DEF LaunchOp
  <2>2. b \in Seq(EntryOf(t)) /\ Sorted(b, Order) /\ \A y \in Range(b) : y.op \in P
    BY <1>9, <1>11
  <2>3. /\ a \o b \in Seq(EntryOf(t)) /\ Sorted(a \o b, Order)
        /\ Range(a \o b) = Range(a) \cup Range(b)
        /\ \A x \in Range(a \o b) : x.op \in Q \cup P
    BY <1>7, <2>1, <2>2, PlainConcat
  <2>4. Q \cup P = Q
    BY <1>6, <1>11
  <2>5. QED
    BY <2>3, <2>4
<1>13. PICK ab : ab = a \o b
  OBVIOUS
<1>14. /\ ab \o c \in Seq(EntryOf(t)) /\ Sorted(ab \o c, Order)
       /\ Range(ab \o c) = Range(ab) \cup Range(c)
       /\ \A x \in Range(ab \o c) : x.op \in Q \cup R
  <2>1. \A o \in Q, p \in R : /\ o # "return" /\ p \notin LaunchOp
                              /\ Rank[o] <= Rank[p] \/ "wakeUp" \in {o, p}
    BY <1>6, <1>11 DEF LaunchOp, Rank, Op
  <2>2. c \in Seq(EntryOf(t)) /\ Sorted(c, Order) /\ \A y \in Range(c) : y.op \in R
    BY <1>10, <1>11
  <2>3. ab \in Seq(EntryOf(t)) /\ Sorted(ab, Order) /\ \A y \in Range(ab) : y.op \in Q
    BY <1>12, <1>13
  <2>4. QED
    BY <2>1, <2>2, <2>3, PlainConcat
<1>15. EndAgenda(t) = ab \o c /\ Range(ab \o c) = Range(a) \cup Range(b) \cup Range(c)
  BY <1>5, <1>11, <1>12, <1>13, <1>14
<1>16. \A x \in Range(ab \o c) : x.op \in {"remove", "leave", "wakeUp", "join", "return"}
  BY <1>6, <1>11, <1>14
<1>17. \E e \in Range(ab \o c) : e.op = "return"
  BY <1>8, <1>10, <1>11, <1>15
<1>18. /\ n \in Pipeline => \A i \in DOMAIN Copies[n] :
            \E e \in Range(ab \o c) : e.op = "join" /\ Copies[n][i] \in e.on
       /\ to # {} => \E e \in Range(ab \o c) : e.op \in {"remove", "leave"} /\ e.on = to
  BY <1>7, <1>15
<1>19. QED
  BY <1>1, <1>14, <1>15, <1>16, <1>17, <1>18

LEMMA LeaveLoopStep ==
  ASSUME PipelineInv, NEW t \in Process, LeaveLoop(t)
  PROVE  PipelineInv'
<1>1. PICK w : w = EndAgenda(t)
  OBVIOUS
<1>2. /\ Testing(t) /\ queue[t[1]] = <<>> /\ notifiers[t[1]] = {}
      /\ agenda' = [agenda EXCEPT ![t] = w]
      /\ UNCHANGED <<notifiers, slots, queue, pc, executed>>
  BY <1>1 DEF LeaveLoop
<1>3. /\ t \in Thread /\ pc[t] = "run" /\ Range(agenda[t]) = {} /\ ~ Ending(t)
      /\ t # UserThread /\ t[1] \in Node /\ slots[t] = Downstream(t[1])
  BY <1>2, TestingFacts
<1>4. /\ w \in Seq(EntryOf(t)) /\ Sorted(w, Order)
      /\ \A e \in Range(w) : e.op \in {"remove", "leave", "wakeUp", "join", "return"}
      /\ \E e \in Range(w) : e.op = "return"
      /\ t[1] \in Pipeline => \A i \in DOMAIN Copies[t[1]] :
           \E e \in Range(w) : e.op = "join" /\ Copies[t[1]][i] \in e.on
  BY <1>1, <1>3, EndAgendaFacts
<1>5. /\ agenda' \in [Process -> Seq(Entry)] /\ agenda'[t] = w
      /\ \A s \in Process : s # t => agenda'[s] = agenda[s]
  BY <1>2, <1>4, EntryOfType DEF PipelineInv, TypeOK
<1>6. TypeOK'
  BY <1>2, <1>5 DEF PipelineInv, TypeOK
<1>7. AgendaInv'
  BY <1>2, <1>3, <1>4, <1>5 DEF PipelineInv, AgendaInv
<1>8. UserInv' /\ WiredInv'
  BY <1>2 DEF PipelineInv, UserInv, WiredInv
<1>9. LaunchInv' /\ CopyInv'
  <2>1. agenda'[UserThread] = agenda[UserThread]
    BY <1>3, <1>5, ThreadFacts
  <2>2. QED
    BY <1>2, <2>1, LaunchFrame
<1>10. \A s \in Process : s # t => (Ending(s)' <=> Ending(s))
  BY <1>2, <1>5 DEF Ending, Entries
<1>11. EndInv'
  <2> SUFFICES ASSUME NEW s \in Thread, NEW e \in Range(agenda'[s]), e.op \in {"remove", "leave"}
               PROVE  \E f \in Range(agenda'[s]) : f.op = "return"
    BY DEF EndInv, Entries
  <2>1. CASE s = t
    BY <1>4, <1>5, <2>1
  <2>2. CASE s # t
    BY <1>5, <2>2, ThreadFacts DEF PipelineInv, EndInv, Entries
  <2>3. QED
    BY <2>1, <2>2
<1>12. RegisteredInv'
  <2> SUFFICES ASSUME NEW s \in Thread, ~ Ending(s)', NEW n \in slots[s]
               PROVE  s \in notifiers[n]
    BY <1>2 DEF RegisteredInv
  <2>1. ~ Ending(s)
    BY <1>3, <1>10, ThreadFacts
  <2>2. QED
    BY <2>1 DEF PipelineInv, RegisteredInv
<1>13. SendInv'
  <2> SUFFICES ASSUME NEW s \in Process, NEW e \in Range(agenda'[s]), e.op = "receive",
                      NEW n \in e.on
               PROVE  s \in notifiers[n]
    BY <1>2 DEF SendInv, Entries
  <2>1. s # t
    BY <1>4, <1>5
  <2>2. QED
    BY <1>5, <2>1 DEF PipelineInv, SendInv, Entries
<1>14. DrainInv'
  <2> SUFFICES ASSUME NEW s \in Thread, Ending(s)'
               PROVE  notifiers[s[1]] = {} /\ queue[s[1]] = <<>>
    BY <1>2 DEF DrainInv
  <2>1. CASE s = t
    BY <1>2, <2>1
  <2>2. CASE s # t
    BY <1>10, <2>2, ThreadFacts DEF PipelineInv, DrainInv
  <2>3. QED
    BY <2>1, <2>2
<1>15. JoinInv'
  <2> SUFFICES ASSUME NEW s \in Process
               PROVE  ((s[1] \in Pipeline /\ Ending(s)) \/ s = UserThread =>
                        \E D \in SUBSET Graph : JoinedSoFar(s, D))'
    BY DEF JoinInv
  <2>1. CASE s # t
    <3>1. \A r \in Process : pc[r] = "done" => pc'[r] = "done"
      BY <1>2
    <3>2. (Ending(s)' => Ending(s)) /\ agenda'[s] = agenda[s]
      BY <1>5, <1>10, <2>1
    <3>3. QED
      BY <3>1, <3>2, JoinFrame
  <2>2. CASE s = t
    <3>1. s # UserThread
      BY <1>3, <2>2
    <3>2. ASSUME t[1] \in Pipeline
          PROVE  \E D \in SUBSET Graph : JoinedSoFar(s, D)'
      <4>1. PICK D : D = {}
        OBVIOUS
      <4>2. Copies[t[1]] \in Seq(Graph)
        BY <3>2, GraphAssumption
      <4>3. \A g \in Range(Copies[t[1]]) : \E e \in Range(agenda'[t]) : e.op = "join" /\ g \in e.on
        <5>1. \A g \in Range(Copies[t[1]]) : \E i \in DOMAIN Copies[t[1]] : g = Copies[t[1]][i]
          BY <4>2, RangeOf
        <5>2. QED
          BY <1>4, <1>5, <3>2, <5>1
      <4>4. Roots(s)' \subseteq ToJoin(s)'
        BY <2>2, <3>1, <4>3 DEF Roots, ToJoin, Entries
      <4>5. JoinedSoFar(s, D)' /\ D \in SUBSET Graph
        BY <4>1, <4>4 DEF JoinedSoFar, Roots
      <4>6. QED
        BY <4>5
    <3>3. QED
      BY <2>2, <3>1, <3>2
  <2>3. QED
    BY <2>1, <2>2
<1>16. QED
  BY <1>6, <1>7, <1>8, <1>9, <1>11, <1>12, <1>13, <1>14, <1>15 DEF PipelineInv

-----------------------------------------------------------------------------
(* The invariant holds at first.                                             *)

\* Entries of thread t, in order, whose operations are in O; what may come after.
Only(s, t, O) == /\ s \in Seq(EntryOf(t)) /\ Sorted(s, Order)
                 /\ \A e \in Range(s) : e.op \in O
Before(O, P) == \A o \in O, p \in P : /\ o # "return" /\ p \notin LaunchOp
                                      /\ Rank[o] <= Rank[p] \/ "wakeUp" \in {o, p}

LEMMA OnlyConcat ==
  ASSUME NEW t, NEW O, NEW P, NEW a, NEW b, Only(a, t, O), Only(b, t, P), Before(O, P)
  PROVE  Only(a \o b, t, O \cup P)
<1>1. /\ a \in Seq(EntryOf(t)) /\ Sorted(a, Order) /\ \A e \in Range(a) : e.op \in O
      /\ b \in Seq(EntryOf(t)) /\ Sorted(b, Order) /\ \A e \in Range(b) : e.op \in P
  BY DEF Only
<1>2. \A o \in O, p \in P : /\ o # "return" /\ p \notin LaunchOp
                            /\ Rank[o] <= Rank[p] \/ "wakeUp" \in {o, p}
  BY DEF Before
<1>3. /\ a \o b \in Seq(EntryOf(t)) /\ Sorted(a \o b, Order)
      /\ Range(a \o b) = Range(a) \cup Range(b)
      /\ \A e \in Range(a \o b) : e.op \in O \cup P
  BY <1>1, <1>2, PlainConcat
<1>4. QED
  BY <1>3 DEF Only

LEMMA OnlyRange ==
  ASSUME NEW t, NEW O, NEW P, NEW a, NEW b, Only(a, t, O), Only(b, t, P)
  PROVE  Range(a \o b) = Range(a) \cup Range(b)
<1>1. a \in Seq(EntryOf(t)) /\ b \in Seq(EntryOf(t))
  BY DEF Only
<1>2. QED
  BY <1>1, ConcatFacts

LEMMA UserAgendaFacts ==
  /\ UserAgenda \in Seq(EntryOf(UserThread)) /\ Sorted(UserAgenda, Order)
  /\ \A e \in Range(UserAgenda) : e.op \notin {"copy", "reconnect"}
  /\ \A y \in Under[Outer] : y # Outer =>
       \E e \in Range(UserAgenda) : e.op = "create" /\ y \in Covers(e)
  /\ \E e \in Range(UserAgenda) : e.op = "join" /\ e.on = {Outer}
  /\ Succ[User] # {} => \E e \in Range(UserAgenda) : e.op = "remove" /\ e.on = Succ[User]
<1>0. PICK t : t = UserThread
  OBVIOUS
<1>1. PICK ss : ss = [i \in DOMAIN Input |-> SendAndNotify(Succ[User], Input[i])]
  OBVIOUS
<1>2. PICK a, b, c : /\ a = Launch(Outer) /\ b = FlattenSeq(ss)
                     /\ c = NotifyAllTerminated(Succ[User])
  OBVIOUS
<1>3. PICK out, usr : out = {Outer} /\ usr = {User}
  OBVIOUS
<1>4. PICK d, f : d = Loop("join", out) /\ f = Loop("return", usr)
  OBVIOUS
<1>5. UserAgenda = a \o b \o c \o d \o f
  BY <1>1, <1>2, <1>3, <1>4 DEF UserAgenda
<1>6. t \in Process /\ t[1] = User /\ Succ[User] \subseteq Downstream(t[1]) /\ Outer \in Graph
  BY <1>0, ThreadFacts, DownstreamFacts, GraphAssumption DEF UserThread
<1>7. PICK A, B, C, D, F : /\ A = {"create", "spawn"} /\ B = {"receive", "wakeUp"}
                           /\ C = {"remove", "wakeUp"} /\ D = {"join"} /\ F = {"return"}
  OBVIOUS
<1>8. /\ a \in Seq(EntryOf(t)) /\ Sorted(a, Order) /\ \A e \in Range(a) : e.op \in A
      /\ \A y \in Under[Outer] : y # Outer =>
           \E e \in Range(a) : e.op = "create" /\ y \in Covers(e)
  <2>1. /\ Launch(Outer) \in Seq(EntryOf(UserThread)) /\ Sorted(Launch(Outer), Order)
        /\ \A e \in Range(Launch(Outer)) : /\ e.op \in {"create", "spawn"}
                                           /\ Claims(e) \subseteq Under[Outer]
        /\ \A y \in Under[Outer] : y # Outer =>
             \E e \in Range(Launch(Outer)) : e.op = "create" /\ y \in Covers(e)
    BY <1>6, LaunchFacts
  <2>2. QED
    BY <1>0, <1>2, <1>7, <2>1
<1>9. b \in Seq(EntryOf(t)) /\ Sorted(b, Order) /\ \A e \in Range(b) : e.op \in B
  <2>1. Input \in Seq(Data)
    BY GraphAssumption
  <2>2. PICK N \in Nat : DOMAIN Input = 1 .. N
    BY <2>1
  <2>3. DOMAIN ss = 1 .. N /\ ss = [i \in DOMAIN ss |-> ss[i]]
    BY <1>1, <2>2
  <2>4. ASSUME NEW i \in 1 .. N
        PROVE  /\ ss[i] \in Seq(EntryOf(t)) /\ Sorted(ss[i], Order)
               /\ \A e \in Range(ss[i]) : e.op \in {"receive", "wakeUp"}
    <3>1. PICK to, x : to = Succ[User] /\ x = Input[i]
      OBVIOUS
    <3>2. to \subseteq Downstream(t[1]) /\ x \in Data
      BY <1>6, <2>1, <2>2, <3>1
    <3>3. /\ SendAndNotify(to, x) \in Seq(EntryOf(t)) /\ Sorted(SendAndNotify(to, x), Order)
          /\ \A e \in Range(SendAndNotify(to, x)) : e.op \in {"receive", "wakeUp"}
      BY <1>6, <3>2, SendFacts
    <3>4. ss[i] = SendAndNotify(to, x)
      BY <1>1, <2>2, <3>1
    <3>5. QED
      BY <3>3, <3>4
  <2>5. /\ FlattenSeq(ss) \in Seq(EntryOf(t)) /\ Sorted(FlattenSeq(ss), Order)
        /\ \A e \in Range(FlattenSeq(ss)) : e.op \in {"receive", "wakeUp"}
    BY <1>6, <2>3, <2>4, ManySends
  <2>6. QED
    BY <1>2, <1>7, <2>5
<1>10. /\ c \in Seq(EntryOf(t)) /\ Sorted(c, Order) /\ \A e \in Range(c) : e.op \in C
       /\ Succ[User] # {} => \E e \in Range(c) : e.op = "remove" /\ e.on = Succ[User]
  <2>1. PICK to : to = Succ[User]
    OBVIOUS
  <2>2. to \subseteq Downstream(t[1])
    BY <1>6, <2>1
  <2>3. /\ NotifyAllTerminated(to) \in Seq(EntryOf(t))
        /\ Sorted(NotifyAllTerminated(to), Order)
        /\ \A e \in Range(NotifyAllTerminated(to)) : e.op \in {"remove", "wakeUp"}
        /\ to # {} => \E e \in Range(NotifyAllTerminated(to)) : e.op = "remove" /\ e.on = to
    BY <2>2, NotifyFacts
  <2>4. QED
    BY <1>2, <1>7, <2>1, <2>3
<1>11. /\ d \in Seq(EntryOf(t)) /\ Sorted(d, Order) /\ \A e \in Range(d) : e.op \in D
       /\ \E e \in Range(d) : e.op = "join" /\ e.on = {Outer}
  <2>1. out \in SUBSET Thing /\ out \subseteq Graph /\ out # {}
    BY <1>3, <1>6 DEF Thing, Item
  <2>2. /\ Loop("join", out) \in Seq(EntryOf(t)) /\ Sorted(Loop("join", out), Order)
        /\ \A e \in Range(Loop("join", out)) : e.op = "join" /\ e.on = out
        /\ out # {} => \E e \in Range(Loop("join", out)) : e.op = "join" /\ e.on = out
    BY <2>1, PlainLoop
  <2>3. \E e \in Range(d) : e.op = "join" /\ e.on = out
    BY <1>4, <2>1, <2>2
  <2>4. QED
    BY <1>3, <1>4, <1>7, <2>2, <2>3
<1>12. f \in Seq(EntryOf(t)) /\ Sorted(f, Order) /\ \A e \in Range(f) : e.op \in F
  <2>1. /\ usr \in SUBSET Thing /\ usr # {}
        /\ t[1] \in usr /\ \A x \in usr : x = t[1]
    BY <1>3, <1>6 DEF Thing
  <2>2. /\ Loop("return", usr) \in Seq(EntryOf(t)) /\ Sorted(Loop("return", usr), Order)
        /\ \A e \in Range(Loop("return", usr)) : e.op = "return" /\ e.on = usr
    BY <2>1, PlainLoop
  <2>3. QED
    BY <1>4, <1>7, <2>2
<1>13. PICK AB, ABC, ABCD : AB = A \cup B /\ ABC = AB \cup C /\ ABCD = ABC \cup D
  OBVIOUS
<1>14. PICK v : v = a \o b
  OBVIOUS
<1>15. Only(v, t, AB) /\ Range(v) = Range(a) \cup Range(b)
  <2>1. Before(A, B)
    BY <1>7, <1>13 DEF Before, LaunchOp, Rank, Op
  <2>2. Only(a, t, A) /\ Only(b, t, B)
    BY <1>8, <1>9 DEF Only
  <2>3. Only(a \o b, t, A \cup B)
    BY <2>1, <2>2, OnlyConcat
  <2>4. Range(a \o b) = Range(a) \cup Range(b)
    BY <2>2, OnlyRange
  <2>5. A \cup B = AB
    BY <1>13
  <2>6. QED
    BY <1>14, <2>3, <2>4, <2>5
<1>16. PICK w : w = v \o c
  OBVIOUS
<1>17. Only(w, t, ABC) /\ Range(w) = Range(v) \cup Range(c)
  <2>1. Before(AB, C)
    BY <1>7, <1>13 DEF Before, LaunchOp, Rank, Op
  <2>2. Only(v, t, AB) /\ Only(c, t, C)
    BY <1>15, <1>10 DEF Only
  <2>3. Only(v \o c, t, AB \cup C)
    BY <2>1, <2>2, OnlyConcat
  <2>4. Range(v \o c) = Range(v) \cup Range(c)
    BY <2>2, OnlyRange
  <2>5. AB \cup C = ABC
    BY <1>13
  <2>6. QED
    BY <1>16, <2>3, <2>4, <2>5
<1>18. PICK x : x = w \o d
  OBVIOUS
<1>19. Only(x, t, ABCD) /\ Range(x) = Range(w) \cup Range(d)
  <2>1. Before(ABC, D)
    BY <1>7, <1>13 DEF Before, LaunchOp, Rank, Op
  <2>2. Only(w, t, ABC) /\ Only(d, t, D)
    BY <1>17, <1>11 DEF Only
  <2>3. Only(w \o d, t, ABC \cup D)
    BY <2>1, <2>2, OnlyConcat
  <2>4. Range(w \o d) = Range(w) \cup Range(d)
    BY <2>2, OnlyRange
  <2>5. ABC \cup D = ABCD
    BY <1>13
  <2>6. QED
    BY <1>18, <2>3, <2>4, <2>5
<1>20. PICK y : y = x \o f
  OBVIOUS
<1>21. Only(y, t, (ABCD \cup F)) /\ Range(y) = Range(x) \cup Range(f)
  <2>1. Before(ABCD, F)
    BY <1>7, <1>13 DEF Before, LaunchOp, Rank, Op
  <2>2. Only(x, t, ABCD) /\ Only(f, t, F)
    BY <1>19, <1>12 DEF Only
  <2>3. Only(x \o f, t, ABCD \cup F)
    BY <2>1, <2>2, OnlyConcat
  <2>4. Range(x \o f) = Range(x) \cup Range(f)
    BY <2>2, OnlyRange
  <2>5. ABCD \cup F = (ABCD \cup F)
    BY <1>13
  <2>6. QED
    BY <1>20, <2>3, <2>4, <2>5
<1>22. UserAgenda = y
  BY <1>5, <1>14, <1>16, <1>18, <1>20
<1>23. \A e \in Range(y) : e.op \notin {"copy", "reconnect"}
  BY <1>7, <1>13, <1>21 DEF Only
<1>24. Range(a) \subseteq Range(y) /\ Range(c) \subseteq Range(y) /\ Range(d) \subseteq Range(y)
  BY <1>15, <1>17, <1>19, <1>21
<1>25. y \in Seq(EntryOf(t)) /\ Sorted(y, Order)
  BY <1>21 DEF Only
<1>26. QED
  BY <1>8, <1>10, <1>11, <1>22, <1>23, <1>24, <1>25, <1>0

\* The nodes that an entry of the launch is to start are tasks and pipelines.
LEMMA StartsType ==
  ASSUME NEW e \in EntryOf(UserThread), e.op \in LaunchOp
  PROVE  Starts(e) \subseteq Task \cup Pipeline
<1>1. Outer \in Item /\ Covers(e) \subseteq Under[Outer]
  BY GraphAssumption DEF EntryOf, Item
<1>2. Covers(e) \subseteq Item
  BY <1>1, UnderFacts
<1>3. e.op = "spawn" => e.on \subseteq Graph
  BY DEF EntryOf
<1>4. Starts(e) \subseteq Item \ Graph
  BY <1>2, <1>3, GraphAssumption DEF Starts
<1>5. QED
  BY <1>4 DEF Item

LEMMA FeedersFacts ==
  /\ \A n \in Node : \A x \in Feeders(n) : <<x, 0>> \in Process
  /\ \A n \in Node : Feeders(n) \subseteq Task \cup Pipeline \cup {User}
<1>1. \A n \in Node : Feeders(n) \subseteq Task \cup Pipeline \cup {User}
  BY DEF Feeders
<1>2. \A x \in Task \cup Pipeline : <<x, 0>> \in Process
  BY ThreadFacts
<1>3. <<User, 0>> \in Process
  BY ThreadFacts DEF UserThread
<1>4. QED
  BY <1>1, <1>2, <1>3

LEMMA PipelineInit == Init => PipelineInv
<1> SUFFICES ASSUME Init
             PROVE  PipelineInv
  OBVIOUS
<1>1. /\ notifiers = [n \in Node |-> Feeders(n) \X {0}]
      /\ slots = [t \in Process |-> IF t[2] # 0 THEN {}
                                    ELSE {n \in Node : t[1] \in Feeders(n)}]
      /\ queue = [n \in Node |-> <<>>]
      /\ pc = [t \in Process |-> IF t[1] = User THEN "run" ELSE "idle"]
      /\ agenda = [t \in Process |-> IF t[1] = User THEN UserAgenda ELSE <<>>]
      /\ executed = [n \in Node |-> <<>>]
  BY DEF Init
<1>2. /\ \A t \in Thread : t \in Process /\ pc[t] = "idle" /\ agenda[t] = <<>> /\ Range(agenda[t]) = {}
      /\ pc[UserThread] = "run" /\ agenda[UserThread] = UserAgenda
  <2>1. \A t \in Thread : t \in Process /\ t[1] # User
    BY ThreadFacts, NestingAssumption
  <2>2. UserThread \in Process /\ UserThread[1] = User
    BY ThreadFacts DEF UserThread
  <2>3. pc[UserThread] = "run" /\ agenda[UserThread] = UserAgenda
    BY <1>1, <2>2
  <2>4. \A t \in Thread : pc[t] = "idle" /\ agenda[t] = <<>>
    BY <1>1, <2>1
  <2>5. Range(<<>>) = {}
    BY NothingMore
  <2>6. QED
    BY <2>1, <2>3, <2>4, <2>5
<1>3. \A t \in Process : agenda[t] \in Seq(EntryOf(t)) /\ Sorted(agenda[t], Order)
  <2>1. TAKE t \in Process
  <2>2. CASE t = UserThread
    <3>1. UserAgenda \in Seq(EntryOf(UserThread)) /\ Sorted(UserAgenda, Order)
      BY UserAgendaFacts
    <3>2. QED
      BY <1>2, <2>2, <3>1
  <2>3. CASE t \in Thread
    <3>1. <<>> \in Seq(EntryOf(t)) /\ Sorted(<<>>, Order)
      BY NothingMore
    <3>2. QED
      BY <1>2, <2>3, <3>1
  <2>4. QED
    BY <2>2, <2>3, ThreadFacts
<1>4. \A t \in Process : t \in Thread \/ t = UserThread
  BY ThreadFacts
<1>5. TypeOK
  <2>1. notifiers \in [Node -> SUBSET Process]
    BY <1>1, FeedersFacts
  <2>2. slots \in [Process -> SUBSET Node]
    BY <1>1
  <2>3. queue \in [Node -> Seq(Data)] /\ executed \in [Node -> Seq(Data)]
    BY <1>1
  <2>4. pc \in [Process -> {"idle", "run", "wait", "done"}]
    BY <1>1
  <2>5. agenda \in [Process -> Seq(Entry)]
    <3>1. \A t \in Process : agenda[t] \in Seq(Entry)
      BY <1>3, EntryOfType
    <3>2. agenda = [t \in Process |-> agenda[t]]
      BY <1>1
    <3>3. QED
      BY <3>1, <3>2
  <2>6. QED
    BY <2>1, <2>2, <2>3, <2>4, <2>5 DEF TypeOK
<1>6. AgendaInv
  BY <1>2, <1>3, <1>4 DEF AgendaInv
<1>7. UserInv
  BY <1>2 DEF UserInv
<1>8. WiredInv
  <2>1. \A t \in Process : /\ slots[t] \subseteq Downstream(t[1])
                           /\ t[2] = 0 => slots[t] = Downstream(t[1])
    BY <1>1 DEF Downstream
  <2>2. ASSUME NEW n \in Node, NEW t \in notifiers[n]
        PROVE  n \in slots[t]
    <3>1. PICK x \in Feeders(n) : t = <<x, 0>>
      BY <1>1
    <3>2. t \in Process /\ t[1] = x /\ t[2] = 0
      BY <3>1, FeedersFacts
    <3>3. QED
      BY <1>1, <3>2
  <2>3. QED
    BY <2>1, <2>2 DEF WiredInv
<1>9. LaunchInv
  <2>1. ASSUME NEW e \in Range(agenda[UserThread]), e.op \in LaunchOp,
               NEW n \in Starts(e), NEW s \in ThreadsOf(n)
        PROVE  pc[s] = "idle"
    <3>1. e \in EntryOf(UserThread)
      BY <1>3, RangeOf, ThreadFacts
    <3>2. n \in Task \cup Pipeline
      BY <2>1, <3>1, StartsType
    <3>3. QED
      BY <1>2, <3>2, ThreadFacts
  <2>2. \A e \in Range(agenda[UserThread]) : e.op # "reconnect"
    BY <1>2, UserAgendaFacts
  <2>3. QED
    BY <2>1, <2>2 DEF LaunchInv, Entries
<1>10. CopyInv
  <2> SUFFICES ASSUME NEW c \in Thread, c[1] \in Under[Outer]
               PROVE  \E e \in Range(agenda[UserThread]) : Awaits(e, c)
    BY <1>2 DEF CopyInv, Entries
  <2>1. c[1] # Outer
    BY ThreadFacts, GraphAssumption, NestingAssumption
  <2>2. QED
    BY <1>2, <2>1, UserAgendaFacts DEF Awaits
<1>11. \A t \in Thread : ~ Ending(t)
  BY <1>2 DEF Ending, Entries
<1>12. EndInv
  BY <1>2 DEF EndInv, Entries
<1>13. ASSUME NEW t \in Process, NEW n \in slots[t]
       PROVE  t \in notifiers[n]
  <2>1. n \in Node /\ t[1] \in Feeders(n) /\ t[2] = 0
    BY <1>1, <1>13
  <2>2. t = <<t[1], 0>>
    BY <2>1, ThreadFacts DEF UserThread
  <2>3. QED
    BY <1>1, <2>1, <2>2
<1>14. RegisteredInv
  BY <1>2, <1>13 DEF RegisteredInv
<1>15. SendInv
  <2> SUFFICES ASSUME NEW t \in Process, NEW e \in Range(agenda[t]), e.op = "receive",
                      NEW n \in e.on
               PROVE  t \in notifiers[n]
    BY DEF SendInv, Entries
  <2>1. t = UserThread
    BY <1>2, <1>4
  <2>2. slots[t] = Downstream(t[1])
    <3>1. t[2] = 0
      BY <2>1 DEF UserThread
    <3>2. QED
      BY <1>8, <3>1 DEF WiredInv
  <2>3. e \in EntryOf(t)
    BY <1>3, RangeOf
  <2>4. n \in slots[t]
    BY <2>2, <2>3 DEF EntryOf
  <2>5. QED
    BY <1>13, <2>4
<1>16. DrainInv
  BY <1>11 DEF DrainInv
<1>17. JoinInv
  <2> SUFFICES ASSUME NEW t \in Process, t = UserThread
               PROVE  \E D \in SUBSET Graph : JoinedSoFar(t, D)
    BY <1>4, <1>11, ThreadFacts DEF JoinInv
  <2>1. PICK D : D = {}
    OBVIOUS
  <2>2. PICK e \in Range(agenda[t]) : e.op = "join" /\ Outer \in e.on
    BY <1>2, UserAgendaFacts
  <2>3. Outer \in ToJoin(t)
    BY <2>2 DEF ToJoin, Entries
  <2>4. JoinedSoFar(t, D) /\ D \in SUBSET Graph
    BY <2>1, <2>3 DEF JoinedSoFar, Roots
  <2>5. QED
    BY <2>4
<1>18. QED
  BY <1>5, <1>6, <1>7, <1>8, <1>9, <1>10, <1>12, <1>14, <1>15, <1>16, <1>17 DEF PipelineInv

-----------------------------------------------------------------------------
(* Every step preserves the invariant.                                       *)

LEMMA PipelineNext == PipelineInv /\ [Next]_vars => PipelineInv'
<1> SUFFICES ASSUME PipelineInv, [Next]_vars
             PROVE  PipelineInv'
  OBVIOUS
<1>1. CASE UNCHANGED vars
  BY <1>1 DEF vars, PipelineInv, TypeOK, AgendaInv, UserInv, WiredInv, LaunchInv, CopyInv,
              EndInv, RegisteredInv, SendInv, DrainInv, JoinInv, JoinedSoFar, Ended, ToJoin,
              Roots, Entries, Ending, Awaits
<1>2. ASSUME NEW t \in Process, Step(t)
      PROVE  PipelineInv'
  <2>1. CASE Sleep(t)
    BY <2>1, SleepStep
  <2>2. CASE LeaveLoop(t)
    BY <2>2, LeaveLoopStep
  <2>3. CASE Execute(t)
    BY <2>3, ExecuteStep
  <2>4. CASE OperateReceiver(t)
    BY <2>4, OperateReceiverStep
  <2>5. ASSUME NEW n \in Head(agenda[t]).on, Handle(t, n)
        PROVE  PipelineInv'
    <3>1. CASE Receive(t, n)
      BY <3>1, ReceiveStep
    <3>2. CASE WakeUp(t, n)
      BY <3>2, WakeUpStep
    <3>3. CASE RemoveNotifier(t, n)
      BY <3>3, RemoveNotifierStep
    <3>4. CASE DisconnectSwitch(t, n)
      BY <3>4, DisconnectSwitchStep
    <3>5. CASE Join(t, n)
      BY <3>5, JoinStep
    <3>6. CASE Return(t, n)
      BY <3>6, ReturnStep
    <3>7. CASE CreateInner(t, n)
      BY <3>7, CreateInnerStep
    <3>8. CASE SpawnThreads(t, n)
      BY <3>8, SpawnThreadsStep
    <3>9. CASE ReadNotifier(t, n)
      BY <3>9, ReadNotifierStep
    <3>10. CASE Reconnect(t, n)
      BY <3>10, ReconnectStep
    <3>11. CASE ConnectSuccessors(t, n)
      BY <3>11, ConnectSuccessorsStep
    <3>12. QED
      BY <2>5, <3>1, <3>2, <3>3, <3>4, <3>5, <3>6, <3>7, <3>8, <3>9, <3>10, <3>11 DEF Handle
  <2>6. QED
    BY <1>2, <2>1, <2>2, <2>3, <2>4, <2>5 DEF Step
<1>3. QED
  BY <1>1, <1>2 DEF Next, Terminated

\* The state of the launch, of the wiring and of the agendas that every
\* behaviour keeps: who is connected and what each thread has yet to do.
THEOREM PipelineInvariant == Spec => []PipelineInv
<1>1. QED
  BY PipelineInit, PipelineNext, PTL DEF Spec

-----------------------------------------------------------------------------
(* What a joined graph is.                                                   *)

\* Everything under a graph that was joined is a graph that was joined or a node
\* whose threads all returned.
LEMMA UnderJoined ==
  ASSUME PipelineInv, NEW t \in Process, t[1] \in Pipeline \/ t = UserThread, pc[t] = "done",
         NEW g \in Roots(t)
  PROVE  g \in Graph /\ \A n \in Under[g] \ Graph : n \in Task \cup Pipeline /\ \A s \in ThreadsOf(n) : pc[s] = "done"
<1> DEFINE Finished(D) == Roots(UserThread) = {Outer} /\ D \in SUBSET Graph
           Closed(D) == \A h \in D : Ended(h) /\ Inside[h] \cap Graph \subseteq D
<1>1. ASSUME NEW s \in Process, s[1] \in Pipeline \/ s = UserThread, pc[s] = "done"
      PROVE  \E D \in SUBSET Graph : Roots(s) \subseteq D /\ Closed(D)
  <2>1. PICK D \in SUBSET Graph : JoinedSoFar(s, D)
    BY <1>1 DEF PipelineInv, JoinInv, Ending
  <2>2. agenda[s] = <<>>
    BY <1>1 DEF PipelineInv, AgendaInv
  <2>3. Range(agenda[s]) = {}
    BY <2>2, NothingMore
  <2>4. ToJoin(s) = {}
    BY <2>3 DEF ToJoin, Entries
  <2>5. QED
    BY <2>1, <2>4 DEF JoinedSoFar
<1>2. PICK Joined : Joined = UNION {D \in SUBSET Graph : Closed(D)}
  OBVIOUS
<1>3. Joined \subseteq Graph /\ Closed(Joined)
  BY <1>2
<1>4. PICK Gone : Gone = {n \in Task \cup Pipeline : \A s \in ThreadsOf(n) : pc[s] = "done"}
  OBVIOUS
<1>5. PICK S : S = Joined \cup Gone
  OBVIOUS
<1>6. S \in SUBSET Item
  BY <1>3, <1>4, <1>5 DEF Item
<1>7. \A z \in S : Parts(z) \subseteq S
  <2>1. ASSUME NEW z \in Joined
        PROVE  Parts(z) \subseteq S
    <3>1. z \in Graph /\ Parts(z) = Inside[z] /\ Parts(z) \subseteq Item
      <4>1. z \in Graph /\ z \in Item
        BY <1>3 DEF Item
      <4>2. Parts(z) \subseteq Item
        BY <4>1, PartsType
      <4>3. z \notin Pipeline
        BY <4>1, NestingAssumption
      <4>4. QED
        BY <4>1, <4>2, <4>3 DEF Parts
    <3>2. Inside[z] \cap Graph \subseteq Joined
      BY <1>3
    <3>3. Inside[z] \ Graph \subseteq Gone
      <4>1. Ended(z)
        BY <1>3
      <4>2. QED
        BY <1>4, <3>1, <4>1 DEF Ended, Item
    <3>4. QED
      BY <1>5, <3>1, <3>2, <3>3
  <2>2. ASSUME NEW z \in Gone, z \in Pipeline
        PROVE  Parts(z) \subseteq S
    <3>1. PICK s : s = <<z, 0>>
      OBVIOUS
    <3>2. s \in Process /\ s[1] = z /\ pc[s] = "done" /\ s # UserThread
      BY <1>4, <2>2, <3>1, ThreadFacts
    <3>3. PICK D \in SUBSET Graph : Roots(s) \subseteq D /\ Closed(D)
      BY <1>1, <2>2, <3>2
    <3>4. Roots(s) = Range(Copies[z])
      BY <3>2 DEF Roots
    <3>5. Parts(z) = Range(Copies[z])
      BY <2>2, NestingAssumption DEF Parts
    <3>6. D \subseteq Joined
      BY <1>2, <3>3
    <3>7. QED
      BY <1>5, <3>3, <3>4, <3>5, <3>6
  <2>3. ASSUME NEW z \in Gone, z \in Task
        PROVE  Parts(z) \subseteq S
    BY <2>3, NestingAssumption DEF Parts
  <2>4. QED
    BY <1>4, <1>5, <2>1, <2>2, <2>3
<1>8. PICK D \in SUBSET Graph : Roots(t) \subseteq D /\ Closed(D)
  BY <1>1
<1>9. g \in S /\ g \in Graph
  BY <1>2, <1>5, <1>8
<1>10. Under[g] \subseteq S
  <2>1. g \in Item
    BY <1>9 DEF Item
  <2>2. QED
    BY <1>6, <1>7, <1>9, <2>1, UnderLeast
<1>11. QED
  BY <1>3, <1>4, <1>5, <1>9, <1>10

\* When the thread of a pipeline, or the user's waitForTermination, has joined
\* its graphs, no thread runs and no value is left in any of them, however deep.
THEOREM JoinedGraphsHaveEnded == Spec => []JoinedInside
<1>1. PipelineInv => JoinedInside
  <2> SUFFICES ASSUME PipelineInv, NEW t \in Process \ (Task \X Nat), pc[t] = "done",
                      NEW g \in IF t[1] = User THEN {Outer} ELSE Range(Copies[t[1]]),
                      NEW n \in Under[g] \ Graph
               PROVE  queue[n] = <<>> /\ \A s \in ThreadsOf(n) : pc[s] = "done"
    BY DEF JoinedInside
  <2>1. t[1] \in Pipeline \/ t = UserThread
    <3>1. CASE t \in Thread /\ t[1] \in Task
      <4>1. t \in {t[1]} \X (0 .. NumberThreads[t[1]] - 1)
        BY <3>1, ThreadFacts DEF ThreadsOf
      <4>2. NumberThreads[t[1]] \in Nat
        BY <3>1, GraphAssumption
      <4>3. QED
        BY <3>1, <4>1, <4>2
    <3>2. QED
      BY <3>1, ThreadFacts
  <2>2. g \in Roots(t)
    <3>1. t = UserThread => t[1] = User
      BY DEF UserThread
    <3>2. t # UserThread => t[1] # User
      BY ThreadFacts
    <3>3. QED
      BY <3>1, <3>2 DEF Roots
  <2>3. n \in Task \cup Pipeline /\ \A s \in ThreadsOf(n) : pc[s] = "done"
    BY <2>1, <2>2, UnderJoined
  <2>4. PICK s : s = <<n, 0>>
    OBVIOUS
  <2>5. s \in Thread /\ s[1] = n /\ pc[s] = "done"
    BY <2>3, <2>4, ThreadFacts
  <2>6. queue[n] = <<>>
    BY <2>5 DEF PipelineInv, DrainInv, Ending
  <2>7. QED
    BY <2>3, <2>6
<1>2. QED
  BY <1>1, PipelineInvariant, PTL

-----------------------------------------------------------------------------
(* Who returned is no notifier of any slot.                                  *)

LEMMA CalmFrame ==
  ASSUME PipelineInv, PipelineInv', QuietInv, GoneInv, Calm,
         \A n \in Node : notifiers[n] \subseteq notifiers'[n],
         \A n \in Node : \A s \in notifiers'[n] \ notifiers[n] :
           Launching /\ (s \in Thread \/ (s = UserThread /\ n \in slots[s]))
  PROVE  QuietInv' /\ GoneInv'
<1>1. /\ Launching' => Launching
      /\ \A s \in Process : Ending(s)' => Ending(s)
      /\ \A s \in Process : \A e \in Range(agenda[s]) :
           e.op \in {"remove", "leave"} => e \in Range(agenda'[s])
  BY DEF Calm, NobodyEnds, StillLeaves, Entries
<1>2. QuietInv'
  <2> SUFFICES ASSUME Launching'
               PROVE  /\ \A s \in Thread : ~ Ending(s)'
                      /\ \A n \in slots'[UserThread] :
                           /\ UserThread \in notifiers'[n]
                           /\ \E e \in Range(agenda'[UserThread]) : e.op = "remove" /\ n \in e.on
    BY DEF QuietInv, Entries
  <2>1. /\ \A s \in Thread : ~ Ending(s)
        /\ \A n \in slots[UserThread] :
             /\ UserThread \in notifiers[n]
             /\ \E e \in Range(agenda[UserThread]) : e.op = "remove" /\ n \in e.on
    BY <1>1 DEF QuietInv, Entries
  <2>2. UserThread \in Process /\ UserThread[1] = User /\ UserThread[2] = 0
    BY ThreadFacts DEF UserThread
  <2>3. slots[UserThread] = Downstream(User) /\ slots'[UserThread] = Downstream(User)
    BY <2>2 DEF PipelineInv, WiredInv
  <2>4. \A s \in Thread : ~ Ending(s)'
    BY <1>1, <2>1, ThreadFacts
  <2>5. ASSUME NEW n \in slots'[UserThread]
        PROVE  /\ UserThread \in notifiers'[n]
               /\ \E e \in Range(agenda'[UserThread]) : e.op = "remove" /\ n \in e.on
    <3>1. n \in slots[UserThread] /\ n \in Node
      BY <2>3, <2>5 DEF Downstream
    <3>2. UserThread \in notifiers'[n]
      BY <2>1, <3>1
    <3>3. QED
      BY <1>1, <2>1, <2>2, <3>1, <3>2
  <2>6. QED
    BY <2>4, <2>5
<1>3. GoneInv'
  <2> SUFFICES ASSUME NEW n \in Node, NEW s \in notifiers'[n], Ending(s)'
               PROVE  \E e \in Range(agenda'[s]) : e.op \in {"remove", "leave"} /\ n \in e.on
    BY DEF GoneInv, Entries
  <2>1. s \in Process
    BY DEF PipelineInv, TypeOK
  <2>2. Ending(s)
    BY <1>1, <2>1
  <2>3. CASE s \in notifiers[n]
    <3>1. PICK e \in Range(agenda[s]) : e.op \in {"remove", "leave"} /\ n \in e.on
      BY <2>2, <2>3 DEF GoneInv, Entries
    <3>2. QED
      BY <1>1, <2>1, <3>1
  <2>4. CASE s \notin notifiers[n]
    <3>1. Launching /\ (s \in Thread \/ (s = UserThread /\ n \in slots[s]))
      BY <2>4
    <3>2. s = UserThread /\ n \in slots[UserThread]
      BY <2>2, <3>1 DEF QuietInv
    <3>3. PICK e \in Range(agenda[UserThread]) : e.op = "remove" /\ n \in e.on
      BY <3>1, <3>2 DEF QuietInv, Entries
    <3>4. QED
      BY <1>1, <2>1, <3>2, <3>3
  <2>5. QED
    BY <2>3, <2>4
<1>4. QED
  BY <1>2, <1>3

\* No thread leaves its loop while the graph is launched.
LEMMA LaunchIsQuiet ==
  ASSUME EveryNodeIsFed, PipelineInv, QuietInv, NEW t \in Process, LeaveLoop(t)
  PROVE  ~ Launching
<1> SUFFICES ASSUME Launching
             PROVE  FALSE
  OBVIOUS
<1>1. t \in Thread /\ notifiers[t[1]] = {}
  BY DEF LeaveLoop, Testing
<1>2. t[1] \in Task \cup Pipeline /\ t[1] \in Node
  BY <1>1, ThreadFacts DEF Node
<1>3. PICK x : x \in Feeders(t[1])
  BY <1>2 DEF EveryNodeIsFed
<1>4. t[1] \in Downstream(x) /\ x \in Task \cup Pipeline \cup {User}
  BY <1>2, <1>3, FeedersFacts DEF Downstream
<1>5. CASE x = User
  <2>1. UserThread \in Process /\ UserThread[1] = User /\ UserThread[2] = 0
    BY ThreadFacts DEF UserThread
  <2>2. slots[UserThread] = Downstream(User)
    BY <2>1 DEF PipelineInv, WiredInv
  <2>3. QED
    BY <1>1, <1>4, <1>5, <2>2 DEF QuietInv
<1>6. CASE x \in Task \cup Pipeline
  <2>1. PICK s : s = <<x, 0>>
    OBVIOUS
  <2>2. s \in Thread /\ s \in Process /\ s[1] = x /\ s[2] = 0
    BY <1>6, <2>1, ThreadFacts
  <2>3. slots[s] = Downstream(x) /\ ~ Ending(s)
    BY <2>2 DEF PipelineInv, WiredInv, QuietInv
  <2>4. s \in notifiers[t[1]]
    BY <1>4, <2>2, <2>3 DEF PipelineInv, RegisteredInv
  <2>5. QED
    BY <1>1, <2>4
<1>7. QED
  BY <1>4, <1>5, <1>6

LEMMA LeaveLoopGone ==
  ASSUME EveryNodeIsFed, PipelineInv, QuietInv, GoneInv, NEW t \in Process, LeaveLoop(t)
  PROVE  QuietInv' /\ GoneInv'
<1>1. PICK w : w = EndAgenda(t)
  OBVIOUS
<1>2. /\ Testing(t) /\ agenda' = [agenda EXCEPT ![t] = w]
      /\ UNCHANGED <<notifiers, slots, queue, pc, executed>>
  BY <1>1 DEF LeaveLoop
<1>3. t \in Thread /\ t # UserThread /\ slots[t] = Downstream(t[1])
  BY <1>2, TestingFacts
<1>4. slots[t] # {} => \E e \in Range(w) : e.op \in {"remove", "leave"} /\ e.on = slots[t]
  BY <1>1, <1>3, EndAgendaFacts
<1>5. agenda'[t] = w /\ \A s \in Process : s # t => agenda'[s] = agenda[s]
  BY <1>2 DEF PipelineInv, TypeOK
<1>6. QuietInv'
  <2>1. ~ Launching
    BY LaunchIsQuiet
  <2>2. agenda'[UserThread] = agenda[UserThread]
    BY <1>3, <1>5, ThreadFacts
  <2>3. ~ Launching'
    BY <2>1, <2>2 DEF Launching, Entries
  <2>4. QED
    BY <2>3 DEF QuietInv
<1>7. GoneInv'
  <2> SUFFICES ASSUME NEW n \in Node, NEW s \in notifiers[n], Ending(s)'
               PROVE  \E e \in Range(agenda'[s]) : e.op \in {"remove", "leave"} /\ n \in e.on
    BY <1>2 DEF GoneInv, Entries
  <2>1. s \in Process /\ n \in slots[s]
    BY DEF PipelineInv, TypeOK, WiredInv
  <2>2. CASE s = t
    BY <1>4, <1>5, <2>1, <2>2
  <2>3. CASE s # t
    <3>1. agenda'[s] = agenda[s] /\ Ending(s)
      BY <1>2, <1>5, <2>1, <2>3 DEF Ending, Entries
    <3>2. QED
      BY <3>1 DEF GoneInv, Entries
  <2>4. QED
    BY <2>2, <2>3
<1>8. QED
  BY <1>6, <1>7

LEMMA LeaveSlotGone ==
  ASSUME PipelineInv, QuietInv, GoneInv, NEW t \in Process, agenda[t] # <<>>,
         NEW h, h = Head(agenda[t]), NEW n \in h.on, h.op \in {"remove", "leave"},
         NEW more \in Seq(EntryOf(t)), Sorted(more, Order),
         \A a \in Range(more) : a.op = "wakeUp",
         After(t, n, more),
         notifiers' = [notifiers EXCEPT ![n] = @ \ {t}],
         UNCHANGED <<slots, queue, pc, executed>>
  PROVE  QuietInv' /\ GoneInv'
<1>1. /\ h \in EntryOf(t) /\ h \in Range(agenda[t])
      /\ Range(agenda[t]) = {h} \cup Range(Tail(agenda[t]))
      /\ \A b \in Range(Tail(agenda[t])) : b \in EntryOf(t) /\ MayPrecede(h, b)
  BY HeadFacts
<1>2. \A b \in Cut(h, n) : b.op = h.op /\ b.on = h.on \ {n}
  <2>1. \A m \in h.on : \A b \in Cut(h, m) :
          /\ b \in EntryOf(t) /\ b.op = h.op /\ b.data = h.data /\ b.on = h.on \ {m}
          /\ h.op \notin {"copy", "reconnect", "return"}
    BY HeadFacts
  <2>2. QED
    BY <2>1
<1>3. h.op \notin LaunchOp /\ h.op \notin {"return", "join"}
  BY DEF LaunchOp
<1>4. /\ \A s \in Process : s # t => agenda'[s] = agenda[s]
      /\ Range(agenda'[t]) = Range(more) \cup Range(Tail(agenda[t])) \cup Cut(h, n)
      /\ \A e : e.op \in LaunchOp =>
           (e \in Range(agenda'[UserThread]) <=> e \in Range(agenda[UserThread]))
      /\ \A s \in Process : \A e : e.op = "return" =>
           (e \in Range(agenda'[s]) <=> e \in Range(agenda[s]))
  BY <1>3, LoopStep
<1>5. n \in Node
  BY <1>1 DEF EntryOf, Downstream
<1>6. /\ notifiers'[n] = notifiers[n] \ {t}
      /\ \A m \in Node : m # n => notifiers'[m] = notifiers[m]
  BY <1>5 DEF PipelineInv, TypeOK
<1>7. ~ Launching
  <2> SUFFICES ASSUME NEW e \in Range(agenda[UserThread]), e.op \in LaunchOp
               PROVE  FALSE
    BY DEF Launching, Entries
  <2>1. Launching
    BY DEF Launching, Entries
  <2>2. CASE t \in Thread
    <3>1. Ending(t)
      BY <1>1, <2>2 DEF PipelineInv, EndInv, Ending, Entries
    <3>2. QED
      BY <2>1, <2>2, <3>1 DEF QuietInv
  <2>3. CASE t = UserThread
    <3>1. e # h /\ e \in Range(Tail(agenda[t]))
      BY <1>1, <1>3, <2>3
    <3>2. MayPrecede(h, e)
      BY <1>1, <3>1
    <3>3. Rank[h.op] <= Rank[e.op] \/ "wakeUp" \in {h.op, e.op}
      BY <3>2 DEF MayPrecede
    <3>4. QED
      BY <3>3 DEF Rank, Op, LaunchOp
  <2>4. QED
    BY <2>2, <2>3, ThreadFacts
<1>8. QuietInv'
  <2>1. ~ Launching'
    BY <1>4, <1>7 DEF Launching, Entries
  <2>2. QED
    BY <2>1 DEF QuietInv
<1>9. GoneInv'
  <2> SUFFICES ASSUME NEW m \in Node, NEW s \in notifiers'[m], Ending(s)'
               PROVE  \E e \in Range(agenda'[s]) : e.op \in {"remove", "leave"} /\ m \in e.on
    BY DEF GoneInv, Entries
  <2>1. s \in notifiers[m] /\ (s = t => m # n)
    BY <1>5, <1>6
  <2>2. s \in Process
    BY <2>1 DEF PipelineInv, TypeOK
  <2>3. Ending(s)
    BY <1>4, <2>2, EndFrame DEF Ending, Entries
  <2>4. PICK e \in Range(agenda[s]) : e.op \in {"remove", "leave"} /\ m \in e.on
    BY <2>1, <2>3 DEF GoneInv, Entries
  <2>5. CASE s # t
    BY <1>4, <2>2, <2>4, <2>5
  <2>6. CASE s = t /\ e # h
    BY <1>1, <1>4, <2>4, <2>6
  <2>7. CASE s = t /\ e = h
    <3>1. m \in h.on \ {n}
      BY <2>1, <2>4, <2>7
    <3>2. PICK b : b \in Cut(h, n)
      BY <3>1 DEF Cut
    <3>3. b.op \in {"remove", "leave"} /\ m \in b.on
      BY <1>2, <3>1, <3>2
    <3>4. QED
      BY <1>4, <2>7, <3>2, <3>3
  <2>8. QED
    BY <2>5, <2>6, <2>7
<1>10. QED
  BY <1>8, <1>9

LEMMA GoneInit == Init => QuietInv /\ GoneInv
<1> SUFFICES ASSUME Init
             PROVE  QuietInv /\ GoneInv
  OBVIOUS
<1>1. PipelineInv
  BY PipelineInit
<1>2. /\ notifiers = [n \in Node |-> Feeders(n) \X {0}]
      /\ pc = [t \in Process |-> IF t[1] = User THEN "run" ELSE "idle"]
      /\ agenda = [t \in Process |-> IF t[1] = User THEN UserAgenda ELSE <<>>]
  BY DEF Init
<1>3. UserThread \in Process /\ UserThread[1] = User /\ UserThread[2] = 0
  BY ThreadFacts DEF UserThread
<1>4. \A t \in Thread : ~ Ending(t)
  <2>1. \A t \in Thread : t \in Process /\ t[1] # User
    BY ThreadFacts
  <2>2. \A t \in Thread : pc[t] = "idle" /\ agenda[t] = <<>>
    BY <1>2, <2>1
  <2>3. Range(<<>>) = {}
    BY NothingMore
  <2>4. QED
    BY <2>2, <2>3 DEF Ending, Entries
<1>5. agenda[UserThread] = UserAgenda
  BY <1>2, <1>3
<1>6. slots[UserThread] = Downstream(User) /\ Downstream(User) \subseteq Succ[User]
  <2>1. slots[UserThread] = Downstream(User)
    BY <1>1, <1>3 DEF PipelineInv, WiredInv
  <2>2. User \notin Pipeline
    BY NestingAssumption
  <2>3. QED
    BY <2>1, <2>2 DEF Downstream, Feeders
<1>7. ASSUME NEW n \in slots[UserThread]
      PROVE  /\ UserThread \in notifiers[n]
             /\ \E e \in Range(agenda[UserThread]) : e.op = "remove" /\ n \in e.on
  <2>1. n \in Succ[User] /\ n \in Node /\ User \in Feeders(n)
    BY <1>6, <1>7 DEF Downstream
  <2>2. UserThread \in notifiers[n]
    BY <1>2, <2>1 DEF UserThread
  <2>3. PICK e \in Range(UserAgenda) : e.op = "remove" /\ e.on = Succ[User]
    BY <2>1, UserAgendaFacts
  <2>4. QED
    BY <1>5, <2>1, <2>2, <2>3
<1>8. QuietInv
  BY <1>4, <1>7 DEF QuietInv, Entries
<1>9. GoneInv
  <2> SUFFICES ASSUME NEW n \in Node, NEW t \in notifiers[n], Ending(t)
               PROVE  \E e \in Range(agenda[t]) : e.op \in {"remove", "leave"} /\ n \in e.on
    BY DEF GoneInv, Entries
  <2>1. t \in Process /\ n \in slots[t]
    BY <1>1 DEF PipelineInv, TypeOK, WiredInv
  <2>2. t = UserThread
    BY <1>4, <2>1, ThreadFacts
  <2>3. QED
    BY <1>7, <2>1, <2>2
<1>10. QED
  BY <1>8, <1>9

LEMMA GoneNext ==
  ASSUME EveryNodeIsFed, PipelineInv, QuietInv, GoneInv, [Next]_vars
  PROVE  QuietInv' /\ GoneInv'
<1>1. PipelineInv'
  BY PipelineNext
<1>2. CASE UNCHANGED vars
  BY <1>2 DEF vars, QuietInv, GoneInv, Launching, Ending, Entries
<1>3. ASSUME Calm, UNCHANGED notifiers
      PROVE  QuietInv' /\ GoneInv'
  BY <1>1, <1>3, CalmFrame
<1>4. ASSUME NEW t \in Process, Step(t)
      PROVE  QuietInv' /\ GoneInv'
  <2>1. CASE Sleep(t)
    BY <1>3, <2>1, SleepStep DEF Sleep
  <2>2. CASE LeaveLoop(t)
    BY <2>2, LeaveLoopGone
  <2>3. CASE Execute(t)
    BY <1>3, <2>3, ExecuteStep DEF Execute
  <2>4. CASE OperateReceiver(t)
    BY <1>3, <2>4, OperateReceiverStep DEF OperateReceiver
  <2>5. ASSUME NEW n \in Head(agenda[t]).on, Handle(t, n)
        PROVE  QuietInv' /\ GoneInv'
    <3>1. CASE Receive(t, n)
      BY <1>3, <3>1, ReceiveStep DEF Receive
    <3>2. CASE WakeUp(t, n)
      BY <1>3, <3>2, WakeUpStep DEF WakeUp
    <3>3. CASE RemoveNotifier(t, n)
      <4>1. PICK h, more : h = Head(agenda[t]) /\ more = <<>>
        OBVIOUS
      <4>2. /\ agenda[t] # <<>> /\ n \in h.on /\ h.op \in {"remove", "leave"}
            /\ After(t, n, more)
            /\ notifiers' = [notifiers EXCEPT ![n] = @ \ {t}]
            /\ UNCHANGED <<slots, queue, pc, executed>>
        BY <3>3, <4>1 DEF RemoveNotifier, At
      <4>3. /\ more \in Seq(EntryOf(t)) /\ Sorted(more, Order)
            /\ \A a \in Range(more) : a.op = "wakeUp"
        BY <4>1, NothingMore
      <4>4. h = Head(agenda[t])
        BY <4>1
      <4>5. QED
        BY <4>2, <4>3, <4>4, LeaveSlotGone
    <3>4. CASE DisconnectSwitch(t, n)
      <4>1. PICK h, more, on : h = Head(agenda[t]) /\ on = {n} /\ more = Loop("wakeUp", on)
        OBVIOUS
      <4>2. /\ agenda[t] # <<>> /\ n \in h.on /\ h.op \in {"remove", "leave"}
            /\ After(t, n, more)
            /\ notifiers' = [notifiers EXCEPT ![n] = @ \ {t}]
            /\ UNCHANGED <<slots, queue, pc, executed>>
        BY <3>4, <4>1 DEF DisconnectSwitch, At
      <4>3. h = Head(agenda[t])
        BY <4>1
      <4>4. n \in Node
        <5>1. h \in EntryOf(t)
          BY <4>2, <4>3, HeadFacts
        <5>2. QED
          BY <4>2, <5>1 DEF EntryOf, Downstream
      <4>5. /\ more \in Seq(EntryOf(t)) /\ Sorted(more, Order)
            /\ \A a \in Range(more) : a.op = "wakeUp"
        <5>1. on \in SUBSET Thing /\ on \subseteq Node
          BY <4>1, <4>4 DEF Thing
        <5>2. /\ Loop("wakeUp", on) \in Seq(EntryOf(t)) /\ Sorted(Loop("wakeUp", on), Order)
              /\ \A a \in Range(Loop("wakeUp", on)) : a.op = "wakeUp"
          BY <5>1, PlainLoop
        <5>3. QED
          BY <4>1, <5>2
      <4>6. QED
        BY <4>2, <4>3, <4>5, LeaveSlotGone
    <3>5. CASE Join(t, n)
      BY <1>3, <3>5, JoinStep DEF Join
    <3>6. CASE Return(t, n)
      BY <1>3, <3>6, ReturnStep DEF Return
    <3>7. CASE CreateInner(t, n)
      BY <1>3, <3>7, CreateInnerStep DEF CreateInner
    <3>8. CASE SpawnThreads(t, n)
      BY <1>3, <3>8, SpawnThreadsStep DEF SpawnThreads
    <3>9. CASE ReadNotifier(t, n)
      BY <1>3, <3>9, ReadNotifierStep DEF ReadNotifier
    <3>10. CASE Reconnect(t, n)
      <4>1. PICK h : h = Head(agenda[t])
        OBVIOUS
      <4>2. agenda[t] # <<>> /\ n \in h.on /\ h.op = "reconnect"
        BY <3>10, <4>1 DEF Reconnect, At
      <4>3. PICK q \in h.data : notifiers' = [notifiers EXCEPT ![n[1]] = @ \cup {q}]
        BY <3>10, <4>1 DEF Reconnect
      <4>4. /\ t = UserThread /\ h.op \in LaunchOp /\ h.on = {n} /\ h.data \subseteq Process
            /\ n[1] \in Node /\ h \in Range(agenda[t])
        BY <4>1, <4>2, ConnectFacts, HeadFacts
      <4>5. Launching
        BY <4>4 DEF Launching, Entries
      <4>6. n[1] \in slots[q]
        BY <4>2, <4>3, <4>4 DEF PipelineInv, LaunchInv, Entries
      <4>7. \A m \in Node : /\ notifiers[m] \subseteq notifiers'[m]
                            /\ \A s \in notifiers'[m] \ notifiers[m] : m = n[1] /\ s = q
        BY <4>3, <4>4 DEF PipelineInv, TypeOK
      <4>8. q \in Thread \/ q = UserThread
        BY <4>3, <4>4, ThreadFacts
      <4>9. Calm
        BY <3>10, ReconnectStep
      <4>10. QED
        BY <1>1, <4>5, <4>6, <4>7, <4>8, <4>9, CalmFrame
    <3>11. CASE ConnectSuccessors(t, n)
      <4>1. PICK h : h = Head(agenda[t])
        OBVIOUS
      <4>2. agenda[t] # <<>> /\ n \in h.on /\ h.op = "copy"
        BY <3>11, <4>1 DEF ConnectSuccessors, At
      <4>3. /\ t = UserThread /\ h.op \in LaunchOp /\ n \in Thread /\ h \in Range(agenda[t])
        BY <4>1, <4>2, ConnectFacts, HeadFacts
      <4>4. Launching
        BY <4>3 DEF Launching, Entries
      <4>5. \A m \in Node : /\ notifiers[m] \subseteq notifiers'[m]
                            /\ \A s \in notifiers'[m] \ notifiers[m] : s = n
        BY <3>11 DEF ConnectSuccessors
      <4>6. Calm
        BY <3>11, ConnectSuccessorsStep
      <4>7. QED
        BY <1>1, <4>3, <4>4, <4>5, <4>6, CalmFrame
    <3>12. QED
      BY <2>5, <3>1, <3>2, <3>3, <3>4, <3>5, <3>6, <3>7, <3>8, <3>9, <3>10, <3>11 DEF Handle
  <2>6. QED
    BY <1>4, <2>1, <2>2, <2>3, <2>4, <2>5 DEF Step
<1>5. QED
  BY <1>2, <1>4 DEF Next, Terminated

\* When every task and every pipeline has a predecessor, a thread that returned is
\* no notifier of any slot: while a copy is connected again to the notifiers that
\* the slot of its task had, none of them has left.
THEOREM TerminatedThreadsAreDisconnected ==
  ASSUME EveryNodeIsFed
  PROVE  Spec => []TerminatedIsDisconnected
<1>1. Init => QuietInv /\ GoneInv
  BY GoneInit
<1>2. PipelineInv /\ (QuietInv /\ GoneInv) /\ [Next]_vars => (QuietInv /\ GoneInv)'
  BY GoneNext
<1>3. PipelineInv /\ GoneInv => TerminatedIsDisconnected
  <2> SUFFICES ASSUME PipelineInv, GoneInv, NEW t \in Process, pc[t] = "done",
                      NEW n \in Node, t \in notifiers[n]
               PROVE  FALSE
    BY DEF TerminatedIsDisconnected
  <2>1. agenda[t] = <<>>
    BY DEF PipelineInv, AgendaInv
  <2>2. Range(agenda[t]) = {}
    BY <2>1, NothingMore
  <2>3. QED
    BY <2>2 DEF GoneInv, Ending, Entries
<1>4. QED
  BY <1>1, <1>2, <1>3, PipelineInvariant, PTL DEF Spec
-----------------------------------------------------------------------------
(* What the switch selects of a sequence of values for an input task.         *)

LEMMA FlattenAppend ==
  ASSUME NEW E, NEW ss \in Seq(Seq(E)), NEW x \in Seq(E)
  PROVE  FlattenSeq(Append(ss, x)) = FlattenSeq(ss) \o x
<1>1. PICK N \in Nat : N = Len(ss)
  OBVIOUS
<1>2. PICK tt : tt = Append(ss, x)
  OBVIOUS
<1>3. /\ tt \in Seq(Seq(E)) /\ Len(tt) = N + 1 /\ tt[N + 1] = x
      /\ \A i \in 1 .. N : tt[i] = ss[i] /\ ss[i] \in Seq(E)
  BY <1>1, <1>2
<1> DEFINE g == CHOOSE g : Flattens(g, tt, Len(tt))
<1>4. Flattens(g, tt, Len(tt))
  <2>1. Len(tt) \in Nat
    BY <1>3
  <2>2. \E f : Flattens(f, tt, Len(tt))
    BY <2>1, FlattensExists
  <2>3. QED
    BY <2>2
<1>5. FlattenSeq(tt) = g[N + 1]
  <2>1. Len(tt) # 0
    BY <1>3
  <2>2. FlattenSeq(tt) = g[Len(tt)]
    BY <2>1 DEF FlattenSeq, Flattens
  <2>3. QED
    BY <1>3, <2>2
<1> HIDE DEF g
<1>6. \A i \in 1 .. N + 1 : g[i] = IF i = 1 THEN tt[i] ELSE g[i - 1] \o tt[i]
  BY <1>3, <1>4 DEF Flattens
<1>7. CASE N = 0
  <2>1. FlattenSeq(ss) = <<>>
    <3>1. FlattenSeq(ss) = ss
      BY <1>1, <1>7 DEF FlattenSeq
    <3>2. ss = <<>>
      <4>1. Len(ss) = 0
        BY <1>1, <1>7
      <4>2. QED
        BY <4>1, EmptySeq
    <3>3. QED
      BY <3>1, <3>2
  <2>2. g[N + 1] = x
    BY <1>3, <1>6, <1>7
  <2>3. QED
    BY <1>2, <1>5, <2>1, <2>2
<1>8. CASE N > 0
  <2> DEFINE f == CHOOSE f : Flattens(f, ss, Len(ss))
             T == {n \in Nat : n + 1 <= N => f[n + 1] = g[n + 1]}
  <2>1. Flattens(f, ss, Len(ss))
    BY <1>1, FlattensExists
  <2>2. FlattenSeq(ss) = f[N]
    BY <1>1, <1>8 DEF FlattenSeq, Flattens
  <2> HIDE DEF f
  <2>3. \A i \in 1 .. N : f[i] = IF i = 1 THEN ss[i] ELSE f[i - 1] \o ss[i]
    BY <1>1, <2>1 DEF Flattens
  <2>4. 0 \in T
    <3>1. f[1] = ss[1] /\ g[1] = tt[1] /\ tt[1] = ss[1]
      BY <1>3, <1>6, <1>8, <2>3
    <3>2. QED
      BY <3>1
  <2>5. ASSUME NEW n \in Nat, n \in T
        PROVE  n + 1 \in T
    <3> SUFFICES ASSUME n + 1 + 1 <= N
                 PROVE  f[n + 1 + 1] = g[n + 1 + 1]
      OBVIOUS
    <3>1. PICK m \in Nat : m = n + 1
      OBVIOUS
    <3>2. m + 1 \in 1 .. N /\ m + 1 \in 1 .. N + 1 /\ m + 1 # 1 /\ (m + 1) - 1 = m
      BY <3>1
    <3>3. f[m + 1] = f[m] \o ss[m + 1]
      BY <2>3, <3>2
    <3>4. g[m + 1] = g[m] \o tt[m + 1]
      BY <1>6, <3>2
    <3>5. f[m] = g[m]
      BY <2>5, <3>1, <3>2
    <3>6. f[m + 1] = g[m + 1]
      BY <1>3, <3>2, <3>3, <3>4, <3>5
    <3>7. QED
      BY <3>1, <3>6
  <2>6. f[N] = g[N]
    <3>1. Nat \subseteq T
      <4> HIDE DEF T
      <4>1. QED
        BY <2>4, <2>5, SetInduction
    <3>2. N - 1 \in Nat /\ (N - 1) + 1 = N
      BY <1>8
    <3>3. N - 1 \in T
      BY <3>1, <3>2
    <3>4. QED
      BY <3>2, <3>3
  <2>7. g[N + 1] = g[N] \o x
    <3>1. N + 1 \in 1 .. N + 1 /\ N + 1 # 1 /\ (N + 1) - 1 = N
      BY <1>8
    <3>2. QED
      BY <1>3, <1>6, <3>1
  <2>8. QED
    BY <1>2, <1>5, <2>2, <2>6, <2>7
<1>9. QED
  BY <1>7, <1>8

Share(d, e) == IF <<d, e>> \in RoutedTo THEN <<d>> ELSE <<>>
Selected(s, e) == FlattenSeq([i \in DOMAIN s |-> Share(s[i], e)])

LEMMA ShareType ==
  ASSUME NEW e, NEW d \in Data
  PROVE  Share(d, e) \in Seq(Data)
BY DEF Share

LEMMA SelectedType ==
  ASSUME NEW e, NEW s \in Seq(Data)
  PROVE  /\ [i \in DOMAIN s |-> Share(s[i], e)] \in Seq(Seq(Data))
         /\ Selected(s, e) \in Seq(Data)
<1>1. PICK N \in Nat : N = Len(s) /\ DOMAIN s = 1 .. N
  OBVIOUS
<1>2. PICK ss : ss = [i \in DOMAIN s |-> Share(s[i], e)]
  OBVIOUS
<1>3. PICK R : R = {ab \in Data \X Data : TRUE}
  OBVIOUS
<1>4. \A i \in 1 .. N : ss[i] \in Seq(Data)
  BY <1>1, <1>2, ShareType
<1>5. ss \in [1 .. N -> Seq(Data)]
  BY <1>1, <1>2, <1>4
<1>6. \A a \in Seq(Data) : Sorted(a, R)
  BY <1>3 DEF Sorted
<1>7. \A a, b \in Seq(Data) : Cross(a, b, R)
  BY <1>3, RangeOf DEF Cross
<1>8. \A i, j \in 1 .. N : i < j => Cross(ss[i], ss[j], R)
  BY <1>4, <1>7
<1>9. \A i \in 1 .. N : Sorted(ss[i], R)
  BY <1>4, <1>6
<1>10. FlattenSeq(ss) \in Seq(Data)
  BY <1>5, <1>8, <1>9, FlattenOf
<1>11. ss \in Seq(Seq(Data))
  BY <1>5
<1>12. QED
  BY <1>2, <1>10, <1>11 DEF Selected

LEMMA SelectedAppend ==
  ASSUME NEW e, NEW s \in Seq(Data), NEW d \in Data
  PROVE  Selected(Append(s, d), e) = Selected(s, e) \o Share(d, e)
<1>1. PICK t : t = Append(s, d)
  OBVIOUS
<1>2. PICK ss, tt, x : /\ ss = [i \in DOMAIN s |-> Share(s[i], e)]
                       /\ tt = [i \in DOMAIN t |-> Share(t[i], e)]
                       /\ x = Share(d, e)
  OBVIOUS
<1>3. ss \in Seq(Seq(Data)) /\ x \in Seq(Data)
  BY <1>2, SelectedType, ShareType
<1>4. tt = Append(ss, x)
  <2>1. PICK N \in Nat : N = Len(s) /\ DOMAIN s = 1 .. N
    OBVIOUS
  <2>2. /\ t \in Seq(Data) /\ DOMAIN t = 1 .. N + 1 /\ t[N + 1] = d
        /\ \A i \in 1 .. N : t[i] = s[i]
    BY <1>1, <2>1
  <2>3. tt \in Seq(Seq(Data))
    BY <1>2, <2>2, SelectedType
  <2>4. Len(ss) = N /\ Len(tt) = N + 1
    BY <1>2, <1>3, <2>1, <2>2, <2>3
  <2>5. PICK a : a = Append(ss, x)
    OBVIOUS
  <2>6. /\ a \in Seq(Seq(Data)) /\ Len(a) = N + 1 /\ a[N + 1] = x
        /\ \A i \in 1 .. N : a[i] = ss[i]
    BY <1>3, <2>4, <2>5, AppendProperties
  <2>7. \A i \in 1 .. N : tt[i] = ss[i]
    BY <1>2, <2>1, <2>2
  <2>8. tt[N + 1] = x
    BY <1>2, <2>1, <2>2
  <2>9. \A i \in 1 .. N + 1 : tt[i] = a[i]
    <3>1. \A i \in 1 .. N + 1 : i \in 1 .. N \/ i = N + 1
      OBVIOUS
    <3>2. QED
      BY <2>6, <2>7, <2>8, <3>1
  <2>10. tt = a
    BY <2>3, <2>4, <2>6, <2>9, SeqEqual
  <2>11. QED
    BY <2>5, <2>10
<1>5. FlattenSeq(Append(ss, x)) = FlattenSeq(ss) \o x
  BY <1>3, FlattenAppend
<1>6. QED
  BY <1>1, <1>2, <1>4, <1>5 DEF Selected

LEMMA SelectedNothing ==
  ASSUME NEW e
  PROVE  Selected(<<>>, e) = <<>>
<1>1. PICK s : s = <<>>
  OBVIOUS
<1>2. PICK ss : ss = [i \in DOMAIN s |-> Share(s[i], e)]
  OBVIOUS
<1>3. ss = <<>>
  BY <1>1, <1>2
<1>4. FlattenSeq(ss) = ss
  BY <1>3 DEF FlattenSeq
<1>5. QED
  BY <1>1, <1>2, <1>3, <1>4 DEF Selected

LEMMA SelectedConcat ==
  ASSUME NEW e, NEW a \in Seq(Data), NEW b \in Seq(Data)
  PROVE  Selected(a \o b, e) = Selected(a, e) \o Selected(b, e)
<1> DEFINE T == {n \in Nat : \A c \in Seq(Data) : Len(c) = n =>
                   Selected(a \o c, e) = Selected(a, e) \o Selected(c, e)}
<1>1. 0 \in T
  <2> SUFFICES ASSUME NEW c \in Seq(Data), Len(c) = 0
               PROVE  Selected(a \o c, e) = Selected(a, e) \o Selected(c, e)
    OBVIOUS
  <2>1. c = <<>> /\ a \o c = a
    OBVIOUS
  <2>2. Selected(c, e) = <<>>
    BY <2>1, SelectedNothing
  <2>3. Selected(a, e) \in Seq(Data)
    BY SelectedType
  <2>4. QED
    BY <2>1, <2>2, <2>3
<1>2. ASSUME NEW n \in Nat, n \in T
      PROVE  n + 1 \in T
  <2> SUFFICES ASSUME NEW c \in Seq(Data), Len(c) = n + 1
               PROVE  Selected(a \o c, e) = Selected(a, e) \o Selected(c, e)
    OBVIOUS
  <2>1. PICK u, d : u = SubSeq(c, 1, n) /\ d = c[n + 1]
    OBVIOUS
  <2>2. u \in Seq(Data) /\ Len(u) = n /\ d \in Data /\ c = Append(u, d)
    BY <2>1
  <2>3. PICK v : v = a \o u
    OBVIOUS
  <2>4. v \in Seq(Data) /\ a \o c = Append(v, d)
    BY <2>2, <2>3
  <2>5. Selected(Append(v, d), e) = Selected(v, e) \o Share(d, e)
    BY <2>2, <2>4, SelectedAppend
  <2>6. Selected(Append(u, d), e) = Selected(u, e) \o Share(d, e)
    BY <2>2, SelectedAppend
  <2>7. Selected(v, e) = Selected(a, e) \o Selected(u, e)
    BY <1>2, <2>2, <2>3
  <2>8. /\ Selected(a, e) \in Seq(Data) /\ Selected(u, e) \in Seq(Data)
        /\ Share(d, e) \in Seq(Data)
    BY <2>2, SelectedType, ShareType
  <2>9. (Selected(a, e) \o Selected(u, e)) \o Share(d, e)
          = Selected(a, e) \o (Selected(u, e) \o Share(d, e))
    BY <2>8
  <2>10. QED
    BY <2>2, <2>4, <2>5, <2>6, <2>7, <2>9
<1>3. Len(b) \in T
  <2> HIDE DEF T
  <2>1. QED
    BY <1>1, <1>2, SetInduction
<1>4. QED
  BY <1>3
-----------------------------------------------------------------------------
(* A pipeline starts when its copies are launched.                           *)

PipeThread == <<pipe, 0>>

\* Once a pipeline runs, nothing inside it is left to be launched.
SettledInv ==
  \A p \in Pipeline : pc[<<p, 0>>] # "idle" =>
    \A e \in Entries(UserThread) : Covers(e) \cap Under[p] = {}

LEMMA AfterRange ==
  ASSUME PipelineInv, NEW t \in Process, agenda[t] # <<>>,
         NEW h, h = Head(agenda[t]), NEW n \in h.on,
         NEW more \in Seq(EntryOf(t)), After(t, n, more)
  PROVE  /\ \A s \in Process : s # t => agenda'[s] = agenda[s]
         /\ agenda'[t] = more \o RestOf(agenda[t], n)
         /\ RestOf(agenda[t], n) \in Seq(EntryOf(t))
         /\ Range(RestOf(agenda[t], n)) = Range(Tail(agenda[t])) \cup Cut(h, n)
         /\ Range(agenda'[t]) = Range(more) \cup Range(Tail(agenda[t])) \cup Cut(h, n)
<1>1. /\ agenda \in [Process -> Seq(Entry)]
      /\ agenda[t] \in Seq(EntryOf(t)) /\ Sorted(agenda[t], Order)
  BY DEF PipelineInv, TypeOK, AgendaInv
<1>2. agenda' = [agenda EXCEPT ![t] = more \o RestOf(agenda[t], n)]
  BY DEF After, Rest, RestOf
<1>3. PICK s, r : s = agenda[t] /\ r = RestOf(agenda[t], n)
  OBVIOUS
<1>4. s \in Seq(EntryOf(t)) /\ Sorted(s, Order) /\ s # <<>> /\ n \in Head(s).on
  BY <1>1, <1>3
<1>5. /\ RestOf(s, n) \in Seq(EntryOf(t))
      /\ Range(RestOf(s, n)) = Range(Tail(s)) \cup Cut(Head(s), n)
  BY <1>4, RestFacts
<1>6. r \in Seq(EntryOf(t)) /\ Range(r) = Range(Tail(agenda[t])) \cup Cut(h, n)
  BY <1>3, <1>5
<1>7. Range(more \o r) = Range(more) \cup Range(r)
  BY <1>6, RangeConcatenation
<1>8. /\ agenda'[t] = more \o r
      /\ \A u \in Process : u # t => agenda'[u] = agenda[u]
  BY <1>1, <1>2, <1>3
<1>9. QED
  BY <1>3, <1>6, <1>7, <1>8

LEMMA SettledFrame ==
  ASSUME SettledInv,
         \A p \in Pipeline : pc[<<p, 0>>] = "idle" => pc'[<<p, 0>>] = "idle",
         \A e \in Range(agenda'[UserThread]) : \E f \in Range(agenda[UserThread]) :
           Covers(e) \subseteq Covers(f)
  PROVE  SettledInv'
<1> SUFFICES ASSUME NEW p \in Pipeline, pc'[<<p, 0>>] # "idle",
                    NEW e \in Range(agenda'[UserThread])
             PROVE  Covers(e) \cap Under[p] = {}
  BY DEF SettledInv, Entries
<1>1. PICK f \in Range(agenda[UserThread]) : Covers(e) \subseteq Covers(f)
  OBVIOUS
<1>2. Covers(f) \cap Under[p] = {}
  BY <1>1 DEF SettledInv, Entries
<1>3. QED
  BY <1>1, <1>2

LEMMA SettledAfter ==
  ASSUME PipelineInv, SettledInv, NEW t \in Process, agenda[t] # <<>>,
         NEW h, h = Head(agenda[t]), NEW n \in h.on,
         NEW more \in Seq(EntryOf(t)), After(t, n, more),
         \A a \in Range(more) : Covers(a) \subseteq Covers(h),
         \A p \in Pipeline : pc[<<p, 0>>] = "idle" => pc'[<<p, 0>>] = "idle"
  PROVE  SettledInv'
<1>1. /\ \A s \in Process : s # t => agenda'[s] = agenda[s]
      /\ Range(agenda'[t]) = Range(more) \cup Range(Tail(agenda[t])) \cup Cut(h, n)
  BY AfterRange
<1>2. /\ h \in Range(agenda[t]) /\ Range(agenda[t]) = {h} \cup Range(Tail(agenda[t]))
      /\ h \in EntryOf(t)
  BY HeadFacts
<1>3. \A b \in Cut(h, n) : Covers(b) \subseteq Covers(h)
  BY <1>2, CutFacts
<1>4. \A e \in Range(agenda'[t]) : \E f \in Range(agenda[t]) : Covers(e) \subseteq Covers(f)
  BY <1>1, <1>2, <1>3
<1>5. \A e \in Range(agenda'[UserThread]) : \E f \in Range(agenda[UserThread]) :
        Covers(e) \subseteq Covers(f)
  <2>1. CASE t = UserThread
    BY <1>4, <2>1
  <2>2. CASE t # UserThread
    BY <1>1, <2>2, ThreadFacts
  <2>3. QED
    BY <2>1, <2>2
<1>6. QED
  BY <1>5, SettledFrame

\* What the steps that handle an entry find more to do, unless they launch.
LEMMA PlainMore ==
  ASSUME PipelineInv, NEW t \in Process, NEW n,
         \/ Receive(t, n) \/ WakeUp(t, n) \/ RemoveNotifier(t, n)
         \/ DisconnectSwitch(t, n) \/ Join(t, n) \/ Return(t, n)
         \/ Reconnect(t, n) \/ ConnectSuccessors(t, n)
  PROVE  /\ agenda[t] # <<>> /\ n \in Head(agenda[t]).on
         /\ \E more \in Seq(EntryOf(t)) :
              /\ After(t, n, more)
              /\ \A a \in Range(more) : a.op \in {"wakeUp", "join"}
<1>1. PICK h : h = Head(agenda[t])
  OBVIOUS
<1>2. agenda[t] # <<>> /\ n \in h.on
  <2>1. \E op : At(t, op, n)
    BY DEF Receive, WakeUp, RemoveNotifier, DisconnectSwitch, Join, Return, Reconnect,
           ConnectSuccessors
  <2>2. QED
    BY <1>1, <2>1 DEF At
<1>3. h \in EntryOf(t)
  BY <1>1, <1>2, HeadFacts
<1>4. ASSUME After(t, n, <<>>)
      PROVE  \E more \in Seq(EntryOf(t)) : /\ After(t, n, more)
                                           /\ \A a \in Range(more) : a.op \in {"wakeUp", "join"}
  <2>1. PICK more : more = <<>>
    OBVIOUS
  <2>2. more \in Seq(EntryOf(t)) /\ Range(more) = {} /\ After(t, n, more)
    BY <1>4, <2>1, NothingMore
  <2>3. QED
    BY <2>2
<1>5. ASSUME NEW op \in {"wakeUp", "join"}, NEW on, on \in SUBSET Thing,
             op = "wakeUp" => on \subseteq Node, op = "join" => on \subseteq Graph,
             After(t, n, Loop(op, on))
      PROVE  \E more \in Seq(EntryOf(t)) : /\ After(t, n, more)
                                           /\ \A a \in Range(more) : a.op \in {"wakeUp", "join"}
  <2>1. PICK more : more = Loop(op, on)
    OBVIOUS
  <2>2. /\ Loop(op, on) \in Seq(EntryOf(t)) /\ Sorted(Loop(op, on), Order)
        /\ \A a \in Range(Loop(op, on)) : a.op = op /\ a.on = on
        /\ on # {} => \E a \in Range(Loop(op, on)) : a.op = op /\ a.on = on
    BY <1>5, PlainLoop
  <2>3. /\ more \in Seq(EntryOf(t)) /\ After(t, n, more)
        /\ \A a \in Range(more) : a.op = op
    BY <1>5, <2>1, <2>2
  <2>4. QED
    BY <2>3
<1>6. CASE DisconnectSwitch(t, n)
  <2>1. PICK on : on = {n}
    OBVIOUS
  <2>2. h.op = "leave" /\ After(t, n, Loop("wakeUp", on))
    BY <1>1, <1>6, <2>1 DEF DisconnectSwitch, At
  <2>3. on \subseteq Node
    BY <1>2, <1>3, <2>1, <2>2 DEF EntryOf, Downstream
  <2>4. on \in SUBSET Thing
    BY <2>3 DEF Thing
  <2>5. QED
    BY <1>1, <1>2, <1>5, <2>2, <2>3, <2>4
<1>7. CASE Join(t, n)
  <2>1. PICK on : on = Inside[n] \cap Graph
    OBVIOUS
  <2>2. After(t, n, Loop("join", on))
    BY <1>7, <2>1 DEF Join
  <2>3. on \subseteq Graph /\ on \in SUBSET Thing
    BY <2>1 DEF Thing, Item
  <2>4. QED
    BY <1>1, <1>2, <1>5, <2>2, <2>3
<1>8. CASE ~ DisconnectSwitch(t, n) /\ ~ Join(t, n)
  <2>1. After(t, n, <<>>)
    BY <1>8 DEF Receive, WakeUp, RemoveNotifier, Return, Reconnect, ConnectSuccessors
  <2>2. QED
    BY <1>1, <1>2, <1>4, <2>1
<1>9. QED
  BY <1>6, <1>7, <1>8

LEMMA SettledInit == Init => SettledInv
<1> SUFFICES ASSUME Init, NEW p \in Pipeline
             PROVE  pc[<<p, 0>>] = "idle"
  BY DEF SettledInv
<1>1. <<p, 0>> \in Process
  BY ThreadFacts
<1>2. p # User
  BY NestingAssumption
<1>3. QED
  BY <1>1, <1>2 DEF Init

LEMMA SettledCreate ==
  ASSUME PipelineInv, SettledInv, NEW t \in Process, NEW n, CreateInner(t, n)
  PROVE  SettledInv'
<1>1. PICK h, more : h = Head(agenda[t]) /\ more = CreateMore(n)
  OBVIOUS
<1>2. /\ agenda[t] # <<>> /\ n \in h.on /\ h.op = "create" /\ After(t, n, more) /\ pc' = pc
  BY <1>1 DEF CreateInner, At, CreateMore
<1>3. h \in EntryOf(t)
  BY <1>1, <1>2, HeadFacts
<1>4. /\ t = UserThread /\ n \in Item /\ Covers(h) = UNION {Under[x] : x \in h.on}
      /\ Covers(h) \subseteq Under[Outer]
  <2>1. Covers(h) = UNION {Under[x] : x \in h.on}
    BY <1>2 DEF Covers
  <2>2. QED
    BY <1>2, <1>3, <2>1 DEF EntryOf, LaunchOp
<1>5. Under[n] \subseteq Covers(h) /\ Under[n] \subseteq Under[Outer]
  BY <1>2, <1>4
<1>6. /\ more \in Seq(EntryOf(UserThread)) /\ Sorted(more, Order)
      /\ \A e \in Range(more) : e.op \in {"create", "spawn", "copy"} /\ Claims(e) \subseteq Under[n]
      /\ \A c \in Thread : c[1] \in Under[n] /\ c[2] # 0 => \E e \in Range(more) : Awaits(e, c)
  <2>1. CASE n \in Graph
    BY <1>1, <1>5, <2>1, CreateGraph
  <2>2. CASE n \in Pipeline
    BY <1>1, <1>5, <2>2, CreatePipeline
  <2>3. CASE n \in Task
    BY <1>1, <1>5, <2>3, CreateTask
  <2>4. QED
    BY <1>4, <2>1, <2>2, <2>3 DEF Item
<1>7. \A e \in Range(more) : Covers(e) \subseteq Covers(h)
  <2>1. \A e : Covers(e) \subseteq Claims(e)
    BY DEF Claims
  <2>2. QED
    BY <1>5, <1>6, <2>1
<1>8. more \in Seq(EntryOf(t))
  BY <1>4, <1>6
<1>9. QED
  BY <1>1, <1>2, <1>7, <1>8, SettledAfter

LEMMA SettledRead ==
  ASSUME PipelineInv, SettledInv, NEW t \in Process, NEW c, ReadNotifier(t, c)
  PROVE  SettledInv'
<1>0. PICK h : h = Head(agenda[t])
  OBVIOUS
<1>1. agenda[t] # <<>> /\ c \in h.on /\ h.op = "copy" /\ pc' = pc
  BY <1>0 DEF ReadNotifier, At
<1>2. t = UserThread /\ h.on = {c}
  BY <1>0, <1>1, ConnectFacts
<1>3. PICK q \in notifiers[c[1]] :
        agenda' = [agenda EXCEPT ![t] = LoopOn("reconnect", {c}, {q})
                     \o LoopOn("copy", {c}, Head(agenda[t]).data \cup {q})
                     \o Tail(agenda[t])]
  BY DEF ReadNotifier
<1>4. PICK on, d1, d2 : on = {c} /\ d1 = {q} /\ d2 = Head(agenda[t]).data \cup {q}
  OBVIOUS
<1>5. PICK a, b, w : a = LoopOn("reconnect", on, d1) /\ b = LoopOn("copy", on, d2)
                     /\ w = Tail(agenda[t])
  OBVIOUS
<1>6. /\ h \in Range(agenda[t]) /\ Range(agenda[t]) = {h} \cup Range(Tail(agenda[t]))
  BY <1>0, <1>1, HeadFacts
<1>7. agenda'[t] = (a \o b) \o w
  <2>1. agenda' = [agenda EXCEPT ![t] = (a \o b) \o w]
    BY <1>3, <1>4, <1>5
  <2>2. QED
    BY <2>1 DEF PipelineInv, TypeOK
<1>8. PICK S : S = {[op |-> "reconnect", on |-> on, data |-> d1],
                    [op |-> "copy", on |-> on, data |-> d2]} \cup Range(agenda[t])
  OBVIOUS
<1>9. a \in Seq(S) /\ b \in Seq(S) /\ w \in Seq(S)
  <2>1. on # {}
    BY <1>4
  <2>2. /\ a = <<[op |-> "reconnect", on |-> on, data |-> d1]>>
        /\ b = <<[op |-> "copy", on |-> on, data |-> d2]>>
    BY <1>5, <2>1 DEF LoopOn
  <2>3. PICK E : E = Range(agenda[t])
    OBVIOUS
  <2>4. agenda[t] \in Seq(E)
    <3>1. agenda[t] \in Seq(Entry)
      BY DEF PipelineInv, TypeOK
    <3>2. QED
      BY <2>3, <3>1 DEF Range
  <2>5. w \in Seq(E)
    BY <1>1, <1>5, <2>4, HeadTailProperties
  <2>6. E \subseteq S
    BY <1>8, <2>3
  <2>7. w \in Seq(S)
    BY <2>5, <2>6, SeqMonotonic
  <2>8. QED
    BY <1>8, <2>2, <2>7
<1>10. \A e \in Range(agenda'[t]) : e \in Range(w) \/ (e.op \in {"reconnect", "copy"} /\ e.on = {c})
  <2>1. on # {}
    BY <1>4
  <2>2. /\ a = <<[op |-> "reconnect", on |-> on, data |-> d1]>>
        /\ b = <<[op |-> "copy", on |-> on, data |-> d2]>>
    BY <1>5, <2>1 DEF LoopOn
  <2>3. a \o b \in Seq(S) /\ Range(a \o b) = Range(a) \cup Range(b)
    BY <1>9, RangeConcatenation
  <2>4. Range((a \o b) \o w) = Range(a \o b) \cup Range(w)
    <3>1. PICK ab \in Seq(S) : ab = a \o b
      BY <2>3
    <3>2. Range(ab \o w) = Range(ab) \cup Range(w)
      BY <1>9, RangeConcatenation
    <3>3. QED
      BY <3>1, <3>2
  <2>5. /\ \A e \in Range(a) : e = [op |-> "reconnect", on |-> on, data |-> d1]
        /\ \A e \in Range(b) : e = [op |-> "copy", on |-> on, data |-> d2]
    BY <2>2 DEF Range
  <2>6. \A e \in Range(a) \cup Range(b) : e.op \in {"reconnect", "copy"} /\ e.on = {c}
    BY <1>4, <2>5
  <2>7. Range(agenda'[t]) = (Range(a) \cup Range(b)) \cup Range(w)
    BY <1>7, <2>3, <2>4
  <2>8. QED
    BY <2>6, <2>7
<1>11. \A e \in Range(agenda'[UserThread]) : \E f \in Range(agenda[UserThread]) :
         Covers(e) \subseteq Covers(f)
  <2> SUFFICES ASSUME NEW e \in Range(agenda'[t])
               PROVE  \E f \in Range(agenda[t]) : Covers(e) \subseteq Covers(f)
    BY <1>2
  <2>1. CASE e \in Range(w)
    BY <1>5, <1>6, <2>1
  <2>2. CASE e.op \in {"reconnect", "copy"} /\ e.on = {c}
    <3>1. Covers(e) = {c[1]} /\ Covers(h) = {c[1]}
      BY <1>1, <1>2, <2>2, CopyEntry
    <3>2. QED
      BY <1>6, <3>1
  <2>3. QED
    BY <1>10, <2>1, <2>2
<1>12. QED
  BY <1>1, <1>11, SettledFrame

LEMMA SettledSpawn ==
  ASSUME PipelineInv, SettledInv, NEW t \in Process, NEW g, SpawnThreads(t, g)
  PROVE  SettledInv'
<1>0. PICK h : h = Head(agenda[t])
  OBVIOUS
<1>1. PICK started : started = UNION {ThreadsOf(n) : n \in Inside[g] \ Graph}
  OBVIOUS
<1>2. /\ agenda[t] # <<>> /\ g \in h.on /\ h.op = "spawn"
      /\ pc' = [s \in Process |-> IF s \in started THEN "run" ELSE pc[s]]
      /\ agenda' = [s \in Process |->
            IF s = t THEN Rest(t, g)
            ELSE IF s \in started /\ s[1] \in Task
                   THEN FlattenSeq([i \in DOMAIN Generated[s[1]] |->
                          SendAndNotify(Succ[s[1]], Generated[s[1]][i])])
                   ELSE agenda[s]]
  BY <1>0, <1>1 DEF SpawnThreads, At
<1>3. /\ h \in EntryOf(t) /\ h \in Range(agenda[t])
      /\ Range(agenda[t]) = {h} \cup Range(Tail(agenda[t]))
      /\ \A b \in Range(Tail(agenda[t])) : b \in EntryOf(t) /\ MayPrecede(h, b)
  BY <1>0, <1>2, HeadFacts
<1>4. t = UserThread /\ h.on = {g} /\ g \in Graph
  <2>1. h.op \in LaunchOp
    BY <1>2 DEF LaunchOp
  <2>2. QED
    BY <1>2, <1>3, <2>1 DEF EntryOf
<1>5. Cut(h, g) = {} /\ Claims(h) = Under[g]
  <2>1. Covers(h) = {g}
    BY <1>2, <1>4 DEF Covers
  <2>2. g \in Under[g]
    BY <1>4, UnderFacts DEF Item
  <2>3. Claims(h) = Under[g]
    BY <1>2, <1>4, <2>1, <2>2 DEF Claims
  <2>4. Cut(h, g) = {}
    BY <1>4 DEF Cut
  <2>5. QED
    BY <2>3, <2>4
<1>6. Range(agenda'[t]) = Range(Tail(agenda[t]))
  <2>1. PICK w : w = agenda[t]
    OBVIOUS
  <2>2. w \in Seq(EntryOf(t)) /\ Sorted(w, Order) /\ w # <<>> /\ g \in Head(w).on
    BY <1>0, <1>2, <2>1 DEF PipelineInv, AgendaInv
  <2>3. Range(RestOf(w, g)) = Range(Tail(w)) \cup Cut(Head(w), g)
    BY <2>2, RestFacts
  <2>4. agenda'[t] = RestOf(w, g)
    BY <1>2, <2>1 DEF Rest, RestOf
  <2>5. QED
    BY <1>0, <1>5, <2>1, <2>3, <2>4
<1>7. SUFFICES ASSUME NEW p \in Pipeline, pc'[<<p, 0>>] # "idle",
                      NEW e \in Range(agenda'[UserThread])
               PROVE  Covers(e) \cap Under[p] = {}
  BY DEF SettledInv, Entries
<1>8. e \in Range(Tail(agenda[t])) /\ e \in Range(agenda[t])
  BY <1>3, <1>4, <1>6, <1>7
<1>9. CASE pc[<<p, 0>>] # "idle"
  BY <1>4, <1>8, <1>9 DEF SettledInv, Entries
<1>10. CASE <<p, 0>> \in started
  <2>1. PICK n \in Inside[g] \ Graph : <<p, 0>> \in ThreadsOf(n)
    BY <1>1, <1>10
  <2>2. n \in Task \cup Pipeline
    BY <1>4, <2>1, GraphAssumption DEF Item
  <2>3. p = n
    BY <2>1, <2>2, ThreadFacts
  <2>4. p \in Parts(g) /\ g \in Item
    BY <1>4, <2>1, <2>3, NestingAssumption DEF Parts, Item
  <2>5. Under[p] \subseteq Under[g]
    BY <2>4, UnderPart
  <2>6. Claims(h) \cap Covers(e) = {}
    BY <1>2, <1>3, <1>8 DEF MayPrecede
  <2>7. QED
    BY <1>5, <2>5, <2>6
<1>11. <<p, 0>> \in Process
  BY ThreadFacts
<1>12. QED
  BY <1>2, <1>7, <1>9, <1>10, <1>11

LEMMA SettledNext ==
  ASSUME PipelineInv, SettledInv, [Next]_vars
  PROVE  SettledInv'
<1>1. CASE UNCHANGED vars
  BY <1>1 DEF vars, SettledInv, Entries
<1>2. ASSUME NEW t \in Process, Step(t)
      PROVE  SettledInv'
  <2>1. ASSUME t \in Thread, \A s \in Process : s # t => agenda'[s] = agenda[s],
               pc[t] = "run", \A s \in Process : s # t => pc'[s] = pc[s]
        PROVE  SettledInv'
    <3>1. agenda'[UserThread] = agenda[UserThread]
      BY <2>1, ThreadFacts
    <3>2. \A p \in Pipeline : pc[<<p, 0>>] = "idle" => pc'[<<p, 0>>] = "idle"
      BY <2>1, ThreadFacts
    <3>3. QED
      BY <3>1, <3>2, SettledFrame
  <2>2. CASE Sleep(t) \/ LeaveLoop(t) \/ Execute(t) \/ OperateReceiver(t)
    <3>1. Testing(t) /\ t \in Thread /\ pc[t] = "run"
      BY <2>2 DEF Sleep, LeaveLoop, Execute, OperateReceiver, Testing
    <3>2. /\ \A s \in Process : s # t => agenda'[s] = agenda[s]
          /\ \A s \in Process : s # t => pc'[s] = pc[s]
      BY <2>2 DEF Sleep, LeaveLoop, Execute, OperateReceiver, PipelineInv, TypeOK
    <3>3. QED
      BY <2>1, <3>1, <3>2
  <2>3. ASSUME NEW n \in Head(agenda[t]).on, Handle(t, n)
        PROVE  SettledInv'
    <3>1. CASE CreateInner(t, n)
      BY <3>1, SettledCreate
    <3>2. CASE SpawnThreads(t, n)
      BY <3>2, SettledSpawn
    <3>3. CASE ReadNotifier(t, n)
      BY <3>3, SettledRead
    <3>4. CASE \/ Receive(t, n) \/ WakeUp(t, n) \/ RemoveNotifier(t, n)
               \/ DisconnectSwitch(t, n) \/ Join(t, n) \/ Return(t, n)
               \/ Reconnect(t, n) \/ ConnectSuccessors(t, n)
      <4>1. PICK h : h = Head(agenda[t])
        OBVIOUS
      <4>2. agenda[t] # <<>> /\ n \in h.on
        BY <3>4, <4>1, PlainMore
      <4>3. PICK more \in Seq(EntryOf(t)) :
              After(t, n, more) /\ \A a \in Range(more) : a.op \in {"wakeUp", "join"}
        BY <3>4, PlainMore
      <4>4. \A a \in Range(more) : Covers(a) \subseteq Covers(h)
        BY <4>3 DEF Covers
      <4>5. pc[t] = "run"
        BY <4>1, <4>2, HeadFacts
      <4>6. \A s \in Process : pc[s] = "idle" => pc'[s] = "idle"
        <5>1. CASE Return(t, n)
          BY <4>5, <5>1 DEF Return, PipelineInv, TypeOK
        <5>2. CASE WakeUp(t, n)
          BY <5>2 DEF WakeUp, NotifyOne, PipelineInv, TypeOK
        <5>3. CASE pc' = pc
          BY <5>3
        <5>4. QED
          BY <3>4, <5>1, <5>2, <5>3
            DEF Receive, RemoveNotifier, DisconnectSwitch, Join, Reconnect, ConnectSuccessors
      <4>7. \A p \in Pipeline : pc[<<p, 0>>] = "idle" => pc'[<<p, 0>>] = "idle"
        BY <4>6, ThreadFacts
      <4>8. QED
        BY <4>1, <4>2, <4>3, <4>4, <4>7, SettledAfter
    <3>5. QED
      BY <2>3, <3>1, <3>2, <3>3, <3>4 DEF Handle
  <2>4. QED
    BY <1>2, <2>2, <2>3 DEF Step
<1>3. QED
  BY <1>1, <1>2 DEF Next, Terminated
-----------------------------------------------------------------------------
(* What the switch selects for an input task was handed, or is in the agenda   *)
(* of the pipeline.                                                          *)

\* No task and no other pipeline feeds the input tasks of the copies.
OnlyThePipelineFeeds == \A e \in Fed(pipe) : Feeders(e) = {pipe}

Sends(x, e) == x.op = "receive" /\ e \in x.on
Handed(e) == executed[e] \o queue[e]

\* An input task belongs to one copy.
Apart == {ab \in Entry \X Entry :
            ab[1].op = "receive" /\ ab[2].op = "receive" => ab[1].on \cap ab[2].on = {}}
ApartInv == Sorted(agenda[PipeThread], Apart)

RouteInv == \A e \in Fed(pipe) :
  /\ \A x \in Entries(PipeThread) : Sends(x, e) =>
       Selected(executed[pipe], e) = Append(Handed(e), x.data)
  /\ (\A x \in Entries(PipeThread) : ~ Sends(x, e)) =>
       Selected(executed[pipe], e) = Handed(e)

LEMMA PipeFacts ==
  ASSUME pipe \in Pipeline
  PROVE  /\ PipeThread \in Thread /\ PipeThread \in Process /\ PipeThread # UserThread
         /\ PipeThread[1] = pipe /\ PipeThread[2] = 0 /\ pipe \in Node
         /\ pipe \notin Task /\ pipe # User
         /\ \A t \in Process : t[1] = pipe => t = PipeThread
         /\ Fed(pipe) \subseteq Task /\ Fed(pipe) \subseteq Node /\ pipe \notin Fed(pipe)
         /\ Downstream(pipe) = Fed(pipe)
         /\ Fed(pipe) \subseteq Under[pipe]
<1>1. pipe \notin Task /\ pipe # User /\ pipe \in Node
  BY NestingAssumption DEF Node
<1>2. PipeThread[1] = pipe /\ PipeThread[2] = 0
  BY DEF PipeThread
<1>3. PipeThread \in Thread /\ PipeThread \in Process /\ PipeThread # UserThread
  BY ThreadFacts DEF PipeThread
<1>4. \A t \in Process : t[1] = pipe => t = PipeThread
  <2> SUFFICES ASSUME NEW t \in Process, t[1] = pipe
               PROVE  t = PipeThread
    OBVIOUS
  <2>1. t # UserThread
    BY <1>1 DEF UserThread
  <2>2. t \in ThreadsOf(pipe)
    BY <2>1, ThreadFacts
  <2>3. QED
    BY <1>1, <2>2 DEF ThreadsOf, PipeThread
<1>5. \A e \in Fed(pipe) : \E i \in DOMAIN Copies[pipe] : e \in Inputs[Copies[pipe][i]]
  BY DEF Fed
<1>6. Fed(pipe) \subseteq Task /\ Fed(pipe) \subseteq Under[pipe]
  <2> SUFFICES ASSUME NEW e \in Fed(pipe)
               PROVE  e \in Task /\ e \in Under[pipe]
    OBVIOUS
  <2>1. PICK i \in DOMAIN Copies[pipe] : e \in Inputs[Copies[pipe][i]]
    BY <1>5
  <2>2. PICK g \in Graph : g = Copies[pipe][i] /\ Under[g] \subseteq Under[pipe]
    BY <2>1, CopiesOf
  <2>3. Inputs[g] \subseteq Under[g] /\ Inputs[g] \subseteq Task
    BY NestingAssumption, GraphAssumption
  <2>4. QED
    BY <2>1, <2>2, <2>3
<1>7. \A n : pipe \in Feeders(n) <=> n \in Fed(pipe)
  BY <1>1 DEF Feeders
<1>8. Downstream(pipe) = Fed(pipe)
  BY <1>6, <1>7 DEF Downstream, Node
<1>9. QED
  BY <1>1, <1>2, <1>3, <1>4, <1>6, <1>8 DEF Node

\* What a step that leaves the pipeline alone preserves.
LEMMA RouteFrame ==
  ASSUME RouteInv, ApartInv, agenda'[PipeThread] = agenda[PipeThread],
         executed'[pipe] = executed[pipe],
         \A e \in Fed(pipe) : executed'[e] \o queue'[e] = executed[e] \o queue[e]
  PROVE  RouteInv' /\ ApartInv'
<1>1. ApartInv'
  BY DEF ApartInv
<1>2. \A e \in Fed(pipe) :
        /\ \A x \in Range(agenda'[PipeThread]) : Sends(x, e) =>
             Selected(executed'[pipe], e) = Append(executed'[e] \o queue'[e], x.data)
        /\ (\A x \in Range(agenda'[PipeThread]) : ~ Sends(x, e)) =>
             Selected(executed'[pipe], e) = executed'[e] \o queue'[e]
  BY DEF RouteInv, Entries, Handed
<1>3. RouteInv'
  BY <1>2 DEF RouteInv, Entries, Handed
<1>4. QED
  BY <1>1, <1>3

\* ... and a step that changes what it has to do, but sends nothing.
LEMMA RouteSame ==
  ASSUME RouteInv, executed'[pipe] = executed[pipe],
         \A e \in Fed(pipe) : executed'[e] \o queue'[e] = executed[e] \o queue[e],
         \A x : x.op = "receive" =>
           (x \in Range(agenda'[PipeThread]) <=> x \in Range(agenda[PipeThread]))
  PROVE  RouteInv'
<1>1. \A x, e : x \in Range(agenda'[PipeThread]) /\ Sends(x, e)
                  <=> x \in Range(agenda[PipeThread]) /\ Sends(x, e)
  BY DEF Sends
<1>2. ASSUME NEW e \in Fed(pipe)
      PROVE  /\ \A x \in Range(agenda'[PipeThread]) : Sends(x, e) =>
                  Selected(executed'[pipe], e) = Append(executed'[e] \o queue'[e], x.data)
             /\ (\A x \in Range(agenda'[PipeThread]) : ~ Sends(x, e)) =>
                  Selected(executed'[pipe], e) = executed'[e] \o queue'[e]
  <2>1. /\ \A x \in Range(agenda[PipeThread]) : Sends(x, e) =>
             Selected(executed[pipe], e) = Append(executed[e] \o queue[e], x.data)
        /\ (\A x \in Range(agenda[PipeThread]) : ~ Sends(x, e)) =>
             Selected(executed[pipe], e) = executed[e] \o queue[e]
    BY DEF RouteInv, Entries, Handed
  <2>2. QED
    BY <1>1, <2>1
<1>3. QED
  BY <1>2 DEF RouteInv, Entries, Handed

\* What is left of an agenda keeps the input tasks of the copies apart.
LEMMA ApartRest ==
  ASSUME NEW t \in Process, NEW s \in Seq(EntryOf(t)), Sorted(s, Apart), s # <<>>,
         NEW n \in Head(s).on
  PROVE  /\ Sorted(RestOf(s, n), Apart)
         /\ Head(s).op = "receive" => \A b \in Range(Tail(s)) :
              b.op = "receive" => Head(s).on \cap b.on = {}
<1>1. /\ Head(s) \in EntryOf(t) /\ Tail(s) \in Seq(EntryOf(t))
      /\ Len(s) \in Nat /\ Len(s) > 0 /\ Len(Tail(s)) = Len(s) - 1
      /\ Head(s) = s[1]
      /\ \A i \in 1 .. Len(Tail(s)) : Tail(s)[i] = s[i + 1]
  BY HeadTailProperties
<1>2. \A x : x \in Range(Tail(s)) <=> \E i \in 1 .. Len(s) - 1 : s[i + 1] = x
  <2>1. \A x : x \in Range(Tail(s)) <=> \E i \in 1 .. Len(Tail(s)) : Tail(s)[i] = x
    BY <1>1, RangeOf
  <2>2. QED
    BY <1>1, <2>1
<1>3. \A b \in Range(Tail(s)) : b \in EntryOf(t) /\ <<Head(s), b>> \in Apart
  <2> SUFFICES ASSUME NEW i \in 1 .. Len(s) - 1
               PROVE  s[i + 1] \in EntryOf(t) /\ <<s[1], s[i + 1]>> \in Apart
    BY <1>1, <1>2
  <2>1. 1 \in DOMAIN s /\ i + 1 \in DOMAIN s /\ 1 < i + 1
    BY <1>1
  <2>2. QED
    BY <2>1 DEF Sorted
<1>4. Sorted(Tail(s), Apart)
  <2> SUFFICES ASSUME NEW i \in 1 .. Len(s) - 1, NEW j \in 1 .. Len(s) - 1, i < j
               PROVE  <<s[i + 1], s[j + 1]>> \in Apart
    BY <1>1 DEF Sorted
  <2>1. i + 1 \in DOMAIN s /\ j + 1 \in DOMAIN s /\ i + 1 < j + 1
    BY <1>1
  <2>2. QED
    BY <2>1 DEF Sorted
<1>5. Sorted(RestOf(s, n), Apart)
  <2>1. CASE Head(s).on \ {n} = {}
    BY <1>4, <2>1 DEF RestOf
  <2>2. CASE Head(s).on \ {n} # {}
    <3> DEFINE h == [Head(s) EXCEPT !.on = Head(s).on \ {n}]
    <3>1. Cut(Head(s), n) = {h} /\ RestOf(s, n) = <<h>> \o Tail(s)
      BY <2>2 DEF Cut, RestOf
    <3>2. h \in EntryOf(t) /\ h.op = Head(s).op /\ h.on \subseteq Head(s).on
      BY <1>1, <3>1, CutFacts
    <3> HIDE DEF h
    <3>3. \A b \in Range(Tail(s)) : <<h, b>> \in Apart
      BY <1>3, <3>2, EntryOfType DEF Apart
    <3>4. Sorted(<<h>> \o Tail(s), Apart)
      BY <1>1, <1>4, <3>2, <3>3, ConsFacts
    <3>5. QED
      BY <3>1, <3>4
  <2>3. QED
    BY <2>1, <2>2
<1>6. ASSUME Head(s).op = "receive", NEW b \in Range(Tail(s)), b.op = "receive"
      PROVE  Head(s).on \cap b.on = {}
  BY <1>3, <1>6 DEF Apart
<1>7. QED
  BY <1>5, <1>6
LEMMA RouteInit ==
  ASSUME pipe \in Pipeline, Init
  PROVE  RouteInv /\ ApartInv
<1>1. agenda[PipeThread] = <<>>
  BY PipeFacts DEF Init
<1>2. Range(agenda[PipeThread]) = {} /\ ApartInv
  BY <1>1, NothingMore DEF ApartInv, Sorted
<1>3. ASSUME NEW e \in Fed(pipe)
      PROVE  Selected(executed[pipe], e) = Handed(e)
  <2>1. executed[pipe] = <<>> /\ executed[e] = <<>> /\ queue[e] = <<>>
    BY PipeFacts DEF Init
  <2>2. Selected(<<>>, e) = <<>>
    BY SelectedNothing
  <2>3. QED
    BY <2>1, <2>2 DEF Handed
<1>4. QED
  BY <1>2, <1>3 DEF RouteInv, Entries

\* Entries that send nothing are apart from every other.
LEMMA ApartPlain ==
  ASSUME NEW t \in Process, NEW a \in Seq(EntryOf(t)), NEW b \in Seq(EntryOf(t)),
         \A x \in Range(a) : x.op # "receive", Sorted(b, Apart)
  PROVE  Sorted(a, Apart) /\ Sorted(a \o b, Apart)
<1>1. /\ \A x \in Range(a) : x \in Entry
      /\ \A x \in Range(b) : x \in Entry
  BY RangeOf, EntryOfType
<1>2. \A i \in DOMAIN a : a[i] \in Range(a)
  BY DEF Range
<1>3. Sorted(a, Apart)
  BY <1>1, <1>2 DEF Sorted, Apart
<1>4. Cross(a, b, Apart)
  BY <1>1 DEF Cross, Apart
<1>5. QED
  BY <1>3, <1>4, ConcatFacts

LEMMA RoutePlain ==
  ASSUME pipe \in Pipeline, PipelineInv, RouteInv, ApartInv, NEW t, t = PipeThread, NEW n,
         \/ WakeUp(t, n) \/ RemoveNotifier(t, n)
         \/ DisconnectSwitch(t, n) \/ Join(t, n) \/ Return(t, n)
         \/ Reconnect(t, n) \/ ConnectSuccessors(t, n)
  PROVE  RouteInv' /\ ApartInv'
<1>1. t \in Process
  BY PipeFacts
<1>2. PICK h : h = Head(agenda[t])
  OBVIOUS
<1>3. agenda[t] # <<>> /\ n \in h.on
  BY <1>1, <1>2, PlainMore
<1>4. PICK more \in Seq(EntryOf(t)) :
        After(t, n, more) /\ \A a \in Range(more) : a.op \in {"wakeUp", "join"}
  BY <1>1, PlainMore
<1>5. h.op # "receive" /\ queue' = queue /\ executed' = executed
  BY <1>2 DEF WakeUp, RemoveNotifier, DisconnectSwitch, Join, Return, Reconnect,
              ConnectSuccessors, At
<1>6. /\ agenda'[t] = more \o RestOf(agenda[t], n)
      /\ RestOf(agenda[t], n) \in Seq(EntryOf(t))
      /\ Range(agenda'[t]) = Range(more) \cup Range(Tail(agenda[t])) \cup Cut(h, n)
  BY <1>1, <1>2, <1>3, <1>4, AfterRange
<1>7. Range(agenda[t]) = {h} \cup Range(Tail(agenda[t])) /\ h \in EntryOf(t)
  BY <1>1, <1>2, <1>3, HeadFacts
<1>7a. \A b \in Cut(h, n) : b.op = h.op
  BY <1>1, <1>3, <1>7, CutFacts
<1>8. \A x : x.op = "receive" => (x \in Range(agenda'[t]) <=> x \in Range(agenda[t]))
  BY <1>4, <1>5, <1>6, <1>7, <1>7a
<1>9. RouteInv'
  BY <1>5, <1>8, RouteSame
<1>10. PICK s, r : s = agenda[t] /\ r = RestOf(agenda[t], n)
  OBVIOUS
<1>11. s \in Seq(EntryOf(t)) /\ Sorted(s, Apart) /\ s # <<>> /\ n \in Head(s).on
  BY <1>1, <1>2, <1>3, <1>10 DEF PipelineInv, AgendaInv, ApartInv
<1>12. Sorted(RestOf(s, n), Apart)
  BY <1>1, <1>11, ApartRest
<1>13. r \in Seq(EntryOf(t)) /\ Sorted(r, Apart)
  BY <1>6, <1>10, <1>12
<1>14. Sorted(more \o r, Apart)
  <2>1. \A x \in Range(more) : x.op # "receive"
    BY <1>4
  <2>2. QED
    BY <1>1, <1>13, <2>1, ApartPlain
<1>15. ApartInv'
  BY <1>6, <1>10, <1>14 DEF ApartInv
<1>16. QED
  BY <1>9, <1>15

LEMMA RouteReceive ==
  ASSUME pipe \in Pipeline, PipelineInv, RouteInv, ApartInv, NEW t, t = PipeThread, NEW n,
         Receive(t, n)
  PROVE  RouteInv' /\ ApartInv'
<1>1. t \in Process /\ t[1] = pipe
  BY PipeFacts
<1>2. PICK h : h = Head(agenda[t])
  OBVIOUS
<1>3. /\ agenda[t] # <<>> /\ n \in h.on /\ h.op = "receive" /\ After(t, n, <<>>)
      /\ queue' = [queue EXCEPT ![n] = Append(@, h.data)] /\ executed' = executed
  BY <1>2 DEF Receive, At
<1>4. /\ h \in EntryOf(t) /\ h \in Range(agenda[t])
      /\ Range(agenda[t]) = {h} \cup Range(Tail(agenda[t]))
  BY <1>1, <1>2, <1>3, HeadFacts
<1>4a. \A b \in Cut(h, n) : b.op = h.op /\ b.data = h.data /\ b.on = h.on \ {n}
  BY <1>1, <1>3, <1>4, CutFacts
<1>5. n \in Fed(pipe) /\ h.data \in Data
  BY <1>1, <1>3, <1>4, PipeFacts DEF EntryOf
<1>6. PICK more : more = <<>>
  OBVIOUS
<1>7. more \in Seq(EntryOf(t)) /\ Range(more) = {} /\ After(t, n, more)
  BY <1>3, <1>6, NothingMore
<1>8. /\ agenda'[t] = more \o RestOf(agenda[t], n)
      /\ RestOf(agenda[t], n) \in Seq(EntryOf(t))
      /\ Range(agenda'[t]) = Range(more) \cup Range(Tail(agenda[t])) \cup Cut(h, n)
  BY <1>1, <1>2, <1>3, <1>7, AfterRange
<1>9. PICK s, r : s = agenda[t] /\ r = RestOf(agenda[t], n)
  OBVIOUS
<1>10. s \in Seq(EntryOf(t)) /\ Sorted(s, Apart) /\ s # <<>> /\ n \in Head(s).on
  BY <1>1, <1>2, <1>3, <1>9 DEF PipelineInv, AgendaInv, ApartInv
<1>11. /\ Sorted(RestOf(s, n), Apart)
       /\ Head(s).op = "receive" => \A b \in Range(Tail(s)) :
            b.op = "receive" => Head(s).on \cap b.on = {}
  BY <1>1, <1>10, ApartRest
<1>12. ApartInv'
  BY <1>6, <1>8, <1>9, <1>11 DEF ApartInv
<1>13. \A b \in Range(Tail(agenda[t])) : b.op = "receive" => h.on \cap b.on = {}
  BY <1>2, <1>3, <1>9, <1>11
<1>14. \A m \in Fed(pipe) : executed[m] \in Seq(Data) /\ queue[m] \in Seq(Data)
  BY PipeFacts DEF PipelineInv, TypeOK
<1>15. ASSUME NEW e \in Fed(pipe)
       PROVE  /\ \A x \in Range(agenda'[t]) : Sends(x, e) =>
                   Selected(executed'[pipe], e) = Append(executed'[e] \o queue'[e], x.data)
              /\ (\A x \in Range(agenda'[t]) : ~ Sends(x, e)) =>
                   Selected(executed'[pipe], e) = executed'[e] \o queue'[e]
  <2>0. /\ \A x \in Range(agenda[t]) : Sends(x, e) =>
             Selected(executed[pipe], e) = Append(executed[e] \o queue[e], x.data)
        /\ (\A x \in Range(agenda[t]) : ~ Sends(x, e)) =>
             Selected(executed[pipe], e) = executed[e] \o queue[e]
    BY DEF RouteInv, Entries, Handed
  <2>1. CASE e = n
    <3>1. Selected(executed[pipe], e) = Append(executed[e] \o queue[e], h.data)
      BY <1>3, <1>4, <2>0, <2>1 DEF Sends
    <3>2. queue'[e] = Append(queue[e], h.data)
      BY <1>3, <1>5, <2>1, PipeFacts DEF PipelineInv, TypeOK
    <3>3. Append(executed[e] \o queue[e], h.data) = executed[e] \o Append(queue[e], h.data)
      <4>1. PICK a, b, d : a = executed[e] /\ b = queue[e] /\ d = h.data
        OBVIOUS
      <4>2. a \in Seq(Data) /\ b \in Seq(Data) /\ d \in Data
        BY <1>5, <1>14, <4>1
      <4>3. Append(a \o b, d) = a \o Append(b, d)
        BY <4>2
      <4>4. QED
        BY <4>1, <4>3
    <3>4. \A x \in Range(agenda'[t]) : ~ Sends(x, e)
      BY <1>3, <1>4, <1>4a, <1>7, <1>8, <1>13, <2>1 DEF Sends
    <3>5. QED
      BY <1>3, <3>1, <3>2, <3>3, <3>4
  <2>2. CASE e # n
    <3>1. queue'[e] = queue[e]
      BY <1>3, <1>5, <2>2, PipeFacts DEF PipelineInv, TypeOK
    <3>2. \A x \in Range(agenda'[t]) : Sends(x, e) =>
            \E y \in Range(agenda[t]) : Sends(y, e) /\ y.data = x.data
      BY <1>3, <1>4, <1>4a, <1>7, <1>8 DEF Sends
    <3>3. Sends(h, e) => \E x \in Cut(h, n) : Sends(x, e)
      <4> SUFFICES ASSUME Sends(h, e)
                   PROVE  \E x \in Cut(h, n) : Sends(x, e)
        OBVIOUS
      <4>1. h.on \ {n} # {} /\ e \in h.on \ {n}
        BY <2>2 DEF Sends
      <4>2. \E x : x \in Cut(h, n)
        BY <4>1 DEF Cut
      <4>3. QED
        BY <1>3, <1>4a, <4>1, <4>2 DEF Sends
    <3>4. \A y \in Range(agenda[t]) : Sends(y, e) =>
            \E x \in Range(agenda'[t]) : Sends(x, e)
      BY <1>4, <1>8, <3>3
    <3>5. QED
      BY <1>3, <2>0, <3>1, <3>2, <3>4
  <2>3. QED
    BY <2>1, <2>2
<1>16. RouteInv'
  BY <1>15 DEF RouteInv, Entries, Handed
<1>17. QED
  BY <1>12, <1>16
\* What the pipeline does with a value for a copy.
LEMMA CopyEntries ==
  ASSUME pipe \in Pipeline, NEW d \in Data, NEW g \in Graph,
         Inputs[g] \subseteq Fed(pipe)
  PROVE  /\ OperateCopy(g, d) \in Seq(EntryOf(PipeThread))
         /\ Sorted(OperateCopy(g, d), Apart)
         /\ \A x \in Range(OperateCopy(g, d)) : x.op = "receive" =>
              /\ <<d, g>> \in SendToGraph /\ x.on = Inputs[g] /\ x.data = d
         /\ <<d, g>> \in SendToGraph /\ Inputs[g] # {} =>
              \E x \in Range(OperateCopy(g, d)) :
                x.op = "receive" /\ x.on = Inputs[g] /\ x.data = d
<1>1. PICK t, to, none : t = PipeThread /\ to = Inputs[g] /\ none = {}
  OBVIOUS
<1>2. t \in Process /\ to \subseteq Downstream(t[1]) /\ to \subseteq Node
  BY <1>1, PipeFacts
<1>3. CASE <<d, g>> \notin SendToGraph
  <2>1. OperateCopy(g, d) = <<>>
    BY <1>3 DEF OperateCopy
  <2>2. QED
    BY <1>3, <2>1, NothingMore DEF Sorted
<1>4. CASE <<d, g>> \in SendToGraph /\ to = {}
  <2>1. OperateCopy(g, d) = <<>> \o <<>>
    BY <1>1, <1>4 DEF OperateCopy, SendAndNotify, Loop, LoopOn
  <2>2. OperateCopy(g, d) = <<>>
    BY <2>1
  <2>3. QED
    BY <1>1, <1>4, <2>2, NothingMore DEF Sorted
<1>5. CASE <<d, g>> \in SendToGraph /\ to # {}
  <2>1. PICK a, b : /\ a = [op |-> "receive", on |-> to, data |-> d]
                    /\ b = [op |-> "wakeUp", on |-> to, data |-> none]
    OBVIOUS
  <2>2. PICK w : w = OperateCopy(g, d)
    OBVIOUS
  <2>3. w = <<a>> \o <<b>>
    BY <1>1, <1>5, <2>1, <2>2 DEF OperateCopy, SendAndNotify, Loop, LoopOn
  <2>4. Len(w) = 2 /\ w[1] = a /\ w[2] = b /\ DOMAIN w = 1 .. 2
    BY <2>3
  <2>5. Range(w) = {a, b}
    BY <2>4 DEF Range
  <2>6. w \in Seq(EntryOf(t))
    <3>1. /\ SendAndNotify(to, d) \in Seq(EntryOf(t))
          /\ Sorted(SendAndNotify(to, d), Order)
          /\ \A e \in Range(SendAndNotify(to, d)) : e.op \in {"receive", "wakeUp"}
      BY <1>2, SendFacts
    <3>2. w = SendAndNotify(to, d)
      BY <1>1, <1>5, <2>2 DEF OperateCopy
    <3>3. QED
      BY <3>1, <3>2
  <2>7. a \in Entry /\ b \in Entry
    <3>1. \A x \in Range(w) : x \in Entry
      BY <2>6, RangeOf, EntryOfType
    <3>2. QED
      BY <2>5, <3>1
  <2>8. Sorted(w, Apart)
    <3>1. \A i, j \in 1 .. 2 : i < j => i = 1 /\ j = 2
      OBVIOUS
    <3>2. b.op = "wakeUp"
      BY <2>1
    <3>3. <<a, b>> \in Apart
      BY <2>7, <3>2 DEF Apart
    <3>4. QED
      BY <2>4, <3>1, <3>3 DEF Sorted
  <2>9. /\ a.op = "receive" /\ a.on = to /\ a.data = d /\ b.op = "wakeUp"
    BY <2>1
  <2>10. QED
    BY <1>1, <1>5, <2>2, <2>5, <2>6, <2>8, <2>9
<1>6. QED
  BY <1>3, <1>4, <1>5

LEMMA RouteOperate ==
  ASSUME pipe \in Pipeline, PipelineInv, RouteInv, ApartInv, NEW t, t = PipeThread,
         OperateReceiver(t)
  PROVE  RouteInv' /\ ApartInv'
<1>1. t \in Process /\ t[1] = pipe
  BY PipeFacts
<1>2. PICK d, ss, w : /\ d = Head(queue[pipe])
                      /\ ss = [i \in DOMAIN Copies[pipe] |-> OperateCopy(Copies[pipe][i], d)]
                      /\ w = FlattenSeq(ss)
  OBVIOUS
<1>3. /\ Testing(t) /\ queue[pipe] # <<>>
      /\ queue' = [queue EXCEPT ![pipe] = Tail(@)]
      /\ executed' = [executed EXCEPT ![pipe] = Append(@, d)]
      /\ agenda' = [agenda EXCEPT ![t] = w]
  BY <1>1, <1>2 DEF OperateReceiver, Take
<1>4. /\ agenda[t] = <<>> /\ Range(agenda[t]) = {} /\ agenda'[t] = w
  BY <1>1, <1>3, NothingMore DEF Testing, PipelineInv, TypeOK
<1>5. /\ d \in Data /\ executed[pipe] \in Seq(Data)
      /\ executed'[pipe] = Append(executed[pipe], d)
      /\ \A e \in Fed(pipe) : executed'[e] = executed[e] /\ queue'[e] = queue[e]
  <2>1. queue[pipe] \in Seq(Data) /\ executed[pipe] \in Seq(Data)
    BY PipeFacts DEF PipelineInv, TypeOK
  <2>2. d \in Data
    BY <1>2, <1>3, <2>1
  <2>3. QED
    BY <1>3, <2>1, <2>2, PipeFacts DEF PipelineInv, TypeOK
<1>6. PICK N \in Nat : DOMAIN Copies[pipe] = 1 .. N
  BY CopiesOf
<1>7. ASSUME NEW i \in 1 .. N
      PROVE  /\ Copies[pipe][i] \in Graph /\ Inputs[Copies[pipe][i]] \subseteq Fed(pipe)
             /\ Inputs[Copies[pipe][i]] \subseteq Under[Copies[pipe][i]]
  BY <1>6, CopiesOf, NestingAssumption DEF Fed
<1>8. ASSUME NEW i \in 1 .. N
      PROVE  /\ ss[i] \in Seq(EntryOf(t)) /\ Sorted(ss[i], Apart)
             /\ \A x \in Range(ss[i]) : x.op = "receive" =>
                  /\ <<d, Copies[pipe][i]>> \in SendToGraph
                  /\ x.on = Inputs[Copies[pipe][i]] /\ x.data = d
             /\ <<d, Copies[pipe][i]>> \in SendToGraph /\ Inputs[Copies[pipe][i]] # {} =>
                  \E x \in Range(ss[i]) :
                    x.op = "receive" /\ x.on = Inputs[Copies[pipe][i]] /\ x.data = d
  <2>1. PICK g \in Graph : g = Copies[pipe][i]
    BY <1>7
  <2>2. Inputs[g] \subseteq Fed(pipe)
    BY <1>7, <2>1
  <2>3. ss[i] = OperateCopy(g, d)
    BY <1>2, <1>6, <2>1
  <2>4. /\ OperateCopy(g, d) \in Seq(EntryOf(PipeThread))
        /\ Sorted(OperateCopy(g, d), Apart)
        /\ \A x \in Range(OperateCopy(g, d)) : x.op = "receive" =>
             /\ <<d, g>> \in SendToGraph /\ x.on = Inputs[g] /\ x.data = d
        /\ <<d, g>> \in SendToGraph /\ Inputs[g] # {} =>
             \E x \in Range(OperateCopy(g, d)) :
               x.op = "receive" /\ x.on = Inputs[g] /\ x.data = d
    BY <1>5, <2>2, CopyEntries
  <2>5. QED
    BY <2>1, <2>3, <2>4
<1>9. ASSUME NEW i \in 1 .. N, NEW j \in 1 .. N, i < j
      PROVE  Cross(ss[i], ss[j], Apart)
  <2>0. \A x \in Range(ss[i]), y \in Range(ss[j]) : x \in Entry /\ y \in Entry
    <3>1. ss[i] \in Seq(Entry) /\ ss[j] \in Seq(Entry)
      BY <1>8, EntryOfType
    <3>2. QED
      BY <3>1, RangeOf
  <2>1. Under[Copies[pipe][i]] \cap Under[Copies[pipe][j]] = {}
    <3>1. i # j /\ i \in DOMAIN Copies[pipe] /\ j \in DOMAIN Copies[pipe]
      BY <1>6, <1>9
    <3>2. \A k, m \in DOMAIN Copies[pipe] : k # m =>
            Under[Copies[pipe][k]] \cap Under[Copies[pipe][m]] = {}
      BY CopiesOf
    <3>3. QED
      BY <3>1, <3>2
  <2>2. ASSUME NEW x \in Range(ss[i]), NEW y \in Range(ss[j]),
               x.op = "receive", y.op = "receive"
        PROVE  x.on \cap y.on = {}
    BY <1>7, <1>8, <2>1, <2>2
  <2>3. \A x \in Range(ss[i]), y \in Range(ss[j]) : <<x, y>> \in Apart
    BY <2>0, <2>2 DEF Apart
  <2>4. QED
    BY <2>3 DEF Cross
<1>10. /\ w \in Seq(EntryOf(t)) /\ Sorted(w, Apart)
       /\ \A x : x \in Range(w) <=> \E i \in 1 .. N : x \in Range(ss[i])
  <2>1. ss \in [1 .. N -> Seq(EntryOf(t))]
    BY <1>2, <1>6, <1>8
  <2>2. /\ FlattenSeq(ss) \in Seq(EntryOf(t)) /\ Sorted(FlattenSeq(ss), Apart)
        /\ \A x : x \in Range(FlattenSeq(ss)) <=> \E i \in 1 .. N : x \in Range(ss[i])
    BY <1>8, <1>9, <2>1, FlattenOf
  <2>3. QED
    BY <1>2, <2>2
<1>11. ApartInv'
  BY <1>4, <1>10 DEF ApartInv
<1>12. ASSUME NEW e \in Fed(pipe)
       PROVE  /\ \A x \in Range(agenda'[t]) : Sends(x, e) =>
                   Selected(executed'[pipe], e) = Append(executed'[e] \o queue'[e], x.data)
              /\ (\A x \in Range(agenda'[t]) : ~ Sends(x, e)) =>
                   Selected(executed'[pipe], e) = executed'[e] \o queue'[e]
  <2>1. PICK u : u = executed[e] \o queue[e]
    OBVIOUS
  <2>2. u \in Seq(Data)
    <3>1. executed[e] \in Seq(Data) /\ queue[e] \in Seq(Data)
      BY PipeFacts DEF PipelineInv, TypeOK
    <3>2. QED
      BY <2>1, <3>1
  <2>3. Selected(executed[pipe], e) = u
    BY <1>4, <2>1 DEF RouteInv, Entries, Handed
  <2>4. Selected(executed'[pipe], e) = u \o Share(d, e)
    <3>1. PICK s : s = executed[pipe]
      OBVIOUS
    <3>2. s \in Seq(Data)
      BY <1>5, <3>1
    <3>3. Selected(Append(s, d), e) = Selected(s, e) \o Share(d, e)
      BY <1>5, <3>2, SelectedAppend
    <3>4. QED
      BY <1>5, <2>3, <3>1, <3>3
  <2>5. executed'[e] \o queue'[e] = u
    BY <1>5, <2>1
  <2>6. ASSUME NEW x \in Range(agenda'[t]), Sends(x, e)
        PROVE  Selected(executed'[pipe], e) = Append(executed'[e] \o queue'[e], x.data)
    <3>1. PICK i \in 1 .. N : x \in Range(ss[i])
      BY <1>4, <1>10, <2>6
    <3>2. /\ <<d, Copies[pipe][i]>> \in SendToGraph
          /\ e \in Inputs[Copies[pipe][i]] /\ x.data = d
      BY <1>8, <2>6, <3>1 DEF Sends
    <3>3. <<d, e>> \in RoutedTo
      BY <1>5, <1>6, <3>2 DEF RoutedTo
    <3>4. Share(d, e) = <<d>>
      BY <3>3 DEF Share
    <3>5. u \o <<d>> = Append(u, d)
      BY <1>5, <2>2
    <3>6. QED
      BY <2>4, <2>5, <3>2, <3>4, <3>5
  <2>7. ASSUME \A x \in Range(agenda'[t]) : ~ Sends(x, e)
        PROVE  Selected(executed'[pipe], e) = executed'[e] \o queue'[e]
    <3>1. <<d, e>> \notin RoutedTo
      <4> SUFFICES ASSUME <<d, e>> \in RoutedTo
                   PROVE  FALSE
        OBVIOUS
      <4>1. PICK i \in 1 .. N : /\ e \in Inputs[Copies[pipe][i]]
                                /\ <<d, Copies[pipe][i]>> \in SendToGraph
        BY <1>6 DEF RoutedTo
      <4>2. \E x \in Range(ss[i]) : Sends(x, e)
        BY <1>8, <4>1 DEF Sends
      <4>3. QED
        BY <1>4, <1>10, <2>7, <4>2
    <3>2. Share(d, e) = <<>>
      BY <3>1 DEF Share
    <3>3. u \o <<>> = u
      BY <2>2
    <3>4. QED
      BY <2>4, <2>5, <3>2, <3>3
  <2>8. QED
    BY <2>6, <2>7
<1>13. RouteInv'
  BY <1>12 DEF RouteInv, Entries, Handed
<1>14. QED
  BY <1>11, <1>13
LEMMA RouteLeave ==
  ASSUME pipe \in Pipeline, PipelineInv, RouteInv, ApartInv, NEW t, t = PipeThread,
         LeaveLoop(t)
  PROVE  RouteInv' /\ ApartInv'
<1>1. t \in Process /\ t \in Thread /\ slots[t] \subseteq Downstream(t[1])
  BY PipeFacts DEF PipelineInv, WiredInv
<1>2. PICK w : w = EndAgenda(t)
  OBVIOUS
<1>3. w \in Seq(EntryOf(t)) /\ \A e \in Range(w) : e.op # "receive"
  <2>1. EndAgenda(t) \in Seq(EntryOf(t))
    BY <1>1, EndAgendaFacts
  <2>2. \A e \in Range(EndAgenda(t)) :
          e.op \in {"remove", "leave", "wakeUp", "join", "return"}
    BY <1>1, EndAgendaFacts
  <2>3. QED
    BY <1>2, <2>1, <2>2
<1>4. /\ agenda[t] = <<>> /\ Range(agenda[t]) = {} /\ agenda'[t] = w
      /\ queue' = queue /\ executed' = executed
  BY <1>1, <1>2, NothingMore DEF LeaveLoop, Testing, PipelineInv, TypeOK
<1>5. \A x : x.op = "receive" => (x \in Range(agenda'[t]) <=> x \in Range(agenda[t]))
  BY <1>3, <1>4
<1>6. RouteInv'
  BY <1>4, <1>5, RouteSame
<1>7. Sorted(w, Apart)
  <2>1. PICK b : b = <<>>
    OBVIOUS
  <2>2. b \in Seq(EntryOf(t)) /\ Sorted(b, Apart)
    BY <2>1, NothingMore DEF Sorted
  <2>3. QED
    BY <1>1, <1>3, <2>2, ApartPlain
<1>8. ApartInv'
  BY <1>4, <1>7 DEF ApartInv
<1>9. QED
  BY <1>6, <1>8

\* What another thread does leaves the pipeline, and what it hands, alone.
LEMMA RouteOther ==
  ASSUME pipe \in Pipeline, OnlyThePipelineFeeds, PipelineInv,
         NEW t \in Process, t # PipeThread, Step(t)
  PROVE  /\ agenda'[PipeThread] = agenda[PipeThread]
         /\ executed'[pipe] = executed[pipe]
         /\ \A e \in Fed(pipe) : executed'[e] \o queue'[e] = executed[e] \o queue[e]
<1>1. /\ agenda \in [Process -> Seq(Entry)] /\ executed \in [Node -> Seq(Data)]
      /\ queue \in [Node -> Seq(Data)]
  BY DEF PipelineInv, TypeOK
<1>2. ASSUME Take(t), Testing(t), agenda' = [agenda EXCEPT ![t] = agenda'[t]]
      PROVE  /\ agenda'[PipeThread] = agenda[PipeThread]
             /\ executed'[pipe] = executed[pipe]
             /\ \A e \in Fed(pipe) : executed'[e] \o queue'[e] = executed[e] \o queue[e]
  <2>1. t \in Thread /\ t[1] # pipe /\ t[1] \in Node
    BY <1>2, PipeFacts, ThreadFacts DEF Testing, Node
  <2>2. agenda'[PipeThread] = agenda[PipeThread] /\ executed'[pipe] = executed[pipe]
    BY <1>1, <1>2, <2>1, PipeFacts DEF Take
  <2>3. ASSUME NEW e \in Fed(pipe)
        PROVE  executed'[e] \o queue'[e] = executed[e] \o queue[e]
    <3>1. CASE e # t[1]
      BY <1>1, <1>2, <3>1, PipeFacts DEF Take
    <3>2. CASE e = t[1]
      <4>1. PICK x, q : x = executed[e] /\ q = queue[e]
        OBVIOUS
      <4>2. x \in Seq(Data) /\ q \in Seq(Data) /\ q # <<>>
        BY <1>1, <1>2, <3>2, <4>1, PipeFacts DEF Take
      <4>3. executed'[e] = Append(x, Head(q)) /\ queue'[e] = Tail(q)
        BY <1>1, <1>2, <2>1, <3>2, <4>1 DEF Take
      <4>4. Append(x, Head(q)) \o Tail(q) = x \o q
        BY <4>2
      <4>5. QED
        BY <4>1, <4>3, <4>4
    <3>3. QED
      BY <3>1, <3>2
  <2>4. QED
    BY <2>2, <2>3
<1>3. CASE Sleep(t) \/ LeaveLoop(t)
  BY <1>1, <1>3, PipeFacts DEF Sleep, LeaveLoop
<1>4. CASE Execute(t)
  <2>1. Take(t) /\ Testing(t)
    BY <1>4 DEF Execute
  <2>2. agenda' = [agenda EXCEPT ![t] = agenda'[t]]
    BY <1>1, <1>4 DEF Execute
  <2>3. QED
    BY <1>2, <2>1, <2>2
<1>5. CASE OperateReceiver(t)
  <2>1. Take(t) /\ Testing(t)
    BY <1>5 DEF OperateReceiver
  <2>2. agenda' = [agenda EXCEPT ![t] = agenda'[t]]
    BY <1>1, <1>5 DEF OperateReceiver
  <2>3. QED
    BY <1>2, <2>1, <2>2
<1>6. ASSUME NEW n, Receive(t, n)
      PROVE  n \notin Fed(pipe)
  <2>1. PICK h : h = Head(agenda[t])
    OBVIOUS
  <2>2. agenda[t] # <<>> /\ n \in h.on /\ h.op = "receive"
    BY <1>6, <2>1 DEF Receive, At
  <2>3. h \in EntryOf(t)
    BY <2>1, <2>2, HeadFacts
  <2>4. t[1] \in Feeders(n)
    BY <2>2, <2>3 DEF EntryOf, Downstream
  <2>5. QED
    BY <2>4, PipeFacts DEF OnlyThePipelineFeeds
<1>7. ASSUME NEW n \in Head(agenda[t]).on, Handle(t, n)
      PROVE  /\ agenda'[PipeThread] = agenda[PipeThread]
             /\ executed'[pipe] = executed[pipe]
             /\ \A e \in Fed(pipe) : executed'[e] \o queue'[e] = executed[e] \o queue[e]
  <2>1. CASE Receive(t, n)
    <3>1. n \notin Fed(pipe)
      BY <1>6, <2>1
    <3>2. \A e \in Fed(pipe) : queue'[e] = queue[e]
      BY <1>1, <2>1, <3>1, PipeFacts DEF Receive
    <3>3. agenda'[PipeThread] = agenda[PipeThread] /\ executed' = executed
      BY <1>1, <2>1, PipeFacts DEF Receive, After
    <3>4. QED
      BY <3>2, <3>3
  <2>2. CASE SpawnThreads(t, n)
    <3>1. PICK started : started = UNION {ThreadsOf(m) : m \in Inside[n] \ Graph}
      OBVIOUS
    <3>2. agenda' = [s \in Process |->
            IF s = t THEN Rest(t, n)
            ELSE IF s \in started /\ s[1] \in Task
                   THEN FlattenSeq([i \in DOMAIN Generated[s[1]] |->
                          SendAndNotify(Succ[s[1]], Generated[s[1]][i])])
                   ELSE agenda[s]]
      BY <2>2, <3>1 DEF SpawnThreads
    <3>3. agenda'[PipeThread] = agenda[PipeThread]
      BY <3>2, PipeFacts
    <3>4. executed' = executed /\ queue' = queue
      BY <2>2 DEF SpawnThreads
    <3>5. QED
      BY <3>3, <3>4
  <2>3. CASE ReadNotifier(t, n)
    BY <1>1, <2>3, PipeFacts DEF ReadNotifier
  <2>4. CASE \/ WakeUp(t, n) \/ RemoveNotifier(t, n)
             \/ DisconnectSwitch(t, n) \/ Join(t, n) \/ Return(t, n)
             \/ CreateInner(t, n) \/ Reconnect(t, n) \/ ConnectSuccessors(t, n)
    <3>1. executed' = executed /\ queue' = queue /\ \E more : After(t, n, more)
      BY <2>4 DEF WakeUp, RemoveNotifier, DisconnectSwitch, Join, Return, CreateInner,
                  Reconnect, ConnectSuccessors
    <3>2. agenda'[PipeThread] = agenda[PipeThread]
      BY <1>1, <3>1, PipeFacts DEF After
    <3>3. QED
      BY <3>1, <3>2
  <2>5. QED
    BY <1>7, <2>1, <2>2, <2>3, <2>4 DEF Handle
<1>8. QED
  BY <1>3, <1>4, <1>5, <1>7 DEF Step

\* The pipeline launches nothing.
LEMMA PipeHandles ==
  ASSUME pipe \in Pipeline, PipelineInv, NEW t, t = PipeThread, NEW n
  PROVE  ~ CreateInner(t, n) /\ ~ SpawnThreads(t, n) /\ ~ ReadNotifier(t, n)
         /\ ~ Reconnect(t, n) /\ ~ ConnectSuccessors(t, n)
<1> SUFFICES ASSUME \/ CreateInner(t, n) \/ SpawnThreads(t, n) \/ ReadNotifier(t, n)
                    \/ Reconnect(t, n) \/ ConnectSuccessors(t, n)
             PROVE  FALSE
  OBVIOUS
<1>1. PICK h : h = Head(agenda[t])
  OBVIOUS
<1>2. agenda[t] # <<>> /\ n \in h.on /\ h.op \in LaunchOp
  BY <1>1 DEF CreateInner, SpawnThreads, ReadNotifier, Reconnect, ConnectSuccessors, At,
              LaunchOp
<1>3. t \in Process /\ t # UserThread
  BY PipeFacts
<1>4. h \in EntryOf(t)
  BY <1>1, <1>2, <1>3, HeadFacts
<1>5. QED
  BY <1>2, <1>3, <1>4 DEF EntryOf

LEMMA RouteNext ==
  ASSUME pipe \in Pipeline, OnlyThePipelineFeeds, PipelineInv, RouteInv, ApartInv,
         [Next]_vars
  PROVE  RouteInv' /\ ApartInv'
<1>1. CASE UNCHANGED vars
  BY <1>1, RouteFrame DEF vars
<1>2. ASSUME NEW t \in Process, t # PipeThread, Step(t)
      PROVE  RouteInv' /\ ApartInv'
  <2>1. /\ agenda'[PipeThread] = agenda[PipeThread]
        /\ executed'[pipe] = executed[pipe]
        /\ \A e \in Fed(pipe) : executed'[e] \o queue'[e] = executed[e] \o queue[e]
    BY <1>2, RouteOther
  <2>2. QED
    BY <2>1, RouteFrame
<1>3. ASSUME NEW t, t = PipeThread, Step(t)
      PROVE  RouteInv' /\ ApartInv'
  <2>1. CASE Sleep(t)
    BY <2>1, RouteFrame DEF Sleep
  <2>2. CASE LeaveLoop(t)
    BY <1>3, <2>2, RouteLeave
  <2>3. ~ Execute(t)
    BY <1>3, PipeFacts DEF Execute
  <2>4. CASE OperateReceiver(t)
    BY <1>3, <2>4, RouteOperate
  <2>5. ASSUME NEW n, Handle(t, n)
        PROVE  RouteInv' /\ ApartInv'
    <3>1. CASE Receive(t, n)
      BY <1>3, <3>1, RouteReceive
    <3>2. ~ CreateInner(t, n) /\ ~ SpawnThreads(t, n) /\ ~ ReadNotifier(t, n)
          /\ ~ Reconnect(t, n) /\ ~ ConnectSuccessors(t, n)
      BY <1>3, PipeHandles
    <3>3. CASE \/ WakeUp(t, n) \/ RemoveNotifier(t, n)
               \/ DisconnectSwitch(t, n) \/ Join(t, n) \/ Return(t, n)
      BY <1>3, <3>3, RoutePlain
    <3>4. QED
      BY <2>5, <3>1, <3>2, <3>3 DEF Handle
  <2>6. QED
    BY <1>3, <2>1, <2>2, <2>3, <2>4, <2>5 DEF Step
<1>4. QED
  BY <1>1, <1>2, <1>3 DEF Next, Terminated
-----------------------------------------------------------------------------
(* The steps of a pipeline and its copies are steps of the Router, or none.    *)

RoutingInv == SettledInv /\ RouteInv /\ ApartInv

LEMMA RouterFor ==
  ASSUME NEW e
  PROVE  PipelineRouter!For(e) = Selected(executed[pipe] \o queue[pipe], e)
<1>1. \A d : PipelineRouter!Share(d, e) = Share(d, e)
  BY DEF PipelineRouter!Share, Share
<1>2. PICK s : s = executed[pipe] \o queue[pipe]
  OBVIOUS
<1>3. [i \in DOMAIN s |-> PipelineRouter!Share(s[i], e)] = [i \in DOMAIN s |-> Share(s[i], e)]
  BY <1>1
<1>4. PipelineRouter!For(e) = FlattenSeq([i \in DOMAIN s |-> PipelineRouter!Share(s[i], e)])
  <2>1. \A x : PipelineRouter!FlattenSeq(x) = FlattenSeq(x)
    BY DEF PipelineRouter!FlattenSeq, FlattenSeq
  <2>2. QED
    BY <1>2, <2>1 DEF PipelineRouter!For
<1>5. QED
  BY <1>2, <1>3, <1>4 DEF Selected

LEMMA RouterInit ==
  ASSUME pipe \in Pipeline, Init
  PROVE  PipelineRouter!Init
<1>1. executed[pipe] = <<>> /\ queue[pipe] = <<>>
  BY PipeFacts DEF Init
<1>2. \A e \in Fed(pipe) : executed[e] = <<>> /\ queue[e] = <<>>
  BY PipeFacts DEF Init
<1>3. \A e \in Fed(pipe) : <<pipe, 0>> \in notifiers[e]
  BY PipeFacts DEF Init, Feeders
<1>4. <<>> \o <<>> = <<>>
  OBVIOUS
<1>5. executed[pipe] \o queue[pipe] = <<>>
  BY <1>1, <1>4
<1>6. [e \in Fed(pipe) |-> executed[e] \o queue[e]] = [e \in Fed(pipe) |-> <<>>]
  BY <1>2, <1>4
<1>7. {e \in Fed(pipe) : <<pipe, 0>> \notin notifiers[e]} = {}
  BY <1>3
<1>8. QED
  BY <1>5, <1>6, <1>7 DEF PipelineRouter!Init

LEMMA RouterStutter ==
  ASSUME executed'[pipe] \o queue'[pipe] = executed[pipe] \o queue[pipe],
         \A e \in Fed(pipe) : executed'[e] \o queue'[e] = executed[e] \o queue[e],
         \A e \in Fed(pipe) : PipeThread \in notifiers'[e] <=> PipeThread \in notifiers[e]
  PROVE  UNCHANGED PipelineRouter!vars
<1>1. [e \in Fed(pipe) |-> executed'[e] \o queue'[e]]
        = [e \in Fed(pipe) |-> executed[e] \o queue[e]]
  OBVIOUS
<1>2. {e \in Fed(pipe) : <<pipe, 0>> \notin notifiers'[e]}
        = {e \in Fed(pipe) : <<pipe, 0>> \notin notifiers[e]}
  BY DEF PipeThread
<1>3. QED
  BY <1>1, <1>2 DEF PipelineRouter!vars

\* As long as a pipeline does not end, no input task of a copy was told the end.
LEMMA PipeOpen ==
  ASSUME pipe \in Pipeline, PipelineInv, ~ Ending(PipeThread)
  PROVE  \A e \in Fed(pipe) : PipeThread \in notifiers[e]
<1>1. slots[PipeThread] = Fed(pipe)
  BY PipeFacts DEF PipelineInv, WiredInv
<1>2. QED
  BY <1>1, PipeFacts DEF PipelineInv, RegisteredInv

\* A value comes in.
LEMMA RouterArrive ==
  ASSUME pipe \in Pipeline, PipelineInv, NEW t \in Process, Receive(t, pipe)
  PROVE  \E d \in Data : PipelineRouter!Arrive(d)
<1>1. PICK h : h = Head(agenda[t])
  OBVIOUS
<1>2. /\ agenda[t] # <<>> /\ pipe \in h.on /\ h.op = "receive"
      /\ queue' = [queue EXCEPT ![pipe] = Append(@, h.data)]
      /\ UNCHANGED <<notifiers, executed>>
  BY <1>1 DEF Receive, At
<1>3. h \in EntryOf(t) /\ h \in Range(agenda[t])
  BY <1>1, <1>2, HeadFacts
<1>4. h.data \in Data /\ t \in notifiers[pipe]
  BY <1>2, <1>3 DEF EntryOf, PipelineInv, SendInv, Entries
<1>5. ~ Ending(PipeThread)
  BY <1>4, PipeFacts DEF PipelineInv, DrainInv
<1>6. {e \in Fed(pipe) : <<pipe, 0>> \notin notifiers[e]} = {}
  BY <1>5, PipeOpen DEF PipeThread
<1>7. executed[pipe] \in Seq(Data) /\ queue[pipe] \in Seq(Data)
  BY PipeFacts DEF PipelineInv, TypeOK
<1>8. executed'[pipe] \o queue'[pipe] = Append(executed[pipe] \o queue[pipe], h.data)
  <2>1. PICK x, q, d : x = executed[pipe] /\ q = queue[pipe] /\ d = h.data
    OBVIOUS
  <2>2. x \in Seq(Data) /\ q \in Seq(Data) /\ d \in Data
    BY <1>4, <1>7, <2>1
  <2>3. executed'[pipe] = x /\ queue'[pipe] = Append(q, d)
    BY <1>2, <2>1, PipeFacts DEF PipelineInv, TypeOK
  <2>4. x \o Append(q, d) = Append(x \o q, d)
    BY <2>2
  <2>5. QED
    BY <2>1, <2>3, <2>4
<1>9. \A e \in Fed(pipe) : executed'[e] = executed[e] /\ queue'[e] = queue[e]
  BY <1>2, PipeFacts DEF PipelineInv, TypeOK
<1>10. [e \in Fed(pipe) |-> executed'[e] \o queue'[e]]
         = [e \in Fed(pipe) |-> executed[e] \o queue[e]]
  BY <1>9
<1>11. PipelineRouter!Arrive(h.data)
  BY <1>2, <1>6, <1>8, <1>10 DEF PipelineRouter!Arrive
<1>12. QED
  BY <1>4, <1>11

\* A value is handed to an input task.
LEMMA RouterHand ==
  ASSUME pipe \in Pipeline, PipelineInv, RouteInv, NEW t, t = PipeThread, NEW n,
         Receive(t, n)
  PROVE  n \in Fed(pipe) /\ PipelineRouter!Hand(n)
<1>1. t \in Process /\ t[1] = pipe
  BY PipeFacts
<1>2. PICK h : h = Head(agenda[t])
  OBVIOUS
<1>3. /\ agenda[t] # <<>> /\ n \in h.on /\ h.op = "receive"
      /\ queue' = [queue EXCEPT ![n] = Append(@, h.data)]
      /\ UNCHANGED <<notifiers, executed>>
  BY <1>2 DEF Receive, At
<1>4. h \in EntryOf(t) /\ h \in Range(agenda[t])
  BY <1>1, <1>2, <1>3, HeadFacts
<1>5. n \in Fed(pipe) /\ h.data \in Data
  BY <1>1, <1>3, <1>4, PipeFacts DEF EntryOf
<1>6. PICK a, b, x, q, d : /\ a = executed[pipe] /\ b = queue[pipe]
                           /\ x = executed[n] /\ q = queue[n] /\ d = h.data
  OBVIOUS
<1>7. /\ a \in Seq(Data) /\ b \in Seq(Data) /\ x \in Seq(Data) /\ q \in Seq(Data)
      /\ d \in Data
  BY <1>5, <1>6, PipeFacts DEF PipelineInv, TypeOK
<1>8. Selected(a, n) = Append(x \o q, d)
  <2>1. Sends(h, n)
    BY <1>3 DEF Sends
  <2>2. QED
    BY <1>4, <1>5, <1>6, <2>1 DEF RouteInv, Entries, Handed
<1>9. Selected(a \o b, n) = Selected(a, n) \o Selected(b, n)
  BY <1>7, SelectedConcat
<1>10. PICK u, v, w : u = x \o q /\ v = Selected(b, n) /\ w = Selected(a \o b, n)
  OBVIOUS
<1>11. u \in Seq(Data) /\ v \in Seq(Data) /\ w = Append(u, d) \o v
  <2>1. u \in Seq(Data)
    BY <1>7, <1>10
  <2>2. Selected(b, n) \in Seq(Data)
    BY <1>7, SelectedType
  <2>3. QED
    BY <1>8, <1>9, <1>10, <2>1, <2>2
<1>12. Len(u) < Len(w) /\ w[Len(u) + 1] = d
  <2>1. PICK s : s = Append(u, d)
    OBVIOUS
  <2>2. s \in Seq(Data) /\ Len(s) = Len(u) + 1 /\ s[Len(u) + 1] = d /\ Len(u) \in Nat
    BY <1>7, <1>11, <2>1, AppendProperties
  <2>3. /\ w \in Seq(Data) /\ Len(w) = Len(s) + Len(v) /\ Len(v) \in Nat
        /\ \A i \in 1 .. Len(w) : w[i] = IF i <= Len(s) THEN s[i] ELSE v[i - Len(s)]
    BY <1>11, <2>1, <2>2, ConcatProperties
  <2>4. Len(u) + 1 \in 1 .. Len(w) /\ Len(u) + 1 <= Len(s)
    BY <2>2, <2>3
  <2>5. QED
    BY <2>2, <2>3, <2>4
<1>13. PipelineRouter!For(n) = w
  BY <1>6, <1>10, RouterFor
<1>14. executed'[pipe] \o queue'[pipe] = executed[pipe] \o queue[pipe]
  BY <1>3, <1>5, PipeFacts DEF PipelineInv, TypeOK
<1>15. executed'[n] \o queue'[n] = Append(u, d)
  <2>1. executed'[n] = x /\ queue'[n] = Append(q, d)
    BY <1>3, <1>5, <1>6, PipeFacts DEF PipelineInv, TypeOK
  <2>2. x \o Append(q, d) = Append(x \o q, d)
    BY <1>7
  <2>3. QED
    BY <1>10, <2>1, <2>2
<1>16. \A e \in Fed(pipe) : e # n => executed'[e] \o queue'[e] = executed[e] \o queue[e]
  BY <1>3, PipeFacts DEF PipelineInv, TypeOK
<1>17. PICK H : H = [e \in Fed(pipe) |-> executed[e] \o queue[e]]
  OBVIOUS
<1>18. H[n] = u
  BY <1>5, <1>6, <1>10, <1>17
<1>19. [e \in Fed(pipe) |-> executed'[e] \o queue'[e]]
         = [H EXCEPT ![n] = Append(H[n], w[Len(H[n]) + 1])]
  <2>1. Append(H[n], w[Len(H[n]) + 1]) = Append(u, d)
    BY <1>12, <1>18
  <2>2. \A e \in Fed(pipe) : executed'[e] \o queue'[e] = IF e = n THEN Append(u, d) ELSE H[e]
    BY <1>15, <1>16, <1>17
  <2>3. [H EXCEPT ![n] = Append(u, d)]
          = [e \in Fed(pipe) |-> IF e = n THEN Append(u, d) ELSE H[e]]
    BY <1>17
  <2>4. QED
    BY <2>1, <2>2, <2>3
<1>20. Len(H[n]) < Len(PipelineRouter!For(n))
  BY <1>12, <1>13, <1>18
<1>21. PipelineRouter!Hand(n)
  BY <1>3, <1>13, <1>14, <1>17, <1>19, <1>20 DEF PipelineRouter!Hand
<1>22. QED
  BY <1>5, <1>21
\* The pipeline leaves an input task when everything was handed to all.
LEMMA RouterClose ==
  ASSUME pipe \in Pipeline, PipelineInv, RouteInv, NEW t, t = PipeThread, NEW n,
         RemoveNotifier(t, n) \/ DisconnectSwitch(t, n)
  PROVE  n \in Fed(pipe) /\ PipelineRouter!Close(n)
<1>1. t \in Process /\ t \in Thread /\ t[1] = pipe
  BY PipeFacts
<1>2. PICK h : h = Head(agenda[t])
  OBVIOUS
<1>3. /\ agenda[t] # <<>> /\ n \in h.on /\ h.op \in {"remove", "leave"}
      /\ notifiers' = [notifiers EXCEPT ![n] = @ \ {t}]
      /\ UNCHANGED <<queue, executed>>
  BY <1>2 DEF RemoveNotifier, DisconnectSwitch, At
<1>4. /\ h \in EntryOf(t) /\ h \in Range(agenda[t])
      /\ Range(agenda[t]) = {h} \cup Range(Tail(agenda[t]))
      /\ \A b \in Range(Tail(agenda[t])) : b \in EntryOf(t) /\ MayPrecede(h, b)
  BY <1>1, <1>2, <1>3, HeadFacts
<1>5. n \in Fed(pipe)
  BY <1>1, <1>3, <1>4, PipeFacts DEF EntryOf
<1>6. \A b \in Range(agenda[t]) : b.op # "receive"
  <2> SUFFICES ASSUME NEW b \in Range(Tail(agenda[t])), b.op = "receive"
               PROVE  FALSE
    BY <1>3, <1>4
  <2>1. Rank[h.op] <= Rank[b.op] \/ "wakeUp" \in {h.op, b.op}
    BY <1>4 DEF MayPrecede
  <2>2. Rank[h.op] = 3 /\ Rank[b.op] = 2
    BY <1>3 DEF Rank, Op, LaunchOp
  <2>3. QED
    BY <1>3, <2>1, <2>2
<1>7. queue[pipe] = <<>>
  <2>1. \E f \in Range(agenda[t]) : f.op = "return"
    BY <1>1, <1>3, <1>4 DEF PipelineInv, EndInv, Entries
  <2>2. Ending(t)
    BY <2>1 DEF Ending, Entries
  <2>3. QED
    BY <1>1, <2>2 DEF PipelineInv, DrainInv
<1>8. ASSUME NEW e \in Fed(pipe)
      PROVE  PipelineRouter!For(e) = executed[e] \o queue[e]
  <2>1. Selected(executed[pipe], e) = executed[e] \o queue[e]
    BY <1>6 DEF RouteInv, Entries, Sends, Handed
  <2>2. executed[pipe] \o queue[pipe] = executed[pipe]
    <3>1. executed[pipe] \in Seq(Data)
      BY PipeFacts DEF PipelineInv, TypeOK
    <3>2. QED
      BY <1>7, <3>1
  <2>3. PipelineRouter!For(e) = Selected(executed[pipe] \o queue[pipe], e)
    BY RouterFor
  <2>4. QED
    BY <2>1, <2>2, <2>3
<1>9. {e \in Fed(pipe) : <<pipe, 0>> \notin notifiers'[e]}
        = {e \in Fed(pipe) : <<pipe, 0>> \notin notifiers[e]} \cup {n}
  <2>1. \A e \in Fed(pipe) : notifiers'[e] = IF e = n THEN notifiers[e] \ {t} ELSE notifiers[e]
    BY <1>3, PipeFacts DEF PipelineInv, TypeOK
  <2>2. QED
    BY <1>5, <2>1 DEF PipeThread
<1>10. PICK H : H = [e \in Fed(pipe) |-> executed[e] \o queue[e]]
  OBVIOUS
<1>11. \A f \in Fed(pipe) : Len(H[f]) = Len(PipelineRouter!For(f))
  BY <1>8, <1>10
<1>12. PipelineRouter!Close(n)
  BY <1>3, <1>9, <1>10, <1>11 DEF PipelineRouter!Close
<1>13. QED
  BY <1>5, <1>12

\* Only the pipeline itself leaves an input task or comes to it.
LEMMA RouterConnected ==
  ASSUME pipe \in Pipeline, PipelineInv, SettledInv, NEW t \in Process, t # PipeThread,
         Step(t)
  PROVE  \A e \in Fed(pipe) : PipeThread \in notifiers'[e] <=> PipeThread \in notifiers[e]
<1>1. notifiers \in [Node -> SUBSET Process]
  BY DEF PipelineInv, TypeOK
<1>2. CASE notifiers' = notifiers
  BY <1>2
<1>3. ASSUME NEW n, RemoveNotifier(t, n) \/ DisconnectSwitch(t, n)
      PROVE  \A e \in Fed(pipe) : PipeThread \in notifiers'[e] <=> PipeThread \in notifiers[e]
  <2>1. notifiers' = [notifiers EXCEPT ![n] = @ \ {t}]
    BY <1>3 DEF RemoveNotifier, DisconnectSwitch
  <2>2. \A e \in Fed(pipe) : notifiers'[e] = IF e = n THEN notifiers[e] \ {t} ELSE notifiers[e]
    BY <1>1, <2>1, PipeFacts
  <2>3. QED
    BY <2>2
<1>4. ASSUME NEW n, Reconnect(t, n)
      PROVE  \A e \in Fed(pipe) : PipeThread \in notifiers'[e] <=> PipeThread \in notifiers[e]
  <2>1. PICK h : h = Head(agenda[t])
    OBVIOUS
  <2>2. agenda[t] # <<>> /\ n \in h.on /\ h.op = "reconnect"
    BY <1>4, <2>1 DEF Reconnect, At
  <2>3. PICK q \in h.data : notifiers' = [notifiers EXCEPT ![n[1]] = @ \cup {q}]
    BY <1>4, <2>1 DEF Reconnect
  <2>4. t = UserThread /\ h.on = {n} /\ h \in Range(agenda[t])
    BY <2>1, <2>2, ConnectFacts, HeadFacts
  <2>5. ASSUME NEW e \in Fed(pipe)
        PROVE  PipeThread \in notifiers'[e] <=> PipeThread \in notifiers[e]
    <3>1. notifiers'[e] = IF e = n[1] THEN notifiers[e] \cup {q} ELSE notifiers[e]
      BY <1>1, <2>3, PipeFacts
    <3>2. CASE e # n[1]
      BY <3>1, <3>2
    <3>3. CASE e = n[1]
      <4>1. Covers(h) = {e}
        BY <2>2, <2>4, <3>3, CopyEntry
      <4>2. e \in Under[pipe]
        BY PipeFacts
      <4>3. pc[PipeThread] = "idle"
        BY <2>4, <4>1, <4>2 DEF SettledInv, Entries, PipeThread
      <4>4. agenda[PipeThread] = <<>>
        BY <4>3, PipeFacts DEF PipelineInv, AgendaInv
      <4>5. ~ Ending(PipeThread)
        <5>1. Range(agenda[PipeThread]) = {}
          BY <4>4, NothingMore
        <5>2. QED
          BY <4>3, <5>1 DEF Ending, Entries
      <4>6. PipeThread \in notifiers[e]
        BY <4>5, PipeOpen
      <4>7. QED
        BY <3>1, <4>6
    <3>4. QED
      BY <3>2, <3>3
  <2>6. QED
    BY <2>5
<1>5. ASSUME NEW n, ConnectSuccessors(t, n)
      PROVE  \A e \in Fed(pipe) : PipeThread \in notifiers'[e] <=> PipeThread \in notifiers[e]
  <2>1. PICK h : h = Head(agenda[t])
    OBVIOUS
  <2>2. agenda[t] # <<>> /\ n \in h.on /\ h.op = "copy"
    BY <1>5, <2>1 DEF ConnectSuccessors, At
  <2>3. n[2] # 0
    BY <2>1, <2>2, ConnectFacts
  <2>4. n # PipeThread
    BY <2>3, PipeFacts
  <2>5. \A e \in Fed(pipe) : notifiers'[e] = IF e \in slots[<<n[1], 0>>]
                                               THEN notifiers[e] \cup {n}
                                               ELSE notifiers[e]
    BY <1>5, PipeFacts DEF ConnectSuccessors
  <2>6. QED
    BY <2>4, <2>5
<1>6. ASSUME notifiers' # notifiers
      PROVE  \E n : \/ RemoveNotifier(t, n) \/ DisconnectSwitch(t, n)
                    \/ Reconnect(t, n) \/ ConnectSuccessors(t, n)
  <2>1. PICK n : Handle(t, n)
    BY <1>6 DEF Step, Sleep, LeaveLoop, Execute, OperateReceiver
  <2>2. QED
    BY <1>6, <2>1 DEF Handle, Receive, WakeUp, Join, Return, CreateInner, SpawnThreads,
                      ReadNotifier
<1>7. QED
  BY <1>2, <1>3, <1>4, <1>5, <1>6

LEMMA RouterNext ==
  ASSUME pipe \in Pipeline, OnlyThePipelineFeeds, PipelineInv, RoutingInv, [Next]_vars
  PROVE  [PipelineRouter!Next]_PipelineRouter!vars
<1>1. CASE UNCHANGED vars
  <2>1. UNCHANGED PipelineRouter!vars
    BY <1>1, RouterStutter DEF vars
  <2>2. QED
    BY <2>1
<1>2. ASSUME NEW t \in Process, t # PipeThread, Step(t)
      PROVE  [PipelineRouter!Next]_PipelineRouter!vars
  <2>1. /\ executed'[pipe] = executed[pipe]
        /\ \A e \in Fed(pipe) : executed'[e] \o queue'[e] = executed[e] \o queue[e]
    BY <1>2, RouteOther
  <2>2. \A e \in Fed(pipe) : PipeThread \in notifiers'[e] <=> PipeThread \in notifiers[e]
    BY <1>2, RouterConnected DEF RoutingInv
  <2>3. CASE queue'[pipe] = queue[pipe]
    <3>1. UNCHANGED PipelineRouter!vars
      BY <2>1, <2>2, <2>3, RouterStutter
    <3>2. QED
      BY <3>1
  <2>4. CASE queue'[pipe] # queue[pipe]
    <3>1. queue \in [Node -> Seq(Data)]
      BY DEF PipelineInv, TypeOK
    <3>2. ~ (Take(t) /\ Testing(t))
      <4> SUFFICES ASSUME Take(t), Testing(t)
                   PROVE  FALSE
        OBVIOUS
      <4>1. t[1] # pipe
        BY <1>2, PipeFacts
      <4>2. QED
        BY <2>4, <3>1, <4>1, PipeFacts DEF Take
    <3>3. PICK n : Handle(t, n)
      BY <1>2, <2>4, <3>2 DEF Step, Sleep, LeaveLoop, Execute, OperateReceiver
    <3>4. Receive(t, n)
      BY <2>4, <3>3 DEF Handle, WakeUp, RemoveNotifier, DisconnectSwitch, Join, Return,
                        CreateInner, SpawnThreads, ReadNotifier, Reconnect, ConnectSuccessors
    <3>5. n = pipe
      BY <2>4, <3>1, <3>4, PipeFacts DEF Receive
    <3>6. \E d \in Data : PipelineRouter!Arrive(d)
      BY <3>4, <3>5, RouterArrive
    <3>7. QED
      BY <3>6 DEF PipelineRouter!Next
  <2>5. QED
    BY <2>3, <2>4
<1>3. ASSUME NEW t, t = PipeThread, Step(t)
      PROVE  [PipelineRouter!Next]_PipelineRouter!vars
  <2>0. t \in Process /\ t[1] = pipe
    BY <1>3, PipeFacts
  <2>1. CASE queue' = queue /\ executed' = executed /\ notifiers' = notifiers
    <3>1. UNCHANGED PipelineRouter!vars
      BY <2>1, RouterStutter
    <3>2. QED
      BY <3>1
  <2>2. CASE OperateReceiver(t)
    <3>1. PICK x, q : x = executed[pipe] /\ q = queue[pipe]
      OBVIOUS
    <3>2. x \in Seq(Data) /\ q \in Seq(Data) /\ q # <<>>
      BY <2>0, <2>2, <3>1, PipeFacts DEF PipelineInv, TypeOK, OperateReceiver, Take
    <3>3. executed'[pipe] = Append(x, Head(q)) /\ queue'[pipe] = Tail(q)
      BY <2>0, <2>2, <3>1, PipeFacts DEF PipelineInv, TypeOK, OperateReceiver, Take
    <3>4. Append(x, Head(q)) \o Tail(q) = x \o q
      BY <3>2
    <3>5. \A e \in Fed(pipe) : executed'[e] = executed[e] /\ queue'[e] = queue[e]
      BY <2>0, <2>2, PipeFacts DEF PipelineInv, TypeOK, OperateReceiver, Take
    <3>6. notifiers' = notifiers
      BY <2>2 DEF OperateReceiver
    <3>7. UNCHANGED PipelineRouter!vars
      BY <3>1, <3>3, <3>4, <3>5, <3>6, RouterStutter
    <3>8. QED
      BY <3>7
  <2>3. ASSUME NEW n, Receive(t, n)
        PROVE  [PipelineRouter!Next]_PipelineRouter!vars
    <3>1. n \in Fed(pipe) /\ PipelineRouter!Hand(n)
      BY <1>3, <2>3, RouterHand DEF RoutingInv
    <3>2. QED
      BY <3>1 DEF PipelineRouter!Next
  <2>4. ASSUME NEW n, RemoveNotifier(t, n) \/ DisconnectSwitch(t, n)
        PROVE  [PipelineRouter!Next]_PipelineRouter!vars
    <3>1. n \in Fed(pipe) /\ PipelineRouter!Close(n)
      BY <1>3, <2>4, RouterClose DEF RoutingInv
    <3>2. QED
      BY <3>1 DEF PipelineRouter!Next
  <2>5. ASSUME NEW n, Handle(t, n)
        PROVE  [PipelineRouter!Next]_PipelineRouter!vars
    <3>1. ~ CreateInner(t, n) /\ ~ SpawnThreads(t, n) /\ ~ ReadNotifier(t, n)
          /\ ~ Reconnect(t, n) /\ ~ ConnectSuccessors(t, n)
      BY <1>3, PipeHandles
    <3>2. CASE WakeUp(t, n) \/ Join(t, n) \/ Return(t, n)
      <4>1. queue' = queue /\ executed' = executed /\ notifiers' = notifiers
        BY <3>2 DEF WakeUp, Join, Return
      <4>2. QED
        BY <2>1, <4>1
    <3>3. QED
      BY <2>3, <2>4, <2>5, <3>1, <3>2 DEF Handle
  <2>6. ~ Execute(t)
    BY <2>0, PipeFacts DEF Execute
  <2>7. CASE Sleep(t) \/ LeaveLoop(t)
    <3>1. queue' = queue /\ executed' = executed /\ notifiers' = notifiers
      BY <2>7 DEF Sleep, LeaveLoop
    <3>2. QED
      BY <2>1, <3>1
  <2>8. QED
    BY <1>3, <2>2, <2>5, <2>6, <2>7 DEF Step
<1>4. QED
  BY <1>1, <1>2, <1>3 DEF Next, Terminated

\* A pipeline with its copies implements the Router: whatever the nesting, the
\* switch rule, the groups and the interleaving of sending and of ending, each value
\* that is chosen for a copy reaches its input tasks once and in order, and none of
\* them is told the end before it got everything.
THEOREM PipelinesRoute ==
  ASSUME pipe \in Pipeline, OnlyThePipelineFeeds
  PROVE  Spec => ImplementsRouter
<1>1. Init => RoutingInv
  BY SettledInit, RouteInit DEF RoutingInv
<1>2. PipelineInv /\ RoutingInv /\ [Next]_vars => RoutingInv'
  BY SettledNext, RouteNext DEF RoutingInv
<1>3. Init => PipelineRouter!Init
  BY RouterInit
<1>4. PipelineInv /\ RoutingInv /\ [Next]_vars => [PipelineRouter!Next]_PipelineRouter!vars
  BY RouterNext
<1>5. QED
  BY <1>1, <1>2, <1>3, <1>4, PipelineInvariant, PTL
    DEF Spec, ImplementsRouter, PipelineRouter!Spec
=============================================================================
