--------------------------- MODULE MCStateManager ---------------------------
(***************************************************************************)
(* The cycle of the matrix multiplication test: blocks of C and partial      *)
(* products P meet in a state, which sends each pair to a task that adds     *)
(* them into a new block of C; when ttl runs out the block of C leaves.  It  *)
(* leaves through a second manager of the same state, which starts           *)
(* automatically and passes on what it receives.                             *)
(***************************************************************************)
EXTENDS StateManager, TLC

CONSTANTS products, add, results, matrix

ManagerStates == (products :> matrix) @@ (results :> matrix)
InputTypes == [n \in Sleeper |-> IF n = add THEN <<"pair">> ELSE <<"C", "P", "last">>]
OutputTypes == [m \in Manager |-> <<"pair", "last", "result">>]

Wires ==
  [x \in {Source, products, add, results} \X Type |->
     CASE x \in {<<Source, "C">>, <<Source, "P">>, <<add, "C">>} -> {products}
       [] x = <<products, "pair">> -> {add}
       [] x = <<products, "last">> -> {results}
       [] x = <<results, "result">> -> {Sink}
       [] OTHER -> {}]

TypeOfValue == [d \in Data |-> d]

\* PartialComputationState with one block: ttl, whether a block of C waits, and
\* how many partial products do.  The last manager answers with a result.
Contents == (0..2) \X BOOLEAN \X (0..1)
Beginning == [s \in State |-> <<2, FALSE, 0>>]
Turn(u, d) ==
  LET ttl == u[1]
      c == u[2]
      p == u[3]
      Add(v, x) == [next |-> v,
                    results |-> [t \in Type |-> IF t = x THEN <<x>> ELSE <<>>]]
      Wait(v) == Add(v, "nothing")
  IN  CASE d = "C" /\ ttl = 1 -> Add(<<0, c, p>>, "last")
        [] d = "C" /\ ttl = 2 /\ p = 1 -> Add(<<1, FALSE, 0>>, "pair")
        [] d = "C" /\ ttl = 2 /\ p = 0 -> Wait(<<2, TRUE, 0>>)
        [] d = "P" /\ c -> Add(<<1, FALSE, p>>, "pair")
        [] d = "P" /\ ~c -> Wait(<<ttl, FALSE, 1>>)
        [] d \in {"last", Nullptr} -> Add(u, "result")
        [] OTHER -> Wait(u)
MatrixExecute ==
  [x \in State \X User \X (Data \cup {Nullptr}) |-> Turn(x[2], x[3])]
Done == {u \in Contents : u[1] = 0}
AddBlocks == [x \in {add} \X Data |-> <<"C">>]
Pushed == <<"C", "P">>
Expected == [t \in Type |-> IF t = "result" THEN 4 ELSE 0]
=============================================================================
