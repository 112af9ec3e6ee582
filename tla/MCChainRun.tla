----------------------------- MODULE MCChainRun -----------------------------
(* Small chains and the constants of the runs of ChainRun. *)
EXTENDS ChainRun, TLC

Plain(n) == [to |-> n, label |-> "", conditional |-> FALSE]
When(n) == [to |-> n, label |-> "", conditional |-> TRUE]
On(l, n) == [to |-> n, label |-> l, conditional |-> FALSE]

\* 1 -> 2 -> ... -> Last
Line == [n \in Node |-> IF n = Last THEN <<>> ELSE <<Plain(n + 1)>>]

\* 1 fans out to 2 and 3; 2 routes on a condition to 4 or, by default, to 5; 3 is a
\* condition node whose handle picks 6 or 7, or (strict) nothing; 5 and 6 join in 8.
Branches == (1 :> <<Plain(2), Plain(3)>>) @@ (2 :> <<When(4), Plain(5)>>)
              @@ (3 :> <<On("yes", 6), On("no", 7)>>) @@ [n \in {5, 6} |-> <<Plain(8)>>]
              @@ [n \in {4, 7, 8} |-> <<>>]

\* 1 is a condition node that routes to 2 or to 3.
Fork == (1 :> <<On("left", 2), On("right", 3)>>) @@ [n \in 2..3 |-> <<>>]
=============================================================================
