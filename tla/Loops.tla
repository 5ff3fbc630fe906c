------------------------------- MODULE Loops -------------------------------
(* The loops of the codecs.  body[<<i, s>>] is what iteration i makes of    *)
(* the state s \in S; iterations count from 0.                              *)
EXTENDS Integers

Body(S) == [Nat \X S -> S]

\* The state after n iterations from x.  run[k] runs k iterations; the run is
\* halved to keep the recursion shallow.
Loop(S, body, n, x) ==
    LET run[k \in Nat] ==
          IF k = 0 THEN [p \in Nat \X S |-> p[2]]
          ELSE IF k = 1 THEN body
          ELSE [p \in Nat \X S |->
                  run[k - (k \div 2)][<<p[1] + (k \div 2), run[k \div 2][p]>>]]
    IN  run[n][<<0, x>>]
=============================================================================
