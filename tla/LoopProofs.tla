----------------------------- MODULE LoopProofs -----------------------------
(* What Loop computes, for every body.                                      *)
EXTENDS Loops, WellFoundedInduction, TLAPS

\* Induction over a set of numbers, which needs no operator as its parameter.
LEMMA Least ==
    ASSUME NEW C, C \subseteq Nat, C # {}
    PROVE  \E n \in C : \A k \in C : n <= k
<1>1. PICK n \in C : \A k \in C : ~(<<k, n>> \in OpToRel(<, Nat))
  BY WFMin, NatLessThanWellFounded
<1>2. \A k \in C : ~(k < n)
  BY <1>1 DEF OpToRel
<1> QED BY <1>2

LEMMA Induction ==
    ASSUME NEW T, 0 \in T, \A n \in Nat : n \in T => n + 1 \in T
    PROVE  \A n \in Nat : n \in T
<1> DEFINE C == {n \in Nat : n \notin T}
<1> SUFFICES ASSUME C # {} PROVE FALSE
  OBVIOUS
<1>1. PICK n \in C : \A k \in C : n <= k
  BY Least
<1>2. n # 0 /\ n - 1 \in Nat
  OBVIOUS
<1>3. n - 1 \in C
  BY <1>2
<1> QED BY <1>1, <1>2, <1>3

LEMMA StrongInduction ==
    ASSUME NEW T, \A n \in Nat : (\A k \in 0 .. n - 1 : k \in T) => n \in T
    PROVE  \A n \in Nat : n \in T
<1> DEFINE C == {n \in Nat : n \notin T}
<1> SUFFICES ASSUME C # {} PROVE FALSE
  OBVIOUS
<1>1. PICK n \in C : \A k \in C : n <= k
  BY Least
<1>2. \A k \in 0 .. n - 1 : k \in T
  BY <1>1
<1> QED BY <1>2

\* A step that depends on the number of steps so far can be repeated for ever.
Repeats(f, n, a, step) == /\ f[0] = a
                          /\ \A k \in 0 .. n - 1 : f[k + 1] = step[<<k, f[k]>>]

LEMMA Repetition ==
    ASSUME NEW S, NEW a \in S, NEW step \in Body(S)
    PROVE  \E f \in [Nat -> S] : /\ f[0] = a
                                 /\ \A k \in Nat : f[k + 1] = step[<<k, f[k]>>]
<1> USE DEF Body
<1> DEFINE Some(n) == \E f \in [0 .. n -> S] : Repeats(f, n, a, step)
<1>1. ASSUME NEW n \in Nat, NEW f, NEW h, Repeats(f, n, a, step), Repeats(h, n, a, step)
      PROVE  \A k \in 0 .. n : f[k] = h[k]
  <2> DEFINE T == {k \in Nat : k <= n => f[k] = h[k]}
  <2>1. 0 \in T
    BY <1>1 DEF Repeats
  <2>2. ASSUME NEW k \in Nat, k \in T PROVE k + 1 \in T
    <3>1. SUFFICES ASSUME k + 1 <= n PROVE f[k + 1] = h[k + 1]
      OBVIOUS
    <3>2. k \in 0 .. n - 1 /\ f[k] = h[k]
      BY <2>2, <3>1
    <3> QED BY <1>1, <3>2 DEF Repeats
  <2>3. \A k \in Nat : k \in T
    <3> HIDE DEF T
    <3> QED BY <2>1, <2>2, Induction
  <2> QED BY <2>3
<1>2. \A n \in Nat : Some(n)
  <2> DEFINE T == {n \in Nat : Some(n)}
  <2>1. 0 \in T
    <3>1. [k \in 0 .. 0 |-> a] \in [0 .. 0 -> S]
      OBVIOUS
    <3>2. Repeats([k \in 0 .. 0 |-> a], 0, a, step)
      BY DEF Repeats
    <3> QED BY <3>1, <3>2
  <2>2. ASSUME NEW n \in Nat, n \in T PROVE n + 1 \in T
    <3>1. PICK f \in [0 .. n -> S] : Repeats(f, n, a, step)
      BY <2>2
    <3> DEFINE h == [k \in 0 .. n + 1 |-> IF k <= n THEN f[k] ELSE step[<<n, f[n]>>]]
    <3>2. h \in [0 .. n + 1 -> S]
      OBVIOUS
    <3>3. h[0] = a
      BY <3>1 DEF Repeats
    <3>4. ASSUME NEW k \in 0 .. n PROVE h[k + 1] = step[<<k, h[k]>>]
      <4>1. CASE k < n
        <5>1. k \in 0 .. n - 1 /\ h[k] = f[k] /\ h[k + 1] = f[k + 1]
          BY <4>1
        <5> QED BY <3>1, <5>1 DEF Repeats
      <4>2. CASE k = n
        BY SMTT(60), <4>2
      <4> QED BY <4>1, <4>2
    <3>5. Repeats(h, n + 1, a, step)
      <4> HIDE DEF h
      <4> QED BY <3>3, <3>4 DEF Repeats
    <3> QED BY <3>2, <3>5
  <2>3. \A n \in Nat : n \in T
    <3> HIDE DEF T
    <3> QED BY <2>1, <2>2, Induction
  <2> QED BY <2>3
<1> DEFINE Of(n) == CHOOSE f \in [0 .. n -> S] : Repeats(f, n, a, step)
           all == [n \in Nat |-> Of(n)[n]]
<1>3. \A n \in Nat : Of(n) \in [0 .. n -> S] /\ Repeats(Of(n), n, a, step)
  BY <1>2
<1> HIDE DEF Of
<1>4. all \in [Nat -> S]
  BY <1>3
<1>5. all[0] = a
  BY <1>3 DEF Repeats
<1>6. ASSUME NEW n \in Nat PROVE all[n + 1] = step[<<n, all[n]>>]
  <2>1. Repeats(Of(n + 1), n + 1, a, step)
    BY <1>3
  <2>2. Repeats(Of(n + 1), n, a, step)
    BY <2>1 DEF Repeats
  <2>3. Of(n + 1)[n] = Of(n)[n]
    BY <1>1, <1>3, <2>2
  <2>4. Of(n + 1)[n + 1] = step[<<n, Of(n + 1)[n]>>]
    BY <2>1 DEF Repeats
  <2> QED BY <2>3, <2>4
<1> QED BY <1>4, <1>5, <1>6

\* The runs of a loop: f[k] takes an index and a state through k iterations.
AreRuns(f, S, body) ==
    /\ f \in [Nat -> [Nat \X S -> S]]
    /\ \A p \in Nat \X S : f[0][p] = p[2]
    /\ \A k \in Nat, p \in Nat \X S : f[k + 1][p] = body[<<p[1] + k, f[k][p]>>]

LEMMA Runs ==
    ASSUME NEW S, NEW body \in Body(S)
    PROVE  \E f : AreRuns(f, S, body)
<1> USE DEF Body
<1> DEFINE Run == [Nat \X S -> S]
           id == [p \in Nat \X S |-> p[2]]
           next(k, h) == [p \in Nat \X S |-> body[<<p[1] + k, h[p]>>]]
           more == [q \in Nat \X Run |-> next(q[1], q[2])]
<1>1. id \in Run
  OBVIOUS
<1>2. \A k \in Nat, h \in Run : next(k, h) \in Run
  <2> SUFFICES ASSUME NEW k \in Nat, NEW h \in Run, NEW p \in Nat \X S
               PROVE  body[<<p[1] + k, h[p]>>] \in S
    OBVIOUS
  <2>1. p[1] + k \in Nat /\ h[p] \in S
    OBVIOUS
  <2>2. <<p[1] + k, h[p]>> \in Nat \X S
    BY <2>1
  <2> QED BY <2>2
<1>3. /\ more \in [Nat \X Run -> Run]
      /\ \A k \in Nat, h \in Run : more[<<k, h>>] = next(k, h)
  <2> HIDE DEF next, Run
  <2> QED BY <1>2
<1>4. PICK f \in [Nat -> Run] : /\ f[0] = id
                               /\ \A k \in Nat : f[k + 1] = more[<<k, f[k]>>]
  <2>1. more \in Body(Run)
    BY <1>3
  <2> HIDE DEF Run, id, more, Body
  <2> QED BY <1>1, <2>1, Repetition
<1>5. \A k \in Nat : f[k + 1] = next(k, f[k])
  <2> HIDE DEF next, more, Run
  <2> QED BY <1>3, <1>4
<1>6. \A k \in Nat, p \in Nat \X S : f[k + 1][p] = body[<<p[1] + k, f[k][p]>>]
  BY ZenonT(60), <1>5
<1>7. \A p \in Nat \X S : f[0][p] = p[2]
  BY <1>4
<1>8. f \in [Nat -> [Nat \X S -> S]]
  OBVIOUS
<1> QED BY <1>6, <1>7, <1>8 DEF AreRuns

\* Two runs in a row are one.
LEMMA RunsAdd ==
    ASSUME NEW S, NEW body \in Body(S), NEW f, AreRuns(f, S, body), NEW a \in Nat
    PROVE  \A b \in Nat, p \in Nat \X S : f[a + b][p] = f[b][<<p[1] + a, f[a][p]>>]
<1> USE DEF Body, AreRuns
<1> DEFINE P == Nat \X S
<1>1. ASSUME NEW p \in P PROVE <<p[1] + a, f[a][p]>> \in P
  <2>1. p[1] + a \in Nat /\ f[a][p] \in S
    OBVIOUS
  <2> QED BY <2>1
<1> DEFINE T == {b \in Nat : \A p \in P : f[a + b][p] = f[b][<<p[1] + a, f[a][p]>>]}
<1>2. 0 \in T
  <2> SUFFICES ASSUME NEW p \in P PROVE f[a + 0][p] = f[0][<<p[1] + a, f[a][p]>>]
    OBVIOUS
  <2> QED BY <1>1
<1>3. ASSUME NEW b \in Nat, b \in T PROVE b + 1 \in T
  <2> SUFFICES ASSUME NEW p \in P
               PROVE  f[a + (b + 1)][p] = f[b + 1][<<p[1] + a, f[a][p]>>]
    OBVIOUS
  <2>1. f[(a + b) + 1][p] = body[<<p[1] + (a + b), f[a + b][p]>>]
    OBVIOUS
  <2>2. f[b + 1][<<p[1] + a, f[a][p]>>]
          = body[<<(p[1] + a) + b, f[b][<<p[1] + a, f[a][p]>>]>>]
    BY <1>1
  <2>3. f[a + b][p] = f[b][<<p[1] + a, f[a][p]>>]
    BY <1>3
  <2>4. (a + b) + 1 = a + (b + 1) /\ p[1] + (a + b) = (p[1] + a) + b
    OBVIOUS
  <2> QED BY <2>1, <2>2, <2>3, <2>4
<1>4. \A b \in Nat : b \in T
  <2> HIDE DEF T
  <2> QED BY <1>2, <1>3, Induction
<1> QED BY <1>4

\* The recursion of Loop, and its unfolding.
Half(f, k, S, body) ==
    IF k = 0 THEN [p \in Nat \X S |-> p[2]]
    ELSE IF k = 1 THEN body
    ELSE [p \in Nat \X S |-> f[k - (k \div 2)][<<p[1] + (k \div 2), f[k \div 2][p]>>]]

LEMMA Halves ==
    ASSUME NEW k \in Nat, k > 1
    PROVE  /\ k \div 2 \in 0 .. k - 1
           /\ k - (k \div 2) \in 0 .. k - 1
           /\ (k \div 2) + (k - (k \div 2)) = k
  OBVIOUS

LEMMA RunsAreHalved ==
    ASSUME NEW S, NEW body \in Body(S), NEW f, AreRuns(f, S, body), NEW k \in Nat
    PROVE  f[k] = Half(f, k, S, body)
<1>1. CASE k = 0
  <2>1. f[0] \in [Nat \X S -> S] /\ \A p \in Nat \X S : f[0][p] = p[2]
    BY DEF AreRuns
  <2> QED BY <1>1, <2>1 DEF Half
<1>2. CASE k = 1
  <2>1. \A p \in Nat \X S : f[0 + 1][p] = body[<<p[1] + 0, f[0][p]>>]
    BY DEF AreRuns
  <2>2. \A p \in Nat \X S : p = <<p[1], p[2]>> /\ p[1] + 0 = p[1] /\ f[0][p] = p[2]
    BY DEF AreRuns
  <2>3. \A p \in Nat \X S : f[1][p] = body[p]
    BY <2>1, <2>2
  <2>4. f[1] \in [Nat \X S -> S]
    BY DEF AreRuns
  <2>5. f[1] = body
    BY <2>3, <2>4 DEF Body
  <2> QED BY <1>2, <2>5 DEF Half
<1>3. CASE k > 1
  <2> DEFINE h == k \div 2
             m == k - (k \div 2)
  <2>1. h \in Nat /\ m \in Nat /\ h + m = k
    BY <1>3, Halves
  <2> HIDE DEF h, m
  <2>2. \A p \in Nat \X S : f[h + m][p] = f[m][<<p[1] + h, f[h][p]>>]
    BY <2>1, RunsAdd
  <2>3. f[k] \in [Nat \X S -> S]
    BY DEF AreRuns
  <2>4. f[k] = [p \in Nat \X S |-> f[m][<<p[1] + h, f[h][p]>>]]
    BY <2>1, <2>2, <2>3
  <2> QED BY <1>3, <2>4 DEF Half, h, m
<1> QED BY <1>1, <1>2, <1>3

\* Halving the run changes nothing: the loop's state follows the body, one
\* iteration at a time.
LEMMA LoopSteps ==
    ASSUME NEW S, NEW body \in Body(S), NEW x \in S
    PROVE  /\ Loop(S, body, 0, x) = x
           /\ \A n \in Nat : /\ Loop(S, body, n, x) \in S
                            /\ Loop(S, body, n + 1, x) = body[<<n, Loop(S, body, n, x)>>]
<1>1. PICK f : AreRuns(f, S, body)
  BY Runs
<1>2. \A k \in Nat : f[k] = Half(f, k, S, body)
  BY <1>1, RunsAreHalved
<1> DEFINE r == CHOOSE r : r = [k \in Nat |-> Half(r, k, S, body)]
<1>3. r = [k \in Nat |-> Half(r, k, S, body)]
  <2>1. f = [k \in Nat |-> Half(f, k, S, body)]
    BY <1>1, <1>2 DEF AreRuns
  <2> QED BY <2>1
<1>4. \A n \in Nat : Loop(S, body, n, x) = r[n][<<0, x>>]
  BY DEF Loop, Half
<1> HIDE DEF r
<1>5. \A k \in Nat : r[k] = f[k]
  <2> DEFINE T == {k \in Nat : r[k] = f[k]}
  <2>1. ASSUME NEW k \in Nat, \A i \in 0 .. k - 1 : i \in T PROVE k \in T
    <3>1. r[k] = Half(r, k, S, body)
      BY <1>3
    <3>2. Half(r, k, S, body) = Half(f, k, S, body)
      <4>1. CASE k > 1
        <5>1. r[k \div 2] = f[k \div 2] /\ r[k - (k \div 2)] = f[k - (k \div 2)]
          BY <2>1, <4>1, Halves
        <5> QED BY <4>1, <5>1 DEF Half
      <4>2. CASE k = 0 \/ k = 1
        BY <4>2 DEF Half
      <4> QED BY <4>1, <4>2
    <3> QED BY <1>2, <3>1, <3>2
  <2>2. \A k \in Nat : k \in T
    <3> HIDE DEF T
    <3> QED BY <2>1, StrongInduction
  <2> QED BY <2>2
<1>6. \A n \in Nat : Loop(S, body, n, x) = f[n][<<0, x>>]
  BY <1>4, <1>5
<1>7. <<0, x>> \in Nat \X S
  OBVIOUS
<1>8. Loop(S, body, 0, x) = x
  <2>1. f[0][<<0, x>>] = x
    BY <1>1, <1>7 DEF AreRuns
  <2> QED BY <1>6, <2>1
<1>9. ASSUME NEW n \in Nat
      PROVE  /\ Loop(S, body, n, x) \in S
             /\ Loop(S, body, n + 1, x) = body[<<n, Loop(S, body, n, x)>>]
  <2>1. f[n][<<0, x>>] \in S
    BY <1>1, <1>7 DEF AreRuns
  <2>2. f[n + 1][<<0, x>>] = body[<<0 + n, f[n][<<0, x>>]>>]
    BY <1>1, <1>7 DEF AreRuns
  <2>3. 0 + n = n /\ n + 1 \in Nat
    OBVIOUS
  <2>4. Loop(S, body, n, x) = f[n][<<0, x>>] /\ Loop(S, body, n + 1, x) = f[n + 1][<<0, x>>]
    BY <1>6, <2>3
  <2> QED BY ONLY <2>1, <2>2, <2>3, <2>4
<1> QED BY <1>8, <1>9
=============================================================================
